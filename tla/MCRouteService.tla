----------------------------- MODULE MCRouteService -----------------------------
(***************************************************************************)
(* The routers and the answers on the small networks whose vehicles all    *)
(* move, with the invariant of the proofs.                                 *)
(***************************************************************************)
EXTENDS RouteJourneyProofs

CONSTANT ChangeTime

Small == INSTANCE SmallNetworks

MCStops == Small!NetworkStops
MCNetworks == Small!MovingNetworks(3)
MCTimeTables == { network.timetable : network \in MCNetworks }
MCQueries ==
    Small!NetworkQueries
    \cup { ServiceQuery(CoordinateToStop(Small!StopRows), request) : request \in Small!NetworkRequests }
================================================================================
