-------------------------- MODULE MCTimeTableDijkstra --------------------------
(***************************************************************************)
(* TimeTableDijkstra on the small networks.                                *)
(***************************************************************************)
EXTENDS TimeTableDijkstra

CONSTANT ChangeTime

Networks == INSTANCE SmallNetworks

MCStops == Networks!NetworkStops
MCTimeTables == { network.timetable : network \in Networks!MovingNetworks(3) }
StandingTimeTables == Networks!StandingTimeTables
MCQueries == Networks!NetworkQueries
================================================================================
