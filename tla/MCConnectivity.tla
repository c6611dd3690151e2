----------------------------- MODULE MCConnectivity -----------------------------
(***************************************************************************)
(* Networks the factories make of the trips of the small networks, and     *)
(* those without lines whose transfers are any small graph; with the       *)
(* invariant of the proofs about the search.                               *)
(***************************************************************************)
EXTENDS ConnectivityProofs

CONSTANT ChangeTime

Small == INSTANCE SmallNetworks

MCGraphs == { Allocate(0, 0) }

MCNetworks ==
    { Small!Network(ids, parent) : ids \in SUBSET {1, 2, 3, 5, 6, 7, 9}, parent \in Small!Parents }
    \cup Small!ArcNetworks

MCTimeTables == { known.timetable : known \in MCNetworks }

MCTileRequests ==
    { [horizontal |-> request[1], zoom |-> request[2]] :
        request \in { << 0, 2 >>, << 0, 3 >>, << 2, 3 >>, << 1, 2 >>, << 4, 2 >>, << 0, 1 >> } }
================================================================================
