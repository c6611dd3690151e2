------------------------------ MODULE GraphAdaptor ------------------------------
(***************************************************************************)
(* timetable::TimetableToGraphAdaptor::adapt: the graph of what leads from *)
(* stop to stop in a timetable.  A first pass over the stops counts the    *)
(* edges, a second one adds them to the graph allocated for that number.   *)
(***************************************************************************)
EXTENDS LineTable, Lists, ForwardStarGraph, SequencesExt

CONSTANT TimeTables   \* the timetables to adapt, their stops numbered from 0

VARIABLES
    timetable,
    pass,        \* "count", "build", "adapted" or "thrown"
    stop,        \* the next stop of the pass
    num_edges,   \* the edges counted
    building     \* the graph the factory works on

adaptor == << timetable, pass, stop, num_edges, building >>

NumStops == Cardinality(DOMAIN timetable.station)

AdaptorInit ==
    /\ timetable \in TimeTables
    /\ pass = "count"
    /\ stop = 0
    /\ num_edges = 0
    /\ building = Allocate(0, 0)

-----------------------------------------------------------------------------

StationOf(from) == timetable.station[from]

\* the lines that go on from a stop
Onward(from) ==
    LET ids == timetable.stop_to_line[from]
    IN  Selected(ids, { i \in DOMAIN ids : LET line == timetable.lines[ids[i]]
                                           IN  Offset(line, from) < Len(line.stops) })

\* mutant of CountDirect: the stop itself is counted as well
CountDirectWithSelf(from) ==
    (IF StationOf(from) # from THEN 1 ELSE 0) + Len(timetable.stops[StationOf(from)])

\* the stop itself is at its station and does not count
CountDirect(from) ==
    (IF StationOf(from) # from THEN 1 ELSE 0) + Len(timetable.stops[StationOf(from)]) - 1

CountStop ==
    /\ pass = "count"
    /\ stop < NumStops
    /\ num_edges' = num_edges + Len(timetable.transfers[stop]) + CountDirect(stop)
                              + Len(Onward(stop))
    /\ stop' = stop + 1
    /\ UNCHANGED << timetable, pass, building >>

AllocateGraph ==
    /\ pass = "count"
    /\ stop = NumStops
    /\ building' = Allocate(NumStops, num_edges)
    /\ stop' = 0
    /\ pass' = "build"
    /\ UNCHANGED << timetable, num_edges >>

TransferTargets(from) ==
    [ i \in DOMAIN timetable.transfers[from] |-> timetable.transfers[from][i].stop ]

StationTargets(from) ==
    LET all == << StationOf(from) >> \o timetable.stops[StationOf(from)]
    IN  Selected(all, { i \in DOMAIN all : all[i] # from })

\* mutant of NextStops: the stop of the line itself, not the one behind it
NextStopsHere(from) == [ i \in DOMAIN Onward(from) |-> from ]

NextStops(from) ==
    [ i \in DOMAIN Onward(from) |->
        LET line == timetable.lines[Onward(from)[i]] IN line.stops[Offset(line, from) + 1] ]

Targets(from) == TransferTargets(from) \o StationTargets(from) \o NextStops(from)

\* more edges than allocated are a SizeError
BuildStop ==
    /\ pass = "build"
    /\ stop < NumStops
    /\ IF Len(Targets(stop)) <= building.required_edges
       THEN building' = AddEdges(AddNode(building), Targets(stop)) /\ pass' = pass
       ELSE building' = building /\ pass' = "thrown"
    /\ stop' = stop + 1
    /\ UNCHANGED << timetable, num_edges >>

ReturnGraph ==
    /\ pass = "build"
    /\ stop = NumStops
    /\ pass' = "adapted"
    /\ UNCHANGED << timetable, stop, num_edges, building >>

Adapt == CountStop \/ AllocateGraph \/ BuildStop \/ ReturnGraph
================================================================================
