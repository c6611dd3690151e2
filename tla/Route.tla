---------------------------------- MODULE Route ----------------------------------
(***************************************************************************)
(* navigation::RoutingAlgorithm::make_route: how the path a router has     *)
(* extracted becomes the route that is handed out, and the accessors of    *)
(* navigation::Route, Leg, Segment and Connection.                         *)
(*                                                                         *)
(* A path is a sequence of entries [stop, line, arrival, departure], where *)
(* departure is when the vehicle or the walk to the stop left its parent.  *)
(* A route has one leg, a sequence of segments.  A transit is              *)
(*   [type, stops, line, departure, arrival]                               *)
(* with stops [id, arrival, departure]; its one connection has the line    *)
(* and the times.  A transfer is [type, origin, destination, departure,    *)
(* arrival].  Segments on foot are never made.                             *)
(***************************************************************************)
EXTENDS LineTable, SequencesExt

OnFoot == 0   \* WALKING_TRANSFER as the line of an entry

-----------------------------------------------------------------------------
(* What is done to the path                                                 *)

\* mutant of UpdateDeparturesAndArrivals: every entry keeps its own departure
KeepDepartures(path) ==
    [ i \in DOMAIN path |->
        [path[i] EXCEPT !.departure = IF i < Len(path) THEN path[i].departure ELSE path[i].arrival] ]

\* the departure of an entry moves to its parent, and nothing departs from the last stop
UpdateDeparturesAndArrivals(path) ==
    [ i \in DOMAIN path |->
        [path[i] EXCEPT !.departure = IF i < Len(path) THEN path[i + 1].departure
                                                       ELSE path[i].arrival] ]

\* the first stop is reached on foot, and taken for one of the line it is left with
SetFirstLine(path) == IF Len(path) > 1 THEN [path EXCEPT ![1].line = path[2].line] ELSE path

\* StopTable::list(stop)
StopsFrom(line, stop) ==
    IF stop \in { line.stops[i] : i \in DOMAIN line.stops }
    THEN SubSeq(line.stops, Offset(line, stop), Len(line.stops))
    ELSE << >>

\* mutant of PassedStops: it begins with the stop boarded at
PassedStopsAndFirst(line, from, to) ==
    LET rest  == StopsFrom(line, from)
        until == { i \in DOMAIN rest : rest[i] = to }
    IN  IF until = {} THEN rest ELSE SubSeq(rest, 1, (CHOOSE i \in until : TRUE) - 1)

\* the stops a vehicle passes in between; all the others if it never comes to the last one
PassedStops(line, from, to) ==
    LET ahead == StopsFrom(line, from)
        rest  == IF ahead = << >> THEN << >> ELSE Tail(ahead)
        until == { i \in DOMAIN rest : rest[i] = to }
    IN  IF until = {} THEN rest ELSE SubSeq(rest, 1, (CHOOSE i \in until : TRUE) - 1)

\* what is between two entries: the stops passed, with the times of the departure
PassedEntries(line_tables, from, to) ==
    LET passed == IF to.line = OnFoot THEN << >>
                  ELSE PassedStops(line_tables[to.line], from.stop, to.stop)
    IN  [ i \in DOMAIN passed |-> [ stop |-> passed[i], line |-> to.line,
                                    arrival |-> from.departure, departure |-> from.departure ] ]

AddIntermediateStops(line_tables, path, unpacked, i) ==
    Append(unpacked, path[i]) \o PassedEntries(line_tables, path[i], path[i + 1])

UnpackPath(line_tables, path) ==
    Append(FoldLeft(LAMBDA unpacked, i : AddIntermediateStops(line_tables, path, unpacked, i),
                    << >>, [ i \in 1 .. Len(path) - 1 |-> i ]),
           path[Len(path)])

-----------------------------------------------------------------------------
(* make_route                                                               *)

StopOf(entry) == [id |-> entry.stop, arrival |-> entry.arrival, departure |-> entry.departure]

\* what is under construction: the finished segments and the transit worked on
Transit(state) ==
    [ type |-> "transit", stops |-> state.stops, line |-> state.line,
      departure |-> state.departure, arrival |-> state.arrival ]

\* at the end of a walk one waits for the next vehicle
TransferAt(entry) ==
    [ type |-> "transfer", origin |-> entry.stop, destination |-> entry.stop,
      departure |-> entry.arrival, arrival |-> entry.departure ]

\* the line changes: the transit is closed and the next one begins where the last entry
\* was, unless one walked from there
ChangeLine(path, state, i) ==
    LET waits == path[i].line = OnFoot /\ i < Len(path)
    IN  [ segments  |-> state.segments \o << Transit(state) >>
                        \o (IF waits THEN << TransferAt(path[i]) >> ELSE << >>),
          line      |-> IF waits THEN path[i + 1].line ELSE path[i].line,
          departure |-> path[i - 1].departure,
          arrival   |-> path[i].arrival,
          stops     |-> IF path[i].line = OnFoot THEN << >>
                        ELSE << StopOf([path[i - 1] EXCEPT !.arrival = path[i - 1].departure]) >> ]

AddEntry(path, state, i) ==
    LET at == IF path[i].line = state.line THEN state ELSE ChangeLine(path, state, i)
    IN  [at EXCEPT !.stops = Append(@, StopOf(path[i])), !.arrival = path[i].arrival]

MakeRoute(line_tables, extracted) ==
    LET path  == UnpackPath(line_tables, SetFirstLine(UpdateDeparturesAndArrivals(extracted)))
        first == [ segments |-> << >>, stops |-> << >>, line |-> path[1].line,
                   departure |-> path[1].departure, arrival |-> path[1].arrival ]
        last  == FoldLeft(LAMBDA state, i : AddEntry(path, state, i), first,
                          [ i \in DOMAIN path |-> i ])
    IN  [segments |-> Append(last.segments, Transit(last))]

-----------------------------------------------------------------------------
(* The accessors                                                            *)

IsTransit(segment) == segment.type = "transit"

\* Segment::departure: the visitor is handed over by value and what it found is dropped
SegmentDeparture(segment) == 0

\* Segment::arrival takes the visitor back
SegmentArrival(segment) == segment.arrival

Duration(departure, arrival) == Minus(arrival, departure)

\* of the only leg, and of the route
LegDeparture(route) == SegmentDeparture(route.segments[1])
LegArrival(route)   == SegmentArrival(route.segments[Len(route.segments)])
LegDuration(route)  == Duration(LegDeparture(route), LegArrival(route))
================================================================================
