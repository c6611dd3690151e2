----------------------------- MODULE TimeTableRounds -----------------------------
(***************************************************************************)
(* navigation::algorithm::TimeTable, the router that works in rounds: a    *)
(* round relaxes every state the one before it has added, in the order of  *)
(* their arrivals.  It knows no walks within a station, a transfer takes a *)
(* least time in the labels and none in the states, and a stop that is     *)
(* ridden to is left again only by a transfer.                             *)
(*                                                                         *)
(* A step adds an origin, sorts a round, relaxes one state with all of its *)
(* lines, or takes one pass of the loop of extract_path.                   *)
(***************************************************************************)
EXTENDS LineTableFactory

CONSTANT LeastTransfer   \* the least a transfer takes in the labels, 60 in the code

VARIABLES
    timetable, query, \* the input, see TimeTableDijkstra
    phase,        \* "run", "extract" or "done"
    begins,       \* the origins to add
    states,       \* internal_state, every state [stop, arrival] ever added
    offset,       \* how many of them are behind
    count,        \* how many are left in the round
    labels,       \* earliest_arrival: [arrival, parent, departure, line] by stop
    bound,        \* upper_bound
    reached,      \* reached_destination
    rounds_path   \* the path extracted so far

rounds == << phase, begins, states, offset, count, labels, bound, reached, rounds_path >>

NoLegs == query.origins = << >> \/ query.destinations = << >>

RoundsInit ==
    /\ phase = IF NoLegs THEN "done" ELSE "run"
    /\ begins = IF NoLegs THEN << >> ELSE query.origins
    /\ states = << >>
    /\ offset = 0
    /\ count = 0
    /\ labels = [ stop \in {} |-> 0 ]
    /\ bound = Infinity
    /\ reached = IF NoLegs THEN {} ELSE { query.destinations[1].stop }
    /\ rounds_path = << >>

-----------------------------------------------------------------------------
(* add_origin and add_if_improved; progress is a record [labels, states]    *)

Improved(table, stop, time) == stop \notin DOMAIN table \/ time < table[stop].arrival

Label(table, stop, label) ==
    [ other \in DOMAIN table \cup {stop} |-> IF other = stop THEN label ELSE table[other] ]

AddStart(progress, start, time) ==
    IF Improved(progress.labels, start, time)
    THEN [ labels |-> Label(progress.labels, start,
                            [arrival |-> time, parent |-> start, departure |-> time, line |-> 0]),
           states |-> Append(progress.states, [stop |-> start, arrival |-> time]) ]
    ELSE progress

AddOrigin ==
    /\ phase = "run"
    /\ begins # << >>
    /\ LET origin == Head(begins)
           added  == FoldLeft(LAMBDA progress, start :
                                  AddStart(progress, start, Plus(query.departure, origin.seconds)),
                              [labels |-> labels, states |-> states],
                              timetable.stops[timetable.station[origin.stop]])
       IN  labels' = added.labels /\ states' = added.states
    /\ begins' = Tail(begins)
    /\ UNCHANGED << phase, offset, count, bound, reached, rounds_path >>

-----------------------------------------------------------------------------
(* relax                                                                    *)

Greater(x, y) == IF x <= y THEN y ELSE x

\* mutant of Transfer: the smaller one of the two times is taken
TransferCutShort(progress, stop, time, transfer) ==
    LET Smaller(x, y) == IF x <= y THEN x ELSE y
        arrival == Plus(time, Smaller(transfer.duration, LeastTransfer))
        better  == Improved(progress.labels, transfer.stop, arrival)
    IN  [ labels |-> IF better
                     THEN Label(progress.labels, transfer.stop,
                                [arrival |-> arrival, parent |-> stop, departure |-> time, line |-> 0])
                     ELSE progress.labels,
          states |-> IF better \/ transfer.stop = stop
                     THEN Append(progress.states, [ stop |-> transfer.stop,
                                                    arrival |-> Plus(time, transfer.duration) ])
                     ELSE progress.states ]

\* a transfer to the stop itself never improves it and is a state all the same
Transfer(progress, stop, time, transfer) ==
    LET arrival == Plus(time, Greater(transfer.duration, LeastTransfer))
        better  == Improved(progress.labels, transfer.stop, arrival)
    IN  [ labels |-> IF better
                     THEN Label(progress.labels, transfer.stop,
                                [arrival |-> arrival, parent |-> stop, departure |-> time, line |-> 0])
                     ELSE progress.labels,
          states |-> IF better \/ transfer.stop = stop
                     THEN Append(progress.states, [ stop |-> transfer.stop,
                                                    arrival |-> Plus(time, transfer.duration) ])
                     ELSE progress.states ]

Ride(progress, visit, boarded, line, departure) ==
    IF Improved(progress.labels, visit.stop, visit.time)
    THEN FoldLeft(LAMBDA partial, transfer : Transfer(partial, visit.stop, visit.time, transfer),
                  [progress EXCEPT !.labels =
                      Label(@, visit.stop, [ arrival |-> visit.time, parent |-> boarded,
                                             departure |-> departure, line |-> line ])],
                  timetable.transfers[visit.stop])
    ELSE progress

RelaxLine(progress, state, line) ==
    FoldLeft(LAMBDA before, trip :
                 FoldLeft(LAMBDA partial, visit :
                              Ride(partial, visit, state.stop, line, trip.departure),
                          before, Visits(trip)),
             progress,
             SetToSeq(Get(timetable.lines[line], state.stop, state.arrival)))

\* sorted, all states of the round that are left are out of bound
OutOfBound == count > 0 /\ bound <= states[offset + 1].arrival

RelaxState ==
    /\ phase = "run"
    /\ count > 0
    /\ ~ OutOfBound
    /\ LET state   == states[offset + 1]
           relaxed == FoldLeft(LAMBDA progress, line : RelaxLine(progress, state, line),
                               [labels |-> labels, states |-> states],
                               timetable.stop_to_line[state.stop])
       IN  labels' = relaxed.labels /\ states' = relaxed.states
    /\ offset' = offset + 1
    /\ count' = count - 1
    /\ UNCHANGED << phase, begins, bound, reached, rounds_path >>

BreakRound ==
    /\ phase = "run"
    /\ OutOfBound
    /\ offset' = offset + count
    /\ count' = 0
    /\ UNCHANGED << phase, begins, states, labels, bound, reached, rounds_path >>

-----------------------------------------------------------------------------
(* The loop over the rounds                                                 *)

\* check_and_improve_upper_bound between two stops, in the order of their station
Bounded ==
    FoldLeft(LAMBDA known, stop :
                 IF stop \in DOMAIN labels /\ labels[stop].arrival < known.bound
                 THEN [bound |-> labels[stop].arrival, reached |-> {stop}]
                 ELSE known,
             [bound |-> bound, reached |-> reached],
             timetable.stops[timetable.station[query.destinations[1].stop]])

\* std::unique by < on the sorted stations: only the first one stays, with all its legs
DestinationStations ==
    LET stations == { << timetable.station[query.destinations[i].stop],
                         query.destinations[i].seconds >> : i \in DOMAIN query.destinations }
    IN  { entry \in stations : \A other \in stations : entry[1] <= other[1] }

\* and between coordinates, where the bound stays what it was
ReachedStation ==
    { entry[1] : entry \in
        { s \in DestinationStations :
            s[1] \in DOMAIN labels /\ Plus(labels[s[1]].arrival, s[2]) < bound } }

CheckBound ==
    IF query.kind = "stops"
    THEN bound' = Bounded.bound /\ reached' = Bounded.reached
    ELSE /\ bound' = bound
         /\ reached' = IF ReachedStation = {} THEN reached ELSE ReachedStation

RoundOver == phase = "run" /\ begins = << >> /\ count = 0

StartRound ==
    /\ RoundOver
    /\ offset < Len(states)
    /\ states' = SubSeq(states, 1, offset)
                 \o StableSort(SubSeq(states, offset + 1, Len(states)),
                               LAMBDA state : state.arrival)
    /\ count' = Len(states) - offset
    /\ CheckBound
    /\ UNCHANGED << phase, begins, offset, labels, rounds_path >>

Entry(stop) ==
    [ stop |-> stop, line |-> labels[stop].line, arrival |-> labels[stop].arrival,
      departure |-> labels[stop].departure ]

\* only between two stops the bound is checked once more
Finish ==
    /\ RoundOver
    /\ offset = Len(states)
    /\ IF query.kind = "stops" THEN CheckBound ELSE UNCHANGED << bound, reached >>
    /\ IF reached' \subseteq DOMAIN labels
       THEN phase' = "extract" /\ \E stop \in reached' : rounds_path' = << Entry(stop) >>
       ELSE phase' = "done" /\ rounds_path' = rounds_path
    /\ UNCHANGED << begins, states, offset, count, labels >>

ExtractPath ==
    /\ phase = "extract"
    /\ \E parent \in { labels[Head(rounds_path).stop].parent } :
          /\ rounds_path' = << Entry(parent) >> \o rounds_path
          /\ phase' = IF labels[parent].parent = parent THEN "done" ELSE "extract"
    /\ UNCHANGED << begins, states, offset, count, labels, bound, reached >>

Round == AddOrigin \/ StartRound \/ RelaxState \/ BreakRound \/ Finish \/ ExtractPath
==================================================================================
