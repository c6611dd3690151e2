--------------------------- MODULE LineTableFactory ---------------------------
(***************************************************************************)
(* timetable::LineTableFactory with StopTableFactory and                   *)
(* DurationTableFactory: how the trips of one route become lines.          *)
(*                                                                         *)
(* A trip is a record [id, times] whose times are stop times               *)
(*   [stop, arrival, departure, interpolated]                              *)
(* in the order of their sequence ids.  A stop time read from an empty     *)
(* column is interpolated and has both times 0.                            *)
(***************************************************************************)
EXTENDS LineTable, Lists, SequencesExt

-----------------------------------------------------------------------------
(* interpolate_times: the arrivals between two known ones are spread        *)
(* evenly; the departure of an interpolated stop time is left at 0.         *)

InterpolateTimes(times) ==
    LET Known == { i \in DOMAIN times : ~ times[i].interpolated }
        Arrival(i) ==
            LET previous == Max({ k \in Known : k < i })
                next     == Min({ k \in Known : k > i })
                step     == Minus(times[next].arrival, times[previous].arrival)
                                \div (next - previous)
            IN  Plus(times[previous].arrival, (i - previous) * step)
    IN  [ i \in DOMAIN times |->
            IF i \in Known THEN times[i] ELSE [times[i] EXCEPT !.arrival = Arrival(i)] ]

\* A line serves a stop once: a trip is cut before every stop it already
\* served since the last cut.
Segments(times) ==
    LET Cut(segments, time) ==
            IF segments = << >> \/ \E i \in DOMAIN Last(segments) : Last(segments)[i].stop = time.stop
            THEN Append(segments, << time >>)
            ELSE Append(Front(segments), Append(Last(segments), time))
    IN  FoldLeft(Cut, << >>, times)

\* validate_input of both factories: anything else is an InvalidInputError
SortedByArrival(segment) ==
    \A i \in 1 .. Len(segment) - 1 : segment[i].arrival <= segment[i + 1].arrival

StopTable(segment) == [ i \in DOMAIN segment |-> segment[i].stop ]

\* DurationTableFactory::produce, the differences taken in unsigned words
DurationTable(segment) ==
    [ prefix |-> [ i \in DOMAIN segment |-> Minus(segment[i].arrival, segment[1].departure) ],
      delta  |-> [ i \in DOMAIN segment |->
                     Minus(segment[i].arrival,
                           IF i = 1 THEN segment[1].departure ELSE segment[i - 1].arrival) ] ]

\* whoever stays in the vehicle changes from one segment to the next
OnRouteTransfers(segments) ==
    [ i \in 1 .. Len(segments) - 1 |->
        LET last == Last(segments[i]) next == Head(segments[i + 1])
        IN  [ from |-> last.stop, to |-> next.stop, type |-> "ON_ROUTE",
              duration |-> Minus(next.arrival, last.arrival) ] ]

-----------------------------------------------------------------------------
(* output_inserter: a segment joins the line with its stops or founds one.  *)

NewLine(stops) ==
    [ stops |-> stops, durations |-> << >>, time_deltas |-> [ i \in DOMAIN stops |-> 0 ],
      departures |-> << >> ]

AddDeparture(line, segment) ==
    LET table == DurationTable(segment)
        index == IndexOf(line.durations, LAMBDA other : other.delta = table.delta)
    IN  [ stops |-> line.stops,
          durations |-> IF index > Len(line.durations)
                        THEN Append(line.durations, table)
                        ELSE line.durations,
          departures |-> Append(line.departures,
                                [ begin |-> segment[1].departure, end |-> segment[1].departure,
                                  headway |-> 0, duration |-> index ]),
          time_deltas |-> [ i \in DOMAIN line.time_deltas |->
                              Max({ line.time_deltas[i], table.delta[i] }) ] ]

\* the state of the factory: [lines, trip_offsets, transfers]
AddSegment(state, segment, trip_id) ==
    LET stops == StopTable(segment)
        index == IndexOf(state.lines, LAMBDA line : line.stops = stops)
        found == index <= Len(state.lines)
    IN  [ state EXCEPT
            !.lines = IF found
                      THEN [@ EXCEPT ![index] = AddDeparture(@, segment)]
                      ELSE Append(@, AddDeparture(NewLine(stops), segment)),
            !.trip_offsets = IF found THEN @ ELSE Append(@, trip_id) ]

\* every segment of a trip, and the transfers from one to the next
AddSegments(state, segments, trip_id) ==
    [ FoldLeft(LAMBDA partial, segment : AddSegment(partial, segment, trip_id), state, segments)
      EXCEPT !.transfers = @ \o OnRouteTransfers(segments) ]

AddTrip(state, trip) == AddSegments(state, Segments(InterpolateTimes(trip.times)), trip.id)

\* the departures in the order of their begin, the maximal deltas summed up
FinishLine(line) ==
    LET Sum(i) == FoldLeft(Plus, 0, SubSeq(line.time_deltas, 1, i))
    IN  [ line EXCEPT
            !.departures = StableSort(@, LAMBDA departure : departure.begin),
            !.time_deltas = [ i \in DOMAIN @ |-> Sum(i) ] ]

\* the lines of one route; transfers and trip_offsets belong to the caller
Produce(trips, transfers, trip_offsets) ==
    [ FoldLeft(AddTrip,
               [lines |-> << >>, trip_offsets |-> trip_offsets, transfers |-> transfers],
               trips)
      EXCEPT !.lines = [ i \in DOMAIN @ |-> FinishLine(@[i]) ] ]
==============================================================================
