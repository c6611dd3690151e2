------------------------------ MODULE LineTable ------------------------------
(***************************************************************************)
(* Time arithmetic (date::Time) and the timetable of one line              *)
(* (timetable::LineTable, DepartureTable, DurationTable, StopTable).       *)
(*                                                                         *)
(* A line is a record                                                      *)
(*   stops       the sequence of stops it serves (StopTable)               *)
(*   durations   a sequence of duration tables [prefix, delta]             *)
(*   time_deltas for every offset, the longest way from the first stop     *)
(*   departures  a sequence of [begin, end, headway, duration], sorted     *)
(* with offsets and table indices counted from 1.  A trip is what          *)
(* LineTable::get hands out: [stops, deltas, departure].                   *)
(* boost::optional is a set with at most one element.                      *)
(***************************************************************************)
EXTENDS Integers, Sequences

CONSTANT Width   \* the number of values of the unsigned word in date::Time

ASSUME WidthAssumption == Width \in Nat /\ Width > 1

-----------------------------------------------------------------------------
(* date::Time *)

Seconds == 0 .. Width - 1

Infinity == Width - 1

Plus(time, seconds) == (time + seconds) % Width

Minus(lhs, rhs) == (lhs - rhs) % Width

\* time - min(time, delta), the subtraction that stops at midnight
Before(time, delta) == IF delta <= time THEN time - delta ELSE 0

-----------------------------------------------------------------------------
(* StopTable, DepartureTable and DurationTable *)

\* std::find_if on the stops of the line
Offset(line, stop) ==
    CHOOSE i \in 1 .. Len(line.stops) :
        /\ line.stops[i] = stop
        /\ \A j \in 1 .. i - 1 : line.stops[j] # stop

PrefixTime(line, departure, offset) ==
    line.durations[departure.duration].prefix[offset]

\* the first service of a departure that leaves at starting_at or later
NextDeparture(departure, starting_at) ==
    IF starting_at <= departure.begin
    THEN departure.begin
    ELSE Plus(departure.begin,
              departure.headway * ((starting_at - departure.begin + departure.headway - 1)
                                      \div departure.headway))

\* std::lower_bound on the departures: everything from the first one that does
\* not end before starting_at
ListDepartures(line, starting_at) ==
    LET InTime(i) == line.departures[i].end >= Plus(starting_at, line.departures[i].headway)
    IN  { i \in DOMAIN line.departures : \E j \in 1 .. i : InTime(j) }

-----------------------------------------------------------------------------
(* LineTable::get *)

\* get_line_departure: when a vehicle has to leave the first stop to be at
\* offset by the desired time, and the first service at or after that time
LineDeparture(line, offset, desired, departure) ==
    LET line_depart_time == Before(desired, PrefixTime(line, departure, offset))
    IN  IF departure.end < line_depart_time
        THEN Infinity
        ELSE NextDeparture(departure, line_depart_time)

\* mutant of Get: lists the departures from the desired time on
GetWithoutLookback(line, stop, desired) ==
    LET offset == Offset(line, stop)
        listed == ListDepartures(line, desired)
        Leaves(i) == LineDeparture(line, offset, desired, line.departures[i])
        earliest == { i \in listed :
                        \A j \in listed : Leaves(i) < Leaves(j) \/ (Leaves(i) = Leaves(j) /\ i <= j) }
        served == { i \in earliest : Leaves(i) <= line.departures[i].end }
    IN  { [ stops     |-> SubSeq(line.stops, offset, Len(line.stops)),
            deltas    |-> SubSeq(line.durations[line.departures[i].duration].delta,
                                 offset, Len(line.stops)),
            departure |-> Plus(Leaves(i), PrefixTime(line, line.departures[i], offset)) ]
        : i \in served }

Get(line, stop, desired) ==
    LET offset == Offset(line, stop)
        listed == ListDepartures(line, Before(desired, line.time_deltas[offset]))
        Leaves(i) == LineDeparture(line, offset, desired, line.departures[i])
        earliest == { i \in listed :
                        \A j \in listed : Leaves(i) < Leaves(j) \/ (Leaves(i) = Leaves(j) /\ i <= j) }
        served == { i \in earliest : Leaves(i) <= line.departures[i].end }
    IN  { [ stops     |-> SubSeq(line.stops, offset, Len(line.stops)),
            deltas    |-> SubSeq(line.durations[line.departures[i].duration].delta,
                                 offset, Len(line.stops)),
            departure |-> Plus(Leaves(i), PrefixTime(line, line.departures[i], offset)) ]
        : i \in served }

-----------------------------------------------------------------------------
(* The walk along a trip: TimeTableDijkstra::relax_one reports a stop, then *)
(* adds the duration at the same position to its clock.                     *)

Clock(trip) ==
    LET clock[i \in 1 .. Len(trip.stops)] ==
            IF i = 1 THEN trip.departure ELSE Plus(clock[i - 1], trip.deltas[i - 1])
    IN  clock

Visits(trip) ==
    LET clock == Clock(trip)
    IN  [ i \in 1 .. Len(trip.stops) |-> [stop |-> trip.stops[i], time |-> clock[i]] ]
==============================================================================
