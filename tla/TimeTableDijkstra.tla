-------------------------- MODULE TimeTableDijkstra --------------------------
(***************************************************************************)
(* navigation::algorithm::TimeTableDijkstra, the router the service uses.  *)
(* One behaviour answers one query on one timetable; a step is one pass of *)
(* one of the nested loops of the code, so that the label of a stop can be *)
(* seen between any two calls of `reach`.                                  *)
(*                                                                         *)
(* The loops are kept as work lists: origins and starts (add_stops), lines *)
(* (the lines of the settled stop), visits (the stops ahead on the trip)   *)
(* and walks (what can be walked to from the stop just improved).  The     *)
(* innermost list that is not empty is worked on first.                    *)
(***************************************************************************)
EXTENDS LineTable, KAryHeap, FiniteSets, Functions

CONSTANTS
    Stops,       \* stop ids
    TimeTables,  \* the timetables to route on
    Queries,     \* the queries to answer
    StationWalk  \* the change between two stops of a station, 120 in the code

\* LineIDs count from 1 here; the code's WALKING_TRANSFER is its largest LineID
WALKING_TRANSFER == 0

Visit    == [stop : Stops, time : Seconds]
Transfer == [stop : Stops, duration : Seconds]
ADLeg    == [stop : Stops, seconds : Seconds]
Start    == [stop : Stops, time : Seconds]
Walk     == [stop : Stops, time : Seconds, parent : Stops, departure : Seconds]
MetaData == [parent : Stops, line : Nat, departure : Seconds]
PathEntry == [stop : Stops, line : Nat, arrival : Seconds, departure : Seconds]

(***************************************************************************)
(* A timetable: the line tables, the station of a stop, the stops of a     *)
(* station, the transfers from a stop and the lines through a stop         *)
(* (search::StopToLine).                                                   *)
(***************************************************************************)
IsTimeTable(table) ==
    /\ table.station \in [Stops -> Stops]
    /\ table.stops \in [Stops -> Seq(Stops)]
    /\ table.transfers \in [Stops -> Seq(Transfer)]
    /\ DOMAIN table.lines \subseteq Nat \ {WALKING_TRANSFER}
    /\ table.stop_to_line \in [Stops -> Seq(DOMAIN table.lines)]
    /\ \A stop \in Stops, desired \in Seconds :
         \A i \in DOMAIN table.stop_to_line[stop] :
           \A trip \in Get(table.lines[table.stop_to_line[stop][i]], stop, desired) :
               trip.departure \in Seconds /\ Visits(trip) \in Seq(Visit)

\* a query between two stops is the same search from one leg to one leg
IsQuery(request) ==
    /\ request.kind \in {"legs", "stops"}
    /\ request.departure \in Seconds
    /\ request.origins \in Seq(ADLeg)
    /\ request.destinations \in Seq(ADLeg)
    /\ request.kind = "stops" => /\ Len(request.origins) = 1
                                 /\ Len(request.destinations) = 1
                                 /\ request.origins[1].seconds = 0

ASSUME InputAssumption ==
    /\ Stops \subseteq Nat
    /\ StationWalk \in Seconds
    /\ \A table \in TimeTables : IsTimeTable(table)
    /\ \A request \in Queries : IsQuery(request)

VARIABLES
    timetable, query,   \* the input
    pc,                 \* "run", "extract", "done" or "crashed"
    heap,               \* the FourHeap
    best,               \* the best arrival at a destination so far
    destination,        \* the destination it belongs to (reached_destination)
    origins, starts,    \* work lists of add_stops
    at,                 \* the stop settled last, with its arrival
    lines,              \* work list: the lines of at.stop still to traverse
    ride,               \* the trip on it: where it was boarded, its line, its departure
    visits,             \* work list: the stops ahead on the trip
    walks,              \* work list: where to walk from the stop just improved
    path                \* the path extracted so far

vars == << timetable, query, pc, heap, best, destination, origins, starts, at,
           lines, ride, visits, walks, path >>

search == << heap, best, destination, origins, starts, at, lines, ride, visits, walks >>

-----------------------------------------------------------------------------

NoLegs == query.origins = << >> \/ query.destinations = << >>

Init ==
    /\ timetable \in TimeTables
    /\ query \in Queries
    /\ pc = IF NoLegs THEN "done" ELSE "run"
    /\ heap = Empty
    /\ best = Infinity
    /\ destination = IF NoLegs THEN {} ELSE { query.destinations[1].stop }
    /\ origins = IF NoLegs THEN << >> ELSE query.origins
    /\ starts = << >>
    /\ at = [stop |-> {}, time |-> 0]
    /\ lines = << >>
    /\ ride = [parent |-> {}, line |-> WALKING_TRANSFER, departure |-> query.departure]
    /\ visits = << >>
    /\ walks = << >>
    /\ path = << >>

-----------------------------------------------------------------------------
(* The reach lambda. The handle of a settled stop is a null handle: passing *)
(* it to the priority queue dereferences a null pointer.                    *)

\* mutant of Lowers: an equal arrival is taken for an improvement
LowersOrTies(stop, time) == Reached(heap, stop) /\ time <= Key(heap, stop)

Lowers(stop, time) == Reached(heap, stop) /\ time < Key(heap, stop)

Improves(stop, time) == ~ Reached(heap, stop) \/ Lowers(stop, time)

Reach(stop, time, via) ==
    /\ heap' = IF ~ Reached(heap, stop)
               THEN Insert(heap, stop, time, via)
               ELSE IF Lowers(stop, time) /\ Queued(heap, stop)
                    THEN DecreaseKey(heap, stop, time, via)
                    ELSE heap
    /\ pc' = IF Lowers(stop, time) /\ ~ Queued(heap, stop) THEN "crashed" ELSE pc

\* what is left of the loops around the current step
NoStarts == starts = << >> /\ origins = << >>
NoVisits == visits = << >> /\ walks = << >>

-----------------------------------------------------------------------------
(* add_stops: every stop of the station of an origin is a start            *)

AddOrigin ==
    /\ pc = "run"
    /\ starts = << >>
    /\ origins # << >>
    /\ LET origin  == Head(origins)
           station == timetable.stops[timetable.station[origin.stop]]
       IN  starts' = [ i \in 1 .. Len(station) |->
                         [stop |-> station[i], time |-> Plus(query.departure, origin.seconds)] ]
    /\ origins' = Tail(origins)
    /\ UNCHANGED << timetable, query, pc, heap, best, destination, at, lines, ride, visits,
                    walks, path >>

AddStart ==
    /\ pc = "run"
    /\ starts # << >>
    /\ LET start == Head(starts)
       IN  Reach(start.stop, start.time,
                 [parent |-> start.stop, line |-> WALKING_TRANSFER, departure |-> query.departure])
    /\ starts' = Tail(starts)
    /\ UNCHANGED << timetable, query, best, destination, origins, at, lines, ride, visits,
                    walks, path >>

-----------------------------------------------------------------------------
(* The main loop                                                            *)

\* std::find_if on the destinations
DestinationLegs(stop) ==
    { query.destinations[i] :
        i \in { k \in DOMAIN query.destinations :
                  /\ query.destinations[k].stop = stop
                  /\ \A j \in 1 .. k - 1 : query.destinations[j].stop # stop } }

CheckAndUpdateBest(stop, arrival) ==
    LET better == { leg \in DestinationLegs(stop) : Plus(arrival, leg.seconds) < best }
    IN  /\ best' \in IF better = {} THEN {best} ELSE { Plus(arrival, leg.seconds) : leg \in better }
        /\ destination' = IF better = {} THEN destination ELSE {stop}

\* the query between two stops remembers the last stop it saw at the station
UpdateReachedDestination(stop) ==
    /\ best' = best
    /\ destination' = IF timetable.station[stop] = timetable.station[query.destinations[1].stop]
                      THEN {stop}
                      ELSE destination

Inspect(stop) ==
    IF query.kind = "legs"
    THEN CheckAndUpdateBest(stop, Key(heap, stop))
    ELSE UpdateReachedDestination(stop)

Entry(stop, label) ==
    [ stop |-> stop, line |-> label.data.line, arrival |-> label.key,
      departure |-> label.data.departure ]

\* reached(destination) decides between a route and none; the query between two
\* stops asks for the stop it was given and extracts the path of another one
Finish(target) ==
    LET asked == IF query.kind = "legs" THEN target ELSE { query.destinations[1].stop }
    IN  IF \A stop \in asked : Reached(heap, stop)
        THEN /\ pc' = "extract"
             /\ \E stop \in target : path' = << Entry(stop, heap.label[stop]) >>
        ELSE /\ pc' = "done"
             /\ path' = << >>

AtLoopHead == pc = "run" /\ NoStarts /\ lines = << >> /\ NoVisits

\* relax_one up to its loop over the lines of the stop
Settle ==
    /\ AtLoopHead
    /\ \E stop \in Minimum(heap) :
          /\ Inspect(stop)
          /\ ~ (best' < Key(heap, stop))
          /\ at' = [stop |-> {stop}, time |-> Key(heap, stop)]
          /\ lines' = timetable.stop_to_line[stop]
          /\ heap' = DeleteMin(heap, stop)
    /\ UNCHANGED << timetable, query, pc, origins, starts, ride, visits, walks, path >>

\* no arrival still in the heap can beat the best one
BreakEarly ==
    /\ AtLoopHead
    /\ \E stop \in Minimum(heap) :
          /\ Inspect(stop)
          /\ best' < Key(heap, stop)
    /\ Finish(destination')
    /\ UNCHANGED << timetable, query, heap, origins, starts, at, lines, ride, visits, walks >>

HeapEmpty ==
    /\ AtLoopHead
    /\ heap.queued = {}
    /\ Finish(destination)
    /\ UNCHANGED << timetable, query, heap, best, destination, origins, starts, at, lines, ride,
                    visits, walks >>

-----------------------------------------------------------------------------
(* traverse_line and run_trip                                               *)

\* mutant of TraverseLine: asks for a ride at the time of the query
TraverseLineFromQuery ==
    /\ pc = "run"
    /\ NoVisits
    /\ lines # << >>
    /\ \E stop \in at.stop :
         LET trips == Get(timetable.lines[Head(lines)], stop, query.departure)
         IN  \/ /\ trips = {}
                /\ UNCHANGED << ride, visits >>
             \/ \E trip \in trips :
                  /\ visits' = Visits(trip)
                  /\ ride' = [parent |-> {stop}, line |-> Head(lines), departure |-> trip.departure]
    /\ lines' = Tail(lines)
    /\ UNCHANGED << timetable, query, pc, heap, best, destination, origins, starts, at, walks,
                    path >>

TraverseLine ==
    /\ pc = "run"
    /\ NoVisits
    /\ lines # << >>
    /\ \E stop \in at.stop :
         LET trips == Get(timetable.lines[Head(lines)], stop, at.time)
         IN  \/ /\ trips = {}
                /\ UNCHANGED << ride, visits >>
             \/ \E trip \in trips :
                  /\ visits' = Visits(trip)
                  /\ ride' = [parent |-> {stop}, line |-> Head(lines), departure |-> trip.departure]
    /\ lines' = Tail(lines)
    /\ UNCHANGED << timetable, query, pc, heap, best, destination, origins, starts, at, walks,
                    path >>

WalkBetween(stop, time, to, duration) ==
    [stop |-> to, time |-> Plus(time, duration), parent |-> stop, departure |-> time]

TransferWalks(stop, time) ==
    [ i \in 1 .. Len(timetable.transfers[stop]) |->
        WalkBetween(stop, time, timetable.transfers[stop][i].stop,
                    timetable.transfers[stop][i].duration) ]

\* the walk to the stop itself, which the code skips, never improves a label
StationWalks(stop, time) ==
    LET station == timetable.stops[timetable.station[stop]]
    IN  [ i \in 1 .. Len(station) |->
            WalkBetween(stop, time, station[i], IF station[i] = stop THEN 0 ELSE StationWalk) ]

Walks(stop, time) == TransferWalks(stop, time) \o StationWalks(stop, time)

RideTo ==
    /\ pc = "run"
    /\ walks = << >>
    /\ visits # << >>
    /\ LET visit == Head(visits)
       IN  /\ \E boarded \in ride.parent :
                 Reach(visit.stop, visit.time,
                       [parent |-> boarded, line |-> ride.line, departure |-> ride.departure])
           /\ walks' = IF Improves(visit.stop, visit.time)
                       THEN Walks(visit.stop, visit.time)
                       ELSE << >>
    /\ visits' = Tail(visits)
    /\ UNCHANGED << timetable, query, best, destination, origins, starts, at, lines, ride, path >>

\* mutant of WalkTo: leaves the stop on the vehicle when the one it was boarded at was reached
WalkToFromBoarding ==
    /\ pc = "run"
    /\ walks # << >>
    /\ LET walk == Head(walks)
       IN  Reach(walk.stop, walk.time,
                 [parent |-> walk.parent, line |-> WALKING_TRANSFER, departure |-> at.time])
    /\ walks' = Tail(walks)
    /\ UNCHANGED << timetable, query, best, destination, origins, starts, at, lines, ride, visits,
                    path >>

WalkTo ==
    /\ pc = "run"
    /\ walks # << >>
    /\ LET walk == Head(walks)
       IN  Reach(walk.stop, walk.time,
                 [parent |-> walk.parent, line |-> WALKING_TRANSFER, departure |-> walk.departure])
    /\ walks' = Tail(walks)
    /\ UNCHANGED << timetable, query, best, destination, origins, starts, at, lines, ride, visits,
                    path >>

-----------------------------------------------------------------------------
(* extract_path, one pass of its do-while loop a step                       *)

Parent(stop) == heap.label[stop].data.parent

\* mutant of ExtractPath: the path is not reversed
ExtractPathBackwards ==
    /\ pc = "extract"
    /\ LET parent == Parent(path[Len(path)].stop)
       IN  /\ path' = Append(path, Entry(parent, heap.label[parent]))
           /\ pc' = IF Parent(parent) = parent THEN "done" ELSE "extract"
    /\ UNCHANGED << timetable, query, search >>

ExtractPath ==
    /\ pc = "extract"
    /\ LET parent == Parent(Head(path).stop)
       IN  /\ path' = << Entry(parent, heap.label[parent]) >> \o path
           /\ pc' = IF Parent(parent) = parent THEN "done" ELSE "extract"
    /\ UNCHANGED << timetable, query, search >>

\* the answer has been handed over
Returned == pc \in {"done", "crashed"} /\ UNCHANGED vars

Next ==
    \/ AddOrigin \/ AddStart
    \/ Settle \/ BreakEarly \/ HeapEmpty
    \/ TraverseLine \/ RideTo \/ WalkTo
    \/ ExtractPath
    \/ Returned

Spec == Init /\ [][Next]_vars

-----------------------------------------------------------------------------
(* Properties                                                               *)

ReachedStops == DOMAIN heap.label
Settled == ReachedStops \ heap.queued

AtMostOne(S) == \A x, y \in S : x = y

\* Type correctness.
HeapOK ==
    /\ heap.queued \subseteq ReachedStops
    /\ ReachedStops \subseteq Stops
    /\ heap.label \in [ReachedStops -> [key : Seconds, data : MetaData]]

TypeOK ==
    /\ pc \in {"run", "extract", "done", "crashed"}
    /\ HeapOK
    /\ best \in Seconds
    /\ destination \subseteq Stops /\ AtMostOne(destination)
    /\ origins \in Seq(ADLeg)
    /\ starts \in Seq(Start)
    /\ at.stop \subseteq Stops /\ AtMostOne(at.stop) /\ at.time \in Seconds
    /\ lines \in Seq(DOMAIN timetable.lines)
    /\ ride.parent \subseteq Stops /\ AtMostOne(ride.parent)
    /\ ride.line \in Nat /\ ride.departure \in Seconds
    /\ visits \in Seq(Visit)
    /\ walks \in Seq(Walk)
    /\ path \in Seq(PathEntry)

\* reach() never passes the null handle of a settled stop to the priority queue:
\* decrease_key is only ever called for a stop that is still queued.
HandlesLive == pc # "crashed"

\* Dijkstra's order: whatever has been settled was reached no later than anything
\* still in the heap, in spite of labels that go down while a trip is run.
SettledInOrder ==
    \A stop \in Settled, other \in heap.queued : Key(heap, stop) <= Key(heap, other)

\* The label of a settled stop is final; make_route relies on it when it reads
\* the departure out of the labels after the search.
SettledIsFinal == [][\A stop \in Settled : heap'.label[stop] = heap.label[stop]]_vars

(***************************************************************************)
(* Every label is the end of a journey that exists: a start of the query,  *)
(* a ride on a trip the line offers at the arrival at the parent, or a     *)
(* walk from a stop that had been reached by then.                         *)
(***************************************************************************)
StartedAt(stop, label) ==
    /\ label.data.parent = stop
    /\ \E i \in DOMAIN query.origins :
         /\ label.key = Plus(query.departure, query.origins[i].seconds)
         /\ timetable.station[stop] = timetable.station[query.origins[i].stop]

RodeTo(stop, label) ==
    LET parent == label.data.parent
    IN  /\ parent \in Settled
        /\ \E i \in DOMAIN timetable.stop_to_line[parent] :
             timetable.stop_to_line[parent][i] = label.data.line
        /\ \E trip \in Get(timetable.lines[label.data.line], parent, Key(heap, parent)) :
             /\ trip.departure = label.data.departure
             /\ \E i \in DOMAIN Visits(trip) :
                  Visits(trip)[i] = [stop |-> stop, time |-> label.key]

WalkedTo(stop, label) ==
    LET parent == label.data.parent
    IN  /\ parent \in ReachedStops \ {stop}
        /\ Key(heap, parent) <= label.data.departure
        /\ \E i \in DOMAIN Walks(parent, label.data.departure) :
             /\ Walks(parent, label.data.departure)[i].stop = stop
             /\ Walks(parent, label.data.departure)[i].time = label.key

LabelsSound ==
    \A stop \in ReachedStops :
        LET label == heap.label[stop]
        IN  IF label.data.line = WALKING_TRANSFER
            THEN StartedAt(stop, label) \/ WalkedTo(stop, label)
            ELSE RodeTo(stop, label)

(***************************************************************************)
(* The extracted path starts at a start of the query, ends at the answer   *)
(* and never goes back in time, neither along the stops nor between a      *)
(* stop's arrival and the departure towards the next one.                  *)
(***************************************************************************)
PathSound ==
    pc = "done" /\ path # << >> =>
        /\ StartedAt(path[1].stop, heap.label[path[1].stop])
        /\ path[Len(path)].stop \in destination
        /\ \A i \in 1 .. Len(path) - 1 :
             \/ path[i] = path[i + 1]
             \/ /\ path[i].arrival <= path[i + 1].departure
                /\ path[i + 1].departure <= path[i + 1].arrival

(***************************************************************************)
(* The reference: the earliest arrival by any sequence of services of any  *)
(* lines, looked up in the tables and not through LineTable::get, with a   *)
(* walk after every ride if walks join.  The router does not walk from     *)
(* where the query can start, so neither does the reference.               *)
(***************************************************************************)
\* the service of a departure, from an offset of its line on
ServiceFrom(line, offset, i) ==
    [ stops     |-> SubSeq(line.stops, offset, Len(line.stops)),
      deltas    |-> SubSeq(line.durations[line.departures[i].duration].delta,
                           offset, Len(line.stops)),
      departure |-> Plus(line.departures[i].begin,
                         PrefixTime(line, line.departures[i], offset)) ]

Services(line, stop) ==
    { ServiceFrom(line, Offset(line, stop), i) : i \in DOMAIN line.departures }

\* where the services of the lines through a stop lead, from a given time on
Rides(stop, time) ==
    LET services == UNION { Services(timetable.lines[timetable.stop_to_line[stop][i]], stop) :
                              i \in DOMAIN timetable.stop_to_line[stop] }
    IN  UNION { Range(Visits(trip)) : trip \in { s \in services : s.departure >= time } }

StartTimes(stop) ==
    { Plus(query.departure, query.origins[i].seconds) :
        i \in { k \in DOMAIN query.origins :
                  timetable.station[query.origins[k].stop] = timetable.station[stop] } }

\* where one can walk to from a stop, and how long it takes
Footpaths(from) ==
    { [stop |-> Walks(from, 0)[i].stop, duration |-> Walks(from, 0)[i].time] :
        i \in DOMAIN Walks(from, 0) }

\* who walks on from where a walk has led is nowhere where no walk leads as soon
WalksJoin ==
    \A from \in Stops : \A first \in Footpaths(from) : \A second \in Footpaths(first.stop) :
        \E direct \in Footpaths(from) :
            /\ direct.stop = second.stop
            /\ direct.duration <= first.duration + second.duration

StartedBy(stop, time) == \E start \in StartTimes(stop) : start <= time

\* where one can walk to when getting off a vehicle
WalksAfter(visit) ==
    IF StartedBy(visit.stop, visit.time) THEN {}
    ELSE { [stop |-> walk.stop, time |-> visit.time + walk.duration] :
             walk \in Footpaths(visit.stop) }

Least(times) == CHOOSE t \in times : \A u \in times : t <= u

AtStart == [ stop \in Stops |-> Least(StartTimes(stop) \cup {Infinity}) ]

\* one more ride, and a walk from where it leads
RideOn(before) ==
    LET rides == UNION { Rides(stop, before[stop]) : stop \in Stops }
        walks_on == IF WalksJoin THEN UNION { WalksAfter(visit) : visit \in rides } ELSE {}
        visited == rides \cup walks_on
    IN  [ stop \in Stops |->
            Least({before[stop]}
                  \cup { visit.time : visit \in { v \in visited : v.stop = stop } }) ]

\* no journey that gets earlier on the way needs more rides than there are stops
Arrivals[rides \in 0 .. Cardinality(Stops)] ==
    IF rides = 0 THEN AtStart ELSE RideOn(Arrivals[rides - 1])

Earliest == Arrivals[Cardinality(Stops)]

\* whatever leaves the first stop of a line later is nowhere earlier, wherever it is boarded
NotOvertaken(line) ==
    \A stop \in Range(line.stops), i, j \in DOMAIN line.departures :
        LET visits_i == Visits(ServiceFrom(line, Offset(line, stop), i))
            visits_j == Visits(ServiceFrom(line, Offset(line, stop), j))
        IN  i < j => \A k \in DOMAIN visits_i : visits_i[k].time <= visits_j[k].time

(***************************************************************************)
(* No sequence of rides beats the answer, with a walk after each if walks  *)
(* join, as long as no line is overtaken on.  It holds the lookback of     *)
(* LineTable::get, which hands out the service that leaves next and no     *)
(* other, against every departure of the line, the early exit of the       *)
(* search (best < arrival) against what is still in the heap, and reach,   *)
(* which walks on from a ride only if that improves the label, against     *)
(* every walk.  Where walks do not join a shorter walk can hide another    *)
(* one, and who has walked is not walked on from.                          *)
(***************************************************************************)
NoRideIsFaster ==
    pc = "done" /\ (\A i \in DOMAIN timetable.lines : NotOvertaken(timetable.lines[i])) =>
        LET earliest == Earliest
        IN  IF query.kind = "legs"
            THEN \A i \in DOMAIN query.destinations :
                   \A leg \in DestinationLegs(query.destinations[i].stop) :
                      LET arrival == earliest[leg.stop]
                      IN  query.origins # << >> /\ arrival < Infinity /\ arrival + leg.seconds < Width
                              => best <= arrival + leg.seconds
            ELSE LET asked == query.destinations[1].stop
                 IN  earliest[asked] < Infinity
                         => Reached(heap, asked) /\ Key(heap, asked) <= earliest[asked]

\* A line never hands out a departure before the time asked for.
\* (line_table.cpp: "find the next departure that actually is departing at a time
\* larger, or equal to the desired departure")
BoardsInTime == visits # << >> => at.time <= ride.departure

\* A ride reaches a stop when the schedule of one of the line's trips says so.
\* (duration_table_factory.cpp: "every stop is reached after X seconds, where X is
\* the different between the arrival at the stop and the departure from the very
\* first stop.")
RidesOnSchedule ==
    \A stop \in ReachedStops :
        LET label == heap.label[stop]
            line  == timetable.lines[label.data.line]
        IN  label.data.line # WALKING_TRANSFER =>
                \E i \in DOMAIN line.departures :
                    label.key = Plus(line.departures[i].begin,
                                     PrefixTime(line, line.departures[i], Offset(line, stop)))

\* Every query is answered: the search and the walk along the parents both end.
Termination == <>(pc = "done")
==============================================================================
