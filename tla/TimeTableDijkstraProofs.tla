------------------------ MODULE TimeTableDijkstraProofs ------------------------
(***************************************************************************)
(* The router settles stops in the order of their arrival and never lowers *)
(* a settled label, on every timetable whose lines are in order and whose  *)
(* vehicles go forward in time while no clock wraps around.                *)
(*                                                                         *)
(* Every label the router holds is the end of a journey that exists, and   *)
(* the path it extracts is one: it starts where the query does and never   *)
(* goes back in time. And no journey is faster: Dijkstra's argument, for a *)
(* search that takes one service of a line only, stops as soon as the best *)
(* arrival beats what is queued, and reaches the starts first.             *)
(***************************************************************************)
EXTENDS TimeTableDijkstra, LineTableProofs, SequenceTheorems, FiniteSetTheorems, TLAPS

\* no walk from the visited stop passes the end of the clock
WalksFit(table, visit) ==
    /\ visit.time + StationWalk < Width
    /\ \A i \in DOMAIN table.transfers[visit.stop] :
         visit.time + table.transfers[visit.stop][i].duration < Width

\* lines go through the stops they are listed for, in order and forward in time
Scheduled(table) ==
    \A stop \in Stops :
      \A i \in DOMAIN table.stop_to_line[stop] :
        LET line   == table.lines[table.stop_to_line[stop][i]]
            offset == Offset(line, stop)
        IN  /\ Orderly(line)
            /\ \E k \in DOMAIN line.stops : line.stops[k] = stop
            /\ \A d \in DOMAIN line.departures :
                  LET trip == Service(line, offset, d)
                  IN  \A k \in DOMAIN Visits(trip) :
                        /\ trip.departure <= Visits(trip)[k].time
                        /\ WalksFit(table, Visits(trip)[k])

ASSUME ScheduleAssumption == \A table \in TimeTables : Scheduled(table)

\* what the order of the tables makes of LineTable::get: who asks for a ride boards no
\* earlier, and is nowhere before that
Punctual(table) ==
    \A stop \in Stops, desired \in Seconds :
      \A i \in DOMAIN table.stop_to_line[stop] :
        \A trip \in Get(table.lines[table.stop_to_line[stop][i]], stop, desired) :
          /\ desired <= trip.departure
          /\ \A k \in DOMAIN Visits(trip) :
                /\ trip.departure <= Visits(trip)[k].time
                /\ WalksFit(table, Visits(trip)[k])

LEMMA Punctuality == \A table \in TimeTables : Punctual(table)
<1> SUFFICES ASSUME NEW table \in TimeTables, NEW stop \in Stops, NEW desired \in Seconds,
                    NEW i \in DOMAIN table.stop_to_line[stop],
                    NEW trip \in Get(table.lines[table.stop_to_line[stop][i]], stop, desired)
             PROVE  /\ desired <= trip.departure
                    /\ \A k \in DOMAIN Visits(trip) :
                          /\ trip.departure <= Visits(trip)[k].time
                          /\ WalksFit(table, Visits(trip)[k])
  BY DEF Punctual
<1> DEFINE line == table.lines[table.stop_to_line[stop][i]]
           offset == Offset(line, stop)
<1>1. /\ Orderly(line) /\ \E k \in DOMAIN line.stops : line.stops[k] = stop
      /\ \A d \in DOMAIN line.departures :
            LET vehicle == Service(line, offset, d)
            IN  \A k \in DOMAIN Visits(vehicle) :
                   /\ vehicle.departure <= Visits(vehicle)[k].time
                   /\ WalksFit(table, Visits(vehicle)[k])
  BY ScheduleAssumption, Zenon DEF Scheduled
<1>2. PICK d \in DOMAIN line.departures :
        trip = Service(line, offset, d) /\ desired <= trip.departure
  <2>1. trip \in Get(line, stop, desired)
    OBVIOUS
  <2> HIDE DEF line
  <2> QED
    BY <1>1, <2>1, NoTripHasLeft
<1> HIDE DEF line, offset
<1> QED
  BY <1>1, <1>2

-----------------------------------------------------------------------------
(* The inductive invariant                                                  *)

InputOK == timetable \in TimeTables /\ query \in Queries

\* the time of the last settled stop splits the labels
SettledBelow == \A stop \in Settled : Key(heap, stop) <= at.time
QueuedAbove == \A stop \in heap.queued : at.time <= Key(heap, stop)

\* nothing is settled before the last start was reached
Starting == ~ NoStarts => Settled = {} /\ at.time = 0

\* what is left of the trip and of the walks lies ahead
VisitsAhead == \A i \in DOMAIN visits : at.time <= visits[i].time /\ WalksFit(timetable, visits[i])
WalksAhead == \A i \in DOMAIN walks : at.time <= walks[i].time

\* the lines to traverse serve the settled stop
LinesOfStop ==
    \A stop \in at.stop, i \in DOMAIN lines :
        \E j \in DOMAIN timetable.stop_to_line[stop] : timetable.stop_to_line[stop][j] = lines[i]

\* a chain of parents never leaves the labels
ParentsReached == \A stop \in ReachedStops : heap.label[stop].data.parent \in ReachedStops
BoardedReached == ride.parent \subseteq ReachedStops /\ at.stop \subseteq ReachedStops
WalkersReached == \A i \in DOMAIN walks : walks[i].parent \in ReachedStops
DestinationReached ==
    query.kind = "stops" =>
        \A stop \in destination : stop \in ReachedStops \/ stop = query.destinations[1].stop
PathReached == pc = "extract" => path # << >> /\ \A i \in DOMAIN path : path[i].stop \in ReachedStops

\* The state the search may be in between two steps: labels of settled stops lie
\* behind the stop being looked at, labels in the queue and all that is still to be
\* reached from it ahead, and parents lead through labels only.
SearchInv ==
    /\ TypeOK
    /\ HandlesLive
    /\ SettledBelow /\ QueuedAbove /\ Starting
    /\ VisitsAhead /\ WalksAhead /\ LinesOfStop
    /\ ParentsReached /\ BoardedReached /\ WalkersReached
    /\ DestinationReached /\ PathReached

IInv == InputOK /\ SearchInv

-----------------------------------------------------------------------------
(* Time                                                                     *)

\* The sum of two times is a time.
LEMMA PlusType ==
    ASSUME NEW time \in Nat, NEW seconds \in Nat
    PROVE  Plus(time, seconds) \in Seconds
BY WidthAssumption DEF Plus, Seconds

\* Time only wraps at the end of the clock.
LEMMA PlusFits ==
    ASSUME NEW time \in Nat, NEW seconds \in Nat, time + seconds < Width
    PROVE  Plus(time, seconds) = time + seconds
BY WidthAssumption DEF Plus
-----------------------------------------------------------------------------
(* The heap                                                                 *)

\* Reaching a stop keeps the heap well formed and loses no label.
LEMMA ReachType ==
    ASSUME HeapOK, NEW stop \in Stops, NEW time \in Seconds, NEW via \in MetaData,
           Reach(stop, time, via)
    PROVE  /\ HeapOK'
           /\ ReachedStops' = ReachedStops \cup {stop}
           /\ pc' \in {pc, "crashed"}
           /\ \A other \in ReachedStops' :
                \/ other \in ReachedStops /\ heap'.label[other] = heap.label[other]
                \/ other = stop /\ heap'.label[other] = [key |-> time, data |-> via]
<1>1. CASE ~ Reached(heap, stop)
  BY <1>1 DEF HeapOK, Reach, Insert, Relabel, Reached, Lowers, ReachedStops
<1>2. CASE Reached(heap, stop) /\ Lowers(stop, time) /\ Queued(heap, stop)
  BY <1>2 DEF HeapOK, Reach, DecreaseKey, Relabel, Reached, Lowers, ReachedStops, Queued
<1>3. CASE Reached(heap, stop) /\ ~ (Lowers(stop, time) /\ Queued(heap, stop))
  BY <1>3 DEF HeapOK, Reach, Reached, ReachedStops
<1> QED BY <1>1, <1>2, <1>3

\* Nothing reached at or after the time of the settled stop touches a settled label.
LEMMA ReachOrder ==
    ASSUME HeapOK, SettledBelow, QueuedAbove, at.time \in Seconds, at' = at,
           NEW stop \in Stops, NEW time \in Seconds, NEW via \in MetaData,
           at.time <= time, Reach(stop, time, via)
    PROVE  /\ SettledBelow' /\ QueuedAbove'
           /\ pc' = pc
           /\ Settled' = Settled
           /\ \A other \in Settled : heap'.label[other] = heap.label[other]
<1> USE DEF HeapOK, Reach, Reached, ReachedStops, Lowers, Queued, Key, Settled,
            SettledBelow, QueuedAbove, Seconds
<1>1. CASE ~ Reached(heap, stop)
  BY <1>1, WidthAssumption DEF Insert, Relabel
<1>2. CASE Reached(heap, stop) /\ Lowers(stop, time) /\ Queued(heap, stop)
  BY <1>2, WidthAssumption DEF DecreaseKey, Relabel
<1>3. CASE Reached(heap, stop) /\ ~ (Lowers(stop, time) /\ Queued(heap, stop))
  BY <1>3, WidthAssumption
<1> QED BY <1>1, <1>2, <1>3
-----------------------------------------------------------------------------
(* The timetable and the query                                              *)

\* What the assumption on the inputs says of the timetable in use.
LEMMA InputTypes ==
    ASSUME InputOK
    PROVE  /\ IsTimeTable(timetable) /\ Punctual(timetable) /\ IsQuery(query)
           /\ StationWalk \in Seconds
BY InputAssumption, Punctuality DEF InputOK

\* where one can be from a stop left at some time, if the clock does not wrap
WalksFrom(stop, time) ==
    { walk \in Walk : walk.parent = stop /\ walk.departure = time /\ time <= walk.time }

\* A walk that fits leads to a later time.
LEMMA WalkBetweenType ==
    ASSUME NEW stop \in Stops, NEW time \in Seconds, NEW to \in Stops, NEW duration \in Seconds,
           time + duration < Width
    PROVE  WalkBetween(stop, time, to, duration) \in WalksFrom(stop, time)
<1>1. time \in Nat /\ duration \in Nat
  BY WidthAssumption DEF Seconds
<1>2. Plus(time, duration) = time + duration /\ Plus(time, duration) \in Seconds
  BY <1>1, PlusFits, PlusType
<1> QED
  BY <1>1, <1>2 DEF WalkBetween, WalksFrom, Walk

\* Whoever walks from a punctual visit does not arrive before it.
LEMMA WalksType ==
    ASSUME InputOK, NEW visit \in Visit, WalksFit(timetable, visit)
    PROVE  Walks(visit.stop, visit.time) \in Seq(WalksFrom(visit.stop, visit.time))
<1> DEFINE stop == visit.stop
           time == visit.time
           transfers == timetable.transfers[stop]
           station == timetable.stops[timetable.station[stop]]
<1>1. stop \in Stops /\ time \in Seconds
  BY DEF Visit
<1>2. transfers \in Seq(Transfer) /\ station \in Seq(Stops) /\ StationWalk \in Seconds
  BY <1>1, InputTypes DEF IsTimeTable
<1>3. TransferWalks(stop, time) \in Seq(WalksFrom(stop, time))
  <2>1. ASSUME NEW i \in 1 .. Len(transfers)
        PROVE  WalkBetween(stop, time, transfers[i].stop, transfers[i].duration)
                   \in WalksFrom(stop, time)
    <3>1. transfers[i] \in Transfer
      BY <1>2, ElementOfSeq
    <3>2. time + transfers[i].duration < Width
      BY <1>2, LenProperties DEF WalksFit
    <3> QED
      BY <1>1, <3>1, <3>2, WalkBetweenType DEF Transfer
  <2> QED
    BY <1>2, <2>1, LenProperties DEF TransferWalks
<1>4. StationWalks(stop, time) \in Seq(WalksFrom(stop, time))
  <2>1. ASSUME NEW i \in 1 .. Len(station)
        PROVE  WalkBetween(stop, time, station[i], IF station[i] = stop THEN 0 ELSE StationWalk)
                   \in WalksFrom(stop, time)
    <3>1. station[i] \in Stops
      BY <1>2, ElementOfSeq
    <3>2. 0 \in Seconds /\ time + 0 < Width /\ time + StationWalk < Width
      BY <1>1, WidthAssumption DEF WalksFit, Seconds
    <3> QED
      BY <1>1, <1>2, <3>1, <3>2, WalkBetweenType
  <2> QED
    BY <1>2, <2>1, LenProperties DEF StationWalks
<1> QED
  BY <1>3, <1>4, ConcatProperties DEF Walks
-----------------------------------------------------------------------------
(* The invariant holds at the start                                         *)

LEMMA InitInvariant == Init => IInv
<1> SUFFICES ASSUME Init PROVE IInv
  OBVIOUS
<1>1. InputOK
  BY DEF Init, InputOK
<1>2. IsQuery(query)
  BY <1>1, InputTypes
<1>3. 0 \in Seconds /\ Infinity \in Seconds
  BY WidthAssumption DEF Seconds, Infinity
<1>4. heap.queued = {} /\ ReachedStops = {} /\ Settled = {}
  BY DEF Init, Empty, ReachedStops, Settled
<1>5. HeapOK
  BY <1>4, Zenon DEF Init, Empty, HeapOK, ReachedStops
<1>6. destination \subseteq Stops /\ AtMostOne(destination)
  <2>1. CASE NoLegs
    BY <2>1 DEF Init, AtMostOne
  <2>2. CASE ~ NoLegs
    <3>1. query.destinations \in Seq(ADLeg) /\ query.destinations # << >>
      BY <1>2, <2>2 DEF IsQuery, NoLegs
    <3>2. query.destinations[1] \in ADLeg
      BY <3>1
    <3> QED
      BY <2>2, <3>2 DEF Init, AtMostOne, ADLeg
  <2> QED BY <2>1, <2>2
<1>7. TypeOK
  <2>1. origins \in Seq(ADLeg)
    BY <1>2 DEF Init, IsQuery
  <2>2. query.departure \in Seconds
    BY <1>2 DEF IsQuery
  <2> QED
    BY <1>3, <1>5, <1>6, <2>1, <2>2 DEF Init, TypeOK, AtMostOne, WALKING_TRANSFER
<1>8. HandlesLive /\ SettledBelow /\ QueuedAbove /\ Starting
  BY <1>4 DEF Init, HandlesLive, SettledBelow, QueuedAbove, Starting
<1>9. VisitsAhead /\ WalksAhead /\ LinesOfStop /\ WalkersReached
  BY DEF Init, VisitsAhead, WalksAhead, LinesOfStop, WalkersReached
<1>10. ParentsReached /\ BoardedReached /\ PathReached
  BY <1>4 DEF Init, ParentsReached, BoardedReached, PathReached
<1>11. DestinationReached
  BY DEF Init, DestinationReached
<1> QED
  BY <1>1, <1>7, <1>8, <1>9, <1>10, <1>11 DEF IInv, SearchInv

-----------------------------------------------------------------------------
(* Every action keeps the invariant                                         *)

LEMMA AddOriginInvariant == IInv /\ AddOrigin => IInv'
<1> SUFFICES ASSUME IInv, AddOrigin PROVE IInv'
  OBVIOUS
<1> USE DEF IInv, SearchInv
<1>1. /\ UNCHANGED << timetable, query, pc, heap, best, destination, at, lines, ride, visits,
                      walks, path >>
      /\ origins # << >> /\ origins' = Tail(origins)
  BY DEF AddOrigin
<1>2. Head(origins) \in ADLeg /\ Tail(origins) \in Seq(ADLeg)
  BY <1>1, HeadTailProperties DEF TypeOK
<1>3. starts' \in Seq(Start)
  <2> DEFINE origin == Head(origins)
             station == timetable.stops[timetable.station[origin.stop]]
             time == Plus(query.departure, origin.seconds)
  <2>1. origin.stop \in Stops /\ origin.seconds \in Nat /\ query.departure \in Nat
    BY <1>2, InputTypes, WidthAssumption DEF ADLeg, IsQuery, Seconds
  <2>2. time \in Seconds
    BY <2>1, PlusType
  <2>3. station \in Seq(Stops)
    BY <2>1, InputTypes DEF IsTimeTable
  <2>4. starts' = [ i \in 1 .. Len(station) |-> [stop |-> station[i], time |-> time] ]
    BY DEF AddOrigin
  <2>5. \A i \in 1 .. Len(station) : [stop |-> station[i], time |-> time] \in Start
    BY <2>2, <2>3, ElementOfSeq DEF Start
  <2>6. Len(station) \in Nat
    BY <2>3, LenProperties
  <2> HIDE DEF station, time
  <2> QED
    BY <2>4, <2>5, <2>6
<1>4. InputOK' /\ TypeOK'
  BY <1>1, <1>2, <1>3 DEF InputOK, TypeOK, HeapOK, ReachedStops
<1>5. HandlesLive' /\ SettledBelow' /\ QueuedAbove' /\ Starting'
  BY <1>1 DEF HandlesLive, SettledBelow, QueuedAbove, Starting, NoStarts, Settled, ReachedStops, Key
<1>6. VisitsAhead' /\ WalksAhead' /\ LinesOfStop' /\ WalkersReached'
  BY <1>1 DEF VisitsAhead, WalksAhead, LinesOfStop, WalkersReached, WalksFit, ReachedStops
<1>7. ParentsReached' /\ BoardedReached' /\ PathReached' /\ DestinationReached'
  BY <1>1 DEF ParentsReached, BoardedReached, PathReached, DestinationReached, ReachedStops
<1> QED
  BY <1>4, <1>5, <1>6, <1>7

LEMMA AddStartInvariant == IInv /\ AddStart => IInv'
<1> SUFFICES ASSUME IInv, AddStart PROVE IInv'
  OBVIOUS
<1> USE DEF IInv, SearchInv
<1> DEFINE start == Head(starts)
           via == [parent |-> start.stop, line |-> WALKING_TRANSFER,
                   departure |-> query.departure]
<1>1. /\ UNCHANGED << timetable, query, best, destination, origins, at, lines, ride, visits,
                      walks, path >>
      /\ starts # << >> /\ starts' = Tail(starts)
      /\ Reach(start.stop, start.time, via)
      /\ pc = "run"
  BY DEF AddStart
<1>2. start \in Start /\ Tail(starts) \in Seq(Start)
  BY <1>1, HeadTailProperties DEF TypeOK
<1>3. start.stop \in Stops /\ start.time \in Seconds /\ via \in MetaData
  BY <1>2, InputTypes DEF Start, MetaData, WALKING_TRANSFER, IsQuery
<1>4. Settled = {} /\ at.time = 0 /\ at.time <= start.time
  BY <1>1, <1>3, WidthAssumption DEF Starting, NoStarts, Seconds
<1>5. /\ HeapOK' /\ ReachedStops' = ReachedStops \cup {start.stop}
      /\ \A other \in ReachedStops' :
           \/ other \in ReachedStops /\ heap'.label[other] = heap.label[other]
           \/ other = start.stop /\ heap'.label[other] = [key |-> start.time, data |-> via]
  BY <1>1, <1>3, ReachType DEF TypeOK
<1>6. SettledBelow' /\ QueuedAbove' /\ pc' = pc /\ Settled' = Settled
  BY <1>1, <1>3, <1>4, ReachOrder DEF TypeOK
<1>7. InputOK' /\ TypeOK'
  BY <1>1, <1>2, <1>5, <1>6 DEF InputOK, TypeOK
<1>8. HandlesLive' /\ Starting'
  BY <1>1, <1>4, <1>6 DEF HandlesLive, Starting
<1>9. VisitsAhead' /\ WalksAhead' /\ LinesOfStop' /\ WalkersReached'
  BY <1>1, <1>5 DEF VisitsAhead, WalksAhead, LinesOfStop, WalkersReached, WalksFit
<1>10. ParentsReached' /\ BoardedReached' /\ PathReached' /\ DestinationReached'
  BY <1>1, <1>5, <1>6 DEF ParentsReached, BoardedReached, PathReached, DestinationReached
<1> QED
  BY <1>6, <1>7, <1>8, <1>9, <1>10

\* What looking at the next stop to settle does to the answer.
LEMMA InspectInvariant ==
    ASSUME IInv, NEW stop \in heap.queued, Inspect(stop)
    PROVE  /\ best' \in Seconds
           /\ destination' \subseteq Stops /\ AtMostOne(destination')
           /\ query.kind = "stops" =>
                \A other \in destination' :
                    other \in ReachedStops \/ other = query.destinations[1].stop
<1> USE DEF IInv, SearchInv
<1>1. stop \in ReachedStops /\ stop \in Stops /\ Key(heap, stop) \in Seconds
  BY DEF TypeOK, HeapOK, Key, ReachedStops
<1>2. IsQuery(query)
  BY InputTypes
<1>3. CASE query.kind = "legs"
  <2> DEFINE better == { leg \in DestinationLegs(stop) : Plus(Key(heap, stop), leg.seconds) < best }
  <2>1. /\ best' \in IF better = {} THEN {best}
                     ELSE { Plus(Key(heap, stop), leg.seconds) : leg \in better }
        /\ destination' = IF better = {} THEN destination ELSE {stop}
    BY <1>3 DEF Inspect, CheckAndUpdateBest
  <2>3. ASSUME NEW leg \in DestinationLegs(stop)
        PROVE  Plus(Key(heap, stop), leg.seconds) \in Seconds
    <3>1. query.destinations \in Seq(ADLeg)
      BY <1>2 DEF IsQuery
    <3>2. PICK i \in DOMAIN query.destinations : leg = query.destinations[i]
      BY DEF DestinationLegs
    <3>3. leg.seconds \in Seconds
      <4>1. i \in 1 .. Len(query.destinations)
        BY <3>1, LenProperties
      <4>2. leg \in ADLeg
        BY <3>1, <3>2, <4>1, ElementOfSeq
      <4> QED
        BY <4>2 DEF ADLeg
    <3>4. Key(heap, stop) \in Nat /\ leg.seconds \in Nat
      BY <1>1, <3>3, WidthAssumption DEF Seconds
    <3> QED
      BY <3>4, PlusType
  <2>4. better \subseteq DestinationLegs(stop)
    OBVIOUS
  <2> HIDE DEF better
  <2> QED
    BY <1>1, <1>3, <2>1, <2>3, <2>4 DEF TypeOK, AtMostOne
<1>4. CASE query.kind # "legs"
  BY <1>1, <1>4 DEF Inspect, UpdateReachedDestination, TypeOK, AtMostOne, DestinationReached
<1> QED
  BY <1>3, <1>4

LEMMA SettleInvariant == IInv /\ Settle => IInv'
<1> SUFFICES ASSUME IInv, Settle PROVE IInv'
  OBVIOUS
<1> USE DEF IInv, SearchInv
<1>1. UNCHANGED << timetable, query, pc, origins, starts, ride, visits, walks, path >>
      /\ NoStarts /\ lines = << >> /\ visits = << >> /\ walks = << >>
  BY DEF Settle, AtLoopHead, NoVisits
<1>2. PICK stop \in Minimum(heap) :
        /\ Inspect(stop)
        /\ at' = [stop |-> {stop}, time |-> Key(heap, stop)]
        /\ lines' = timetable.stop_to_line[stop]
        /\ heap' = DeleteMin(heap, stop)
  BY DEF Settle
<1>3. /\ stop \in heap.queued /\ stop \in ReachedStops /\ stop \in Stops
      /\ \A other \in heap.queued : Key(heap, stop) <= Key(heap, other)
      /\ \A other \in ReachedStops : Key(heap, other) \in Seconds
  <2>1. \A other \in ReachedStops : Key(heap, other) \in Seconds
    BY DEF TypeOK, HeapOK, Key, ReachedStops
  <2>2. /\ stop \in heap.queued
        /\ \A other \in heap.queued :
             Key(heap, stop) < Key(heap, other) \/ Key(heap, stop) = Key(heap, other)
    BY <1>2 DEF Minimum
  <2>3. heap.queued \subseteq ReachedStops /\ ReachedStops \subseteq Stops
    BY DEF TypeOK, HeapOK
  <2> QED
    BY <2>1, <2>2, <2>3, WidthAssumption DEF Seconds
<1>4. /\ ReachedStops' = ReachedStops /\ heap'.label = heap.label
      /\ heap'.queued = heap.queued \ {stop}
      /\ Settled' = Settled \cup {stop}
      /\ \A other \in ReachedStops : Key(heap, other)' = Key(heap, other)
  BY <1>2, <1>3 DEF DeleteMin, ReachedStops, Settled, Key
<1>5. InputOK' /\ TypeOK'
  <2>1. timetable.stop_to_line[stop] \in Seq(DOMAIN timetable.lines)
    BY <1>3, InputTypes DEF IsTimeTable
  <2>2. HeapOK'
    BY <1>4 DEF TypeOK, HeapOK
  <2>3. at'.stop \subseteq Stops /\ AtMostOne(at'.stop) /\ at'.time \in Seconds
    BY <1>2, <1>3 DEF AtMostOne
  <2>4. best' \in Seconds /\ destination' \subseteq Stops /\ AtMostOne(destination')
    BY <1>2, <1>3, InspectInvariant
  <2> QED
    BY <1>1, <1>2, <2>1, <2>2, <2>3, <2>4 DEF InputOK, TypeOK
<1>6. HandlesLive' /\ Starting'
  BY <1>1 DEF HandlesLive, Starting, NoStarts
<1>7. SettledBelow' /\ QueuedAbove'
  <2>1. at.time <= Key(heap, stop)
    BY <1>3 DEF QueuedAbove
  <2>2. \A other \in Settled' : Key(heap, other)' <= at'.time
    BY <1>2, <1>3, <1>4, <2>1, WidthAssumption DEF SettledBelow, Settled, Seconds, TypeOK
  <2>3. \A other \in heap'.queued : at'.time <= Key(heap, other)'
    BY <1>2, <1>3, <1>4 DEF TypeOK, HeapOK
  <2> QED
    BY <2>2, <2>3 DEF SettledBelow, QueuedAbove
<1>8. VisitsAhead' /\ WalksAhead' /\ WalkersReached'
  BY <1>1 DEF VisitsAhead, WalksAhead, WalkersReached
<1>9. LinesOfStop'
  BY <1>1, <1>2 DEF LinesOfStop
<1>10. ParentsReached' /\ BoardedReached' /\ PathReached'
  BY <1>1, <1>2, <1>3, <1>4 DEF ParentsReached, BoardedReached, PathReached, AtLoopHead
<1>11. DestinationReached'
  BY <1>1, <1>2, <1>3, <1>4, InspectInvariant DEF DestinationReached
<1> QED
  BY <1>5, <1>6, <1>7, <1>8, <1>9, <1>10, <1>11

\* What handing over the answer does to the path.
LEMMA FinishInvariant ==
    ASSUME HeapOK, NEW target, target \subseteq Stops, IsQuery(query),
           query.kind = "stops" =>
               \A stop \in target : stop \in ReachedStops \/ stop = query.destinations[1].stop,
           Finish(target)
    PROVE  /\ pc' \in {"extract", "done"}
           /\ path' \in Seq(PathEntry)
           /\ pc' = "extract" =>
                path' # << >> /\ \A i \in DOMAIN path' : path'[i].stop \in ReachedStops
<1> DEFINE asked == IF query.kind = "legs" THEN target ELSE { query.destinations[1].stop }
<1>1. CASE \A stop \in asked : Reached(heap, stop)
  <2>1. pc' = "extract"
    BY <1>1 DEF Finish
  <2>2. PICK stop \in target : path' = << Entry(stop, heap.label[stop]) >>
    BY <1>1 DEF Finish
  <2>3. stop \in ReachedStops /\ stop \in Stops
    BY <1>1, <2>2 DEF Reached, ReachedStops, IsQuery
  <2>4. heap.label[stop] \in [key : Seconds, data : MetaData]
    BY <2>3 DEF HeapOK
  <2>5. Entry(stop, heap.label[stop]) \in PathEntry
    BY <2>3, <2>4 DEF Entry, PathEntry, MetaData
  <2>6. Entry(stop, heap.label[stop]).stop \in ReachedStops
    BY <2>3 DEF Entry
  <2> HIDE DEF asked
  <2> QED
    BY <2>1, <2>2, <2>5, <2>6
<1>2. CASE ~ \A stop \in asked : Reached(heap, stop)
  BY <1>2 DEF Finish
<1> QED
  BY <1>1, <1>2

LEMMA BreakEarlyInvariant == IInv /\ BreakEarly => IInv'
<1> SUFFICES ASSUME IInv, BreakEarly PROVE IInv'
  OBVIOUS
<1> USE DEF IInv, SearchInv
<1>1. UNCHANGED << timetable, query, heap, origins, starts, at, lines, ride, visits, walks >>
  BY DEF BreakEarly
<1>2. PICK stop \in heap.queued : Inspect(stop)
  BY DEF BreakEarly, Minimum
<1>3. /\ best' \in Seconds
      /\ destination' \subseteq Stops /\ AtMostOne(destination')
      /\ query.kind = "stops" =>
           \A other \in destination' :
               other \in ReachedStops \/ other = query.destinations[1].stop
  BY <1>2, InspectInvariant
<1>4. /\ pc' \in {"extract", "done"} /\ path' \in Seq(PathEntry)
      /\ pc' = "extract" => path' # << >> /\ \A i \in DOMAIN path' : path'[i].stop \in ReachedStops
  <2>1. Finish(destination') /\ IsQuery(query) /\ HeapOK
    BY InputTypes DEF BreakEarly, TypeOK
  <2> QED
    BY <1>3, <2>1, FinishInvariant
<1>5. ReachedStops' = ReachedStops /\ Settled' = Settled
  BY <1>1 DEF ReachedStops, Settled
<1>6. InputOK' /\ TypeOK'
  BY <1>1, <1>3, <1>4, <1>5 DEF InputOK, TypeOK, HeapOK
<1>7. HandlesLive' /\ SettledBelow' /\ QueuedAbove' /\ Starting'
  BY <1>1, <1>4, <1>5 DEF HandlesLive, SettledBelow, QueuedAbove, Starting, NoStarts, Key
<1>8. VisitsAhead' /\ WalksAhead' /\ LinesOfStop' /\ WalkersReached'
  BY <1>1, <1>5 DEF VisitsAhead, WalksAhead, LinesOfStop, WalkersReached
<1>9. ParentsReached' /\ BoardedReached' /\ PathReached' /\ DestinationReached'
  BY <1>1, <1>3, <1>4, <1>5 DEF ParentsReached, BoardedReached, PathReached, DestinationReached
<1> QED
  BY <1>6, <1>7, <1>8, <1>9

LEMMA HeapEmptyInvariant == IInv /\ HeapEmpty => IInv'
<1> SUFFICES ASSUME IInv, HeapEmpty PROVE IInv'
  OBVIOUS
<1> USE DEF IInv, SearchInv
<1>1. UNCHANGED << timetable, query, heap, best, destination, origins, starts, at, lines, ride,
                   visits, walks >>
  BY DEF HeapEmpty
<1>2. /\ pc' \in {"extract", "done"} /\ path' \in Seq(PathEntry)
      /\ pc' = "extract" => path' # << >> /\ \A i \in DOMAIN path' : path'[i].stop \in ReachedStops
  <2>1. Finish(destination) /\ IsQuery(query) /\ HeapOK /\ destination \subseteq Stops
    BY InputTypes DEF HeapEmpty, TypeOK
  <2> QED
    BY <2>1, FinishInvariant DEF DestinationReached
<1>3. ReachedStops' = ReachedStops /\ Settled' = Settled
  BY <1>1 DEF ReachedStops, Settled
<1>4. InputOK' /\ TypeOK'
  BY <1>1, <1>2, <1>3 DEF InputOK, TypeOK, HeapOK
<1>5. HandlesLive' /\ SettledBelow' /\ QueuedAbove' /\ Starting'
  BY <1>1, <1>2, <1>3 DEF HandlesLive, SettledBelow, QueuedAbove, Starting, NoStarts, Key
<1>6. VisitsAhead' /\ WalksAhead' /\ LinesOfStop' /\ WalkersReached'
  BY <1>1, <1>3 DEF VisitsAhead, WalksAhead, LinesOfStop, WalkersReached
<1>7. ParentsReached' /\ BoardedReached' /\ PathReached' /\ DestinationReached'
  BY <1>1, <1>2, <1>3 DEF ParentsReached, BoardedReached, PathReached, DestinationReached
<1> QED
  BY <1>4, <1>5, <1>6, <1>7

LEMMA TraverseLineInvariant == IInv /\ TraverseLine => IInv'
<1> SUFFICES ASSUME IInv, TraverseLine PROVE IInv'
  OBVIOUS
<1> USE DEF IInv, SearchInv
<1>1. /\ UNCHANGED << timetable, query, pc, heap, best, destination, origins, starts, at, walks,
                      path >>
      /\ pc = "run" /\ lines # << >> /\ lines' = Tail(lines)
  BY DEF TraverseLine
<1>2. PICK stop \in at.stop :
        LET trips == Get(timetable.lines[Head(lines)], stop, at.time)
        IN  \/ trips = {} /\ UNCHANGED << ride, visits >>
            \/ \E trip \in trips :
                 /\ visits' = Visits(trip)
                 /\ ride' = [parent |-> {stop}, line |-> Head(lines), departure |-> trip.departure]
  BY DEF TraverseLine
<1>3. /\ stop \in Stops /\ stop \in ReachedStops /\ at.time \in Seconds
      /\ Head(lines) \in DOMAIN timetable.lines
      /\ Tail(lines) \in Seq(DOMAIN timetable.lines)
      /\ \A i \in DOMAIN Tail(lines) : i + 1 \in DOMAIN lines /\ Tail(lines)[i] = lines[i + 1]
      /\ 1 \in DOMAIN lines /\ Head(lines) = lines[1]
  BY <1>1, <1>2, HeadTailProperties, LenProperties DEF TypeOK, BoardedReached
<1> DEFINE BoardedWell ==
        /\ visits' \in Seq(Visit)
        /\ \A i \in DOMAIN visits' : at.time <= visits'[i].time /\ WalksFit(timetable, visits'[i])
        /\ ride'.parent \subseteq ReachedStops /\ ride'.parent \subseteq Stops
        /\ AtMostOne(ride'.parent)
        /\ ride'.line \in Nat /\ ride'.departure \in Seconds
<1>4. BoardedWell
  <2> DEFINE trips == Get(timetable.lines[Head(lines)], stop, at.time)
  <2>1. CASE UNCHANGED << ride, visits >>
    BY <2>1 DEF TypeOK, VisitsAhead, BoardedReached
  <2>2. ASSUME NEW trip \in trips,
               visits' = Visits(trip),
               ride' = [parent |-> {stop}, line |-> Head(lines), departure |-> trip.departure]
        PROVE  BoardedWell
    <3>1. PICK j \in DOMAIN timetable.stop_to_line[stop] :
            timetable.stop_to_line[stop][j] = Head(lines)
      BY <1>2, <1>3 DEF LinesOfStop
    <3>2. trip \in Get(timetable.lines[timetable.stop_to_line[stop][j]], stop, at.time)
      BY <3>1
    <3>3. trip.departure \in Seconds /\ Visits(trip) \in Seq(Visit)
      BY <1>3, <3>2, InputTypes DEF IsTimeTable
    <3>4. ASSUME NEW k \in DOMAIN Visits(trip)
          PROVE  at.time <= Visits(trip)[k].time /\ WalksFit(timetable, Visits(trip)[k])
      <4>1. /\ at.time <= trip.departure /\ trip.departure <= Visits(trip)[k].time
            /\ WalksFit(timetable, Visits(trip)[k])
        BY <1>3, <3>2, InputTypes DEF Punctual
      <4>2. Visits(trip)[k].time \in Seconds
        <5>1. k \in 1 .. Len(Visits(trip))
          BY <3>3, LenProperties
        <5>2. Visits(trip)[k] \in Visit
          BY <3>3, <5>1, ElementOfSeq
        <5> QED
          BY <5>2 DEF Visit
      <4>3. at.time \in Int /\ trip.departure \in Int /\ Visits(trip)[k].time \in Int
        BY <1>3, <3>3, <4>2, WidthAssumption DEF Seconds
      <4> QED
        BY <4>1, <4>3
    <3>5. Head(lines) \in Nat
      <4>1. timetable.stop_to_line[stop] \in Seq(DOMAIN timetable.lines)
        BY <1>3, InputTypes DEF IsTimeTable
      <4> QED
        BY <1>3, InputTypes DEF IsTimeTable
    <3> QED
      BY <1>3, <2>2, <3>3, <3>4, <3>5 DEF AtMostOne
  <2> QED
    BY <1>2, <2>1, <2>2
<1>5. ReachedStops' = ReachedStops /\ Settled' = Settled
  BY <1>1 DEF ReachedStops, Settled
<1>6. InputOK' /\ TypeOK'
  BY <1>1, <1>3, <1>4, <1>5 DEF InputOK, TypeOK, HeapOK
<1>7. HandlesLive' /\ SettledBelow' /\ QueuedAbove' /\ Starting'
  BY <1>1, <1>5 DEF HandlesLive, SettledBelow, QueuedAbove, Starting, NoStarts, Key
<1>8. VisitsAhead' /\ WalksAhead' /\ WalkersReached'
  BY <1>1, <1>4, <1>5 DEF VisitsAhead, WalksAhead, WalkersReached
<1>9. LinesOfStop'
  BY <1>1, <1>3 DEF LinesOfStop
<1>10. ParentsReached' /\ BoardedReached' /\ PathReached' /\ DestinationReached'
  BY <1>1, <1>4, <1>5 DEF ParentsReached, BoardedReached, PathReached, DestinationReached
<1> QED
  BY <1>6, <1>7, <1>8, <1>9, <1>10

LEMMA RideToInvariant == IInv /\ RideTo => IInv'
<1> SUFFICES ASSUME IInv, RideTo PROVE IInv'
  OBVIOUS
<1> USE DEF IInv, SearchInv
<1> DEFINE visit == Head(visits)
           via(boarded) == [parent |-> boarded, line |-> ride.line, departure |-> ride.departure]
<1>1. /\ UNCHANGED << timetable, query, best, destination, origins, starts, at, lines, ride, path >>
      /\ pc = "run" /\ visits # << >> /\ visits' = Tail(visits)
      /\ walks' = IF Improves(visit.stop, visit.time) THEN Walks(visit.stop, visit.time) ELSE << >>
  BY DEF RideTo
<1>2. PICK boarded \in ride.parent : Reach(visit.stop, visit.time, via(boarded))
  BY DEF RideTo
<1>3. /\ visit \in Visit /\ Tail(visits) \in Seq(Visit)
      /\ \A i \in DOMAIN Tail(visits) : i + 1 \in DOMAIN visits /\ Tail(visits)[i] = visits[i + 1]
      /\ 1 \in DOMAIN visits /\ visit = visits[1]
  BY <1>1, HeadTailProperties, LenProperties DEF TypeOK
<1>4. /\ visit.stop \in Stops /\ visit.time \in Seconds /\ via(boarded) \in MetaData
      /\ at.time <= visit.time /\ WalksFit(timetable, visit)
      /\ boarded \in ReachedStops
  BY <1>2, <1>3 DEF Visit, MetaData, TypeOK, VisitsAhead, BoardedReached
<1>5. /\ HeapOK' /\ ReachedStops' = ReachedStops \cup {visit.stop}
      /\ \A other \in ReachedStops' :
           \/ other \in ReachedStops /\ heap'.label[other] = heap.label[other]
           \/ other = visit.stop /\ heap'.label[other] = [key |-> visit.time, data |-> via(boarded)]
  BY <1>2, <1>4, ReachType DEF TypeOK
<1>6. SettledBelow' /\ QueuedAbove' /\ pc' = pc
  BY <1>1, <1>2, <1>4, ReachOrder DEF TypeOK
<1>7. /\ walks' \in Seq(Walk)
      /\ \A i \in DOMAIN walks' : walks'[i].parent = visit.stop /\ at.time <= walks'[i].time
  <2>1. CASE ~ Improves(visit.stop, visit.time)
    BY <1>1, <2>1
  <2>2. CASE Improves(visit.stop, visit.time)
    <3>1. walks' \in Seq(WalksFrom(visit.stop, visit.time))
      BY <1>1, <1>3, <1>4, <2>2, WalksType
    <3>2. WalksFrom(visit.stop, visit.time) \subseteq Walk
      BY DEF WalksFrom
    <3>3. walks' \in Seq(Walk)
      BY <3>1, <3>2, SeqMonotonic
    <3>4. \A i \in DOMAIN walks' : walks'[i] \in WalksFrom(visit.stop, visit.time)
      BY <3>1, ElementOfSeq, LenProperties
    <3>5. ASSUME NEW i \in DOMAIN walks'
          PROVE  walks'[i].parent = visit.stop /\ at.time <= walks'[i].time
      <4>1. /\ walks'[i] \in Walk /\ walks'[i].parent = visit.stop
            /\ visit.time <= walks'[i].time
        BY <3>4 DEF WalksFrom
      <4>2. at.time \in Int /\ visit.time \in Int /\ walks'[i].time \in Int
        BY <1>4, <4>1, WidthAssumption DEF Walk, Seconds, TypeOK
      <4> QED
        BY <1>4, <4>1, <4>2
    <3> QED
      BY <3>3, <3>5
  <2> QED
    BY <2>1, <2>2
<1>8. InputOK' /\ TypeOK'
  BY <1>1, <1>3, <1>5, <1>6, <1>7 DEF InputOK, TypeOK
<1>9. HandlesLive'
  BY <1>1, <1>6 DEF HandlesLive
<1>10. Starting'
  BY <1>1, <1>2, <1>4, <1>6, ReachOrder DEF Starting, NoStarts, TypeOK
<1>11. VisitsAhead' /\ WalksAhead' /\ LinesOfStop' /\ WalkersReached'
  BY <1>1, <1>3, <1>5, <1>7 DEF VisitsAhead, WalksAhead, LinesOfStop, WalkersReached
<1>12. ParentsReached' /\ BoardedReached' /\ PathReached' /\ DestinationReached'
  BY <1>1, <1>4, <1>5, <1>6 DEF ParentsReached, BoardedReached, PathReached, DestinationReached
<1> QED
  BY <1>6, <1>8, <1>9, <1>10, <1>11, <1>12

LEMMA WalkToInvariant == IInv /\ WalkTo => IInv'
<1> SUFFICES ASSUME IInv, WalkTo PROVE IInv'
  OBVIOUS
<1> USE DEF IInv, SearchInv
<1> DEFINE walk == Head(walks)
           via == [parent |-> walk.parent, line |-> WALKING_TRANSFER, departure |-> walk.departure]
<1>1. /\ UNCHANGED << timetable, query, best, destination, origins, starts, at, lines, ride,
                      visits, path >>
      /\ pc = "run" /\ walks # << >> /\ walks' = Tail(walks)
      /\ Reach(walk.stop, walk.time, via)
  BY DEF WalkTo
<1>2. /\ walk \in Walk /\ Tail(walks) \in Seq(Walk)
      /\ \A i \in DOMAIN Tail(walks) : i + 1 \in DOMAIN walks /\ Tail(walks)[i] = walks[i + 1]
      /\ 1 \in DOMAIN walks /\ walk = walks[1]
  BY <1>1, HeadTailProperties, LenProperties DEF TypeOK
<1>3. /\ walk.stop \in Stops /\ walk.time \in Seconds /\ via \in MetaData
      /\ at.time <= walk.time /\ walk.parent \in ReachedStops
  BY <1>2 DEF Walk, MetaData, WALKING_TRANSFER, WalksAhead, WalkersReached
<1>4. /\ HeapOK' /\ ReachedStops' = ReachedStops \cup {walk.stop}
      /\ \A other \in ReachedStops' :
           \/ other \in ReachedStops /\ heap'.label[other] = heap.label[other]
           \/ other = walk.stop /\ heap'.label[other] = [key |-> walk.time, data |-> via]
  BY <1>1, <1>3, ReachType DEF TypeOK
<1>5. SettledBelow' /\ QueuedAbove' /\ pc' = pc /\ Settled' = Settled
  BY <1>1, <1>3, ReachOrder DEF TypeOK
<1>6. InputOK' /\ TypeOK'
  BY <1>1, <1>2, <1>4, <1>5 DEF InputOK, TypeOK
<1>7. HandlesLive' /\ Starting'
  BY <1>1, <1>5 DEF HandlesLive, Starting, NoStarts
<1>8. VisitsAhead' /\ WalksAhead' /\ LinesOfStop' /\ WalkersReached'
  BY <1>1, <1>2, <1>4 DEF VisitsAhead, WalksAhead, LinesOfStop, WalkersReached
<1>9. ParentsReached' /\ BoardedReached' /\ PathReached' /\ DestinationReached'
  BY <1>1, <1>3, <1>4, <1>5 DEF ParentsReached, BoardedReached, PathReached, DestinationReached
<1> QED
  BY <1>5, <1>6, <1>7, <1>8, <1>9

LEMMA ExtractPathInvariant == IInv /\ ExtractPath => IInv'
<1> SUFFICES ASSUME IInv, ExtractPath PROVE IInv'
  OBVIOUS
<1> USE DEF IInv, SearchInv
<1> DEFINE parent == Parent(Head(path).stop)
           entry == Entry(parent, heap.label[parent])
<1>1. /\ UNCHANGED << timetable, query, heap, best, destination, origins, starts, at, lines, ride,
                      visits, walks >>
      /\ pc = "extract" /\ pc' \in {"extract", "done"}
      /\ path' = << entry >> \o path
  BY DEF ExtractPath, search
<1>2. path \in Seq(PathEntry) /\ path # << >> /\ \A i \in DOMAIN path : path[i].stop \in ReachedStops
  BY <1>1 DEF TypeOK, PathReached
<1>3. Head(path).stop \in ReachedStops
  BY <1>2
<1>4. parent \in ReachedStops /\ parent \in Stops
  BY <1>3 DEF Parent, ParentsReached, TypeOK, HeapOK
<1>5. entry \in PathEntry /\ entry.stop \in ReachedStops
  <2>1. heap.label[parent] \in [key : Seconds, data : MetaData]
    BY <1>4 DEF TypeOK, HeapOK
  <2> QED
    BY <1>4, <2>1 DEF Entry, PathEntry, MetaData
<1>6. path' \in Seq(PathEntry) /\ path' # << >> /\ \A i \in DOMAIN path' : path'[i].stop \in ReachedStops
  <2> HIDE DEF entry
  <2>1. << entry >> \in Seq(PathEntry) /\ Len(<< entry >>) = 1 /\ << entry >>[1] = entry
    BY <1>5
  <2>2. /\ path' \in Seq(PathEntry)
        /\ Len(path') = 1 + Len(path)
        /\ \A i \in 1 .. 1 + Len(path) : path'[i] = IF i <= 1 THEN << entry >>[i] ELSE path[i - 1]
    BY <1>1, <1>2, <2>1, ConcatProperties
  <2>3. Len(path) \in Nat /\ DOMAIN path = 1 .. Len(path) /\ DOMAIN path' = 1 .. Len(path')
    BY <1>2, <2>2, LenProperties
  <2>4. path' # << >>
    BY <2>2, <2>3
  <2>5. ASSUME NEW i \in DOMAIN path' PROVE path'[i].stop \in ReachedStops
    <3>1. CASE i = 1
      <4>1. 1 \in 1 .. 1 + Len(path)
        BY <2>3
      <4>2. path'[1] = entry
        BY <2>1, <2>2, <4>1
      <4> QED
        BY <1>5, <3>1, <4>2
    <3>2. CASE i # 1
      <4>1. i \in 1 .. 1 + Len(path) /\ ~ (i <= 1) /\ i - 1 \in DOMAIN path
        BY <2>2, <2>3, <3>2
      <4>2. path'[i] = path[i - 1]
        BY <2>2, <4>1
      <4> QED
        BY <1>2, <4>1, <4>2
    <3> QED
      BY <3>1, <3>2
  <2> QED
    BY <2>2, <2>4, <2>5
<1>7. ReachedStops' = ReachedStops /\ Settled' = Settled
  BY <1>1 DEF ReachedStops, Settled
<1>8. InputOK' /\ TypeOK'
  BY <1>1, <1>6, <1>7 DEF InputOK, TypeOK, HeapOK
<1>9. HandlesLive' /\ SettledBelow' /\ QueuedAbove' /\ Starting'
  BY <1>1, <1>7 DEF HandlesLive, SettledBelow, QueuedAbove, Starting, NoStarts, Key
<1>10. VisitsAhead' /\ WalksAhead' /\ LinesOfStop' /\ WalkersReached'
  BY <1>1, <1>7 DEF VisitsAhead, WalksAhead, LinesOfStop, WalkersReached
<1>11. ParentsReached' /\ BoardedReached' /\ PathReached' /\ DestinationReached'
  BY <1>1, <1>6, <1>7 DEF ParentsReached, BoardedReached, PathReached, DestinationReached
<1> QED
  BY <1>8, <1>9, <1>10, <1>11

LEMMA StutterInvariant == IInv /\ UNCHANGED vars => IInv'
BY DEF IInv, SearchInv, vars, InputOK, TypeOK, HeapOK, ReachedStops, Settled, HandlesLive, SettledBelow,
       QueuedAbove, Starting, NoStarts, VisitsAhead, WalksAhead, LinesOfStop, WalkersReached,
       ParentsReached, BoardedReached, PathReached, DestinationReached, Key

LEMMA NextInvariant == IInv /\ [Next]_vars => IInv'
<1> SUFFICES ASSUME IInv, [Next]_vars PROVE IInv'
  OBVIOUS
<1>1. CASE AddOrigin
  BY <1>1, AddOriginInvariant
<1>2. CASE AddStart
  BY <1>2, AddStartInvariant
<1>3. CASE Settle
  BY <1>3, SettleInvariant
<1>4. CASE BreakEarly
  BY <1>4, BreakEarlyInvariant
<1>5. CASE HeapEmpty
  BY <1>5, HeapEmptyInvariant
<1>6. CASE TraverseLine
  BY <1>6, TraverseLineInvariant
<1>7. CASE RideTo
  BY <1>7, RideToInvariant
<1>8. CASE WalkTo
  BY <1>8, WalkToInvariant
<1>9. CASE ExtractPath
  BY <1>9, ExtractPathInvariant
<1>10. CASE Returned \/ UNCHANGED vars
  BY <1>10, StutterInvariant DEF Returned
<1> QED
  BY <1>1, <1>2, <1>3, <1>4, <1>5, <1>6, <1>7, <1>8, <1>9, <1>10 DEF Next

-----------------------------------------------------------------------------
(* The theorems                                                             *)

\* The strengthening that the three theorems below follow from.
THEOREM Invariance == Spec => []IInv
<1>1. Init => IInv
  BY InitInvariant
<1>2. IInv /\ [Next]_vars => IInv'
  BY NextInvariant
<1> QED
  BY <1>1, <1>2, PTL DEF Spec

\* Labels behind, visits and walks ahead: the invariant of the search itself.
THEOREM SearchInvariant == Spec => []SearchInv
<1>1. IInv => SearchInv
  BY DEF IInv
<1> QED
  BY <1>1, Invariance, PTL

\* The router's state is always well typed.
THEOREM TypeCorrect == Spec => []TypeOK
<1>1. IInv => TypeOK
  BY DEF IInv, SearchInv
<1> QED
  BY <1>1, Invariance, PTL

\* decrease_key never meets the null handle of a settled stop.
THEOREM HandlesStayLive == Spec => []HandlesLive
<1>1. IInv => HandlesLive
  BY DEF IInv, SearchInv
<1> QED
  BY <1>1, Invariance, PTL

\* Stops are settled in the order of their arrival.
THEOREM SettlesInOrder == Spec => []SettledInOrder
<1>1. IInv => SettledInOrder
  <2> SUFFICES ASSUME IInv, NEW stop \in Settled, NEW other \in heap.queued
               PROVE  Key(heap, stop) <= Key(heap, other)
    BY DEF SettledInOrder
  <2>1. Key(heap, stop) <= at.time /\ at.time <= Key(heap, other)
    BY DEF IInv, SearchInv, SettledBelow, QueuedAbove
  <2>2. Key(heap, stop) \in Int /\ Key(heap, other) \in Int /\ at.time \in Int
    BY WidthAssumption DEF IInv, SearchInv, TypeOK, HeapOK, Settled, ReachedStops, Key, Seconds
  <2> QED
    BY <2>1, <2>2
<1> QED
  BY <1>1, Invariance, PTL

\* No step of the search changes the label of a settled stop.
THEOREM SettledLabelsAreFinal == Spec => SettledIsFinal
<1> DEFINE Final == \A stop \in Settled : heap'.label[stop] = heap.label[stop]
<1>1. IInv /\ [Next]_vars => [Final]_vars
  <2> SUFFICES ASSUME IInv, [Next]_vars PROVE Final
    OBVIOUS
  <2> USE DEF IInv, SearchInv
  <2>1. CASE AddStart
    \* nothing is settled yet
    BY <2>1 DEF AddStart, Starting, NoStarts
  <2>2. CASE Settle
    BY <2>2 DEF Settle, DeleteMin
  <2>3. CASE RideTo
    <3>1. PICK boarded \in ride.parent :
            Reach(Head(visits).stop, Head(visits).time,
                  [parent |-> boarded, line |-> ride.line, departure |-> ride.departure])
      BY <2>3 DEF RideTo
    <3>2. visits # << >> /\ at' = at
      BY <2>3 DEF RideTo
    <3>3. Head(visits) \in Visit /\ at.time <= Head(visits).time
      BY <3>2, HeadTailProperties, LenProperties DEF TypeOK, VisitsAhead
    <3>4. [parent |-> boarded, line |-> ride.line, departure |-> ride.departure] \in MetaData
      BY <3>1 DEF TypeOK, MetaData
    <3> QED
      BY <3>1, <3>2, <3>3, <3>4, ReachOrder DEF TypeOK, Visit
  <2>4. CASE WalkTo
    <3>1. Reach(Head(walks).stop, Head(walks).time,
                [parent |-> Head(walks).parent, line |-> WALKING_TRANSFER,
                 departure |-> Head(walks).departure])
          /\ walks # << >> /\ at' = at
      BY <2>4 DEF WalkTo
    <3>2. Head(walks) \in Walk /\ at.time <= Head(walks).time
      BY <3>1, HeadTailProperties, LenProperties DEF TypeOK, WalksAhead
    <3>3. [parent |-> Head(walks).parent, line |-> WALKING_TRANSFER,
           departure |-> Head(walks).departure] \in MetaData
      BY <3>2 DEF Walk, MetaData, WALKING_TRANSFER
    <3> QED
      BY <3>1, <3>2, <3>3, ReachOrder DEF TypeOK, Walk
  <2>5. CASE UNCHANGED heap
    BY <2>5
  <2>6. AddOrigin \/ BreakEarly \/ HeapEmpty \/ TraverseLine \/ ExtractPath \/ Returned
           \/ UNCHANGED vars => UNCHANGED heap
    BY DEF AddOrigin, BreakEarly, HeapEmpty, TraverseLine, ExtractPath, Returned, search, vars
  <2> QED
    BY <2>1, <2>2, <2>3, <2>4, <2>5, <2>6 DEF Next
<1> QED
  BY <1>1, Invariance, PTL DEF Spec, SettledIsFinal

-----------------------------------------------------------------------------
(* Journeys                                                                 *)

\* the stops of a station belong to it
Grouped(table) ==
    \A stop \in Stops :
        LET station == table.stops[table.station[stop]]
        IN  \A i \in DOMAIN station : table.station[station[i]] = table.station[stop]

ASSUME GroupedAssumption == \A table \in TimeTables : Grouped(table)

-----------------------------------------------------------------------------
(* The inductive invariant of the paths                                     *)

\* a label is a start, or what its parent was left for in time
LabelFits(stop, label) ==
    \/ label.data.line = WALKING_TRANSFER /\ StartedAt(stop, label)
    \/ /\ label.data.parent \in ReachedStops \ {stop}
       /\ Key(heap, label.data.parent) <= label.data.departure
       /\ label.data.departure <= label.key
       /\ IF label.data.line = WALKING_TRANSFER THEN WalkedTo(stop, label) ELSE RodeTo(stop, label)

LabelsFit == \A stop \in ReachedStops : LabelFits(stop, heap.label[stop])

\* what add_stops has left
OriginsOfQuery ==
    \A i \in DOMAIN origins : \E k \in DOMAIN query.origins : origins[i] = query.origins[k]
StartsOfQuery ==
    \A i \in DOMAIN starts :
        \E k \in DOMAIN query.origins :
            /\ starts[i].time = Plus(query.departure, query.origins[k].seconds)
            /\ timetable.station[starts[i].stop] = timetable.station[query.origins[k].stop]

SettledAt == \A stop \in at.stop : stop \in Settled /\ at.time = Key(heap, stop)

\* what is left of the trip is on one that the line offers where it was boarded
OnTrip ==
    visits # << >> =>
        /\ ride.parent # {}
        /\ at.time <= ride.departure
        /\ \A boarded \in ride.parent :
            /\ boarded \in at.stop
            /\ \E i \in DOMAIN timetable.stop_to_line[boarded] :
                  timetable.stop_to_line[boarded][i] = ride.line
            /\ \E trip \in Get(timetable.lines[ride.line], boarded, at.time) :
                  /\ trip.departure = ride.departure
                  /\ \A k \in DOMAIN visits :
                        /\ ride.departure <= visits[k].time
                        /\ \E i \in DOMAIN Visits(trip) : Visits(trip)[i] = visits[k]

\* what is left to be walked goes on from the stop that was improved last
OnFoot ==
    \A k \in DOMAIN walks :
        /\ Key(heap, walks[k].parent) <= walks[k].departure
        /\ walks[k].departure <= walks[k].time
        /\ \E i \in DOMAIN Walks(walks[k].parent, walks[k].departure) :
              /\ Walks(walks[k].parent, walks[k].departure)[i].stop = walks[k].stop
              /\ Walks(walks[k].parent, walks[k].departure)[i].time = walks[k].time

\* what is extracted are labels along their parents
PathOfLabels ==
    pc \in {"extract", "done"} /\ path # << >> =>
        /\ \A i \in DOMAIN path :
              path[i].stop \in ReachedStops /\ path[i] = Entry(path[i].stop, heap.label[path[i].stop])
        /\ \A i \in 1 .. Len(path) - 1 : path[i].stop = Parent(path[i + 1].stop)
        /\ pc = "done" => Parent(path[1].stop) = path[1].stop
        /\ path[Len(path)].stop \in destination

\* a path is extracted after everything else
PathLast ==
    /\ pc = "run" => path = << >>
    /\ pc # "run" => NoStarts /\ lines = << >> /\ NoVisits

PathInv ==
    /\ LabelsFit
    /\ OriginsOfQuery /\ StartsOfQuery
    /\ SettledAt /\ OnTrip /\ OnFoot
    /\ PathOfLabels /\ PathLast

PInv == IInv /\ PathInv

-----------------------------------------------------------------------------
(* What later labels leave of a journey                                     *)

\* what every step makes of the labels
Later ==
    /\ timetable' = timetable /\ query' = query
    /\ ReachedStops \subseteq ReachedStops' /\ Settled \subseteq Settled'
    /\ \A stop \in Settled : heap'.label[stop] = heap.label[stop]
    /\ \A stop \in ReachedStops : Key(heap, stop)' <= Key(heap, stop)

\* The times of labels can be compared.
LEMMA KeysAreTimes ==
    ASSUME HeapOK
    PROVE  \A stop \in ReachedStops : /\ heap.label[stop] \in [key : Seconds, data : MetaData]
                                      /\ Key(heap, stop) \in Int
<1>1. \A stop \in ReachedStops : heap.label[stop] \in [key : Seconds, data : MetaData]
  BY DEF HeapOK
<1> QED
  BY <1>1, WidthAssumption DEF Seconds, Key

LEMMA WalksStay ==
    ASSUME timetable' = timetable, NEW stop, NEW time
    PROVE  Walks(stop, time)' = Walks(stop, time)
  BY DEF Walks, TransferWalks, StationWalks

\* A journey that ends in a label stays one when labels are added, improved and settled.
LEMMA FitStays ==
    ASSUME HeapOK, HeapOK', Later, NEW stop, NEW label, label.data.departure \in Int,
           LabelFits(stop, label)
    PROVE  LabelFits(stop, label)'
<1> DEFINE parent == label.data.parent
<1>1. CASE label.data.line = WALKING_TRANSFER /\ StartedAt(stop, label)
  BY <1>1 DEF LabelFits, StartedAt, Later
<1>2. CASE /\ parent \in ReachedStops \ {stop}
           /\ Key(heap, parent) <= label.data.departure
           /\ label.data.departure <= label.key
           /\ IF label.data.line = WALKING_TRANSFER THEN WalkedTo(stop, label)
              ELSE RodeTo(stop, label)
  <2>1. parent \in ReachedStops'
    BY <1>2 DEF Later
  <2>2. Key(heap, parent)' <= label.data.departure
    <3>1. Key(heap, parent)' <= Key(heap, parent)
      BY <1>2 DEF Later
    <3>2. Key(heap, parent) \in Int
      BY <1>2, KeysAreTimes
    <3>3. Key(heap, parent)' \in Int
      BY <2>1, WidthAssumption DEF HeapOK, Key, Seconds
    <3> QED
      BY <1>2, <3>1, <3>2, <3>3
  <2>3. WalkedTo(stop, label) => WalkedTo(stop, label)'
    <3>1. Walks(parent, label.data.departure)' = Walks(parent, label.data.departure)
      BY WalksStay DEF Later
    <3> QED
      BY <1>2, <2>1, <2>2, <3>1 DEF WalkedTo
  <2>4. RodeTo(stop, label) => RodeTo(stop, label)'
    BY DEF RodeTo, Later, Key
  <2> QED
    BY <1>2, <2>1, <2>2, <2>3, <2>4 DEF LabelFits
<1> QED
  BY <1>1, <1>2 DEF LabelFits

\* Whoever reaches a stop no later than it is left leaves the journeys to it as they are.
LEMMA ReachLater ==
    ASSUME IInv, timetable' = timetable, query' = query, at' = at,
           NEW stop \in Stops, NEW time \in Seconds, NEW via \in MetaData,
           at.time <= time, Reach(stop, time, via)
    PROVE  /\ Later /\ HeapOK' /\ Settled' = Settled /\ pc' = pc
           /\ ReachedStops' = ReachedStops \cup {stop}
           /\ Improves(stop, time) => heap'.label[stop] = [key |-> time, data |-> via]
           /\ ~ Improves(stop, time) => heap' = heap
           /\ \A other \in ReachedStops \ {stop} : heap'.label[other] = heap.label[other]
<1> USE DEF IInv, SearchInv
<1>1. /\ HeapOK' /\ ReachedStops' = ReachedStops \cup {stop}
      /\ \A other \in ReachedStops' :
           \/ other \in ReachedStops /\ heap'.label[other] = heap.label[other]
           \/ other = stop /\ heap'.label[other] = [key |-> time, data |-> via]
  BY ReachType DEF TypeOK
<1>2. /\ pc' = pc /\ Settled' = Settled
      /\ \A other \in Settled : heap'.label[other] = heap.label[other]
  BY ReachOrder DEF TypeOK
<1>3. pc # "crashed"
  BY DEF HandlesLive
<1>4. ~ Improves(stop, time) => heap' = heap
  BY DEF Improves, Reach
<1>5. Improves(stop, time) => heap'.label[stop] = [key |-> time, data |-> via]
  <2>1. CASE ~ Reached(heap, stop)
    BY <2>1 DEF Reach, Insert, Relabel
  <2>2. CASE Lowers(stop, time)
    <3>1. Queued(heap, stop)
      BY <1>2, <1>3, <2>2 DEF Reach
    <3>2. Reached(heap, stop)
      BY <2>2 DEF Lowers
    <3> QED
      BY <2>2, <3>1, <3>2 DEF Reach, DecreaseKey, Relabel
  <2> QED
    BY <2>1, <2>2 DEF Improves
<1>6. \A other \in ReachedStops : Key(heap, other)' <= Key(heap, other)
  <2> SUFFICES ASSUME NEW other \in ReachedStops
               PROVE  Key(heap, other)' <= Key(heap, other)
    OBVIOUS
  <2>1. Key(heap, other) \in Int
    BY KeysAreTimes DEF TypeOK
  <2>2. CASE heap'.label[other] = heap.label[other]
    BY <2>1, <2>2 DEF Key
  <2>3. CASE other = stop /\ Improves(stop, time)
    <3>1. Key(heap, other)' = time
      BY <1>5, <2>3 DEF Key
    <3>2. time < Key(heap, other)
      BY <2>3 DEF Improves, Lowers, Reached, ReachedStops
    <3>3. time \in Int
      BY WidthAssumption DEF Seconds
    <3> QED
      BY <2>1, <3>1, <3>2, <3>3
  <2> QED
    BY <1>1, <1>4, <2>2, <2>3
<1> QED
  BY <1>1, <1>2, <1>4, <1>5, <1>6 DEF Later

\* A step keeps the labels fitting if it gives the stop it reaches a fitting one.
LEMMA ReachFits ==
    ASSUME IInv, LabelsFit, timetable' = timetable, query' = query, at' = at,
           NEW stop \in Stops, NEW time \in Seconds, NEW via \in MetaData,
           at.time <= time, Reach(stop, time, via),
           Improves(stop, time) => LabelFits(stop, [key |-> time, data |-> via])
    PROVE  LabelsFit'
<1>1. /\ Later /\ HeapOK' /\ HeapOK
      /\ ReachedStops' = ReachedStops \cup {stop}
      /\ Improves(stop, time) => heap'.label[stop] = [key |-> time, data |-> via]
      /\ ~ Improves(stop, time) => heap' = heap
      /\ \A other \in ReachedStops \ {stop} : heap'.label[other] = heap.label[other]
  BY ReachLater DEF IInv, SearchInv, TypeOK
<1> SUFFICES ASSUME NEW other \in ReachedStops'
             PROVE  LabelFits(other, heap.label[other])'
  BY DEF LabelsFit
<1>2. PICK label : label = heap'.label[other]
  OBVIOUS
<1>3. label.data.departure \in Int
  <2>1. label \in [key : Seconds, data : MetaData]
    BY <1>1, <1>2 DEF HeapOK
  <2> QED
    BY <2>1, WidthAssumption DEF MetaData, Seconds
<1>4. LabelFits(other, label)
  <2>1. CASE other = stop /\ Improves(stop, time)
    BY <1>1, <1>2, <2>1
  <2>2. CASE ~ (other = stop /\ Improves(stop, time))
    <3>1. other \in ReachedStops /\ label = heap.label[other]
      BY <1>1, <1>2, <2>2 DEF Improves, Reached, ReachedStops
    <3> QED
      BY <3>1 DEF LabelsFit
  <2> QED
    BY <2>1, <2>2
<1>5. LabelFits(other, label)'
  BY <1>1, <1>3, <1>4, FitStays
<1> QED
  BY <1>2, <1>5

\* Steps that reach nothing keep the labels fitting.
LEMMA SameLabelsFit ==
    ASSUME IInv, HeapOK', LabelsFit, Later, ReachedStops' = ReachedStops, heap'.label = heap.label
    PROVE  LabelsFit'
<1> SUFFICES ASSUME NEW stop \in ReachedStops
             PROVE  LabelFits(stop, heap.label[stop])'
  BY DEF LabelsFit
<1>1. PICK label : label = heap.label[stop]
  OBVIOUS
<1>2. HeapOK /\ label.data.departure \in Int
  BY <1>1, KeysAreTimes, WidthAssumption DEF IInv, SearchInv, TypeOK, MetaData, Seconds
<1>3. LabelFits(stop, label)'
  BY <1>1, <1>2, FitStays DEF LabelsFit
<1> QED
  BY <1>1, <1>3

\* Walks that are still to be walked stay walks.
LEMMA FootStays ==
    ASSUME IInv, HeapOK', Later, OnFoot,
           \A k \in DOMAIN walks' : \E i \in DOMAIN walks : walks'[k] = walks[i]
    PROVE  OnFoot'
<1> SUFFICES ASSUME NEW k \in DOMAIN walks'
             PROVE  /\ Key(heap, walks[k].parent)' <= walks'[k].departure
                    /\ walks'[k].departure <= walks'[k].time
                    /\ \E i \in DOMAIN Walks(walks[k].parent, walks[k].departure)' :
                          /\ Walks(walks[k].parent, walks[k].departure)'[i].stop = walks'[k].stop
                          /\ Walks(walks[k].parent, walks[k].departure)'[i].time = walks'[k].time
  BY DEF OnFoot
<1>1. PICK i \in DOMAIN walks : walks'[k] = walks[i]
  OBVIOUS
<1>2. PICK walk : walk = walks[i] /\ walk = walks'[k]
  BY <1>1
<1>3. /\ walk.parent \in ReachedStops /\ Key(heap, walk.parent) <= walk.departure
      /\ walk.departure <= walk.time
      /\ \E j \in DOMAIN Walks(walk.parent, walk.departure) :
            /\ Walks(walk.parent, walk.departure)[j].stop = walk.stop
            /\ Walks(walk.parent, walk.departure)[j].time = walk.time
  BY <1>2 DEF OnFoot, IInv, SearchInv, WalkersReached
<1>4. walk \in Walk
  BY <1>2, ElementOfSeq, LenProperties DEF IInv, SearchInv, TypeOK
<1>5. Key(heap, walk.parent)' <= walk.departure
  <2>1. Key(heap, walk.parent)' <= Key(heap, walk.parent) /\ walk.parent \in ReachedStops'
    BY <1>3 DEF Later
  <2>2. Key(heap, walk.parent) \in Int /\ walk.departure \in Int
    BY <1>3, <1>4, KeysAreTimes, WidthAssumption DEF IInv, SearchInv, TypeOK, Walk, Seconds
  <2>3. Key(heap, walk.parent)' \in Int
    BY <2>1, WidthAssumption DEF HeapOK, Key, Seconds
  <2> QED
    BY <1>3, <2>1, <2>2, <2>3
<1>6. Walks(walk.parent, walk.departure)' = Walks(walk.parent, walk.departure)
  BY WalksStay DEF Later
<1>7. Walks(walks[k].parent, walks[k].departure)' = Walks(walk.parent, walk.departure)'
  BY <1>2 DEF Walks, TransferWalks, StationWalks
<1>8. Key(heap, walks[k].parent)' = Key(heap, walk.parent)'
  BY <1>2 DEF Key
<1> QED
  BY <1>2, <1>3, <1>5, <1>6, <1>7, <1>8

-----------------------------------------------------------------------------
(* The invariant holds at the start                                         *)

LEMMA InitPaths == Init => PathInv
<1> SUFFICES ASSUME Init PROVE PathInv
  OBVIOUS
<1>1. ReachedStops = {}
  BY DEF Init, Empty, ReachedStops
<1>2. LabelsFit /\ SettledAt /\ OnTrip /\ OnFoot
  BY <1>1 DEF Init, LabelsFit, SettledAt, OnTrip, OnFoot
<1>3. OriginsOfQuery /\ StartsOfQuery
  BY DEF Init, OriginsOfQuery, StartsOfQuery
<1>4. PathOfLabels /\ PathLast
  BY DEF Init, PathOfLabels, PathLast, NoStarts, NoVisits
<1> QED
  BY <1>2, <1>3, <1>4 DEF PathInv

-----------------------------------------------------------------------------
(* Every action keeps the invariant                                         *)

LEMMA AddOriginPaths == PInv /\ IInv' /\ AddOrigin => PathInv'
<1> SUFFICES ASSUME PInv, IInv', AddOrigin PROVE PathInv'
  OBVIOUS
<1> USE DEF PInv, PathInv
<1>1. /\ UNCHANGED << timetable, query, pc, heap, best, destination, at, lines, ride, visits,
                      walks, path >>
      /\ pc = "run" /\ origins # << >> /\ origins' = Tail(origins)
  BY DEF AddOrigin
<1>2. Later /\ ReachedStops' = ReachedStops /\ HeapOK'
  <2>1. \A stop \in ReachedStops : Key(heap, stop) \in Int
    BY KeysAreTimes DEF IInv, SearchInv, TypeOK
  <2> QED
    BY <1>1, <2>1 DEF Later, ReachedStops, Settled, Key, IInv, SearchInv, TypeOK
<1>3. LabelsFit'
  BY <1>1, <1>2, SameLabelsFit
<1>4. /\ origins \in Seq(ADLeg) /\ Head(origins) = origins[1] /\ 1 \in DOMAIN origins
      /\ \A i \in DOMAIN Tail(origins) : i + 1 \in DOMAIN origins /\ Tail(origins)[i] = origins[i + 1]
  BY <1>1, HeadTailProperties, LenProperties DEF IInv, SearchInv, TypeOK
<1>5. OriginsOfQuery'
  BY <1>1, <1>4 DEF OriginsOfQuery
<1>6. StartsOfQuery'
  <2> DEFINE origin == Head(origins)
             station == timetable.stops[timetable.station[origin.stop]]
  <2>1. PICK k \in DOMAIN query.origins : origin = query.origins[k]
    BY <1>4 DEF OriginsOfQuery
  <2>2. origin.stop \in Stops
    <3>1. origin \in ADLeg
      BY <1>1, <1>4, HeadTailProperties
    <3> QED
      BY <3>1 DEF ADLeg
  <2>3. station \in Seq(Stops)
    BY <2>2, InputTypes DEF IsTimeTable, IInv
  <2>4. \A i \in DOMAIN station : timetable.station[station[i]] = timetable.station[origin.stop]
    BY <2>2, GroupedAssumption DEF IInv, InputOK, Grouped
  <2>5. starts' = [ i \in 1 .. Len(station) |->
                      [stop |-> station[i], time |-> Plus(query.departure, origin.seconds)] ]
    BY DEF AddOrigin
  <2>6. DOMAIN station = 1 .. Len(station)
    BY <2>3, LenProperties
  <2> HIDE DEF station, origin
  <2> SUFFICES ASSUME NEW i \in DOMAIN starts'
               PROVE  /\ starts'[i].time = Plus(query.departure, query.origins[k].seconds)
                      /\ timetable.station[starts'[i].stop] = timetable.station[query.origins[k].stop]
    BY <1>1, <2>1 DEF StartsOfQuery
  <2> QED
    BY <2>1, <2>4, <2>5, <2>6
<1>7. SettledAt' /\ OnTrip'
  BY <1>1 DEF SettledAt, OnTrip, Settled, ReachedStops, Key
<1>8. OnFoot'
  BY <1>1, <1>2, FootStays
<1>9. PathOfLabels' /\ PathLast'
  BY <1>1 DEF PathOfLabels, PathLast
<1> QED
  BY <1>3, <1>5, <1>6, <1>7, <1>8, <1>9

LEMMA AddStartPaths == PInv /\ IInv' /\ AddStart => PathInv'
<1> SUFFICES ASSUME PInv, IInv', AddStart PROVE PathInv'
  OBVIOUS
<1> USE DEF PInv, PathInv
<1> DEFINE start == Head(starts)
           via == [parent |-> start.stop, line |-> WALKING_TRANSFER,
                   departure |-> query.departure]
<1>1. /\ UNCHANGED << timetable, query, best, destination, origins, at, lines, ride, visits,
                      walks, path >>
      /\ starts # << >> /\ starts' = Tail(starts)
      /\ Reach(start.stop, start.time, via)
      /\ pc = "run"
  BY DEF AddStart
<1>2. /\ start \in Start /\ start = starts[1] /\ 1 \in DOMAIN starts
      /\ \A i \in DOMAIN Tail(starts) : i + 1 \in DOMAIN starts /\ Tail(starts)[i] = starts[i + 1]
  BY <1>1, HeadTailProperties, LenProperties DEF IInv, SearchInv, TypeOK
<1>3. start.stop \in Stops /\ start.time \in Seconds /\ via \in MetaData
  BY <1>2, InputTypes DEF Start, MetaData, WALKING_TRANSFER, IsQuery, IInv
<1>4. at.time <= start.time
  BY <1>1, <1>3, WidthAssumption DEF IInv, SearchInv, Starting, NoStarts, Seconds
<1>5. LabelFits(start.stop, [key |-> start.time, data |-> via])
  BY <1>2 DEF LabelFits, StartedAt, StartsOfQuery
<1>6. Later /\ HeapOK' /\ Settled' = Settled /\ pc' = pc
  BY <1>1, <1>3, <1>4, ReachLater
<1>7. LabelsFit'
  BY <1>1, <1>3, <1>4, <1>5, ReachFits
<1>8. OriginsOfQuery' /\ StartsOfQuery'
  BY <1>1, <1>2 DEF OriginsOfQuery, StartsOfQuery
<1>9. SettledAt' /\ OnTrip'
  BY <1>1, <1>6 DEF SettledAt, OnTrip, Later, Key
<1>10. OnFoot'
  BY <1>1, <1>6, FootStays
<1>11. PathOfLabels' /\ PathLast'
  BY <1>1, <1>6 DEF PathOfLabels, PathLast, NoVisits
<1> QED
  BY <1>7, <1>8, <1>9, <1>10, <1>11

LEMMA SettlePaths == PInv /\ IInv' /\ Settle => PathInv'
<1> SUFFICES ASSUME PInv, IInv', Settle PROVE PathInv'
  OBVIOUS
<1> USE DEF PInv, PathInv
<1>1. /\ UNCHANGED << timetable, query, pc, origins, starts, ride, visits, walks, path >>
      /\ pc = "run" /\ visits = << >> /\ walks = << >>
  BY DEF Settle, AtLoopHead, NoVisits
<1>2. PICK stop \in heap.queued :
        /\ at' = [stop |-> {stop}, time |-> Key(heap, stop)]
        /\ heap' = DeleteMin(heap, stop)
  BY DEF Settle, Minimum
<1>3. /\ ReachedStops' = ReachedStops /\ heap'.label = heap.label
      /\ Settled' = Settled \cup {stop} /\ stop \in ReachedStops /\ stop \in Stops
  BY <1>2 DEF DeleteMin, ReachedStops, Settled, IInv, SearchInv, TypeOK, HeapOK
<1>4. Later /\ HeapOK'
  <2>1. \A other \in ReachedStops : Key(heap, other) \in Int
    BY KeysAreTimes DEF IInv, SearchInv, TypeOK
  <2> QED
    BY <1>1, <1>3, <2>1 DEF Later, Key, IInv, SearchInv, TypeOK
<1>5. LabelsFit'
  BY <1>3, <1>4, SameLabelsFit
<1>6. OriginsOfQuery' /\ StartsOfQuery' /\ PathOfLabels' /\ OnTrip'
  BY <1>1 DEF OriginsOfQuery, StartsOfQuery, PathOfLabels, OnTrip
<1>7. SettledAt'
  BY <1>2, <1>3 DEF SettledAt, Key
<1>8. OnFoot' /\ PathLast'
  BY <1>1 DEF OnFoot, PathLast
<1> QED
  BY <1>5, <1>6, <1>7, <1>8

\* What handing over the answer makes of the path.
LEMMA FinishPaths ==
    ASSUME IInv, NEW target, target \subseteq Stops, Finish(target), destination' = target,
           heap' = heap,
           query.kind = "stops" =>
               \A stop \in target : stop \in ReachedStops \/ stop = query.destinations[1].stop
    PROVE  PathOfLabels' /\ pc' # "run"
<1> DEFINE asked == IF query.kind = "legs" THEN target ELSE { query.destinations[1].stop }
<1>1. CASE \A stop \in asked : Reached(heap, stop)
  <2>1. pc' = "extract"
    BY <1>1 DEF Finish
  <2>2. PICK stop \in target : path' = << Entry(stop, heap.label[stop]) >>
    BY <1>1 DEF Finish
  <2>3. stop \in ReachedStops
    BY <1>1, <2>2, InputTypes DEF Reached, ReachedStops, IsQuery, IInv
  <2>4. Entry(stop, heap.label[stop]).stop = stop
    BY DEF Entry
  <2>5. PICK entry : entry = Entry(stop, heap.label[stop])
    OBVIOUS
  <2>6. path' = << entry >> /\ entry.stop = stop
    BY <2>2, <2>4, <2>5
  <2>7. Len(path') = 1 /\ DOMAIN path' = {1} /\ path'[1] = entry
    BY <2>6
  <2>8. \A i \in DOMAIN path' : /\ path'[i].stop \in ReachedStops'
                                /\ path'[i] = Entry(path'[i].stop, heap'.label[path'[i].stop])
    BY <2>3, <2>5, <2>6, <2>7 DEF ReachedStops
  <2>9. 1 .. Len(path') - 1 = {}
    BY <2>7
  <2>10. path'[Len(path')].stop \in destination'
    BY <2>2, <2>6, <2>7
  <2> QED
    BY <2>1, <2>8, <2>9, <2>10 DEF PathOfLabels
<1>2. CASE ~ \A stop \in asked : Reached(heap, stop)
  BY <1>2 DEF Finish, PathOfLabels
<1> QED
  BY <1>1, <1>2

\* nothing but the answer is touched when the search ends
LEMMA EndPaths ==
    ASSUME PInv, IInv', AtLoopHead, PathOfLabels', pc' # "run",
           UNCHANGED << timetable, query, heap, origins, starts, at, lines, ride, visits, walks >>
    PROVE  PathInv'
<1> USE DEF PInv, PathInv
<1>1. Later /\ ReachedStops' = ReachedStops /\ HeapOK'
  <2>1. \A stop \in ReachedStops : Key(heap, stop) \in Int
    BY KeysAreTimes DEF IInv, SearchInv, TypeOK
  <2> QED
    BY <2>1 DEF Later, ReachedStops, Settled, Key, IInv, SearchInv, TypeOK
<1>2. LabelsFit'
  BY <1>1, SameLabelsFit
<1>3. OriginsOfQuery' /\ StartsOfQuery' /\ SettledAt' /\ OnTrip'
  BY DEF OriginsOfQuery, StartsOfQuery, SettledAt, OnTrip, Settled, ReachedStops, Key
<1>4. OnFoot' /\ PathLast'
  BY DEF AtLoopHead, NoVisits, NoStarts, OnFoot, PathLast
<1> QED
  BY <1>2, <1>3, <1>4

LEMMA BreakEarlyPaths == PInv /\ IInv' /\ BreakEarly => PathInv'
<1> SUFFICES ASSUME PInv, IInv', BreakEarly PROVE PathInv'
  OBVIOUS
<1>1. PICK stop \in heap.queued : Inspect(stop)
  BY DEF BreakEarly, Minimum
<1>2. /\ destination' \subseteq Stops
      /\ query.kind = "stops" =>
           \A other \in destination' :
               other \in ReachedStops \/ other = query.destinations[1].stop
  BY <1>1, InspectInvariant DEF PInv
<1>3. PathOfLabels' /\ pc' # "run"
  BY <1>2, FinishPaths DEF BreakEarly, PInv
<1> QED
  BY <1>3, EndPaths DEF BreakEarly

LEMMA HeapEmptyPaths == PInv /\ IInv' /\ HeapEmpty => PathInv'
<1> SUFFICES ASSUME PInv, IInv', HeapEmpty PROVE PathInv'
  OBVIOUS
<1>1. PathOfLabels' /\ pc' # "run"
  BY FinishPaths DEF HeapEmpty, PInv, IInv, SearchInv, TypeOK, DestinationReached
<1> QED
  BY <1>1, EndPaths DEF HeapEmpty

LEMMA TraverseLinePaths == PInv /\ IInv' /\ TraverseLine => PathInv'
<1> SUFFICES ASSUME PInv, IInv', TraverseLine PROVE PathInv'
  OBVIOUS
<1> USE DEF PInv, PathInv
<1>1. /\ UNCHANGED << timetable, query, pc, heap, best, destination, origins, starts, at, walks,
                      path >>
      /\ pc = "run" /\ lines # << >>
  BY DEF TraverseLine
<1>2. PICK stop \in at.stop :
        LET trips == Get(timetable.lines[Head(lines)], stop, at.time)
        IN  \/ trips = {} /\ UNCHANGED << ride, visits >>
            \/ \E trip \in trips :
                 /\ visits' = Visits(trip)
                 /\ ride' = [parent |-> {stop}, line |-> Head(lines), departure |-> trip.departure]
  BY DEF TraverseLine
<1>3. Later /\ ReachedStops' = ReachedStops /\ HeapOK'
  <2>1. \A other \in ReachedStops : Key(heap, other) \in Int
    BY KeysAreTimes DEF IInv, SearchInv, TypeOK
  <2> QED
    BY <1>1, <2>1 DEF Later, ReachedStops, Settled, Key, IInv, SearchInv, TypeOK
<1>4. LabelsFit'
  BY <1>1, <1>3, SameLabelsFit
<1>5. OriginsOfQuery' /\ StartsOfQuery' /\ SettledAt'
  BY <1>1 DEF OriginsOfQuery, StartsOfQuery, SettledAt, Settled, ReachedStops, Key
<1>6. OnFoot'
  BY <1>1, <1>3, FootStays
<1>7. PathOfLabels' /\ PathLast'
  BY <1>1 DEF PathOfLabels, PathLast
<1>8. OnTrip'
  <2>1. CASE UNCHANGED << ride, visits >>
    BY <1>1, <2>1 DEF OnTrip
  <2>2. ASSUME NEW trip \in Get(timetable.lines[Head(lines)], stop, at.time),
               visits' = Visits(trip),
               ride' = [parent |-> {stop}, line |-> Head(lines), departure |-> trip.departure]
        PROVE  OnTrip'
    <3>1. 1 \in DOMAIN lines /\ Head(lines) = lines[1] /\ stop \in Stops /\ at.time \in Seconds
      BY <1>1, <1>2, HeadTailProperties, LenProperties DEF IInv, SearchInv, TypeOK
    <3>2. PICK j \in DOMAIN timetable.stop_to_line[stop] :
            timetable.stop_to_line[stop][j] = Head(lines)
      BY <1>2, <3>1 DEF LinesOfStop, IInv, SearchInv
    <3>3. trip \in Get(timetable.lines[timetable.stop_to_line[stop][j]], stop, at.time)
      BY <2>2, <3>2
    <3>4. /\ at.time <= trip.departure
          /\ \A k \in DOMAIN Visits(trip) : trip.departure <= Visits(trip)[k].time
      BY <3>1, <3>3, InputTypes DEF Punctual, IInv
    <3>5. /\ ride'.parent = {stop} /\ ride'.line = Head(lines) /\ ride'.departure = trip.departure
      BY <2>2
    <3> QED
      BY <1>1, <1>2, <2>2, <3>2, <3>4, <3>5 DEF OnTrip
  <2> QED
    BY <1>2, <2>1, <2>2
<1> QED
  BY <1>4, <1>5, <1>6, <1>7, <1>8

LEMMA RideToPaths == PInv /\ IInv' /\ RideTo => PathInv'
<1> SUFFICES ASSUME PInv, IInv', RideTo PROVE PathInv'
  OBVIOUS
<1> USE DEF PInv, PathInv
<1> DEFINE visit == Head(visits)
           via(boarded) == [parent |-> boarded, line |-> ride.line, departure |-> ride.departure]
<1>1. /\ UNCHANGED << timetable, query, best, destination, origins, starts, at, lines, ride, path >>
      /\ pc = "run" /\ visits # << >> /\ visits' = Tail(visits)
      /\ walks' = IF Improves(visit.stop, visit.time) THEN Walks(visit.stop, visit.time) ELSE << >>
  BY DEF RideTo
<1>2. PICK boarded \in ride.parent : Reach(visit.stop, visit.time, via(boarded))
  BY DEF RideTo
<1>3. /\ visit \in Visit /\ visit = visits[1] /\ 1 \in DOMAIN visits
      /\ \A i \in DOMAIN Tail(visits) : i + 1 \in DOMAIN visits /\ Tail(visits)[i] = visits[i + 1]
  BY <1>1, HeadTailProperties, LenProperties DEF IInv, SearchInv, TypeOK
<1>4. /\ visit.stop \in Stops /\ visit.time \in Seconds /\ via(boarded) \in MetaData
      /\ at.time <= visit.time /\ WalksFit(timetable, visit)
  BY <1>2, <1>3 DEF Visit, MetaData, IInv, SearchInv, TypeOK, VisitsAhead
<1>5. PICK trip \in Get(timetable.lines[ride.line], boarded, at.time) :
        /\ trip.departure = ride.departure
        /\ \A k \in DOMAIN visits :
              /\ ride.departure <= visits[k].time
              /\ \E i \in DOMAIN Visits(trip) : Visits(trip)[i] = visits[k]
  BY <1>1, <1>2 DEF OnTrip
<1>6. /\ boarded \in at.stop /\ boarded \in Settled /\ Key(heap, boarded) = at.time
      /\ at.time <= ride.departure /\ ride.departure <= visit.time
      /\ \E i \in DOMAIN timetable.stop_to_line[boarded] :
            timetable.stop_to_line[boarded][i] = ride.line
  BY <1>1, <1>2, <1>3, <1>5 DEF OnTrip, SettledAt
<1>7. /\ Later /\ HeapOK' /\ Settled' = Settled /\ pc' = pc
      /\ Improves(visit.stop, visit.time)
            => heap'.label[visit.stop] = [key |-> visit.time, data |-> via(boarded)]
  BY <1>1, <1>2, <1>4, ReachLater
<1>8. Improves(visit.stop, visit.time)
        => LabelFits(visit.stop, [key |-> visit.time, data |-> via(boarded)])
  <2> SUFFICES ASSUME Improves(visit.stop, visit.time)
               PROVE  LabelFits(visit.stop, [key |-> visit.time, data |-> via(boarded)])
    OBVIOUS
  <2>1. visit.stop # boarded
    <3>1. at.time \in Int /\ visit.time \in Int
      <4>1. at.time \in Seconds
        BY DEF IInv, SearchInv, TypeOK
      <4> QED
        BY <1>4, <4>1, WidthAssumption DEF Seconds
    <3> QED
      BY <1>4, <1>6, <3>1 DEF Improves, Lowers, Reached, Settled, ReachedStops
  <2>2. ride.line # WALKING_TRANSFER
    <3>1. boarded \in Stops
      BY <1>6 DEF IInv, SearchInv, TypeOK
    <3>2. /\ timetable.stop_to_line[boarded] \in Seq(DOMAIN timetable.lines)
          /\ WALKING_TRANSFER \notin DOMAIN timetable.lines
      BY <3>1, InputTypes DEF IsTimeTable, IInv
    <3>3. ride.line \in DOMAIN timetable.lines
      BY <1>6, <3>2, ElementOfSeq, LenProperties
    <3> QED
      BY <3>2, <3>3
  <2>3. \E i \in DOMAIN Visits(trip) : Visits(trip)[i] = [stop |-> visit.stop, time |-> visit.time]
    <3>1. visit = [stop |-> visit.stop, time |-> visit.time]
      BY <1>3 DEF Visit
    <3> QED
      BY <1>3, <1>5, <3>1
  <2>4. PICK label : label = [key |-> visit.time, data |-> via(boarded)]
    OBVIOUS
  <2>5. /\ label.key = visit.time /\ label.data.parent = boarded
        /\ label.data.line = ride.line /\ label.data.departure = ride.departure
    BY <2>4
  <2>6. RodeTo(visit.stop, label)
    BY <1>5, <1>6, <2>3, <2>5 DEF RodeTo
  <2>7. LabelFits(visit.stop, label)
    BY <1>6, <2>1, <2>2, <2>5, <2>6 DEF LabelFits, Settled
  <2> QED
    BY <2>4, <2>7
<1>9. LabelsFit'
  BY <1>1, <1>2, <1>4, <1>8, ReachFits
<1>10. OriginsOfQuery' /\ StartsOfQuery' /\ PathOfLabels' /\ PathLast'
  BY <1>1, <1>7 DEF OriginsOfQuery, StartsOfQuery, PathOfLabels, PathLast
<1>11. SettledAt'
  BY <1>1, <1>7 DEF SettledAt, Later, Key
<1>12. OnTrip'
  BY <1>1, <1>3 DEF OnTrip
<1>13. OnFoot'
  <2>1. CASE ~ Improves(visit.stop, visit.time)
    BY <1>1, <2>1 DEF OnFoot
  <2>2. CASE Improves(visit.stop, visit.time)
    <3>1. PICK v : v = visit
      OBVIOUS
    <3>2. walks' = Walks(v.stop, v.time)
      BY <1>1, <2>2, <3>1
    <3>3. \A k \in DOMAIN walks' : walks'[k] \in WalksFrom(v.stop, v.time)
      <4>1. walks' \in Seq(WalksFrom(v.stop, v.time))
        BY <1>3, <1>4, <3>1, <3>2, WalksType DEF IInv
      <4> QED
        BY <4>1, ElementOfSeq, LenProperties
    <3>4. Key(heap, v.stop)' = v.time
      BY <1>7, <2>2, <3>1 DEF Key
    <3>5. v.time <= v.time
      BY <1>4, <3>1, WidthAssumption DEF Seconds
    <3>6. Walks(v.stop, v.time)' = Walks(v.stop, v.time)
      BY <1>1, WalksStay
    <3> SUFFICES ASSUME NEW k \in DOMAIN walks'
                 PROVE  /\ Key(heap, walks[k].parent)' <= walks'[k].departure
                        /\ walks'[k].departure <= walks'[k].time
                        /\ \E i \in DOMAIN Walks(walks[k].parent, walks[k].departure)' :
                              /\ Walks(walks[k].parent, walks[k].departure)'[i].stop = walks'[k].stop
                              /\ Walks(walks[k].parent, walks[k].departure)'[i].time = walks'[k].time
      BY DEF OnFoot
    <3>7. walks'[k].parent = v.stop /\ walks'[k].departure = v.time /\ v.time <= walks'[k].time
      BY <3>3 DEF WalksFrom
    <3>8. Walks(walks[k].parent, walks[k].departure)' = Walks(v.stop, v.time)'
      BY <3>7 DEF Walks, TransferWalks, StationWalks
    <3>9. Key(heap, walks[k].parent)' = Key(heap, v.stop)'
      BY <3>7 DEF Key
    <3> QED
      BY <3>2, <3>4, <3>5, <3>6, <3>7, <3>8, <3>9
  <2> QED
    BY <2>1, <2>2
<1> QED
  BY <1>9, <1>10, <1>11, <1>12, <1>13

LEMMA WalkToPaths == PInv /\ IInv' /\ WalkTo => PathInv'
<1> SUFFICES ASSUME PInv, IInv', WalkTo PROVE PathInv'
  OBVIOUS
<1> USE DEF PInv, PathInv
<1> DEFINE walk == Head(walks)
           via == [parent |-> walk.parent, line |-> WALKING_TRANSFER, departure |-> walk.departure]
<1>1. /\ UNCHANGED << timetable, query, best, destination, origins, starts, at, lines, ride,
                      visits, path >>
      /\ pc = "run" /\ walks # << >> /\ walks' = Tail(walks)
      /\ Reach(walk.stop, walk.time, via)
  BY DEF WalkTo
<1>2. /\ walk \in Walk /\ walk = walks[1] /\ 1 \in DOMAIN walks
      /\ \A i \in DOMAIN Tail(walks) : i + 1 \in DOMAIN walks /\ Tail(walks)[i] = walks[i + 1]
  BY <1>1, HeadTailProperties, LenProperties DEF IInv, SearchInv, TypeOK
<1>3. /\ walk.stop \in Stops /\ walk.time \in Seconds /\ via \in MetaData
      /\ at.time <= walk.time /\ walk.parent \in ReachedStops
  BY <1>2 DEF Walk, MetaData, WALKING_TRANSFER, WalksAhead, WalkersReached, IInv, SearchInv
<1>4. /\ Key(heap, walk.parent) <= walk.departure /\ walk.departure <= walk.time
      /\ \E i \in DOMAIN Walks(walk.parent, walk.departure) :
            /\ Walks(walk.parent, walk.departure)[i].stop = walk.stop
            /\ Walks(walk.parent, walk.departure)[i].time = walk.time
  BY <1>2 DEF OnFoot
<1>5. Improves(walk.stop, walk.time) => LabelFits(walk.stop, [key |-> walk.time, data |-> via])
  <2> SUFFICES ASSUME Improves(walk.stop, walk.time)
               PROVE  LabelFits(walk.stop, [key |-> walk.time, data |-> via])
    OBVIOUS
  <2>1. walk.stop # walk.parent
    <3>1. Key(heap, walk.parent) \in Int
      BY <1>3, KeysAreTimes DEF IInv, SearchInv, TypeOK
    <3>2. walk.departure \in Int /\ walk.time \in Int
      BY <1>2, WidthAssumption DEF Walk, Seconds
    <3> QED
      BY <1>3, <1>4, <3>1, <3>2 DEF Improves, Lowers, Reached, ReachedStops
  <2>2. PICK label : label = [key |-> walk.time, data |-> via]
    OBVIOUS
  <2>3. /\ label.key = walk.time /\ label.data.parent = walk.parent
        /\ label.data.line = WALKING_TRANSFER /\ label.data.departure = walk.departure
    BY <2>2
  <2>4. WalkedTo(walk.stop, label)
    BY <1>3, <1>4, <2>1, <2>3 DEF WalkedTo
  <2>5. LabelFits(walk.stop, label)
    BY <1>3, <1>4, <2>1, <2>3, <2>4 DEF LabelFits
  <2> QED
    BY <2>2, <2>5
<1>6. Later /\ HeapOK' /\ Settled' = Settled /\ pc' = pc
  BY <1>1, <1>3, ReachLater
<1>7. LabelsFit'
  BY <1>1, <1>3, <1>5, ReachFits
<1>8. OriginsOfQuery' /\ StartsOfQuery' /\ PathOfLabels' /\ PathLast'
  BY <1>1, <1>6 DEF OriginsOfQuery, StartsOfQuery, PathOfLabels, PathLast
<1>9. SettledAt' /\ OnTrip'
  BY <1>1, <1>6 DEF SettledAt, OnTrip, Later, Key
<1>10. OnFoot'
  BY <1>1, <1>2, <1>6, FootStays
<1> QED
  BY <1>7, <1>8, <1>9, <1>10

LEMMA ExtractPathPaths == PInv /\ IInv' /\ ExtractPath => PathInv'
<1> SUFFICES ASSUME PInv, IInv', ExtractPath PROVE PathInv'
  OBVIOUS
<1> USE DEF PInv, PathInv
<1> DEFINE parent == Parent(Head(path).stop)
           entry == Entry(parent, heap.label[parent])
<1>1. /\ UNCHANGED << timetable, query, heap, best, destination, origins, starts, at, lines, ride,
                      visits, walks >>
      /\ pc = "extract" /\ pc' = IF Parent(parent) = parent THEN "done" ELSE "extract"
      /\ path' = << entry >> \o path
  BY DEF ExtractPath, search
<1> HIDE DEF entry
<1>2. /\ path \in Seq(PathEntry) /\ path # << >> /\ Head(path) = path[1] /\ 1 \in DOMAIN path
      /\ Len(path) \in Nat \ {0} /\ DOMAIN path = 1 .. Len(path)
  BY <1>1, HeadTailProperties, LenProperties DEF IInv, SearchInv, TypeOK, PathReached
<1>3. Later /\ ReachedStops' = ReachedStops /\ HeapOK'
  <2>1. \A other \in ReachedStops : Key(heap, other) \in Int
    BY KeysAreTimes DEF IInv, SearchInv, TypeOK
  <2> QED
    BY <1>1, <2>1 DEF Later, ReachedStops, Settled, Key, IInv, SearchInv, TypeOK
<1>4. LabelsFit'
  BY <1>1, <1>3, SameLabelsFit
<1>5. OriginsOfQuery' /\ StartsOfQuery' /\ SettledAt' /\ OnTrip'
  BY <1>1 DEF OriginsOfQuery, StartsOfQuery, SettledAt, OnTrip, Settled, ReachedStops, Key
<1>6. OnFoot' /\ PathLast'
  BY <1>1, <1>3, FootStays DEF PathLast, NoStarts, NoVisits
<1>7. PathOfLabels'
  <2>1. PICK first : first = entry
    OBVIOUS
  <2>2. PICK up : up = parent
    OBVIOUS
  <2>3. /\ up \in ReachedStops /\ first = Entry(up, heap.label[up]) /\ first.stop = up
        /\ up = Parent(path[1].stop)
    <3>1. path[1].stop \in ReachedStops
      BY <1>1, <1>2 DEF PathOfLabels
    <3> QED
      BY <1>2, <2>1, <2>2, <3>1 DEF entry, Entry, Parent, IInv, SearchInv, ParentsReached
  <2>4. /\ Len(path') = Len(path) + 1 /\ DOMAIN path' = 1 .. Len(path) + 1
        /\ path'[1] = first
        /\ \A i \in 1 .. Len(path) : path'[i + 1] = path[i]
    <3> HIDE DEF entry
    <3>1. path' = << first >> \o path
      BY <1>1, <2>1
    <3> QED
      BY <1>2, <3>1
  <2>5. \A i \in DOMAIN path' : /\ path'[i].stop \in ReachedStops'
                                /\ path'[i] = Entry(path'[i].stop, heap'.label[path'[i].stop])
    <3> SUFFICES ASSUME NEW i \in DOMAIN path'
                 PROVE  /\ path'[i].stop \in ReachedStops
                        /\ path'[i] = Entry(path'[i].stop, heap.label[path'[i].stop])
      BY <1>1, <1>3
    <3>1. CASE i = 1
      BY <2>3, <2>4, <3>1
    <3>2. CASE i # 1
      <4>1. i - 1 \in 1 .. Len(path) /\ path'[i] = path[i - 1]
        BY <1>2, <2>4, <3>2
      <4> QED
        BY <1>1, <1>2, <4>1 DEF PathOfLabels
    <3> QED
      BY <3>1, <3>2
  <2>6. \A i \in 1 .. Len(path') - 1 : path'[i].stop = heap'.label[path'[i + 1].stop].data.parent
    <3> SUFFICES ASSUME NEW i \in 1 .. Len(path)
                 PROVE  path'[i].stop = heap.label[path'[i + 1].stop].data.parent
      BY <1>1, <1>2, <2>4
    <3>1. path'[i + 1] = path[i]
      BY <2>4
    <3>2. CASE i = 1
      BY <2>3, <2>4, <3>1, <3>2 DEF Parent
    <3>3. CASE i # 1
      <4>1. i - 1 \in 1 .. Len(path) - 1 /\ i - 1 \in 1 .. Len(path) /\ (i - 1) + 1 = i
        BY <1>2, <3>3
      <4>2. path[i - 1].stop = Parent(path[(i - 1) + 1].stop)
        BY <1>1, <1>2, <4>1 DEF PathOfLabels
      <4>3. path'[i] = path[i - 1]
        BY <2>4, <4>1
      <4> QED
        BY <3>1, <4>1, <4>2, <4>3 DEF Parent
    <3> QED
      BY <3>2, <3>3
  <2>7. pc' = "done" => heap'.label[path'[1].stop].data.parent = path'[1].stop
    BY <1>1, <2>2, <2>3, <2>4 DEF Parent
  <2>8. path'[Len(path')].stop \in destination'
    BY <1>1, <1>2, <2>4 DEF PathOfLabels
  <2> QED
    BY <2>5, <2>6, <2>7, <2>8 DEF PathOfLabels, Parent
<1> QED
  BY <1>4, <1>5, <1>6, <1>7

LEMMA StutterPaths == PInv /\ UNCHANGED vars => PathInv'
<1> SUFFICES ASSUME PInv, UNCHANGED vars PROVE PathInv'
  OBVIOUS
<1> USE DEF vars, PInv, PathInv
<1>1. Later /\ ReachedStops' = ReachedStops /\ HeapOK'
  <2>1. \A stop \in ReachedStops : Key(heap, stop) \in Int
    BY KeysAreTimes DEF IInv, SearchInv, TypeOK
  <2>2. HeapOK'
    BY StutterInvariant DEF IInv, SearchInv, TypeOK
  <2> QED
    BY <2>1, <2>2 DEF Later, ReachedStops, Settled, Key
<1>2. LabelsFit'
  BY <1>1, SameLabelsFit
<1>3. OriginsOfQuery' /\ StartsOfQuery' /\ SettledAt' /\ OnTrip'
  BY DEF OriginsOfQuery, StartsOfQuery, SettledAt, OnTrip, Settled, ReachedStops, Key
<1>4. OnFoot'
  BY <1>1, FootStays
<1>5. PathOfLabels' /\ PathLast'
  BY <1>1 DEF PathOfLabels, PathLast, Parent, NoStarts, NoVisits
<1> QED
  BY <1>2, <1>3, <1>4, <1>5

LEMMA NextPaths == PInv /\ [Next]_vars => PInv'
<1> SUFFICES ASSUME PInv, [Next]_vars PROVE PInv'
  OBVIOUS
<1>1. IInv'
  BY NextInvariant DEF PInv
<1>2. PathInv'
  BY <1>1, AddOriginPaths, AddStartPaths, SettlePaths, BreakEarlyPaths, HeapEmptyPaths,
     TraverseLinePaths, RideToPaths, WalkToPaths, ExtractPathPaths, StutterPaths
     DEF Next, Returned
<1> QED
  BY <1>1, <1>2 DEF PInv

-----------------------------------------------------------------------------
(* The theorems                                                             *)

\* The two invariants hold together.
LEMMA JointInvariant == Spec => []PInv
<1>1. Init => PInv
  BY InitInvariant, InitPaths DEF PInv
<1> QED
  BY <1>1, NextPaths, PTL DEF Spec

\* Labels, work lists and path describe journeys on the timetable.
THEOREM PathInvariant == Spec => []PathInv
<1>1. PInv => PathInv
  BY DEF PInv
<1> QED
  BY <1>1, JointInvariant, PTL

\* Every label is a start of the query, a ride some line offers at its parent, or a walk
\* from a stop that had been reached by then.
THEOREM LabelsAreJourneys == Spec => []LabelsSound
<1>1. PInv => LabelsSound
  BY DEF PInv, PathInv, LabelsFit, LabelFits, LabelsSound
<1> QED
  BY <1>1, JointInvariant, PTL

\* While a trip is run it was boarded no earlier than the stop was reached.
THEOREM BoardedInTime == Spec => []BoardsInTime
<1>1. PInv => BoardsInTime
  BY DEF PInv, PathInv, OnTrip, BoardsInTime
<1> QED
  BY <1>1, JointInvariant, PTL

\* The extracted path starts at a start of the query, ends at the answer and never goes
\* back in time.
THEOREM PathsAreJourneys == Spec => []PathSound
<1>1. PInv => PathSound
  <2> SUFFICES ASSUME PInv, pc = "done", path # << >>
               PROVE  /\ StartedAt(path[1].stop, heap.label[path[1].stop])
                      /\ path[Len(path)].stop \in destination
                      /\ \A i \in 1 .. Len(path) - 1 :
                           \/ path[i] = path[i + 1]
                           \/ /\ path[i].arrival <= path[i + 1].departure
                              /\ path[i + 1].departure <= path[i + 1].arrival
    BY DEF PathSound
  <2>1. DOMAIN path = 1 .. Len(path) /\ Len(path) \in Nat \ {0}
    BY LenProperties DEF PInv, IInv, SearchInv, TypeOK
  <2>2. \A i \in DOMAIN path : /\ path[i].stop \in ReachedStops
                               /\ path[i] = Entry(path[i].stop, heap.label[path[i].stop])
                               /\ LabelFits(path[i].stop, heap.label[path[i].stop])
    BY DEF PInv, PathInv, PathOfLabels, LabelsFit
  <2>3. StartedAt(path[1].stop, heap.label[path[1].stop])
    <3>1. Parent(path[1].stop) = path[1].stop
      BY DEF PInv, PathInv, PathOfLabels
    <3>2. 1 \in DOMAIN path
      BY <2>1
    <3> QED
      BY <2>2, <3>1, <3>2 DEF Parent, LabelFits
  <2>4. path[Len(path)].stop \in destination
    BY DEF PInv, PathInv, PathOfLabels
  <2>5. ASSUME NEW i \in 1 .. Len(path) - 1
        PROVE  \/ path[i] = path[i + 1]
               \/ /\ path[i].arrival <= path[i + 1].departure
                  /\ path[i + 1].departure <= path[i + 1].arrival
    <3>1. i \in DOMAIN path /\ i + 1 \in DOMAIN path
      BY <2>1
    <3>2. path[i].stop = Parent(path[i + 1].stop)
      BY DEF PInv, PathInv, PathOfLabels
    <3>3. PICK here : here = path[i].stop
      OBVIOUS
    <3>4. PICK there : there = path[i + 1].stop
      OBVIOUS
    <3>5. /\ here = heap.label[there].data.parent
          /\ path[i] = Entry(here, heap.label[here])
          /\ path[i + 1] = Entry(there, heap.label[there])
          /\ LabelFits(there, heap.label[there])
      BY <2>2, <3>1, <3>2, <3>3, <3>4 DEF Parent
    <3>6. CASE here = there
      BY <3>5, <3>6
    <3>7. CASE here # there
      <4>1. /\ Key(heap, here) <= heap.label[there].data.departure
            /\ heap.label[there].data.departure <= heap.label[there].key
        BY <3>5, <3>7 DEF LabelFits, StartedAt
      <4> QED
        BY <3>5, <4>1 DEF Entry, Key
    <3> QED
      BY <3>6, <3>7
  <2> QED
    BY <2>3, <2>4, <2>5
<1> QED
  BY <1>1, JointInvariant, PTL

-----------------------------------------------------------------------------
(* No journey is faster                                                     *)

\* a station lists all of its stops, and vehicles call at stops
Complete(table) ==
    /\ \A stop \in Stops :
          \E i \in DOMAIN table.stops[table.station[stop]] :
              table.stops[table.station[stop]][i] = stop
    /\ \A stop \in Stops :
         \A i \in DOMAIN table.stop_to_line[stop] :
           LET line == table.lines[table.stop_to_line[stop][i]]
           IN  \A d \in DOMAIN line.departures :
                 LET trip == Service(line, Offset(line, stop), d)
                 IN  \A k \in DOMAIN Visits(trip) : Visits(trip)[k] \in Visit

ASSUME CompleteAssumption ==
    /\ IsFiniteSet(Stops)
    /\ \A table \in TimeTables : Complete(table)

-----------------------------------------------------------------------------
(* The inductive invariant                                                  *)

ReachedBy(queue, stop, time) == Reached(queue, stop) /\ Key(queue, stop) <= time

\* when a stop of the station of an origin can be started from
StartsFrom(origin, stop) ==
    { time \in {Plus(query.departure, origin.seconds)} :
        timetable.station[stop] = timetable.station[origin.stop] }

\* every start of the query is still to be reached, or was
StartsReached ==
    ~ NoLegs =>
        \A i \in DOMAIN query.origins, stop \in Stops :
          \A time \in StartsFrom(query.origins[i], stop) :
             \/ \E k \in DOMAIN origins : origins[k] = query.origins[i]
             \/ \E k \in DOMAIN starts : starts[k] = [stop |-> stop, time |-> time]
             \/ ReachedBy(heap, stop, time)

\* what a ride from a settled stop visits was reached by then, unless the ride is still to
\* be taken or on its way
RidesRelaxed ==
    \A stop \in Settled :
      \A i \in DOMAIN timetable.stop_to_line[stop] :
        \A trip \in Get(timetable.lines[timetable.stop_to_line[stop][i]], stop, Key(heap, stop)) :
          \A k \in DOMAIN Visits(trip) :
             \/ ReachedBy(heap, Visits(trip)[k].stop, Visits(trip)[k].time)
             \/ /\ stop \in at.stop
                /\ \/ \E j \in DOMAIN lines : lines[j] = timetable.stop_to_line[stop][i]
                   \/ \E j \in DOMAIN visits : visits[j] = Visits(trip)[k]

\* the best arrival takes every settled destination into account
BestOfSettled ==
    IF query.kind = "legs"
    THEN \A stop \in Settled :
           \A leg \in DestinationLegs(stop) : best <= Plus(Key(heap, stop), leg.seconds)
    ELSE best = Infinity

\* what is left in the heap when the search ends is later than the best arrival
RestIsLater ==
    pc \in {"extract", "done"} /\ ~ NoLegs => \A stop \in heap.queued : best < Key(heap, stop)

RelaxInv == StartsReached /\ RidesRelaxed /\ BestOfSettled /\ RestIsLater

\* The state of the search: labels are in order (SearchInv), and nothing that could have
\* been reached from what is settled was left out.
RouterInv == SearchInv /\ RelaxInv

RInv == PInv /\ RelaxInv

-----------------------------------------------------------------------------
(* What a step leaves of the invariant                                      *)

\* Whatever was reached by a time stays reached by it.
LEMMA StaysReachedBy ==
    ASSUME HeapOK, HeapOK', Later, NEW stop, NEW time \in Int, ReachedBy(heap, stop, time)
    PROVE  ReachedBy(heap', stop, time)
<1>1. stop \in ReachedStops /\ Key(heap, stop) <= time
  BY DEF ReachedBy, Reached, ReachedStops
<1>2. stop \in ReachedStops' /\ Key(heap, stop)' <= Key(heap, stop)
  BY <1>1 DEF Later
<1>3. Key(heap, stop) \in Int /\ Key(heap, stop)' \in Int
  <2>1. heap.label[stop] \in [key : Seconds, data : MetaData]
    BY <1>1 DEF HeapOK
  <2>2. heap'.label[stop] \in [key : Seconds, data : MetaData]
    BY <1>2 DEF HeapOK
  <2> QED
    BY <2>1, <2>2, WidthAssumption DEF Key, Seconds
<1>4. Key(heap, stop)' <= time
  BY <1>1, <1>2, <1>3
<1> QED
  BY <1>2, <1>4 DEF ReachedBy, Reached, ReachedStops

\* And whoever reaches a stop has reached it by then.
LEMMA ReachesBy ==
    ASSUME IInv, timetable' = timetable, query' = query, at' = at,
           NEW stop \in Stops, NEW time \in Seconds, NEW via \in MetaData,
           at.time <= time, Reach(stop, time, via)
    PROVE  ReachedBy(heap', stop, time)
<1>1. /\ HeapOK' /\ stop \in ReachedStops'
      /\ Improves(stop, time) => heap'.label[stop] = [key |-> time, data |-> via]
      /\ ~ Improves(stop, time) => heap' = heap
  BY ReachLater
<1>2. time \in Int
  BY WidthAssumption DEF Seconds
<1>3. CASE Improves(stop, time)
  BY <1>1, <1>2, <1>3 DEF ReachedBy, Reached, ReachedStops, Key
<1>4. CASE ~ Improves(stop, time)
  <2>1. Reached(heap, stop) /\ ~ (time < Key(heap, stop))
    BY <1>4 DEF Improves, Lowers
  <2>2. Key(heap, stop) \in Int
    BY <2>1, KeysAreTimes DEF Reached, ReachedStops, IInv, SearchInv, TypeOK
  <2> QED
    BY <1>1, <1>2, <1>4, <2>1, <2>2 DEF ReachedBy, Reached, ReachedStops, Key
<1> QED
  BY <1>3, <1>4

\* Starts are only dropped once they were reached.
LEMMA StartsStay ==
    ASSUME IInv, HeapOK', Later, StartsReached,
           \A k \in DOMAIN origins : \E j \in DOMAIN origins' : origins'[j] = origins[k],
           \A k \in DOMAIN starts : \/ \E j \in DOMAIN starts' : starts'[j] = starts[k]
                                    \/ ReachedBy(heap', starts[k].stop, starts[k].time)
    PROVE  StartsReached'
<1> SUFFICES ASSUME ~ NoLegs, NEW i \in DOMAIN query.origins, NEW stop \in Stops,
                    NEW time \in StartsFrom(query.origins[i], stop)
             PROVE  \/ \E k \in DOMAIN origins' : origins'[k] = query.origins[i]
                    \/ \E k \in DOMAIN starts' : starts'[k] = [stop |-> stop, time |-> time]
                    \/ ReachedBy(heap', stop, time)
  BY DEF StartsReached, StartsFrom, Later, NoLegs
<1>1. time \in Int
  <2>1. query.departure \in Seconds /\ query.origins \in Seq(ADLeg)
    BY InputTypes DEF IInv, IsQuery
  <2>2. query.origins[i] \in ADLeg
    BY <2>1
  <2>3. query.departure \in Nat /\ query.origins[i].seconds \in Nat
    BY <2>1, <2>2, WidthAssumption DEF ADLeg, Seconds
  <2>4. time \in Seconds
    BY <2>3, PlusType DEF StartsFrom
  <2> QED
    BY <2>4, WidthAssumption DEF Seconds
<1>2. \/ \E k \in DOMAIN origins : origins[k] = query.origins[i]
      \/ \E k \in DOMAIN starts : starts[k] = [stop |-> stop, time |-> time]
      \/ ReachedBy(heap, stop, time)
  BY DEF StartsReached
<1>3. ReachedBy(heap, stop, time) => ReachedBy(heap', stop, time)
  BY <1>1, StaysReachedBy DEF IInv, SearchInv, TypeOK
<1> QED
  BY <1>2, <1>3

\* A loop works on the head of its list and keeps the others.
LEMMA HeadOrTail ==
    ASSUME NEW S, NEW list \in Seq(S), list # << >>, NEW k \in DOMAIN list
    PROVE  list[k] = Head(list) \/ \E j \in DOMAIN Tail(list) : Tail(list)[j] = list[k]
<1>1. k # 1 => k - 1 \in DOMAIN Tail(list) /\ Tail(list)[k - 1] = list[k]
  OBVIOUS
<1> QED
  BY <1>1

\* What a ride visits are stops, at times of the clock.
LEMMA RidesVisitStops ==
    ASSUME InputOK, NEW stop \in Stops, NEW desired \in Seconds,
           NEW i \in DOMAIN timetable.stop_to_line[stop],
           NEW trip \in Get(timetable.lines[timetable.stop_to_line[stop][i]], stop, desired),
           NEW k \in DOMAIN Visits(trip)
    PROVE  Visits(trip)[k] \in Visit /\ Visits(trip)[k].time \in Int
<1>1. Visits(trip) \in Seq(Visit)
  BY InputTypes DEF IsTimeTable
<1>2. Visits(trip)[k] \in Visit
  BY <1>1
<1> QED
  BY <1>2, WidthAssumption DEF Visit, Seconds

\* A visit is only dropped once it was reached, and the lines of the settled stop are not.
LEMMA RidesStay ==
    ASSUME IInv, HeapOK', Later, Settled' = Settled, RidesRelaxed, at' = at, lines' = lines,
           \A j \in DOMAIN visits :
              \/ \E k \in DOMAIN visits' : visits'[k] = visits[j]
              \/ ReachedBy(heap', visits[j].stop, visits[j].time)
    PROVE  RidesRelaxed'
<1>1. /\ HeapOK /\ timetable' = timetable
      /\ \A stop \in Settled : stop \in Stops /\ Key(heap', stop) = Key(heap, stop)
                               /\ Key(heap, stop) \in Seconds
  BY DEF IInv, SearchInv, TypeOK, HeapOK, Later, Settled, ReachedStops, Key
<1> SUFFICES ASSUME NEW stop \in Settled, NEW i \in DOMAIN timetable.stop_to_line[stop],
                    NEW trip \in Get(timetable.lines[timetable.stop_to_line[stop][i]], stop,
                                     Key(heap, stop)),
                    NEW k \in DOMAIN Visits(trip)
             PROVE  \/ ReachedBy(heap', Visits(trip)[k].stop, Visits(trip)[k].time)
                    \/ /\ stop \in at'.stop
                       /\ \/ \E j \in DOMAIN lines' : lines'[j] = timetable.stop_to_line[stop][i]
                          \/ \E j \in DOMAIN visits' : visits'[j] = Visits(trip)[k]
  BY <1>1 DEF RidesRelaxed
<1>2. \/ ReachedBy(heap, Visits(trip)[k].stop, Visits(trip)[k].time)
      \/ /\ stop \in at.stop
         /\ \/ \E j \in DOMAIN lines : lines[j] = timetable.stop_to_line[stop][i]
            \/ \E j \in DOMAIN visits : visits[j] = Visits(trip)[k]
  BY DEF RidesRelaxed
<1>3. Visits(trip)[k].time \in Int
  BY <1>1, RidesVisitStops DEF IInv
<1>4. ReachedBy(heap, Visits(trip)[k].stop, Visits(trip)[k].time)
        => ReachedBy(heap', Visits(trip)[k].stop, Visits(trip)[k].time)
  BY <1>1, <1>3, StaysReachedBy
<1> QED
  BY <1>2, <1>4

\* As long as nothing is settled, the best arrival need not change.
LEMMA BestStays ==
    ASSUME Later, Settled' = Settled, BestOfSettled, best' = best
    PROVE  BestOfSettled'
BY DEF Later, BestOfSettled, DestinationLegs, Key

\* Steps that reach nothing, in the words of the lemmas above.
LEMMA SameHeapLater ==
    ASSUME IInv, timetable' = timetable, query' = query, heap' = heap
    PROVE  Later /\ HeapOK' /\ Settled' = Settled
<1>1. \A stop \in ReachedStops : Key(heap, stop) \in Int
  BY KeysAreTimes DEF IInv, SearchInv, TypeOK
<1> QED
  BY <1>1 DEF Later, HeapOK, ReachedStops, Settled, Key, IInv, SearchInv, TypeOK

-----------------------------------------------------------------------------
(* Every action keeps the invariant                                         *)

LEMMA InitRelax == Init => RelaxInv
<1> SUFFICES ASSUME Init PROVE RelaxInv
  OBVIOUS
<1>1. heap.queued = {} /\ Settled = {}
  BY DEF Init, Empty, ReachedStops, Settled
<1>2. StartsReached
  BY DEF Init, StartsReached
<1>3. RidesRelaxed
  BY <1>1 DEF RidesRelaxed
<1>4. BestOfSettled
  BY <1>1 DEF Init, BestOfSettled
<1>5. RestIsLater
  BY <1>1 DEF RestIsLater
<1> QED
  BY <1>2, <1>3, <1>4, <1>5 DEF RelaxInv

LEMMA AddOriginRelax == RInv /\ PInv' /\ AddOrigin => RelaxInv'
<1> SUFFICES ASSUME RInv, PInv', AddOrigin PROVE RelaxInv'
  OBVIOUS
<1> USE DEF RInv, RelaxInv, PInv
<1> DEFINE origin == Head(origins)
           station == timetable.stops[timetable.station[origin.stop]]
<1>1. /\ UNCHANGED << timetable, query, pc, heap, best, destination, at, lines, ride, visits,
                      walks, path >>
      /\ starts = << >> /\ origins # << >> /\ origins' = Tail(origins) /\ pc = "run"
      /\ starts' = [ i \in 1 .. Len(station) |->
                       [stop |-> station[i], time |-> Plus(query.departure, origin.seconds)] ]
  BY DEF AddOrigin
<1> HIDE DEF station
<1>2. Later /\ HeapOK' /\ Settled' = Settled
  BY <1>1, SameHeapLater
<1>3. /\ origin \in ADLeg
      /\ \A k \in DOMAIN origins :
            origins[k] = origin \/ \E j \in DOMAIN origins' : origins'[j] = origins[k]
  <2>1. origins \in Seq(ADLeg)
    BY DEF IInv, SearchInv, TypeOK
  <2>2. origin \in ADLeg
    BY <1>1, <2>1
  <2> QED
    BY <1>1, <2>1, <2>2, HeadOrTail
<1>4. StartsReached'
  <2> SUFFICES ASSUME ~ NoLegs, NEW i \in DOMAIN query.origins, NEW stop \in Stops,
                      NEW time \in StartsFrom(query.origins[i], stop)
               PROVE  \/ \E k \in DOMAIN origins' : origins'[k] = query.origins[i]
                      \/ \E k \in DOMAIN starts' : starts'[k] = [stop |-> stop, time |-> time]
                      \/ ReachedBy(heap', stop, time)
    BY <1>2 DEF StartsReached, StartsFrom, NoLegs, Later
  <2>1. \/ \E k \in DOMAIN origins : origins[k] = query.origins[i]
        \/ ReachedBy(heap, stop, time)
    BY <1>1 DEF StartsReached
  <2>2. CASE query.origins[i] = origin
    <3>1. station = timetable.stops[timetable.station[stop]]
      BY <2>2 DEF StartsFrom, station
    <3>2. timetable \in TimeTables
      BY DEF IInv, InputOK
    <3>3. PICK k \in DOMAIN station : station[k] = stop
      BY <3>1, <3>2, CompleteAssumption DEF Complete
    <3>4. station \in Seq(Stops)
      BY <1>3, InputTypes DEF IsTimeTable, IInv, ADLeg, station
    <3>5. k \in 1 .. Len(station)
      BY <3>4, LenProperties
    <3>6. time = Plus(query.departure, origin.seconds)
      BY <2>2 DEF StartsFrom
    <3> HIDE DEF origin
    <3> QED
      BY <1>1, <3>3, <3>5, <3>6
  <2>3. CASE \E k \in DOMAIN origins : origins[k] = query.origins[i]
    BY <1>3, <2>2, <2>3
  <2>4. CASE ReachedBy(heap, stop, time)
    BY <1>1, <2>4
  <2> QED
    BY <2>1, <2>3, <2>4
<1>5. RidesRelaxed'
  BY <1>1, <1>2, RidesStay
<1>6. BestOfSettled' /\ RestIsLater'
  BY <1>1, <1>2, BestStays DEF RestIsLater
<1> QED
  BY <1>4, <1>5, <1>6

LEMMA AddStartRelax == RInv /\ PInv' /\ AddStart => RelaxInv'
<1> SUFFICES ASSUME RInv, PInv', AddStart PROVE RelaxInv'
  OBVIOUS
<1> USE DEF RInv, RelaxInv, PInv
<1> DEFINE start == Head(starts)
           via == [parent |-> start.stop, line |-> WALKING_TRANSFER,
                   departure |-> query.departure]
<1>1. /\ UNCHANGED << timetable, query, best, destination, origins, at, lines, ride, visits,
                      walks, path >>
      /\ starts # << >> /\ starts' = Tail(starts) /\ pc = "run"
      /\ Reach(start.stop, start.time, via)
  BY DEF AddStart
<1>2. starts \in Seq(Start) /\ start \in Start
  <2>1. starts \in Seq(Start)
    BY DEF IInv, SearchInv, TypeOK
  <2> QED
    BY <1>1, <2>1
<1>3. start.stop \in Stops /\ start.time \in Seconds /\ via \in MetaData
  BY <1>2, InputTypes DEF Start, MetaData, WALKING_TRANSFER, IsQuery, IInv
<1>4. at.time <= start.time
  BY <1>1, <1>3, WidthAssumption DEF IInv, SearchInv, Starting, NoStarts, Seconds
<1>5. Later /\ HeapOK' /\ Settled' = Settled /\ pc' = pc
  BY <1>1, <1>3, <1>4, ReachLater
<1>6. ReachedBy(heap', start.stop, start.time)
  BY <1>1, <1>3, <1>4, ReachesBy
<1>7. StartsReached'
  <2>1. \A k \in DOMAIN starts : \/ \E j \in DOMAIN starts' : starts'[j] = starts[k]
                                 \/ ReachedBy(heap', starts[k].stop, starts[k].time)
    BY <1>1, <1>2, <1>6, HeadOrTail
  <2> QED
    BY <1>1, <1>5, <2>1, StartsStay
<1>8. RidesRelaxed'
  BY <1>1, <1>5, RidesStay
<1>9. BestOfSettled' /\ RestIsLater'
  BY <1>1, <1>5, BestStays DEF RestIsLater
<1> QED
  BY <1>7, <1>8, <1>9

LEMMA WalkToRelax == RInv /\ PInv' /\ WalkTo => RelaxInv'
<1> SUFFICES ASSUME RInv, PInv', WalkTo PROVE RelaxInv'
  OBVIOUS
<1> USE DEF RInv, RelaxInv, PInv
<1> DEFINE walk == Head(walks)
           via == [parent |-> walk.parent, line |-> WALKING_TRANSFER,
                   departure |-> walk.departure]
<1>1. /\ UNCHANGED << timetable, query, best, destination, origins, starts, at, lines, ride,
                      visits, path >>
      /\ walks # << >> /\ pc = "run"
      /\ Reach(walk.stop, walk.time, via)
  BY DEF WalkTo
<1>2. walk \in Walk /\ walk = walks[1] /\ 1 \in DOMAIN walks
  BY <1>1, HeadTailProperties, LenProperties DEF IInv, SearchInv, TypeOK
<1>3. walk.stop \in Stops /\ walk.time \in Seconds /\ via \in MetaData /\ at.time <= walk.time
  BY <1>2 DEF Walk, MetaData, WALKING_TRANSFER, WalksAhead, IInv, SearchInv
<1>4. Later /\ HeapOK' /\ Settled' = Settled /\ pc' = pc
  BY <1>1, <1>3, ReachLater
<1>5. StartsReached'
  BY <1>1, <1>4, StartsStay
<1>6. RidesRelaxed'
  BY <1>1, <1>4, RidesStay
<1>7. BestOfSettled' /\ RestIsLater'
  BY <1>1, <1>4, BestStays DEF RestIsLater
<1> QED
  BY <1>5, <1>6, <1>7

LEMMA RideToRelax == RInv /\ PInv' /\ RideTo => RelaxInv'
<1> SUFFICES ASSUME RInv, PInv', RideTo PROVE RelaxInv'
  OBVIOUS
<1> USE DEF RInv, RelaxInv, PInv
<1> DEFINE visit == Head(visits)
           via(boarded) == [parent |-> boarded, line |-> ride.line, departure |-> ride.departure]
<1>1. /\ UNCHANGED << timetable, query, best, destination, origins, starts, at, lines, ride, path >>
      /\ pc = "run" /\ visits # << >> /\ visits' = Tail(visits)
  BY DEF RideTo
<1>2. PICK boarded \in ride.parent : Reach(visit.stop, visit.time, via(boarded))
  BY DEF RideTo
<1>3. visits \in Seq(Visit) /\ visit \in Visit /\ visit = visits[1] /\ 1 \in DOMAIN visits
  BY <1>1, HeadTailProperties, LenProperties DEF IInv, SearchInv, TypeOK
<1>4. /\ visit.stop \in Stops /\ visit.time \in Seconds /\ via(boarded) \in MetaData
      /\ at.time <= visit.time
  BY <1>2, <1>3 DEF Visit, MetaData, IInv, SearchInv, TypeOK, VisitsAhead
<1>5. Later /\ HeapOK' /\ Settled' = Settled /\ pc' = pc
  BY <1>1, <1>2, <1>4, ReachLater
<1>6. ReachedBy(heap', visit.stop, visit.time)
  BY <1>1, <1>2, <1>4, ReachesBy
<1>7. StartsReached'
  BY <1>1, <1>5, StartsStay
<1>8. RidesRelaxed'
  <2>1. \A j \in DOMAIN visits : \/ \E k \in DOMAIN visits' : visits'[k] = visits[j]
                                 \/ ReachedBy(heap', visits[j].stop, visits[j].time)
    BY <1>1, <1>3, <1>6, HeadOrTail
  <2> QED
    BY <1>1, <1>5, <2>1, RidesStay
<1>9. BestOfSettled' /\ RestIsLater'
  BY <1>1, <1>5, BestStays DEF RestIsLater
<1> QED
  BY <1>7, <1>8, <1>9

LEMMA ExtractPathRelax == RInv /\ PInv' /\ ExtractPath => RelaxInv'
<1> SUFFICES ASSUME RInv, PInv', ExtractPath PROVE RelaxInv'
  OBVIOUS
<1> USE DEF RInv, RelaxInv, PInv
<1>1. UNCHANGED << timetable, query, search >> /\ pc = "extract"
  BY DEF ExtractPath
<1>2. Later /\ HeapOK' /\ Settled' = Settled
  BY <1>1, SameHeapLater DEF search
<1>3. StartsReached' /\ RidesRelaxed' /\ BestOfSettled'
  BY <1>1, <1>2, StartsStay, RidesStay, BestStays DEF search
<1>4. RestIsLater'
  BY <1>1 DEF RestIsLater, NoLegs, search, Key
<1> QED
  BY <1>3, <1>4

LEMMA StutterRelax == RInv /\ UNCHANGED vars => RelaxInv'
<1> SUFFICES ASSUME RInv, UNCHANGED vars PROVE RelaxInv'
  OBVIOUS
<1> USE DEF RInv, RelaxInv, PInv
<1>1. Later /\ HeapOK' /\ Settled' = Settled
  BY SameHeapLater DEF vars
<1>2. StartsReached' /\ RidesRelaxed' /\ BestOfSettled'
  BY <1>1, StartsStay, RidesStay, BestStays DEF vars
<1>3. RestIsLater'
  BY DEF RestIsLater, NoLegs, vars, Key
<1> QED
  BY <1>2, <1>3

\* There is one leg to a destination at most, and two times of it are ordered as they are
\* before it.
LEMMA OneLeg ==
    ASSUME NEW stop, NEW leg \in DestinationLegs(stop), NEW other \in DestinationLegs(stop), IsQuery(query)
    PROVE  leg = other /\ leg \in ADLeg /\ leg.stop = stop
<1>1. PICK i \in DOMAIN query.destinations :
        /\ leg = query.destinations[i] /\ query.destinations[i].stop = stop
        /\ \A j \in 1 .. i - 1 : query.destinations[j].stop # stop
  BY DEF DestinationLegs
<1>2. PICK k \in DOMAIN query.destinations :
        /\ other = query.destinations[k] /\ query.destinations[k].stop = stop
        /\ \A j \in 1 .. k - 1 : query.destinations[j].stop # stop
  BY DEF DestinationLegs
<1>3. query.destinations \in Seq(ADLeg)
  BY DEF IsQuery
<1>4. i \in Nat \ {0} /\ k \in Nat \ {0} /\ leg \in ADLeg
  BY <1>1, <1>2, <1>3
<1>5. ~ (i < k) /\ ~ (k < i)
  BY <1>1, <1>2, <1>4
<1>6. i = k
  BY <1>4, <1>5
<1> QED
  BY <1>1, <1>2, <1>4, <1>6

\* Looking at a stop before it is settled takes it into account and loses no better arrival.
LEMMA InspectBest ==
    ASSUME IInv, best' \in Seconds, NEW stop \in heap.queued, Inspect(stop)
    PROVE  /\ best' <= best
           /\ IF query.kind = "legs"
              THEN \A leg \in DestinationLegs(stop) : best' <= Plus(Key(heap, stop), leg.seconds)
              ELSE best' = best
<1>1. best \in Seconds /\ Key(heap, stop) \in Seconds /\ IsQuery(query)
  BY InputTypes DEF IInv, SearchInv, TypeOK, HeapOK, Key, ReachedStops
<1>2. best \in Int /\ best' \in Int
  BY <1>1, WidthAssumption DEF Seconds
<1>3. CASE query.kind # "legs"
  BY <1>2, <1>3 DEF Inspect, UpdateReachedDestination
<1>4. CASE query.kind = "legs"
  <2> DEFINE arrival(leg) == Plus(Key(heap, stop), leg.seconds)
             better == { leg \in DestinationLegs(stop) : arrival(leg) < best }
  <2>1. best' \in IF better = {} THEN {best} ELSE { arrival(leg) : leg \in better }
    BY <1>4 DEF Inspect, CheckAndUpdateBest
  <2>2. \A leg \in DestinationLegs(stop) : arrival(leg) \in Int
    <3> SUFFICES ASSUME NEW leg \in DestinationLegs(stop) PROVE arrival(leg) \in Int
      OBVIOUS
    <3>1. leg \in ADLeg
      BY <1>1, OneLeg
    <3>2. Key(heap, stop) \in Nat /\ leg.seconds \in Nat
      BY <1>1, <3>1, WidthAssumption DEF ADLeg, Seconds
    <3>3. arrival(leg) \in Seconds
      BY <3>2, PlusType
    <3> QED
      BY <3>3, WidthAssumption DEF Seconds
  <2>3. \A leg, other \in DestinationLegs(stop) : leg = other
    BY <1>1, OneLeg
  <2> HIDE DEF arrival
  <2> QED
    BY <1>2, <1>4, <2>1, <2>2, <2>3 DEF arrival
<1> QED
  BY <1>3, <1>4

LEMMA SettleRelax == RInv /\ PInv' /\ Settle => RelaxInv'
<1> SUFFICES ASSUME RInv, PInv', Settle PROVE RelaxInv'
  OBVIOUS
<1> USE DEF RInv, RelaxInv, PInv
<1>1. /\ UNCHANGED << timetable, query, pc, origins, starts, ride, visits, walks, path >>
      /\ pc = "run" /\ visits = << >> /\ lines = << >>
  BY DEF Settle, AtLoopHead, NoVisits
<1>2. PICK stop \in heap.queued :
        /\ Inspect(stop)
        /\ at' = [stop |-> {stop}, time |-> Key(heap, stop)]
        /\ lines' = timetable.stop_to_line[stop]
        /\ heap' = DeleteMin(heap, stop)
  BY DEF Settle, Minimum
<1>3. /\ ReachedStops' = ReachedStops /\ heap'.label = heap.label
      /\ Settled' = Settled \cup {stop}
  BY <1>2 DEF DeleteMin, ReachedStops, Settled, IInv, SearchInv, TypeOK, HeapOK
<1>4. Later /\ HeapOK' /\ \A other : Key(heap, other)' = Key(heap, other)
  <2>1. \A other \in ReachedStops : Key(heap, other) \in Int
    BY KeysAreTimes DEF IInv, SearchInv, TypeOK
  <2> QED
    BY <1>1, <1>3, <2>1 DEF Later, Key, IInv, SearchInv, TypeOK
<1>5. StartsReached'
  BY <1>1, <1>4, StartsStay
<1>6. RidesRelaxed'
  <2> SUFFICES ASSUME NEW other \in Settled', NEW i \in DOMAIN timetable.stop_to_line[other],
                      NEW trip \in Get(timetable.lines[timetable.stop_to_line[other][i]], other,
                                       Key(heap, other)),
                      NEW k \in DOMAIN Visits(trip)
               PROVE  \/ ReachedBy(heap', Visits(trip)[k].stop, Visits(trip)[k].time)
                      \/ /\ other \in at'.stop
                         /\ \E j \in DOMAIN lines' : lines'[j] = timetable.stop_to_line[other][i]
    BY <1>1, <1>4 DEF RidesRelaxed
  <2>1. CASE other = stop
    BY <1>2, <2>1
  <2>2. CASE other \in Settled
    <3>1. ReachedBy(heap, Visits(trip)[k].stop, Visits(trip)[k].time)
      BY <1>1, <2>2 DEF RidesRelaxed
    <3> QED
      BY <1>3, <3>1 DEF ReachedBy, Reached, Key
  <2> QED
    BY <1>3, <2>1, <2>2
<1>7. BestOfSettled'
  <2>1. best' \in Seconds /\ best \in Seconds
    BY DEF IInv, SearchInv, TypeOK
  <2>2. /\ best' <= best
        /\ IF query.kind = "legs"
           THEN \A leg \in DestinationLegs(stop) : best' <= Plus(Key(heap, stop), leg.seconds)
           ELSE best' = best
    BY <1>2, <2>1, InspectBest
  <2>3. CASE query.kind # "legs"
    BY <1>1, <2>2, <2>3 DEF BestOfSettled
  <2>4. CASE query.kind = "legs"
    <3> SUFFICES ASSUME NEW other \in Settled', NEW leg \in DestinationLegs(other)
                 PROVE  best' <= Plus(Key(heap, other), leg.seconds)
      BY <1>1, <1>4, <2>4 DEF BestOfSettled, DestinationLegs
    <3>1. CASE other = stop
      BY <2>2, <2>4, <3>1
    <3>2. CASE other \in Settled
      <4>1. best <= Plus(Key(heap, other), leg.seconds)
        BY <2>4, <3>2 DEF BestOfSettled
      <4>2. leg \in ADLeg /\ Key(heap, other) \in Seconds
        BY <3>2, InputTypes, OneLeg
           DEF IInv, SearchInv, TypeOK, HeapOK, Settled, ReachedStops, Key
      <4>3. Key(heap, other) \in Nat /\ leg.seconds \in Nat
        BY <4>2, WidthAssumption DEF ADLeg, Seconds
      <4>4. Plus(Key(heap, other), leg.seconds) \in Seconds
        BY <4>3, PlusType
      <4> QED
        BY <2>1, <2>2, <4>1, <4>4, WidthAssumption DEF Seconds
    <3> QED
      BY <1>3, <3>1, <3>2
  <2> QED
    BY <2>3, <2>4
<1>8. RestIsLater'
  BY <1>1 DEF RestIsLater
<1> QED
  BY <1>5, <1>6, <1>7, <1>8

\* A line offers one ride at most, so the one that is taken is all there is.
LEMMA OneRide ==
    ASSUME NEW table \in TimeTables, NEW stop \in Stops, NEW desired \in Seconds,
           NEW i \in DOMAIN table.stop_to_line[stop],
           NEW trip \in Get(table.lines[table.stop_to_line[stop][i]], stop, desired),
           NEW other \in Get(table.lines[table.stop_to_line[stop][i]], stop, desired)
    PROVE  trip = other
<1> DEFINE line == table.lines[table.stop_to_line[stop][i]]
           some == Catchable(line, Offset(line, stop), desired)
<1>1. Orderly(line) /\ \E k \in DOMAIN line.stops : line.stops[k] = stop
  BY ScheduleAssumption, Zenon DEF Scheduled
<1>2. trip \in Get(line, stop, desired) /\ other \in Get(line, stop, desired)
  OBVIOUS
<1> HIDE DEF line
<1>3. /\ \E d \in FirstToLeave(line, some) : trip = Service(line, Offset(line, stop), d)
      /\ \E d \in FirstToLeave(line, some) : other = Service(line, Offset(line, stop), d)
  BY <1>1, <1>2, GetIsNextService
<1>4. \A d \in some : d \in Nat /\ line.departures[d].begin \in Nat
  <2> SUFFICES ASSUME NEW d \in some PROVE d \in Nat /\ line.departures[d].begin \in Nat
    OBVIOUS
  <2>1. d \in DOMAIN line.departures /\ line.departures \in Seq(Departure)
    BY <1>1 DEF Catchable, Orderly
  <2>2. d \in Nat /\ line.departures[d] \in Departure
    BY <2>1
  <2> QED
    BY <2>2, WidthAssumption DEF Departure, Seconds
<1> HIDE DEF some
<1>5. \A d, e \in FirstToLeave(line, some) : d = e
  BY <1>4 DEF FirstToLeave
<1> QED
  BY <1>3, <1>5

LEMMA TraverseLineRelax == RInv /\ PInv' /\ TraverseLine => RelaxInv'
<1> SUFFICES ASSUME RInv, PInv', TraverseLine PROVE RelaxInv'
  OBVIOUS
<1> USE DEF RInv, RelaxInv, PInv
<1>1. /\ UNCHANGED << timetable, query, pc, heap, best, destination, origins, starts, at, walks,
                      path >>
      /\ pc = "run" /\ lines # << >> /\ lines' = Tail(lines) /\ visits = << >>
  BY DEF TraverseLine, NoVisits
<1>2. PICK stop \in at.stop :
        LET trips == Get(timetable.lines[Head(lines)], stop, at.time)
        IN  \/ trips = {} /\ UNCHANGED << ride, visits >>
            \/ \E trip \in trips :
                 /\ visits' = Visits(trip)
                 /\ ride' = [parent |-> {stop}, line |-> Head(lines), departure |-> trip.departure]
  BY DEF TraverseLine
<1>3. Later /\ HeapOK' /\ Settled' = Settled
  BY <1>1, SameHeapLater
<1>4. StartsReached'
  BY <1>1, <1>3, StartsStay
<1>5. RidesRelaxed'
  <2> SUFFICES ASSUME NEW other \in Settled, NEW i \in DOMAIN timetable.stop_to_line[other],
                      NEW trip \in Get(timetable.lines[timetable.stop_to_line[other][i]], other,
                                       Key(heap, other)),
                      NEW k \in DOMAIN Visits(trip)
               PROVE  \/ ReachedBy(heap, Visits(trip)[k].stop, Visits(trip)[k].time)
                      \/ /\ other \in at.stop
                         /\ \/ \E j \in DOMAIN lines' : lines'[j] = timetable.stop_to_line[other][i]
                            \/ \E j \in DOMAIN visits' : visits'[j] = Visits(trip)[k]
    BY <1>1, <1>3 DEF RidesRelaxed
  <2>1. \/ ReachedBy(heap, Visits(trip)[k].stop, Visits(trip)[k].time)
        \/ /\ other \in at.stop
           /\ \E j \in DOMAIN lines : lines[j] = timetable.stop_to_line[other][i]
    BY <1>1 DEF RidesRelaxed
  <2>2. ASSUME other \in at.stop, timetable.stop_to_line[other][i] = Head(lines)
        PROVE  \E j \in DOMAIN visits' : visits'[j] = Visits(trip)[k]
    <3>1. /\ other = stop /\ other \in Stops /\ Key(heap, other) = at.time
          /\ at.time \in Seconds /\ timetable \in TimeTables
      BY <1>2, <2>2 DEF IInv, InputOK, SearchInv, TypeOK, AtMostOne, PathInv, SettledAt
    <3>2. trip \in Get(timetable.lines[Head(lines)], stop, at.time)
      BY <2>2, <3>1
    <3>3. PICK taken \in Get(timetable.lines[Head(lines)], stop, at.time) : visits' = Visits(taken)
      BY <1>2, <3>2
    <3>4. taken \in Get(timetable.lines[timetable.stop_to_line[other][i]], other, Key(heap, other))
      BY <2>2, <3>1, <3>3
    <3>5. Key(heap, other) \in Seconds
      BY <3>1
    <3>6. trip = taken
      <4>1. PICK key : key = Key(heap, other)
        OBVIOUS
      <4>2. PICK table : table = timetable
        OBVIOUS
      <4>3. /\ table \in TimeTables /\ other \in Stops /\ key \in Seconds
            /\ i \in DOMAIN table.stop_to_line[other]
            /\ trip \in Get(table.lines[table.stop_to_line[other][i]], other, key)
            /\ taken \in Get(table.lines[table.stop_to_line[other][i]], other, key)
        BY <3>1, <3>4, <3>5, <4>1, <4>2
      <4> QED
        BY <4>3, OneRide
    <3> QED
      BY <3>3, <3>6
  <2>3. ASSUME NEW j \in DOMAIN lines
        PROVE  lines[j] = Head(lines) \/ \E m \in DOMAIN lines' : lines'[m] = lines[j]
    <3>1. lines \in Seq(DOMAIN timetable.lines)
      BY DEF IInv, SearchInv, TypeOK
    <3> QED
      BY <1>1, <3>1, HeadOrTail
  <2> QED
    BY <2>1, <2>2, <2>3
<1>6. BestOfSettled' /\ RestIsLater'
  BY <1>1, <1>3, BestStays DEF RestIsLater
<1> QED
  BY <1>4, <1>5, <1>6

LEMMA BreakEarlyRelax == RInv /\ PInv' /\ BreakEarly => RelaxInv'
<1> SUFFICES ASSUME RInv, PInv', BreakEarly PROVE RelaxInv'
  OBVIOUS
<1> USE DEF RInv, RelaxInv, PInv
<1>1. UNCHANGED << timetable, query, heap, origins, starts, at, lines, ride, visits, walks >>
  BY DEF BreakEarly
<1>2. PICK stop \in Minimum(heap) : Inspect(stop) /\ best' < Key(heap, stop)
  BY DEF BreakEarly
<1>3. best' \in Seconds /\ best \in Seconds
  BY DEF IInv, SearchInv, TypeOK
<1>4. stop \in heap.queued
  BY DEF Minimum
<1>5. /\ best' <= best
      /\ IF query.kind = "legs"
         THEN \A leg \in DestinationLegs(stop) : best' <= Plus(Key(heap, stop), leg.seconds)
         ELSE best' = best
  BY <1>2, <1>3, <1>4, InspectBest
<1>6. Later /\ HeapOK' /\ Settled' = Settled
  BY <1>1, SameHeapLater
<1>7. StartsReached' /\ RidesRelaxed'
  BY <1>1, <1>6, StartsStay, RidesStay
<1>8. BestOfSettled'
  <2>1. CASE query.kind # "legs"
    BY <1>1, <1>5, <2>1 DEF BestOfSettled
  <2>2. CASE query.kind = "legs"
    <3> SUFFICES ASSUME NEW other \in Settled, NEW leg \in DestinationLegs(other)
                 PROVE  best' <= Plus(Key(heap, other), leg.seconds)
      BY <1>1, <1>6, <2>2 DEF BestOfSettled, DestinationLegs
    <3>1. best <= Plus(Key(heap, other), leg.seconds)
      BY <2>2 DEF BestOfSettled
    <3>2. leg \in ADLeg /\ Key(heap, other) \in Seconds
      BY InputTypes, OneLeg DEF IInv, SearchInv, TypeOK, HeapOK, Settled, ReachedStops, Key
    <3>3. Key(heap, other) \in Nat /\ leg.seconds \in Nat
      BY <3>2, WidthAssumption DEF ADLeg, Seconds
    <3>4. Plus(Key(heap, other), leg.seconds) \in Seconds
      BY <3>3, PlusType
    <3> QED
      BY <1>3, <1>5, <3>1, <3>4, WidthAssumption DEF Seconds
  <2> QED
    BY <2>1, <2>2
<1>9. RestIsLater'
  <2> SUFFICES ASSUME NEW other \in heap.queued PROVE best' < Key(heap, other)
    BY <1>1 DEF RestIsLater, Key
  <2>1. Key(heap, stop) \in Int /\ Key(heap, other) \in Int
    BY <1>4, KeysAreTimes DEF IInv, SearchInv, TypeOK, HeapOK
  <2>2. Key(heap, stop) <= Key(heap, other)
    BY <1>2, <2>1 DEF Minimum
  <2> QED
    BY <1>2, <1>3, <2>1, <2>2, WidthAssumption DEF Seconds
<1> QED
  BY <1>7, <1>8, <1>9

LEMMA HeapEmptyRelax == RInv /\ PInv' /\ HeapEmpty => RelaxInv'
<1> SUFFICES ASSUME RInv, PInv', HeapEmpty PROVE RelaxInv'
  OBVIOUS
<1> USE DEF RInv, RelaxInv, PInv
<1>1. /\ UNCHANGED << timetable, query, heap, best, destination, origins, starts, at, lines, ride,
                      visits, walks >>
      /\ heap.queued = {}
  BY DEF HeapEmpty
<1>2. Later /\ HeapOK' /\ Settled' = Settled
  BY <1>1, SameHeapLater
<1>3. StartsReached' /\ RidesRelaxed' /\ BestOfSettled'
  BY <1>1, <1>2, StartsStay, RidesStay, BestStays
<1>4. RestIsLater'
  BY <1>1 DEF RestIsLater
<1> QED
  BY <1>3, <1>4

LEMMA NextRelax == RInv /\ [Next]_vars => RInv'
<1> SUFFICES ASSUME RInv, [Next]_vars PROVE RInv'
  OBVIOUS
<1>1. PInv'
  BY NextPaths DEF RInv
<1>2. RelaxInv'
  BY <1>1, AddOriginRelax, AddStartRelax, SettleRelax, BreakEarlyRelax, HeapEmptyRelax,
     TraverseLineRelax, RideToRelax, WalkToRelax, ExtractPathRelax, StutterRelax
     DEF Next, Returned
<1> QED
  BY <1>1, <1>2 DEF RInv

LEMMA RelaxedInvariant == Spec => []RInv
<1>1. Init => RInv
  BY InitInvariant, InitPaths, InitRelax DEF RInv, PInv
<1> QED
  BY <1>1, NextRelax, PTL DEF Spec

-----------------------------------------------------------------------------
(* Walking on                                                               *)

\* a stop will have been reached by a time when the walks ahead are walked
Coming(queue, ahead, stop, time) ==
    \/ ReachedBy(queue, stop, time)
    \/ \E j \in DOMAIN ahead : ahead[j].stop = stop /\ ahead[j].time <= time

WalkedFrom(queue, ahead, stop, time) ==
    \A walk \in Footpaths(stop) : Coming(queue, ahead, walk.stop, time + walk.duration)

OnFootBy(queue, ahead, stop, time) ==
    StartedBy(stop, time) \/ WalkedFrom(queue, ahead, stop, time)

\* whoever is at a stop has walked on from it, unless the query could start there by then
LabelsWalked(queue, ahead) ==
    \A stop \in DOMAIN queue.label : OnFootBy(queue, ahead, stop, Key(queue, stop))

FootWalked(queue, ahead) ==
    \A j \in DOMAIN ahead : WalkedFrom(queue, ahead, ahead[j].parent, ahead[j].departure)

\* and so has whoever rode there, unless the ride is still to be taken or on its way
RidesWalked(queue, ahead, here, left, coming) ==
    \A stop \in DOMAIN queue.label \ queue.queued :
      \A i \in DOMAIN timetable.stop_to_line[stop] :
        \A trip \in Get(timetable.lines[timetable.stop_to_line[stop][i]], stop, Key(queue, stop)) :
          \A k \in DOMAIN Visits(trip) :
             \/ OnFootBy(queue, ahead, Visits(trip)[k].stop, Visits(trip)[k].time)
             \/ /\ stop \in here.stop
                /\ \/ \E j \in DOMAIN left : left[j] = timetable.stop_to_line[stop][i]
                   \/ \E j \in DOMAIN coming : coming[j] = Visits(trip)[k]

WalkInv ==
    WalksJoin => /\ LabelsWalked(heap, walks) /\ FootWalked(heap, walks)
                 /\ RidesWalked(heap, walks, at, lines, visits)

WInv == RInv /\ WalkInv

\* The times a journey can start at are times of the clock.
LEMMA StartTimesType ==
    ASSUME InputOK, NEW stop \in Stops
    PROVE  StartTimes(stop) \subseteq Seconds
<1> SUFFICES ASSUME NEW i \in DOMAIN query.origins
             PROVE  Plus(query.departure, query.origins[i].seconds) \in Seconds
  BY DEF StartTimes
<1>1. query.departure \in Seconds /\ query.origins \in Seq(ADLeg)
  BY InputTypes DEF IsQuery
<1>2. query.origins[i] \in ADLeg
  BY <1>1
<1>3. query.departure \in Nat /\ query.origins[i].seconds \in Nat
  BY <1>1, <1>2, WidthAssumption DEF ADLeg, Seconds
<1> QED
  BY <1>3, PlusType

\* Where one can walk to, and when.
LEMMA FootpathFacts ==
    ASSUME InputOK, NEW stop \in Stops
    PROVE  /\ \A walk \in Footpaths(stop) : walk.stop \in Stops /\ walk.duration \in Seconds
           /\ \A time : /\ DOMAIN Walks(stop, time) = DOMAIN Walks(stop, 0)
                        /\ \A i \in DOMAIN Walks(stop, time) :
                             /\ Walks(stop, time)[i].parent = stop
                             /\ Walks(stop, time)[i].departure = time
                             /\ Walks(stop, time)[i].stop = Walks(stop, 0)[i].stop
                             /\ Walks(stop, time)[i].time = Plus(time, Walks(stop, 0)[i].time)
                             /\ \E walk \in Footpaths(stop) :
                                  /\ walk.stop = Walks(stop, time)[i].stop
                                  /\ Walks(stop, time)[i].time = Plus(time, walk.duration)
           /\ \A i \in DOMAIN timetable.transfers[stop] :
                \E walk \in Footpaths(stop) :
                   /\ walk.stop = timetable.transfers[stop][i].stop
                   /\ walk.duration = timetable.transfers[stop][i].duration
<1> DEFINE transfers == timetable.transfers[stop]
           station == timetable.stops[timetable.station[stop]]
           Change(k) == IF station[k] = stop THEN 0 ELSE StationWalk
           To(i) == IF i <= Len(transfers) THEN transfers[i].stop
                    ELSE station[i - Len(transfers)]
           Takes(i) == IF i <= Len(transfers) THEN transfers[i].duration
                       ELSE Change(i - Len(transfers))
           places == 1 .. Len(transfers) + Len(station)
<1>1. transfers \in Seq(Transfer) /\ station \in Seq(Stops) /\ StationWalk \in Seconds
  BY InputTypes DEF IsTimeTable
<1>2. Len(transfers) \in Nat /\ Len(station) \in Nat
  BY <1>1
<1>3. ASSUME NEW time
      PROVE  /\ DOMAIN Walks(stop, time) = places
             /\ \A i \in places : Walks(stop, time)[i] = WalkBetween(stop, time, To(i), Takes(i))
  <2>1. PICK first : first = TransferWalks(stop, time)
    OBVIOUS
  <2>2. PICK second : second = StationWalks(stop, time)
    OBVIOUS
  <2>3. /\ first = [ i \in 1 .. Len(transfers) |->
                       WalkBetween(stop, time, transfers[i].stop, transfers[i].duration) ]
        /\ second = [ i \in 1 .. Len(station) |-> WalkBetween(stop, time, station[i], Change(i)) ]
    BY <2>1, <2>2 DEF TransferWalks, StationWalks
  <2> DEFINE Things == Range(first) \cup Range(second)
  <2>4. first \in Seq(Things) /\ second \in Seq(Things)
        /\ Len(first) = Len(transfers) /\ Len(second) = Len(station)
    <3>1. /\ \A i \in 1 .. Len(transfers) : first[i] \in Things
          /\ \A i \in 1 .. Len(station) : second[i] \in Things
      BY <2>3 DEF Range
    <3> HIDE DEF Things, transfers, station, Change
    <3> QED
      BY <1>2, <2>3, <3>1
  <2>5. Walks(stop, time) = first \o second
    BY <2>1, <2>2 DEF Walks
  <2> HIDE DEF Things, transfers, station, To, Takes, Change
  <2>6. /\ DOMAIN (first \o second) = places
        /\ \A i \in places : (first \o second)[i] = IF i <= Len(transfers) THEN first[i]
                                                    ELSE second[i - Len(transfers)]
    BY <1>2, <2>4
  <2>7. ASSUME NEW i \in places
        PROVE  Walks(stop, time)[i] = WalkBetween(stop, time, To(i), Takes(i))
    <3>1. CASE i <= Len(transfers)
      <4>1. i \in 1 .. Len(transfers)
        BY <1>2, <3>1
      <4> QED
        BY <2>3, <2>5, <2>6, <3>1, <4>1 DEF To, Takes
    <3>2. CASE ~ (i <= Len(transfers))
      <4>1. i - Len(transfers) \in 1 .. Len(station)
        BY <1>2, <3>2
      <4> QED
        BY <2>3, <2>5, <2>6, <3>2, <4>1 DEF To, Takes
    <3> QED
      BY <3>1, <3>2
  <2> QED
    BY <2>5, <2>6, <2>7
<1> HIDE DEF transfers, station
<1>4. ASSUME NEW i \in places
      PROVE  To(i) \in Stops /\ Takes(i) \in Seconds /\ Plus(0, Takes(i)) = Takes(i)
  <2>1. CASE i <= Len(transfers)
    <3>1. i \in 1 .. Len(transfers)
      BY <1>2, <2>1
    <3>2. transfers[i] \in Transfer
      BY <1>1, <3>1
    <3>3. To(i) \in Stops /\ Takes(i) \in Seconds
      BY <2>1, <3>2 DEF Transfer
    <3> HIDE DEF Takes, To
    <3> QED
      BY <3>3, PlusFits, WidthAssumption DEF Seconds
  <2>2. CASE ~ (i <= Len(transfers))
    <3>1. i - Len(transfers) \in 1 .. Len(station)
      BY <1>2, <2>2
    <3>2. station[i - Len(transfers)] \in Stops
      BY <1>1, <3>1
    <3>3. 0 \in Seconds
      BY WidthAssumption DEF Seconds
    <3>4. To(i) \in Stops /\ Takes(i) \in Seconds
      BY <1>1, <2>2, <3>2, <3>3
    <3> HIDE DEF Takes, To
    <3> QED
      BY <3>4, PlusFits, WidthAssumption DEF Seconds
  <2> QED
    BY <2>1, <2>2
<1>9. ASSUME NEW i \in DOMAIN transfers
      PROVE  i \in places /\ To(i) = transfers[i].stop /\ Takes(i) = transfers[i].duration
  BY <1>1, <1>2
<1> HIDE DEF To, Takes, places
<1>5. ASSUME NEW time
      PROVE  /\ DOMAIN Walks(stop, time) = places
             /\ \A i \in places : /\ Walks(stop, time)[i].parent = stop
                                  /\ Walks(stop, time)[i].departure = time
                                  /\ Walks(stop, time)[i].stop = To(i)
                                  /\ Walks(stop, time)[i].time = Plus(time, Takes(i))
  <2>1. \A i \in places : Walks(stop, time)[i] = WalkBetween(stop, time, To(i), Takes(i))
    BY <1>3
  <2>2. DOMAIN Walks(stop, time) = places
    BY <1>3
  <2>3. ASSUME NEW i \in places
        PROVE  LET walk == WalkBetween(stop, time, To(i), Takes(i))
               IN  /\ walk.parent = stop /\ walk.departure = time
                   /\ walk.stop = To(i) /\ walk.time = Plus(time, Takes(i))
    BY DEF WalkBetween
  <2> QED
    BY <2>1, <2>2, <2>3
<1>6. Footpaths(stop) = { [stop |-> To(i), duration |-> Takes(i)] : i \in places }
  <2>1. \A i \in places : Walks(stop, 0)[i].stop = To(i) /\ Walks(stop, 0)[i].time = Takes(i)
    BY <1>4, <1>5
  <2>2. DOMAIN Walks(stop, 0) = places
    BY <1>5
  <2> QED
    BY <2>1, <2>2 DEF Footpaths
<1>7. \A walk \in Footpaths(stop) : walk.stop \in Stops /\ walk.duration \in Seconds
  BY <1>4, <1>6
<1>8. ASSUME NEW i \in places
      PROVE  /\ Walks(stop, 0)[i].stop = To(i) /\ Walks(stop, 0)[i].time = Takes(i)
             /\ \E walk \in Footpaths(stop) : walk.stop = To(i) /\ walk.duration = Takes(i)
  <2>1. [stop |-> To(i), duration |-> Takes(i)] \in Footpaths(stop)
    BY <1>6
  <2> QED
    BY <1>4, <1>5, <2>1
<1>10. ASSUME NEW i \in DOMAIN transfers
       PROVE  \E walk \in Footpaths(stop) :
                 walk.stop = transfers[i].stop /\ walk.duration = transfers[i].duration
  BY <1>8, <1>9
<1> QED
  BY <1>5, <1>7, <1>8, <1>10 DEF transfers

LEMMA FootpathWalk ==
    ASSUME InputOK, NEW stop \in Stops, NEW time, NEW walk \in Footpaths(stop)
    PROVE  \E i \in DOMAIN Walks(stop, time) :
              /\ walk.stop = Walks(stop, time)[i].stop
              /\ Walks(stop, time)[i].time = Plus(time, walk.duration)
<1>1. PICK i \in DOMAIN Walks(stop, 0) :
        walk = [stop |-> Walks(stop, 0)[i].stop, duration |-> Walks(stop, 0)[i].time]
  BY DEF Footpaths
<1>2. /\ i \in DOMAIN Walks(stop, time)
      /\ Walks(stop, time)[i].stop = Walks(stop, 0)[i].stop
      /\ Walks(stop, time)[i].time = Plus(time, Walks(stop, 0)[i].time)
  BY FootpathFacts
<1> QED
  BY <1>1, <1>2

\* The network and the query stay what they are.
LEMMA WalkInvNext ==
    ASSUME timetable' = timetable, query' = query, InputOK,
           WalksJoin => /\ LabelsWalked(heap', walks') /\ FootWalked(heap', walks')
                        /\ RidesWalked(heap', walks', at', lines', visits')
    PROVE  WalkInv'
<1>1. \A stop : Footpaths(stop)' = Footpaths(stop)
  <2> SUFFICES ASSUME NEW stop PROVE Footpaths(stop)' = Footpaths(stop)
    OBVIOUS
  <2>1. Walks(stop, 0)' = Walks(stop, 0)
    BY WalksStay
  <2> QED
    BY <2>1 DEF Footpaths
<1>2. \A stop : StartTimes(stop)' = StartTimes(stop)
  BY DEF StartTimes
<1>3. WalksJoin' => WalksJoin
  BY <1>1 DEF WalksJoin
<1>4. LabelsWalked(heap', walks') => LabelsWalked(heap, walks)'
  BY <1>1, <1>2 DEF LabelsWalked, OnFootBy, StartedBy, WalkedFrom
<1>5. FootWalked(heap', walks') => FootWalked(heap, walks)'
  BY <1>1 DEF FootWalked, WalkedFrom
<1>6. RidesWalked(heap', walks', at', lines', visits')
        => RidesWalked(heap, walks, at, lines, visits)'
  BY <1>1, <1>2 DEF RidesWalked, OnFootBy, StartedBy, WalkedFrom
<1> QED
  BY <1>3, <1>4, <1>5, <1>6 DEF WalkInv

\* What is reached by a time is reached by any later one.
LEMMA ComingLater ==
    ASSUME HeapOK, walks \in Seq(Walk), NEW stop, NEW time \in Int, NEW later \in Int,
           time <= later, Coming(heap, walks, stop, time)
    PROVE  Coming(heap, walks, stop, later)
<1>1. CASE ReachedBy(heap, stop, time)
  <2>1. stop \in ReachedStops /\ Key(heap, stop) <= time
    BY <1>1 DEF ReachedBy, Reached, ReachedStops
  <2>2. Key(heap, stop) \in Int
    BY <2>1, KeysAreTimes
  <2>3. Key(heap, stop) <= later
    BY <2>1, <2>2
  <2> QED
    BY <2>1, <2>3 DEF Coming, ReachedBy, Reached, ReachedStops
<1>2. ASSUME NEW j \in DOMAIN walks, walks[j].stop = stop, walks[j].time <= time
      PROVE  Coming(heap, walks, stop, later)
  <2>1. walks[j] \in Walk
    BY <1>2, ElementOfSeq, LenProperties
  <2>2. walks[j].time \in Int
    BY <2>1, WidthAssumption DEF Walk, Seconds
  <2>3. walks[j].time <= later
    BY <1>2, <2>2
  <2> QED
    BY <1>2, <2>3 DEF Coming
<1> QED
  BY <1>1, <1>2 DEF Coming

\* The same after a step.
LEMMA ComingLaterNext ==
    ASSUME HeapOK', walks' \in Seq(Walk), NEW stop, NEW time \in Int, NEW later \in Int,
           time <= later, Coming(heap', walks', stop, time)
    PROVE  Coming(heap', walks', stop, later)
<1>1. CASE ReachedBy(heap', stop, time)
  <2>1. stop \in ReachedStops' /\ Key(heap', stop) <= time
    BY <1>1 DEF ReachedBy, Reached, ReachedStops
  <2>2. Key(heap', stop) \in Int
    BY <2>1, WidthAssumption DEF HeapOK, Key, Seconds
  <2>3. Key(heap', stop) <= later
    BY <2>1, <2>2
  <2> QED
    BY <2>1, <2>3 DEF Coming, ReachedBy, Reached, ReachedStops
<1>2. ASSUME NEW j \in DOMAIN walks', walks'[j].stop = stop, walks'[j].time <= time
      PROVE  Coming(heap', walks', stop, later)
  <2>1. walks'[j] \in Walk
    BY <1>2, ElementOfSeq, LenProperties
  <2>2. walks'[j].time \in Int
    BY <2>1, WidthAssumption DEF Walk, Seconds
  <2>3. walks'[j].time <= later
    BY <1>2, <2>2
  <2> QED
    BY <1>2, <2>3 DEF Coming
<1> QED
  BY <1>1, <1>2 DEF Coming

\* A step that walks where it drops a walk leaves what is coming.
WalksDropped ==
    \A j \in DOMAIN walks : \/ \E k \in DOMAIN walks' : walks'[k] = walks[j]
                            \/ ReachedBy(heap', walks[j].stop, walks[j].time)

LEMMA ComingStays ==
    ASSUME HeapOK, HeapOK', walks \in Seq(Walk), Later, WalksDropped,
           NEW stop, NEW time \in Int, Coming(heap, walks, stop, time)
    PROVE  Coming(heap', walks', stop, time)
<1>1. CASE ReachedBy(heap, stop, time)
  BY <1>1, StaysReachedBy DEF Coming
<1>2. ASSUME NEW j \in DOMAIN walks, walks[j].stop = stop, walks[j].time <= time
      PROVE  Coming(heap', walks', stop, time)
  <2>1. walks[j] \in Walk
    BY <1>2, ElementOfSeq, LenProperties
  <2>2. walks[j].time \in Int
    BY <2>1, WidthAssumption DEF Walk, Seconds
  <2>3. CASE \E k \in DOMAIN walks' : walks'[k] = walks[j]
    BY <1>2, <2>3 DEF Coming
  <2>4. CASE ReachedBy(heap', stop, walks[j].time)
    <3>1. stop \in ReachedStops' /\ Key(heap', stop) <= walks[j].time
      BY <2>4 DEF ReachedBy, Reached, ReachedStops
    <3>2. Key(heap', stop) \in Int
      BY <3>1, WidthAssumption DEF HeapOK, Key, Seconds
    <3>3. Key(heap', stop) <= time
      BY <1>2, <2>2, <3>1, <3>2
    <3> QED
      BY <3>1, <3>3 DEF Coming, ReachedBy, Reached, ReachedStops
  <2> QED
    BY <1>2, <2>3, <2>4 DEF WalksDropped
<1> QED
  BY <1>1, <1>2 DEF Coming

LEMMA WalkedLater ==
    ASSUME InputOK, HeapOK, walks \in Seq(Walk), NEW stop \in Stops, NEW time \in Int,
           NEW later \in Int, time <= later, OnFootBy(heap, walks, stop, time)
    PROVE  OnFootBy(heap, walks, stop, later)
<1>1. CASE StartedBy(stop, time)
  <2>1. PICK start \in StartTimes(stop) : start <= time
    BY <1>1 DEF StartedBy
  <2>2. start \in Int
    BY StartTimesType, WidthAssumption DEF Seconds
  <2>3. start <= later
    BY <2>1, <2>2
  <2> QED
    BY <2>3 DEF OnFootBy, StartedBy
<1>2. CASE WalkedFrom(heap, walks, stop, time)
  <2>1. ASSUME NEW walk \in Footpaths(stop)
        PROVE  Coming(heap, walks, walk.stop, later + walk.duration)
    <3>1. PICK duration : duration = walk.duration
      OBVIOUS
    <3>2. duration \in Int
      BY <3>1, FootpathFacts, WidthAssumption DEF Seconds
    <3>3. time + duration \in Int /\ later + duration \in Int /\ time + duration <= later + duration
      BY <3>2
    <3>4. Coming(heap, walks, walk.stop, time + duration)
      BY <1>2, <3>1 DEF WalkedFrom
    <3> QED
      BY <3>1, <3>3, <3>4, ComingLater
  <2> QED
    BY <2>1 DEF OnFootBy, WalkedFrom
<1> QED
  BY <1>1, <1>2 DEF OnFootBy

LEMMA WalkedStays ==
    ASSUME InputOK, HeapOK, HeapOK', walks \in Seq(Walk), Later, WalksDropped,
           NEW stop \in Stops, NEW time \in Int
    PROVE  /\ WalkedFrom(heap, walks, stop, time) => WalkedFrom(heap', walks', stop, time)
           /\ OnFootBy(heap, walks, stop, time) => OnFootBy(heap', walks', stop, time)
<1>1. ASSUME WalkedFrom(heap, walks, stop, time)
      PROVE  WalkedFrom(heap', walks', stop, time)
  <2>1. ASSUME NEW walk \in Footpaths(stop)
        PROVE  Coming(heap', walks', walk.stop, time + walk.duration)
    <3>1. PICK duration : duration = walk.duration
      OBVIOUS
    <3>2. duration \in Int
      BY <3>1, FootpathFacts, WidthAssumption DEF Seconds
    <3>3. time + duration \in Int
      BY <3>2
    <3>4. Coming(heap, walks, walk.stop, time + duration)
      BY <1>1, <3>1 DEF WalkedFrom
    <3> QED
      BY <3>1, <3>3, <3>4, ComingStays
  <2> QED
    BY <2>1 DEF WalkedFrom
<1> QED
  BY <1>1 DEF OnFootBy

LEMMA LabelsStillWalked ==
    ASSUME WInv, WalksJoin, HeapOK', Later, WalksDropped
    PROVE  /\ \A stop \in ReachedStops :
                 heap'.label[stop] = heap.label[stop]
                     => OnFootBy(heap', walks', stop, Key(heap', stop))
           /\ \A j \in DOMAIN walks :
                 WalkedFrom(heap', walks', walks[j].parent, walks[j].departure)
<1>1. InputOK /\ HeapOK /\ walks \in Seq(Walk)
  BY DEF WInv, RInv, PInv, IInv, SearchInv, TypeOK
<1>2. ASSUME NEW stop \in ReachedStops, heap'.label[stop] = heap.label[stop]
      PROVE  OnFootBy(heap', walks', stop, Key(heap', stop))
  <2>1. PICK key : key = Key(heap, stop)
    OBVIOUS
  <2>2. key \in Int /\ stop \in Stops /\ key = Key(heap', stop)
    BY <1>1, <1>2, <2>1, KeysAreTimes DEF HeapOK, Key
  <2>3. OnFootBy(heap, walks, stop, key)
    BY <2>1 DEF WInv, WalkInv, LabelsWalked, ReachedStops
  <2> QED
    BY <1>1, <2>2, <2>3, WalkedStays
<1>3. ASSUME NEW j \in DOMAIN walks
      PROVE  WalkedFrom(heap', walks', walks[j].parent, walks[j].departure)
  <2>1. PICK parent : parent = walks[j].parent
    OBVIOUS
  <2>2. PICK departure : departure = walks[j].departure
    OBVIOUS
  <2>3. walks[j] \in Walk
    BY <1>1, <1>3, ElementOfSeq, LenProperties
  <2>4. parent \in Stops /\ departure \in Int
    BY <2>1, <2>2, <2>3, WidthAssumption DEF Walk, Seconds
  <2>5. WalkedFrom(heap, walks, parent, departure)
    BY <2>1, <2>2 DEF WInv, WalkInv, FootWalked
  <2> QED
    BY <1>1, <2>1, <2>2, <2>4, <2>5, WalkedStays
<1> QED
  BY <1>2, <1>3

LEMMA RidesStillWalked ==
    ASSUME WInv, WalksJoin, HeapOK', Later, WalksDropped, Settled' = Settled,
           at' = at, lines' = lines,
           \A j \in DOMAIN visits : \/ \E k \in DOMAIN visits' : visits'[k] = visits[j]
                                    \/ OnFootBy(heap', walks', visits[j].stop, visits[j].time)
    PROVE  RidesWalked(heap', walks', at', lines', visits')
<1>1. /\ InputOK /\ HeapOK /\ walks \in Seq(Walk)
      /\ RidesWalked(heap, walks, at, lines, visits)
  BY DEF WInv, WalkInv, RInv, PInv, IInv, SearchInv, TypeOK
<1>2. \A stop \in Settled : stop \in Stops /\ Key(heap', stop) = Key(heap, stop)
                            /\ Key(heap, stop) \in Seconds
  BY <1>1 DEF HeapOK, Later, Settled, ReachedStops, Key
<1> SUFFICES ASSUME NEW stop \in Settled, NEW i \in DOMAIN timetable.stop_to_line[stop],
                    NEW trip \in Get(timetable.lines[timetable.stop_to_line[stop][i]], stop,
                                     Key(heap, stop)),
                    NEW k \in DOMAIN Visits(trip)
             PROVE  \/ OnFootBy(heap', walks', Visits(trip)[k].stop, Visits(trip)[k].time)
                    \/ /\ stop \in at.stop
                       /\ \/ \E j \in DOMAIN lines : lines[j] = timetable.stop_to_line[stop][i]
                          \/ \E j \in DOMAIN visits' : visits'[j] = Visits(trip)[k]
  BY <1>2 DEF RidesWalked, Settled, ReachedStops
<1>3. PICK visit : visit = Visits(trip)[k]
  OBVIOUS
<1>4. visit.time \in Int /\ visit.stop \in Stops
  BY <1>1, <1>2, <1>3, RidesVisitStops DEF Visit
<1>5. \/ OnFootBy(heap, walks, visit.stop, visit.time)
      \/ /\ stop \in at.stop
         /\ \/ \E j \in DOMAIN lines : lines[j] = timetable.stop_to_line[stop][i]
            \/ \E j \in DOMAIN visits : visits[j] = visit
  BY <1>1, <1>3 DEF RidesWalked, Settled, ReachedStops
<1>6. OnFootBy(heap, walks, visit.stop, visit.time)
        => OnFootBy(heap', walks', visit.stop, visit.time)
  BY <1>1, <1>4, WalkedStays
<1> QED
  BY <1>3, <1>5, <1>6

LEMMA InitWalks == Init => WalkInv
<1> SUFFICES ASSUME Init PROVE WalkInv
  OBVIOUS
<1>1. DOMAIN heap.label = {} /\ walks = << >>
  BY DEF Init, Empty
<1> QED
  BY <1>1 DEF WalkInv, LabelsWalked, FootWalked, RidesWalked

\* Steps that neither reach a stop nor take a ride.
LEMMA IdleWalks ==
    ASSUME WInv, UNCHANGED << timetable, query, heap, at, lines, visits, walks >>
    PROVE  WalkInv'
  BY WalkInvNext DEF WInv, WalkInv, RInv, PInv, IInv

LEMMA AddStartWalks == WInv /\ AddStart => WalkInv'
<1> SUFFICES ASSUME WInv, AddStart PROVE WalkInv'
  OBVIOUS
<1> USE DEF WInv, RInv, PInv
<1> DEFINE start == Head(starts)
           via == [parent |-> start.stop, line |-> WALKING_TRANSFER,
                   departure |-> query.departure]
<1>1. /\ UNCHANGED << timetable, query, best, destination, origins, at, lines, ride, visits,
                      walks, path >>
      /\ starts # << >> /\ Reach(start.stop, start.time, via)
  BY DEF AddStart
<1>2. start \in Start /\ start = starts[1] /\ 1 \in DOMAIN starts
  BY <1>1, HeadTailProperties, LenProperties DEF IInv, SearchInv, TypeOK
<1>3. /\ start.stop \in Stops /\ start.time \in Seconds /\ via \in MetaData
      /\ at.time <= start.time
  <2>1. query.departure \in Seconds
    BY InputTypes DEF IInv, IsQuery
  <2>2. at.time = 0
    BY <1>1 DEF IInv, SearchInv, Starting, NoStarts
  <2> QED
    BY <1>2, <2>1, <2>2, WidthAssumption DEF Start, Seconds, MetaData, WALKING_TRANSFER
<1>4. /\ Later /\ HeapOK' /\ Settled' = Settled
      /\ ReachedStops' = ReachedStops \cup {start.stop}
      /\ Improves(start.stop, start.time)
            => heap'.label[start.stop] = [key |-> start.time, data |-> via]
      /\ ~ Improves(start.stop, start.time) => heap' = heap
      /\ \A other \in ReachedStops \ {start.stop} : heap'.label[other] = heap.label[other]
  BY <1>1, <1>3, ReachLater
<1>5. WalksDropped
  BY <1>1 DEF WalksDropped
<1> SUFFICES ASSUME WalksJoin
             PROVE  /\ LabelsWalked(heap', walks') /\ FootWalked(heap', walks')
                    /\ RidesWalked(heap', walks', at', lines', visits')
  BY <1>1, WalkInvNext DEF IInv
<1>6. LabelsWalked(heap', walks')
  <2> SUFFICES ASSUME NEW stop \in ReachedStops'
               PROVE  OnFootBy(heap', walks', stop, Key(heap', stop))
    BY DEF LabelsWalked, ReachedStops
  <2>1. CASE stop \in ReachedStops /\ heap'.label[stop] = heap.label[stop]
    BY <1>4, <1>5, <2>1, LabelsStillWalked
  <2>2. CASE stop = start.stop /\ Improves(start.stop, start.time)
    <3>1. Key(heap', stop) = start.time
      BY <1>4, <2>2 DEF Key
    <3>2. start.time \in StartTimes(stop)
      BY <1>2, <2>2 DEF PathInv, StartsOfQuery, StartTimes
    <3>3. start.time <= start.time
      BY <1>3, WidthAssumption DEF Seconds
    <3> QED
      BY <3>1, <3>2, <3>3 DEF OnFootBy, StartedBy
  <2> QED
    BY <1>4, <2>1, <2>2 DEF Improves, Reached, ReachedStops
<1>7. FootWalked(heap', walks')
  BY <1>1, <1>4, <1>5, LabelsStillWalked DEF FootWalked
<1>8. RidesWalked(heap', walks', at', lines', visits')
  BY <1>1, <1>4, <1>5, RidesStillWalked
<1> QED
  BY <1>6, <1>7, <1>8

LEMMA SettleWalks == WInv /\ Settle => WalkInv'
<1> SUFFICES ASSUME WInv, Settle PROVE WalkInv'
  OBVIOUS
<1> USE DEF WInv, RInv, PInv
<1>1. /\ UNCHANGED << timetable, query, pc, origins, starts, ride, visits, walks, path >>
      /\ visits = << >> /\ lines = << >>
  BY DEF Settle, AtLoopHead, NoVisits
<1>2. PICK stop \in heap.queued :
        /\ at' = [stop |-> {stop}, time |-> Key(heap, stop)]
        /\ lines' = timetable.stop_to_line[stop]
        /\ heap' = DeleteMin(heap, stop)
  BY DEF Settle, Minimum
<1>3. /\ heap'.label = heap.label /\ heap'.queued = heap.queued \ {stop}
  BY <1>2 DEF DeleteMin
<1> SUFFICES ASSUME WalksJoin
             PROVE  /\ LabelsWalked(heap', walks') /\ FootWalked(heap', walks')
                    /\ RidesWalked(heap', walks', at', lines', visits')
  BY <1>1, WalkInvNext DEF IInv
<1>4. /\ LabelsWalked(heap, walks) /\ FootWalked(heap, walks)
      /\ RidesWalked(heap, walks, at, lines, visits)
  BY DEF WalkInv
<1>5. ASSUME NEW other, NEW time
      PROVE  /\ OnFootBy(heap', walks', other, time) <=> OnFootBy(heap, walks, other, time)
             /\ WalkedFrom(heap', walks', other, time) <=> WalkedFrom(heap, walks, other, time)
             /\ Key(heap', other) = Key(heap, other)
  BY <1>1, <1>3 DEF OnFootBy, WalkedFrom, Coming, ReachedBy, Reached, Key
<1>6. LabelsWalked(heap', walks') /\ FootWalked(heap', walks')
  <2>1. LabelsWalked(heap', walks')
    BY <1>3, <1>4, <1>5 DEF LabelsWalked
  <2>2. FootWalked(heap', walks')
    BY <1>1, <1>4, <1>5 DEF FootWalked
  <2> QED
    BY <2>1, <2>2
<1>7. RidesWalked(heap', walks', at', lines', visits')
  <2> SUFFICES ASSUME NEW other \in (DOMAIN heap.label \ heap.queued) \cup {stop},
                      NEW i \in DOMAIN timetable.stop_to_line[other],
                      NEW trip \in Get(timetable.lines[timetable.stop_to_line[other][i]], other,
                                       Key(heap, other)),
                      NEW k \in DOMAIN Visits(trip)
               PROVE  \/ OnFootBy(heap', walks', Visits(trip)[k].stop, Visits(trip)[k].time)
                      \/ /\ other \in at'.stop
                         /\ \E j \in DOMAIN lines' : lines'[j] = timetable.stop_to_line[other][i]
    BY <1>3, <1>5 DEF RidesWalked
  <2>1. CASE other = stop
    BY <1>2, <2>1
  <2>2. CASE other \in DOMAIN heap.label \ heap.queued
    <3>1. OnFootBy(heap, walks, Visits(trip)[k].stop, Visits(trip)[k].time)
      BY <1>1, <1>4, <2>2 DEF RidesWalked
    <3> QED
      BY <1>5, <3>1
  <2> QED
    BY <2>1, <2>2
<1> QED
  BY <1>6, <1>7

LEMMA TraverseLineWalks == WInv /\ TraverseLine => WalkInv'
<1> SUFFICES ASSUME WInv, TraverseLine PROVE WalkInv'
  OBVIOUS
<1> USE DEF WInv, RInv, PInv
<1>1. /\ UNCHANGED << timetable, query, heap, at, walks >>
      /\ lines # << >> /\ lines' = Tail(lines) /\ visits = << >>
  BY DEF TraverseLine, NoVisits
<1>2. PICK stop \in at.stop :
        LET trips == Get(timetable.lines[Head(lines)], stop, at.time)
        IN  \/ trips = {} /\ UNCHANGED << ride, visits >>
            \/ \E trip \in trips :
                 /\ visits' = Visits(trip)
                 /\ ride' = [parent |-> {stop}, line |-> Head(lines), departure |-> trip.departure]
  BY DEF TraverseLine
<1> SUFFICES ASSUME WalksJoin
             PROVE  /\ LabelsWalked(heap', walks') /\ FootWalked(heap', walks')
                    /\ RidesWalked(heap', walks', at', lines', visits')
  BY <1>1, WalkInvNext DEF IInv
<1>3. /\ LabelsWalked(heap, walks) /\ FootWalked(heap, walks)
      /\ RidesWalked(heap, walks, at, lines, visits)
  BY DEF WalkInv
<1>4. RidesWalked(heap, walks, at, lines', visits')
  <2> SUFFICES ASSUME NEW other \in Settled, NEW i \in DOMAIN timetable.stop_to_line[other],
                      NEW trip \in Get(timetable.lines[timetable.stop_to_line[other][i]], other,
                                       Key(heap, other)),
                      NEW k \in DOMAIN Visits(trip)
               PROVE  \/ OnFootBy(heap, walks, Visits(trip)[k].stop, Visits(trip)[k].time)
                      \/ /\ other \in at.stop
                         /\ \/ \E j \in DOMAIN lines' : lines'[j] = timetable.stop_to_line[other][i]
                            \/ \E j \in DOMAIN visits' : visits'[j] = Visits(trip)[k]
    BY DEF RidesWalked, Settled, ReachedStops
  <2>1. \/ OnFootBy(heap, walks, Visits(trip)[k].stop, Visits(trip)[k].time)
        \/ /\ other \in at.stop
           /\ \E j \in DOMAIN lines : lines[j] = timetable.stop_to_line[other][i]
    BY <1>1, <1>3 DEF RidesWalked, Settled, ReachedStops
  <2>2. ASSUME other \in at.stop, timetable.stop_to_line[other][i] = Head(lines)
        PROVE  \E j \in DOMAIN visits' : visits'[j] = Visits(trip)[k]
    <3>1. PICK key : key = Key(heap, other)
      OBVIOUS
    <3>2. PICK table : table = timetable
      OBVIOUS
    <3>3. /\ other = stop /\ other \in Stops /\ key = at.time
          /\ key \in Seconds /\ table \in TimeTables
      BY <1>2, <2>2, <3>1, <3>2
         DEF IInv, InputOK, SearchInv, TypeOK, AtMostOne, PathInv, SettledAt
    <3>4. trip \in Get(table.lines[Head(lines)], stop, at.time)
      BY <2>2, <3>1, <3>2, <3>3
    <3>5. PICK taken \in Get(table.lines[Head(lines)], stop, at.time) : visits' = Visits(taken)
      BY <1>2, <3>2, <3>4
    <3>6. /\ trip \in Get(table.lines[table.stop_to_line[other][i]], other, key)
          /\ taken \in Get(table.lines[table.stop_to_line[other][i]], other, key)
          /\ i \in DOMAIN table.stop_to_line[other]
      BY <2>2, <3>1, <3>2, <3>3, <3>5
    <3>7. trip = taken
      <4>1. table \in TimeTables /\ other \in Stops /\ key \in Seconds
        BY <3>3
      <4> QED
        BY <3>6, <4>1, OneRide
    <3> QED
      BY <3>5, <3>7
  <2>3. ASSUME NEW j \in DOMAIN lines
        PROVE  lines[j] = Head(lines) \/ \E m \in DOMAIN lines' : lines'[m] = lines[j]
    <3>1. lines \in Seq(DOMAIN timetable.lines)
      BY DEF IInv, SearchInv, TypeOK
    <3> QED
      BY <1>1, <3>1, HeadOrTail
  <2> QED
    BY <2>1, <2>2, <2>3
<1> QED
  BY <1>1, <1>3, <1>4

LEMMA RideToWalks == WInv /\ RideTo => WalkInv'
<1> SUFFICES ASSUME WInv, RideTo PROVE WalkInv'
  OBVIOUS
<1> USE DEF WInv, RInv, PInv
<1> DEFINE visit == Head(visits)
           via(boarded) == [parent |-> boarded, line |-> ride.line, departure |-> ride.departure]
<1>1. /\ UNCHANGED << timetable, query, best, destination, origins, starts, at, lines, ride, path >>
      /\ walks = << >> /\ visits # << >> /\ visits' = Tail(visits)
      /\ walks' = IF Improves(visit.stop, visit.time) THEN Walks(visit.stop, visit.time) ELSE << >>
  BY DEF RideTo
<1>2. PICK boarded \in ride.parent : Reach(visit.stop, visit.time, via(boarded))
  BY DEF RideTo
<1>3. visits \in Seq(Visit) /\ visit \in Visit /\ visit = visits[1] /\ 1 \in DOMAIN visits
  BY <1>1, HeadTailProperties, LenProperties DEF IInv, SearchInv, TypeOK
<1>4. /\ visit.stop \in Stops /\ visit.time \in Seconds /\ via(boarded) \in MetaData
      /\ at.time <= visit.time /\ WalksFit(timetable, visit)
  BY <1>2, <1>3 DEF Visit, MetaData, IInv, SearchInv, TypeOK, VisitsAhead
<1>5. /\ Later /\ HeapOK' /\ Settled' = Settled
      /\ ReachedStops' = ReachedStops \cup {visit.stop}
      /\ Improves(visit.stop, visit.time)
            => heap'.label[visit.stop] = [key |-> visit.time, data |-> via(boarded)]
      /\ ~ Improves(visit.stop, visit.time) => heap' = heap
      /\ \A other \in ReachedStops \ {visit.stop} : heap'.label[other] = heap.label[other]
  BY <1>1, <1>2, <1>4, ReachLater
<1>6. WalksDropped
  BY <1>1 DEF WalksDropped
<1> SUFFICES ASSUME WalksJoin
             PROVE  /\ LabelsWalked(heap', walks') /\ FootWalked(heap', walks')
                    /\ RidesWalked(heap', walks', at', lines', visits')
  BY <1>1, WalkInvNext DEF IInv
<1>7. /\ InputOK /\ HeapOK /\ walks \in Seq(Walk)
      /\ LabelsWalked(heap, walks)
  BY DEF WalkInv, IInv, SearchInv, TypeOK
\* whoever gets off walks on, or was there before
<1>8. Improves(visit.stop, visit.time)
        => /\ WalkedFrom(heap', walks', visit.stop, visit.time)
           /\ \A j \in DOMAIN walks' : /\ walks'[j].parent = visit.stop
                                       /\ walks'[j].departure = visit.time
  <2> SUFFICES ASSUME Improves(visit.stop, visit.time)
               PROVE  /\ WalkedFrom(heap', walks', visit.stop, visit.time)
                      /\ \A j \in DOMAIN walks' : /\ walks'[j].parent = visit.stop
                                                  /\ walks'[j].departure = visit.time
    OBVIOUS
  <2>1. PICK v : v = visit
    OBVIOUS
  <2>2. walks' = Walks(v.stop, v.time) /\ v.stop \in Stops /\ v \in Visit
        /\ WalksFit(timetable, v) /\ v.time \in Seconds
    BY <1>1, <1>3, <1>4, <2>1
  <2>3. walks' \in Seq(WalksFrom(v.stop, v.time))
    BY <1>7, <2>2, WalksType
  <2>4. \A j \in DOMAIN walks' : walks'[j] \in WalksFrom(v.stop, v.time)
    BY <2>3, ElementOfSeq, LenProperties
  <2>5. ASSUME NEW walk \in Footpaths(v.stop)
        PROVE  Coming(heap', walks', walk.stop, v.time + walk.duration)
    <3>1. PICK i \in DOMAIN walks' :
            /\ walk.stop = walks'[i].stop /\ walks'[i].time = Plus(v.time, walk.duration)
      <4>1. PICK stop : stop = v.stop
        OBVIOUS
      <4>2. PICK time : time = v.time
        OBVIOUS
      <4>3. stop \in Stops /\ walk \in Footpaths(stop)
        BY <2>2, <4>1
      <4>4. \E i \in DOMAIN Walks(stop, time) :
               /\ walk.stop = Walks(stop, time)[i].stop
               /\ Walks(stop, time)[i].time = Plus(time, walk.duration)
        BY <1>7, <4>3, FootpathWalk
      <4> QED
        BY <2>2, <4>1, <4>2, <4>4
    <3>2. PICK duration : duration = walk.duration
      OBVIOUS
    <3>3. PICK time : time = v.time
      OBVIOUS
    <3>4. time \in Nat /\ duration \in Nat /\ time < Width /\ duration < Width
      <4>1. \A other \in Footpaths(v.stop) : other.duration \in Seconds
        BY <1>7, <2>2, FootpathFacts
      <4>2. duration \in Seconds /\ time \in Seconds
        BY <2>2, <3>2, <3>3, <4>1
      <4> QED
        BY <4>2, WidthAssumption DEF Seconds
    <3>5. time <= Plus(time, duration)
      BY <2>4, <3>1, <3>2, <3>3 DEF WalksFrom
    <3>6. Plus(time, duration) = time + duration
      <4>1. CASE time + duration < Width
        BY <3>4, <4>1, PlusFits
      <4>2. CASE ~ (time + duration < Width)
        <5>1. Plus(time, duration) = time + duration - Width
          BY <3>4, <4>2, WidthAssumption DEF Plus
        <5> QED
          BY <3>4, <3>5, <5>1, WidthAssumption
      <4> QED
        BY <4>1, <4>2
    <3>7. walks'[i].stop = walk.stop /\ walks'[i].time = time + duration
          /\ time + duration <= time + duration
      BY <3>1, <3>2, <3>3, <3>4, <3>6
    <3> QED
      BY <3>2, <3>3, <3>7 DEF Coming
  <2>6. WalkedFrom(heap', walks', v.stop, v.time)
    BY <2>5 DEF WalkedFrom
  <2> QED
    BY <2>1, <2>4, <2>6 DEF WalksFrom
<1>9. OnFootBy(heap', walks', visit.stop, visit.time)
  <2>1. CASE Improves(visit.stop, visit.time)
    BY <1>8, <2>1 DEF OnFootBy
  <2>2. CASE ~ Improves(visit.stop, visit.time)
    <3>1. PICK key : key = Key(heap, visit.stop)
      OBVIOUS
    <3>2. visit.stop \in ReachedStops /\ ~ (visit.time < key)
      BY <2>2, <3>1 DEF Improves, Lowers, Reached, ReachedStops
    <3>3. key \in Int /\ visit.time \in Int
      BY <1>4, <1>7, <3>1, <3>2, KeysAreTimes, WidthAssumption DEF Seconds
    <3>4. key <= visit.time
      BY <3>2, <3>3
    <3>5. OnFootBy(heap, walks, visit.stop, key)
      BY <1>7, <3>1, <3>2 DEF LabelsWalked, ReachedStops
    <3>6. OnFootBy(heap, walks, visit.stop, visit.time)
      BY <1>4, <1>7, <3>3, <3>4, <3>5, WalkedLater
    <3> QED
      BY <1>1, <1>5, <2>2, <3>6
  <2> QED
    BY <2>1, <2>2
<1>10. LabelsWalked(heap', walks')
  <2> SUFFICES ASSUME NEW stop \in ReachedStops'
               PROVE  OnFootBy(heap', walks', stop, Key(heap', stop))
    BY DEF LabelsWalked, ReachedStops
  <2>1. CASE stop \in ReachedStops /\ heap'.label[stop] = heap.label[stop]
    BY <1>5, <1>6, <2>1, LabelsStillWalked
  <2>2. CASE stop = visit.stop /\ Improves(visit.stop, visit.time)
    <3>1. Key(heap', stop) = visit.time
      BY <1>5, <2>2 DEF Key
    <3> QED
      BY <1>9, <2>2, <3>1
  <2> QED
    BY <1>5, <2>1, <2>2 DEF Improves, Reached, ReachedStops
<1>11. FootWalked(heap', walks')
  <2>1. CASE Improves(visit.stop, visit.time)
    BY <1>8, <2>1 DEF FootWalked
  <2>2. CASE ~ Improves(visit.stop, visit.time)
    BY <1>1, <2>2 DEF FootWalked
  <2> QED
    BY <2>1, <2>2
<1>12. RidesWalked(heap', walks', at', lines', visits')
  <2>1. \A j \in DOMAIN visits : \/ \E k \in DOMAIN visits' : visits'[k] = visits[j]
                                 \/ OnFootBy(heap', walks', visits[j].stop, visits[j].time)
    BY <1>1, <1>3, <1>9, HeadOrTail
  <2> QED
    BY <1>1, <1>5, <1>6, <2>1, RidesStillWalked
<1> QED
  BY <1>10, <1>11, <1>12

LEMMA WalkToWalks == WInv /\ WalkTo => WalkInv'
<1> SUFFICES ASSUME WInv, WalkTo PROVE WalkInv'
  OBVIOUS
<1> USE DEF WInv, RInv, PInv
<1> DEFINE walk == Head(walks)
           via == [parent |-> walk.parent, line |-> WALKING_TRANSFER,
                   departure |-> walk.departure]
<1>1. /\ UNCHANGED << timetable, query, best, destination, origins, starts, at, lines, ride,
                      visits, path >>
      /\ walks # << >> /\ walks' = Tail(walks)
      /\ Reach(walk.stop, walk.time, via)
  BY DEF WalkTo
<1>2. walk \in Walk /\ walk = walks[1] /\ 1 \in DOMAIN walks /\ walks \in Seq(Walk)
  BY <1>1, HeadTailProperties, LenProperties DEF IInv, SearchInv, TypeOK
<1>3. walk.stop \in Stops /\ walk.time \in Seconds /\ via \in MetaData /\ at.time <= walk.time
  BY <1>2 DEF Walk, MetaData, WALKING_TRANSFER, WalksAhead, IInv, SearchInv
<1>4. /\ Later /\ HeapOK' /\ Settled' = Settled
      /\ ReachedStops' = ReachedStops \cup {walk.stop}
      /\ Improves(walk.stop, walk.time) => heap'.label[walk.stop] = [key |-> walk.time, data |-> via]
      /\ ~ Improves(walk.stop, walk.time) => heap' = heap
      /\ \A other \in ReachedStops \ {walk.stop} : heap'.label[other] = heap.label[other]
  BY <1>1, <1>3, ReachLater
<1>5. ReachedBy(heap', walk.stop, walk.time)
  BY <1>1, <1>3, ReachesBy
<1>6. WalksDropped
  BY <1>1, <1>2, <1>5, HeadOrTail DEF WalksDropped
<1> SUFFICES ASSUME WalksJoin
             PROVE  /\ LabelsWalked(heap', walks') /\ FootWalked(heap', walks')
                    /\ RidesWalked(heap', walks', at', lines', visits')
  BY <1>1, WalkInvNext DEF IInv
<1>7. InputOK /\ HeapOK /\ FootWalked(heap, walks)
  BY DEF WalkInv, IInv, SearchInv, TypeOK
\* walks join: who has walked here need not walk on
<1>8. WalkedFrom(heap', walks', walk.stop, walk.time)
  <2>1. PICK parent : parent = walk.parent
    OBVIOUS
  <2>2. PICK departure : departure = walk.departure
    OBVIOUS
  <2>3. parent \in Stops /\ departure \in Nat /\ departure < Width
    BY <1>2, <2>1, <2>2, WidthAssumption DEF Walk, Seconds
  <2>4. /\ departure <= walk.time
        /\ \E i \in DOMAIN Walks(parent, departure) :
             /\ Walks(parent, departure)[i].stop = walk.stop
             /\ Walks(parent, departure)[i].time = walk.time
    BY <1>2, <2>1, <2>2 DEF PathInv, OnFoot
  <2>5. PICK first \in Footpaths(parent) :
          first.stop = walk.stop /\ walk.time = Plus(departure, first.duration)
    BY <1>7, <2>3, <2>4, FootpathFacts
  <2>6. PICK taken : taken = first.duration
    OBVIOUS
  <2>7. taken \in Nat /\ taken < Width
    BY <1>7, <2>3, <2>6, FootpathFacts, WidthAssumption DEF Seconds
  <2>8. walk.time = departure + taken
    <3>1. CASE departure + taken < Width
      BY <2>3, <2>5, <2>6, <2>7, <3>1, PlusFits
    <3>2. CASE ~ (departure + taken < Width)
      <4>1. Plus(departure, taken) = departure + taken - Width
        BY <2>3, <2>7, <3>2, WidthAssumption DEF Plus
      <4>2. departure <= departure + taken - Width
        BY <2>4, <2>5, <2>6, <4>1
      <4> QED
        BY <2>3, <2>7, <4>2, WidthAssumption
    <3> QED
      BY <3>1, <3>2
  <2>9. WalkedFrom(heap', walks', parent, departure)
    <3>1. WalkedFrom(heap, walks, parent, departure)
      BY <1>2, <1>7, <2>1, <2>2 DEF FootWalked
    <3> QED
      BY <1>2, <1>4, <1>6, <1>7, <2>3, <3>1, WalkedStays
  <2>10. walks' \in Seq(Walk)
    BY <1>1, <1>2
  <2>11. ASSUME NEW second \in Footpaths(walk.stop)
         PROVE  Coming(heap', walks', second.stop, walk.time + second.duration)
    <3>1. PICK direct \in Footpaths(parent) :
            direct.stop = second.stop /\ direct.duration <= first.duration + second.duration
      BY <2>3, <2>5 DEF WalksJoin
    <3>2. PICK d : d = direct.duration
      OBVIOUS
    <3>3. PICK s : s = second.duration
      OBVIOUS
    <3>4. d \in Nat /\ s \in Nat /\ d <= taken + s
      BY <1>3, <1>7, <2>3, <2>6, <3>1, <3>2, <3>3, FootpathFacts, WidthAssumption DEF Seconds
    <3>5. Coming(heap', walks', second.stop, departure + d)
      BY <2>9, <3>1, <3>2 DEF WalkedFrom
    <3>6. departure + d \in Int /\ walk.time + s \in Int /\ departure + d <= walk.time + s
      BY <2>3, <2>7, <2>8, <3>4
    <3>7. Coming(heap', walks', second.stop, walk.time + s)
      BY <1>4, <2>10, <3>5, <3>6, ComingLaterNext
    <3> QED
      BY <3>3, <3>7
  <2> QED
    BY <2>11 DEF WalkedFrom
<1>9. LabelsWalked(heap', walks')
  <2> SUFFICES ASSUME NEW stop \in ReachedStops'
               PROVE  OnFootBy(heap', walks', stop, Key(heap', stop))
    BY DEF LabelsWalked, ReachedStops
  <2>1. CASE stop \in ReachedStops /\ heap'.label[stop] = heap.label[stop]
    BY <1>4, <1>6, <2>1, LabelsStillWalked
  <2>2. CASE stop = walk.stop /\ Improves(walk.stop, walk.time)
    <3>1. Key(heap', stop) = walk.time
      BY <1>4, <2>2 DEF Key
    <3> QED
      BY <1>8, <2>2, <3>1 DEF OnFootBy
  <2> QED
    BY <1>4, <2>1, <2>2 DEF Improves, Reached, ReachedStops
<1>10. FootWalked(heap', walks')
  <2> SUFFICES ASSUME NEW j \in DOMAIN walks'
               PROVE  WalkedFrom(heap', walks', walks'[j].parent, walks'[j].departure)
    BY DEF FootWalked
  <2>1. PICK i \in DOMAIN walks : walks'[j] = walks[i]
    BY <1>1, <1>2
  <2> QED
    BY <1>4, <1>6, <2>1, LabelsStillWalked
<1>11. RidesWalked(heap', walks', at', lines', visits')
  BY <1>1, <1>4, <1>6, RidesStillWalked
<1> QED
  BY <1>9, <1>10, <1>11

LEMMA NextWalks == WInv /\ [Next]_vars => WInv'
<1> SUFFICES ASSUME WInv, [Next]_vars PROVE WInv'
  OBVIOUS
<1>1. RInv'
  BY NextRelax DEF WInv
<1>2. AddOrigin \/ BreakEarly \/ HeapEmpty \/ ExtractPath \/ Returned \/ UNCHANGED vars
        => UNCHANGED << timetable, query, heap, at, lines, visits, walks >>
  BY DEF AddOrigin, BreakEarly, HeapEmpty, ExtractPath, Returned, search, vars
<1>3. WalkInv'
  BY <1>2, IdleWalks, AddStartWalks, SettleWalks, TraverseLineWalks, RideToWalks, WalkToWalks
     DEF Next
<1> QED
  BY <1>1, <1>3 DEF WInv

\* Whoever is somewhere by a vehicle has walked on from there by the walks, if they join.
THEOREM WalksAreTaken == Spec => []WInv
<1>1. Init => WInv
  BY InitInvariant, InitPaths, InitRelax, InitWalks DEF WInv, RInv, PInv
<1> QED
  BY <1>1, NextWalks, PTL DEF Spec

-----------------------------------------------------------------------------
(* The reference                                                            *)

LEMMA LeastIsLeast ==
    ASSUME NEW times, times \subseteq Nat, times # {}
    PROVE  Least(times) \in times /\ \A time \in times : Least(times) <= time
BY LeastOfNumbers DEF Least

\* The recursion that defines the arrivals has a solution up to any number of rides.
LEMMA SomeArrivals ==
    ASSUME NEW n \in Nat
    PROVE  \E f : f = [ rides \in 0 .. n |-> IF rides = 0 THEN AtStart ELSE RideOn(f[rides - 1]) ]
<1> DEFINE Solves(f, m) ==
             f = [ rides \in 0 .. m |-> IF rides = 0 THEN AtStart ELSE RideOn(f[rides - 1]) ]
           unsolved == { m \in Nat : ~ \E f : Solves(f, m) }
<1>1. ASSUME NEW m \in unsolved, \A k \in unsolved : m <= k
      PROVE  FALSE
  <2>1. m \in Nat
    OBVIOUS
  <2>2. CASE m = 0
    <3>1. Solves([ rides \in 0 .. 0 |-> AtStart ], 0)
      OBVIOUS
    <3> QED
      BY <2>2, <3>1
  <2>3. CASE m # 0
    <3>1. m - 1 \in Nat /\ m - 1 \notin unsolved
      BY <1>1, <2>1, <2>3
    <3>2. PICK f : Solves(f, m - 1)
      BY <3>1
    <3> DEFINE g == [ rides \in 0 .. m |-> IF rides = m THEN RideOn(f[m - 1]) ELSE f[rides] ]
    <3>3. \A rides \in 0 .. m : g[rides] = IF rides = 0 THEN AtStart ELSE RideOn(g[rides - 1])
      <4> SUFFICES ASSUME NEW rides \in 0 .. m
                   PROVE  g[rides] = IF rides = 0 THEN AtStart ELSE RideOn(g[rides - 1])
        OBVIOUS
      <4>1. CASE rides = m
        <5>1. rides # 0 /\ rides - 1 \in 0 .. m /\ rides - 1 # m
          BY <2>1, <2>3, <4>1
        <5>2. g[rides - 1] = f[m - 1]
          BY <4>1, <5>1
        <5> QED
          BY <4>1, <5>1, <5>2
      <4>2. CASE rides # m
        <5>1. rides \in 0 .. m - 1
          BY <2>1, <4>2
        <5>2. g[rides] = f[rides]
          BY <4>2
        <5>3. f[rides] = IF rides = 0 THEN AtStart ELSE RideOn(f[rides - 1])
          BY <3>2, <5>1
        <5>4. rides # 0 => rides - 1 \in 0 .. m /\ rides - 1 # m
          BY <2>1, <5>1
        <5>5. rides # 0 => g[rides - 1] = f[rides - 1]
          BY <5>4
        <5> HIDE DEF g
        <5> QED
          BY <5>2, <5>3, <5>5
      <4> QED
        BY <4>1, <4>2
    <3>4. Solves(g, m)
      BY <3>3
    <3> HIDE DEF g, Solves
    <3> QED
      BY <3>4
  <2> QED
    BY <2>2, <2>3
<1> HIDE DEF Solves
<1>2. unsolved = {}
  <2>1. unsolved \subseteq Nat
    OBVIOUS
  <2> HIDE DEF unsolved
  <2> QED
    BY <1>1, <2>1, LeastOfNumbers
<1>3. \E f : Solves(f, n)
  BY <1>2
<1> QED
  BY <1>3 DEF Solves

\* So the arrivals are what the recursion says.
LEMMA ArrivalsByRides ==
    /\ Cardinality(Stops) \in Nat
    /\ Arrivals[0] = AtStart
    /\ \A rides \in 0 .. Cardinality(Stops) :
          rides # 0 => Arrivals[rides] = RideOn(Arrivals[rides - 1])
<1> DEFINE Solves(f) ==
             f = [ rides \in 0 .. Cardinality(Stops) |->
                     IF rides = 0 THEN AtStart ELSE RideOn(f[rides - 1]) ]
<1>1. Cardinality(Stops) \in Nat
  BY CompleteAssumption, FS_CardinalityType
<1>2. \E f : Solves(f)
  BY <1>1, SomeArrivals
<1>3. Arrivals = CHOOSE f : Solves(f)
  BY DEF Arrivals
<1>4. Solves(Arrivals)
  <2> HIDE DEF Solves
  <2> QED
    BY <1>2, <1>3
<1>5. 0 \in 0 .. Cardinality(Stops)
  BY <1>1
<1> QED
  BY <1>1, <1>4, <1>5

-----------------------------------------------------------------------------
(* Dijkstra's argument                                                      *)

\* no line is overtaken on
Overtaking == \E i \in DOMAIN timetable.lines : ~ NotOvertaken(timetable.lines[i])

\* the search has an answer at least as good as being at a stop by some time
Beaten(stop, time) == best < time \/ ReachedBy(heap, stop, time)

\* On a line in order no clock wraps before a service leaves.
LEMMA ServiceInTime ==
    ASSUME NEW line, Orderly(line), NEW offset \in DOMAIN line.stops,
           NEW d \in DOMAIN line.departures
    PROVE  /\ ServiceFrom(line, offset, d) = Service(line, offset, d)
           /\ Service(line, offset, d).departure \in Nat
           /\ Service(line, offset, d).departure < Infinity
<1>1. PICK begin : begin = line.departures[d].begin
  OBVIOUS
<1>2. PICK prefix : prefix = PrefixTime(line, line.departures[d], offset)
  OBVIOUS
<1>3. prefix \in Nat /\ begin + prefix < Infinity
  BY <1>1, <1>2 DEF Orderly
<1>4. begin \in Nat
  <2>1. line.departures[d] \in Departure
    BY DEF Orderly
  <2> QED
    BY <1>1, <2>1, WidthAssumption DEF Departure, Seconds
<1>5. Plus(begin, prefix) = begin + prefix
  BY <1>3, <1>4, PlusFits, WidthAssumption DEF Infinity
<1> QED
  BY <1>1, <1>2, <1>3, <1>4, <1>5 DEF ServiceFrom, Service

\* The services of a line visit the same stops.
LEMMA SameStops ==
    ASSUME NEW line, NEW offset, NEW d, NEW e, NEW k \in DOMAIN Visits(Service(line, offset, d))
    PROVE  /\ k \in DOMAIN Visits(Service(line, offset, e))
           /\ Visits(Service(line, offset, e))[k].stop = Visits(Service(line, offset, d))[k].stop
BY DEF Visits, Service

\* What the lines through a stop are, on the timetables assumed.
LEMMA LineInOrder ==
    ASSUME InputOK, NEW stop \in Stops, NEW i \in DOMAIN timetable.stop_to_line[stop]
    PROVE  LET line   == timetable.lines[timetable.stop_to_line[stop][i]]
               offset == Offset(line, stop)
           IN  /\ offset \in DOMAIN line.stops
               /\ Orderly(line)
               /\ \E k \in DOMAIN line.stops : line.stops[k] = stop
               /\ \A d \in DOMAIN line.departures :
                    \A k \in DOMAIN Visits(Service(line, offset, d)) :
                       /\ Visits(Service(line, offset, d))[k] \in Visit
                       /\ Service(line, offset, d).departure
                          <= Visits(Service(line, offset, d))[k].time
<1> DEFINE line == timetable.lines[timetable.stop_to_line[stop][i]]
           offset == Offset(line, stop)
<1>1. timetable \in TimeTables
  BY DEF InputOK
<1>2. Scheduled(timetable) /\ Complete(timetable)
  BY <1>1, ScheduleAssumption, CompleteAssumption
<1>3. /\ Orderly(line)
      /\ \E k \in DOMAIN line.stops : line.stops[k] = stop
      /\ \A d \in DOMAIN line.departures :
           \A k \in DOMAIN Visits(Service(line, offset, d)) :
              Service(line, offset, d).departure <= Visits(Service(line, offset, d))[k].time
  BY <1>2 DEF Scheduled
<1>4. \A d \in DOMAIN line.departures :
        \A k \in DOMAIN Visits(Service(line, offset, d)) :
           Visits(Service(line, offset, d))[k] \in Visit
  BY <1>2 DEF Complete
<1>5. offset \in DOMAIN line.stops
  <2> HIDE DEF line
  <2> QED
    BY <1>3, OffsetOfStop DEF Orderly
<1> QED
  BY <1>3, <1>4, <1>5

\* Every ride is one of a service of a line through the stop that leaves in time.
LEMMA RideIsService ==
    ASSUME InputOK, NEW stop \in Stops, NEW time \in Nat, NEW visit \in Rides(stop, time)
    PROVE  /\ visit \in Visit /\ visit.time \in Nat /\ time <= visit.time /\ time < Infinity
           /\ \E i \in DOMAIN timetable.stop_to_line[stop] :
                LET line   == timetable.lines[timetable.stop_to_line[stop][i]]
                    offset == Offset(line, stop)
                IN  \E d \in DOMAIN line.departures :
                      /\ time <= Service(line, offset, d).departure
                      /\ \E k \in DOMAIN Visits(Service(line, offset, d)) :
                            visit = Visits(Service(line, offset, d))[k]
<1>1. PICK i \in DOMAIN timetable.stop_to_line[stop] :
        \E trip \in Services(timetable.lines[timetable.stop_to_line[stop][i]], stop) :
            trip.departure >= time /\ \E k \in DOMAIN Visits(trip) : visit = Visits(trip)[k]
  BY DEF Rides, Range
<1>2. PICK line : line = timetable.lines[timetable.stop_to_line[stop][i]]
  OBVIOUS
<1>3. PICK offset : offset = Offset(line, stop)
  OBVIOUS
<1>4. PICK d \in DOMAIN line.departures :
        /\ ServiceFrom(line, offset, d).departure >= time
        /\ \E k \in DOMAIN Visits(ServiceFrom(line, offset, d)) :
              visit = Visits(ServiceFrom(line, offset, d))[k]
  BY <1>1, <1>2, <1>3 DEF Services
<1>5. /\ Orderly(line) /\ offset \in DOMAIN line.stops
      /\ \A k \in DOMAIN Visits(Service(line, offset, d)) :
           /\ Visits(Service(line, offset, d))[k] \in Visit
           /\ Service(line, offset, d).departure <= Visits(Service(line, offset, d))[k].time
  BY <1>2, <1>3, LineInOrder
<1> DEFINE trip == Service(line, offset, d)
<1>6. /\ \E k \in DOMAIN Visits(trip) : visit = Visits(trip)[k]
      /\ time <= trip.departure /\ trip.departure \in Nat /\ trip.departure < Infinity
  BY <1>4, <1>5, ServiceInTime
<1>7. visit \in Visit /\ trip.departure <= visit.time
  BY <1>5, <1>6
<1>8. visit.time \in Nat /\ Infinity \in Nat
  BY <1>7, WidthAssumption DEF Visit, Seconds, Infinity
<1>9. time <= visit.time /\ time < Infinity
  BY <1>6, <1>7, <1>8
<1> QED
  BY <1>2, <1>3, <1>6, <1>7, <1>8, <1>9

\* Whoever rides later on any service of a line visits nothing before the ride the router
\* takes there does, when no other service overtakes that.
LEMMA RideOvertakesNone ==
    ASSUME RInv, ~ Overtaking, NEW stop \in Settled, NEW time \in Nat, Key(heap, stop) <= time,
           NEW visit \in Rides(stop, time)
    PROVE  \E i \in DOMAIN timetable.stop_to_line[stop] :
             \E trip \in Get(timetable.lines[timetable.stop_to_line[stop][i]], stop,
                             Key(heap, stop)) :
               \E k \in DOMAIN Visits(trip) :
                  /\ Visits(trip)[k] \in Visit
                  /\ Visits(trip)[k].stop = visit.stop
                  /\ Visits(trip)[k].time <= visit.time
<1> USE DEF RInv, PInv, RelaxInv
<1> DEFINE key == Key(heap, stop)
<1>1. key \in Seconds /\ key \in Nat /\ key <= time /\ stop \in Stops
  <2>1. key \in Seconds /\ stop \in Stops
    BY DEF IInv, SearchInv, TypeOK, HeapOK, Key, Settled, ReachedStops
  <2> QED
    BY <2>1, WidthAssumption DEF Seconds
<1> HIDE DEF key
<1>2. visit \in Visit /\ visit.time \in Nat
  BY <1>1, RideIsService DEF IInv
<1>3. PICK i \in DOMAIN timetable.stop_to_line[stop] :
        LET line   == timetable.lines[timetable.stop_to_line[stop][i]]
            offset == Offset(line, stop)
        IN  \E d \in DOMAIN line.departures :
              /\ time <= Service(line, offset, d).departure
              /\ \E k \in DOMAIN Visits(Service(line, offset, d)) :
                    visit = Visits(Service(line, offset, d))[k]
  BY <1>1, RideIsService DEF IInv
<1>4. PICK line : line = timetable.lines[timetable.stop_to_line[stop][i]]
  OBVIOUS
<1>5. PICK offset : offset = Offset(line, stop)
  OBVIOUS
<1>6. PICK d \in DOMAIN line.departures :
        /\ time <= Service(line, offset, d).departure
        /\ \E k \in DOMAIN Visits(Service(line, offset, d)) :
              visit = Visits(Service(line, offset, d))[k]
  BY <1>3, <1>4, <1>5
<1>7. PICK k \in DOMAIN Visits(Service(line, offset, d)) :
        visit = Visits(Service(line, offset, d))[k]
  BY <1>6
<1>8. /\ Orderly(line) /\ offset \in DOMAIN line.stops
      /\ \E m \in DOMAIN line.stops : line.stops[m] = stop
      /\ \A e \in DOMAIN line.departures :
           \A m \in DOMAIN Visits(Service(line, offset, e)) :
              Visits(Service(line, offset, e))[m] \in Visit
  BY <1>1, <1>4, <1>5, LineInOrder DEF IInv
<1>9. d \in Catchable(line, offset, key)
  <2>1. Service(line, offset, d).departure \in Nat
    BY <1>6, <1>8, ServiceInTime
  <2> QED
    BY <1>6, <1>1, <2>1 DEF Catchable, Service
<1>10. PICK e \in FirstToLeave(line, Catchable(line, offset, key)) :
        Service(line, offset, e) \in Get(line, stop, key)
  <2>1. Get(line, stop, key) # {}
    BY <1>5, <1>8, <1>9, <1>1, SomeTripIsFound
  <2>2. Get(line, stop, key)
        = { Service(line, offset, e) : e \in FirstToLeave(line, Catchable(line, offset, key)) }
    BY <1>5, <1>8, <1>1, GetIsNextService
  <2> QED
    BY <2>1, <2>2
<1>11. e \in DOMAIN line.departures /\ e \in Nat /\ d \in Nat /\ e <= d
  <2>1. /\ line.departures \in Seq(Departure) /\ e \in DOMAIN line.departures
        /\ \/ line.departures[e].begin < line.departures[d].begin
           \/ line.departures[e].begin = line.departures[d].begin /\ e <= d
    BY <1>8, <1>9, <1>10 DEF Orderly, FirstToLeave, Catchable
  <2>2. /\ e \in Nat \ {0} /\ d \in Nat \ {0}
        /\ line.departures[e] \in Departure /\ line.departures[d] \in Departure
    BY <2>1
  <2>3. line.departures[e].begin \in Int /\ line.departures[d].begin \in Int
    BY <2>2, WidthAssumption DEF Departure, Seconds
  <2>4. ~ (e <= d) => line.departures[d].begin <= line.departures[e].begin
    <3>1. ~ (e <= d) => d \in 1 .. e
      BY <2>2
    <3> QED
      BY <1>8, <2>1, <3>1 DEF Orderly
  <2> QED
    BY <2>1, <2>2, <2>3, <2>4
<1>12. /\ k \in DOMAIN Visits(Service(line, offset, e))
      /\ Visits(Service(line, offset, e))[k].stop = visit.stop
  BY <1>7, SameStops
<1>13. Visits(Service(line, offset, e))[k].time <= visit.time
  <2>1. CASE e = d
    BY <1>2, <1>7, <2>1
  <2>2. CASE e < d
    <3>1. NotOvertaken(line)
      <4>1. timetable.stop_to_line[stop] \in Seq(DOMAIN timetable.lines)
        BY <1>1, InputTypes DEF IsTimeTable, IInv
      <4>2. timetable.stop_to_line[stop][i] \in DOMAIN timetable.lines
        BY <4>1
      <4> QED
        BY <1>4, <4>2 DEF Overtaking
    <3>2. stop \in Range(line.stops)
      BY <1>8 DEF Range
    <3>3. /\ ServiceFrom(line, offset, e) = Service(line, offset, e)
          /\ ServiceFrom(line, offset, d) = Service(line, offset, d)
      BY <1>6, <1>8, <1>11, ServiceInTime
    <3>4. \A m \in DOMAIN Visits(ServiceFrom(line, offset, e)) :
            Visits(ServiceFrom(line, offset, e))[m].time
            <= Visits(ServiceFrom(line, offset, d))[m].time
      BY <1>5, <1>6, <1>11, <2>2, <3>1, <3>2 DEF NotOvertaken
    <3> QED
      BY <1>7, <1>12, <3>3, <3>4
  <2> QED
    BY <1>11, <2>1, <2>2
<1>14. /\ Service(line, offset, e)
             \in Get(timetable.lines[timetable.stop_to_line[stop][i]], stop, key)
       /\ Visits(Service(line, offset, e))[k] \in Visit
  BY <1>4, <1>8, <1>10, <1>11, <1>12
<1> QED
  BY <1>12, <1>13, <1>14 DEF key

\* Whoever can be somewhere later than the router can also ride no earlier than it: the
\* router takes the next service of the line, and no other one overtakes that.
LEMMA RideIsBeaten ==
    ASSUME RInv, pc = "done", ~ NoLegs, ~ Overtaking,
           NEW stop \in Stops, NEW time \in Nat, Beaten(stop, time),
           NEW visit \in Rides(stop, time)
    PROVE  Beaten(visit.stop, visit.time)
<1> USE DEF RInv, PInv, RelaxInv
<1>1. /\ visit \in Visit /\ visit.time \in Nat /\ time <= visit.time
      /\ best \in Int
  BY RideIsService, WidthAssumption DEF IInv, SearchInv, TypeOK, Seconds
<1>2. CASE best < time
  BY <1>1, <1>2 DEF Beaten
<1>3. CASE ReachedBy(heap, stop, time)
  <2>1. PICK key : key = Key(heap, stop)
    OBVIOUS
  <2>2. stop \in ReachedStops /\ key <= time
    BY <1>3, <2>1 DEF ReachedBy, Reached, ReachedStops
  <2>3. key \in Seconds /\ key \in Nat
    <3>1. key \in Seconds
      BY <2>1, <2>2 DEF IInv, SearchInv, TypeOK, HeapOK, Key
    <3> QED
      BY <3>1, WidthAssumption DEF Seconds
  <2>4. CASE stop \in heap.queued
    <3>1. best < key
      BY <2>1, <2>4 DEF RestIsLater
    <3>2. best < visit.time
      BY <1>1, <2>2, <2>3, <3>1
    <3> QED
      BY <3>2 DEF Beaten
  <2>5. CASE stop \in Settled
    <3>1. PICK i \in DOMAIN timetable.stop_to_line[stop] :
            \E trip \in Get(timetable.lines[timetable.stop_to_line[stop][i]], stop,
                            Key(heap, stop)) :
              \E k \in DOMAIN Visits(trip) :
                 /\ Visits(trip)[k] \in Visit
                 /\ Visits(trip)[k].stop = visit.stop
                 /\ Visits(trip)[k].time <= visit.time
      BY <2>1, <2>2, <2>5, RideOvertakesNone
    <3>2. PICK trip \in Get(timetable.lines[timetable.stop_to_line[stop][i]], stop,
                            Key(heap, stop)) :
            \E k \in DOMAIN Visits(trip) :
               /\ Visits(trip)[k] \in Visit
               /\ Visits(trip)[k].stop = visit.stop
               /\ Visits(trip)[k].time <= visit.time
      BY <3>1
    <3>3. PICK k \in DOMAIN Visits(trip) :
            /\ Visits(trip)[k] \in Visit
            /\ Visits(trip)[k].stop = visit.stop
            /\ Visits(trip)[k].time <= visit.time
      BY <3>2
    <3>4. ReachedBy(heap, Visits(trip)[k].stop, Visits(trip)[k].time)
      <4>1. lines = << >> /\ visits = << >>
        BY DEF PathInv, PathLast, NoVisits
      <4> QED
        BY <2>5, <4>1 DEF RidesRelaxed
    <3>5. ReachedBy(heap, visit.stop, visit.time)
      <4>1. visit.stop \in ReachedStops /\ Key(heap, visit.stop) <= Visits(trip)[k].time
        BY <3>3, <3>4 DEF ReachedBy, Reached, ReachedStops
      <4>2. Key(heap, visit.stop) \in Int
        BY <4>1, KeysAreTimes DEF IInv, SearchInv, TypeOK
      <4>3. Visits(trip)[k].time \in Int
        BY <3>3, WidthAssumption DEF Visit, Seconds
      <4>4. Key(heap, visit.stop) <= visit.time
        BY <1>1, <3>3, <4>1, <4>2, <4>3
      <4> QED
        BY <4>1, <4>4 DEF ReachedBy, Reached, ReachedStops
    <3> QED
      BY <3>5 DEF Beaten
  <2> QED
    BY <2>2, <2>4, <2>5 DEF Settled
<1> QED
  BY <1>2, <1>3 DEF Beaten

\* Nor can whoever walks on from there, unless the query could start there by then: the
\* router has walked on from its own ride, which is no later, or from what was there before.
LEMMA WalkIsBeaten ==
    ASSUME WInv, pc = "done", ~ NoLegs, WalksJoin, ~ Overtaking,
           NEW stop \in Stops, NEW time \in Nat, Beaten(stop, time),
           NEW visit \in Rides(stop, time)
    PROVE  \/ StartedBy(visit.stop, visit.time)
           \/ \A walk \in Footpaths(visit.stop) : Beaten(walk.stop, visit.time + walk.duration)
<1>1. InputOK /\ HeapOK /\ best \in Seconds /\ RInv
  BY DEF WInv, RInv, PInv, IInv, SearchInv, TypeOK
<1>2. lines = << >> /\ visits = << >> /\ walks = << >> /\ walks \in Seq(Walk)
  BY DEF WInv, RInv, PInv, PathInv, PathLast, NoVisits
<1>3. visit \in Visit /\ visit.time \in Nat /\ time <= visit.time /\ visit.stop \in Stops
  <2>1. visit \in Visit /\ visit.time \in Nat /\ time <= visit.time
    BY <1>1, RideIsService
  <2> QED
    BY <2>1 DEF Visit
<1>4. \A walk \in Footpaths(visit.stop) : walk.stop \in Stops /\ walk.duration \in Seconds
  BY <1>1, <1>3, FootpathFacts
<1>5. ASSUME best < visit.time, NEW walk \in Footpaths(visit.stop)
      PROVE  Beaten(walk.stop, visit.time + walk.duration)
  <2>1. PICK duration : duration = walk.duration
    OBVIOUS
  <2>2. duration \in Nat /\ best \in Nat
    BY <1>1, <1>4, <2>1, WidthAssumption DEF Seconds
  <2>3. best < visit.time + duration
    BY <1>3, <1>5, <2>2
  <2> QED
    BY <2>1, <2>3 DEF Beaten
<1>6. CASE best < time
  <2>1. best < visit.time
    BY <1>1, <1>3, <1>6, WidthAssumption DEF Seconds
  <2> QED
    BY <1>5, <2>1
<1>7. CASE ReachedBy(heap, stop, time)
  <2>1. PICK key : key = Key(heap, stop)
    OBVIOUS
  <2>2. stop \in ReachedStops /\ key <= time
    BY <1>7, <2>1 DEF ReachedBy, Reached, ReachedStops
  <2>3. key \in Seconds /\ key \in Nat
    <3>1. key \in Seconds
      BY <1>1, <2>1, <2>2 DEF HeapOK, Key
    <3> QED
      BY <3>1, WidthAssumption DEF Seconds
  <2>4. CASE stop \in heap.queued
    <3>1. best < key
      BY <2>1, <2>4 DEF WInv, RInv, RelaxInv, RestIsLater
    <3>2. best < visit.time
      BY <1>1, <1>3, <2>2, <2>3, <3>1, WidthAssumption DEF Seconds
    <3> QED
      BY <1>5, <3>2
  <2>5. CASE stop \in Settled
    <3>1. PICK i \in DOMAIN timetable.stop_to_line[stop] :
            \E trip \in Get(timetable.lines[timetable.stop_to_line[stop][i]], stop,
                            Key(heap, stop)) :
              \E k \in DOMAIN Visits(trip) :
                 /\ Visits(trip)[k] \in Visit
                 /\ Visits(trip)[k].stop = visit.stop
                 /\ Visits(trip)[k].time <= visit.time
      BY <1>1, <2>1, <2>2, <2>5, RideOvertakesNone
    <3>2. PICK trip \in Get(timetable.lines[timetable.stop_to_line[stop][i]], stop,
                            Key(heap, stop)) :
            \E k \in DOMAIN Visits(trip) :
               /\ Visits(trip)[k] \in Visit
               /\ Visits(trip)[k].stop = visit.stop
               /\ Visits(trip)[k].time <= visit.time
      BY <3>1
    <3>3. PICK k \in DOMAIN Visits(trip) :
            /\ Visits(trip)[k] \in Visit
            /\ Visits(trip)[k].stop = visit.stop
            /\ Visits(trip)[k].time <= visit.time
      BY <3>2
    <3>4. PICK earlier : earlier = Visits(trip)[k].time
      OBVIOUS
    <3>5. earlier \in Int /\ earlier <= visit.time
      BY <3>3, <3>4, WidthAssumption DEF Visit, Seconds
    <3>6. OnFootBy(heap, walks, visit.stop, earlier)
      <4>1. RidesWalked(heap, walks, at, lines, visits)
        BY DEF WInv, WalkInv
      <4>2. OnFootBy(heap, walks, Visits(trip)[k].stop, Visits(trip)[k].time)
        BY <1>2, <2>5, <4>1 DEF RidesWalked, Settled, ReachedStops
      <4> QED
        BY <3>3, <3>4, <4>2
    <3>7. OnFootBy(heap, walks, visit.stop, visit.time)
      BY <1>1, <1>2, <1>3, <3>5, <3>6, WalkedLater
    <3>8. ASSUME NEW other, NEW moment, Coming(heap, walks, other, moment)
          PROVE  Beaten(other, moment)
      BY <1>2, <3>8 DEF Coming, Beaten
    <3> QED
      BY <3>7, <3>8 DEF OnFootBy, WalkedFrom
  <2> QED
    BY <2>2, <2>4, <2>5 DEF Settled
<1> QED
  BY <1>6, <1>7 DEF Beaten

\* what is shown of the arrivals after any number of rides
AllBeaten(before) ==
    /\ before \in [Stops -> Nat]
    /\ \A stop \in Stops : before[stop] < Infinity => Beaten(stop, before[stop])

\* Nobody starts earlier than the search did.
LEMMA StartsBeaten ==
    ASSUME RInv, pc = "done", ~ NoLegs
    PROVE  AllBeaten(AtStart)
<1> USE DEF RInv, PInv, RelaxInv
<1>1. Infinity \in Seconds /\ Seconds \subseteq Nat
  BY WidthAssumption DEF Seconds, Infinity
<1>2. ASSUME NEW stop \in Stops
      PROVE  /\ Least(StartTimes(stop) \cup {Infinity}) \in StartTimes(stop) \cup {Infinity}
             /\ StartTimes(stop) \subseteq Seconds
  <2>1. StartTimes(stop) \subseteq Seconds
    BY StartTimesType DEF IInv
  <2>2. StartTimes(stop) \cup {Infinity} \subseteq Nat
    BY <1>1, <2>1
  <2>3. StartTimes(stop) \cup {Infinity} # {}
    OBVIOUS
  <2> QED
    BY <2>1, <2>2, <2>3, LeastIsLeast
<1>3. AtStart \in [Stops -> Nat]
  BY <1>1, <1>2 DEF AtStart
<1>4. ASSUME NEW stop \in Stops, AtStart[stop] < Infinity
      PROVE  Beaten(stop, AtStart[stop])
  <2>1. PICK time : time = AtStart[stop]
    OBVIOUS
  <2>2. time \in StartTimes(stop)
    BY <1>1, <1>2, <1>4, <2>1 DEF AtStart
  <2>3. PICK i \in DOMAIN query.origins :
          /\ timetable.station[query.origins[i].stop] = timetable.station[stop]
          /\ time = Plus(query.departure, query.origins[i].seconds)
    BY <2>2 DEF StartTimes
  <2>4. time \in StartsFrom(query.origins[i], stop)
    BY <2>3 DEF StartsFrom
  <2>5. starts = << >> /\ origins = << >>
    BY DEF PathInv, PathLast, NoStarts
  <2>6. ReachedBy(heap, stop, time)
    BY <2>4, <2>5 DEF StartsReached
  <2> QED
    BY <2>1, <2>6 DEF Beaten
<1> QED
  BY <1>3, <1>4 DEF AllBeaten

\* Who walks on from a ride is nowhere before the search.
LEMMA WalksAfterBeaten ==
    ASSUME WInv, pc = "done", ~ NoLegs, WalksJoin, ~ Overtaking,
           NEW stop \in Stops, NEW time \in Nat, Beaten(stop, time),
           NEW visit \in Rides(stop, time), NEW walk \in WalksAfter(visit)
    PROVE  walk.time \in Nat /\ Beaten(walk.stop, walk.time)
<1>1. InputOK
  BY DEF WInv, RInv, PInv, IInv
<1>2. visit \in Visit /\ visit.time \in Nat /\ visit.stop \in Stops
  <2>1. visit \in Visit /\ visit.time \in Nat
    BY <1>1, RideIsService
  <2> QED
    BY <2>1 DEF Visit
<1>3. /\ ~ StartedBy(visit.stop, visit.time)
      /\ \E onward \in Footpaths(visit.stop) :
            walk = [stop |-> onward.stop, time |-> visit.time + onward.duration]
  BY DEF WalksAfter
<1>4. PICK footpath \in Footpaths(visit.stop) :
        walk = [stop |-> footpath.stop, time |-> visit.time + footpath.duration]
  BY <1>3
<1>5. footpath.duration \in Nat
  BY <1>1, <1>2, FootpathFacts, WidthAssumption DEF Seconds
<1>6. Beaten(footpath.stop, visit.time + footpath.duration)
  BY <1>3, WalkIsBeaten
<1>7. walk.stop = footpath.stop /\ walk.time = visit.time + footpath.duration
  BY <1>4
<1> QED
  BY <1>2, <1>5, <1>6, <1>7

\* One more ride does not help, nor does the walk after it.
LEMMA RidesBeaten ==
    ASSUME WInv, pc = "done", ~ NoLegs, ~ Overtaking, NEW before, AllBeaten(before)
    PROVE  AllBeaten(RideOn(before))
<1> DEFINE rides == UNION { Rides(stop, before[stop]) : stop \in Stops }
           walks_on == IF WalksJoin THEN UNION { WalksAfter(visit) : visit \in rides } ELSE {}
           visited == rides \cup walks_on
           Times(stop) == { visit.time : visit \in { v \in visited : v.stop = stop } }
<1>1. Infinity \in Nat /\ before \in [Stops -> Nat] /\ InputOK /\ RInv
  BY WidthAssumption DEF Seconds, Infinity, AllBeaten, WInv, RInv, PInv, IInv
<1>2. ASSUME NEW taken \in rides
      PROVE  /\ taken.time \in Nat /\ Beaten(taken.stop, taken.time)
             /\ WalksJoin => \A walk \in WalksAfter(taken) :
                  walk.time \in Nat /\ Beaten(walk.stop, walk.time)
  <2>1. PICK stop \in Stops : taken \in Rides(stop, before[stop])
    OBVIOUS
  <2>2. PICK time \in Nat : time = before[stop]
    BY <1>1
  <2>3. taken.time \in Nat /\ time < Infinity
    BY <1>1, <2>1, <2>2, RideIsService
  <2>4. Beaten(stop, time)
    BY <2>2, <2>3 DEF AllBeaten
  <2>5. Beaten(taken.stop, taken.time)
    BY <1>1, <2>1, <2>2, <2>4, RideIsBeaten
  <2>6. WalksJoin =>
          \A walk \in WalksAfter(taken) : walk.time \in Nat /\ Beaten(walk.stop, walk.time)
    BY <2>1, <2>2, <2>4, WalksAfterBeaten
  <2> QED
    BY <2>3, <2>5, <2>6
<1> HIDE DEF rides
<1>3. ASSUME NEW visit \in visited
      PROVE  visit.time \in Nat /\ Beaten(visit.stop, visit.time)
  <2>1. CASE visit \in rides
    BY <1>2, <2>1
  <2>2. CASE visit \notin rides
    <3>1. WalksJoin /\ \E taken \in rides : visit \in WalksAfter(taken)
      BY <2>2
    <3> QED
      BY <1>2, <3>1
  <2> QED
    BY <2>1, <2>2
<1>4. RideOn(before) = [ stop \in Stops |-> Least({before[stop]} \cup Times(stop)) ]
  BY DEF RideOn, visited, walks_on, rides
<1> HIDE DEF visited
<1>5. ASSUME NEW stop \in Stops
      PROVE  Least({before[stop]} \cup Times(stop)) \in {before[stop]} \cup Times(stop)
  <2>1. {before[stop]} \cup Times(stop) \subseteq Nat
    BY <1>1, <1>3
  <2> HIDE DEF Times
  <2> QED
    BY <2>1, LeastIsLeast
<1>6. ASSUME NEW stop \in Stops
      PROVE  /\ RideOn(before)[stop] \in Nat
             /\ RideOn(before)[stop] < Infinity => Beaten(stop, RideOn(before)[stop])
  <2>1. PICK time : time = RideOn(before)[stop]
    OBVIOUS
  <2>2. time = before[stop] \/ time \in Times(stop)
    BY <1>4, <1>5, <2>1
  <2>3. CASE time = before[stop]
    BY <1>1, <2>1, <2>3 DEF AllBeaten
  <2>4. CASE time \in Times(stop)
    <3>1. PICK visit \in visited : visit.stop = stop /\ visit.time = time
      BY <2>4
    <3> QED
      BY <1>3, <2>1, <3>1
  <2> QED
    BY <2>2, <2>3, <2>4
<1> HIDE DEF Times
<1>7. RideOn(before) \in [Stops -> Nat]
  <2>1. \A stop \in Stops : Least({before[stop]} \cup Times(stop)) \in Nat
    BY <1>4, <1>6
  <2> QED
    BY <1>4, <2>1
<1> QED
  BY <1>6, <1>7 DEF AllBeaten

\* So no number of rides does.
LEMMA EarliestBeaten ==
    ASSUME WInv, pc = "done", ~ NoLegs, ~ Overtaking
    PROVE  AllBeaten(Earliest)
<1> DEFINE n == Cardinality(Stops)
           lost == { rides \in 0 .. n : ~ AllBeaten(Arrivals[rides]) }
<1>1. n \in Nat
  BY ArrivalsByRides
<1>2. ASSUME NEW rides \in lost, \A other \in lost : rides <= other
      PROVE  FALSE
  <2>1. rides \in 0 .. n /\ rides \in Nat
    BY <1>1
  <2>2. CASE rides = 0
    BY <2>2, ArrivalsByRides, StartsBeaten DEF WInv
  <2>3. CASE rides # 0
    <3>1. rides - 1 \in 0 .. n /\ ~ (rides <= rides - 1)
      BY <1>1, <2>1, <2>3
    <3>2. AllBeaten(Arrivals[rides - 1])
      BY <1>2, <3>1
    <3>3. Arrivals[rides] = RideOn(Arrivals[rides - 1])
      BY <2>1, <2>3, ArrivalsByRides
    <3> QED
      BY <3>2, <3>3, RidesBeaten
  <2> QED
    BY <2>2, <2>3
<1>3. lost = {}
  <2>1. lost \subseteq Nat
    BY <1>1
  <2> HIDE DEF lost
  <2> QED
    BY <1>2, <2>1, LeastOfNumbers
<1>4. n \in 0 .. n
  BY <1>1
<1> QED
  BY <1>3, <1>4 DEF Earliest

-----------------------------------------------------------------------------
(* The theorems                                                             *)

\* Nothing that can be reached from what is settled is left out.
THEOREM RouterInvariant == Spec => []RouterInv
<1>1. RInv => RouterInv
  BY DEF RInv, PInv, IInv, RouterInv
<1> QED
  BY <1>1, RelaxedInvariant, PTL

\* No sequence of rides beats the answer, with a walk after every ride if walks join, as
\* long as no line is overtaken on.
THEOREM AnswerIsEarliest == Spec => []NoRideIsFaster
<1>1. WInv => NoRideIsFaster
  <2> SUFFICES ASSUME WInv, pc = "done", ~ Overtaking
               PROVE  LET earliest == Earliest
                      IN  IF query.kind = "legs"
                          THEN \A i \in DOMAIN query.destinations :
                                 \A leg \in DestinationLegs(query.destinations[i].stop) :
                                    LET arrival == earliest[leg.stop]
                                    IN  query.origins # << >> /\ arrival < Infinity
                                        /\ arrival + leg.seconds < Width
                                            => best <= arrival + leg.seconds
                          ELSE LET asked == query.destinations[1].stop
                               IN  earliest[asked] < Infinity
                                       => Reached(heap, asked) /\ Key(heap, asked) <= earliest[asked]
    BY DEF NoRideIsFaster, Overtaking
  <2> USE DEF WInv, RInv, PInv, RelaxInv
  <2>1. /\ IsQuery(query) /\ best \in Int /\ best <= Infinity
    BY InputTypes, WidthAssumption DEF IInv, SearchInv, TypeOK, Seconds, Infinity
  <2>2. CASE query.kind = "legs"
    <3> SUFFICES ASSUME NEW i \in DOMAIN query.destinations,
                        NEW leg \in DestinationLegs(query.destinations[i].stop),
                        NEW arrival, arrival = Earliest[leg.stop],
                        query.origins # << >>, arrival < Infinity, arrival + leg.seconds < Width
                 PROVE  best <= arrival + leg.seconds
      BY <2>2
    <3>1. leg \in ADLeg
      BY <2>1, OneLeg
    <3>2. ~ NoLegs
      BY <2>1 DEF NoLegs, IsQuery
    <3>3. AllBeaten(Earliest)
      BY <3>2, EarliestBeaten
    <3>4. arrival \in Nat /\ leg.seconds \in Nat
      BY <3>1, <3>3, WidthAssumption DEF AllBeaten, ADLeg, Seconds
    <3>5. Beaten(leg.stop, arrival)
      BY <3>1, <3>3 DEF AllBeaten, ADLeg
    <3>6. CASE best < arrival
      BY <2>1, <3>4, <3>6
    <3>7. CASE ReachedBy(heap, leg.stop, arrival)
      <4>1. PICK key : key = Key(heap, leg.stop)
        OBVIOUS
      <4>2. leg.stop \in ReachedStops /\ key <= arrival
        BY <3>7, <4>1 DEF ReachedBy, Reached, ReachedStops
      <4>3. key \in Nat
        BY <4>1, <4>2, WidthAssumption DEF IInv, SearchInv, TypeOK, HeapOK, Key, Seconds
      <4>4. CASE leg.stop \in heap.queued
        <5>1. best < key
          BY <3>2, <4>1, <4>4 DEF RestIsLater
        <5> QED
          BY <2>1, <3>4, <4>2, <4>3, <5>1
      <4>5. CASE leg.stop \in Settled
        <5>1. leg \in DestinationLegs(leg.stop)
          BY <2>1, OneLeg
        <5>2. best <= Plus(key, leg.seconds)
          BY <2>2, <4>1, <4>5, <5>1 DEF BestOfSettled
        <5>3. key + leg.seconds < Width
          BY <3>4, <4>2, <4>3, WidthAssumption
        <5>4. Plus(key, leg.seconds) = key + leg.seconds
          BY <3>4, <4>3, <5>3, PlusFits
        <5> QED
          BY <2>1, <3>4, <4>2, <4>3, <5>2, <5>4
      <4> QED
        BY <4>2, <4>4, <4>5 DEF Settled
    <3> QED
      BY <3>5, <3>6, <3>7 DEF Beaten
  <2>3. CASE query.kind # "legs"
    <3> DEFINE asked == query.destinations[1].stop
    <3> SUFFICES ASSUME Earliest[asked] < Infinity
                 PROVE  Reached(heap, asked) /\ Key(heap, asked) <= Earliest[asked]
      BY <2>3
    <3>1. ~ NoLegs /\ asked \in Stops
      <4>1. /\ query.origins \in Seq(ADLeg) /\ query.destinations \in Seq(ADLeg)
            /\ Len(query.origins) = 1 /\ Len(query.destinations) = 1
        BY <2>1, <2>3 DEF IsQuery
      <4>2. query.destinations[1] \in ADLeg
        BY <4>1
      <4> QED
        BY <4>1, <4>2 DEF NoLegs, ADLeg
    <3>2. AllBeaten(Earliest)
      BY <3>1, EarliestBeaten
    <3>3. Earliest[asked] \in Int /\ Beaten(asked, Earliest[asked])
      BY <3>1, <3>2, WidthAssumption DEF AllBeaten, Seconds
    <3>4. best = Infinity
      BY <2>3 DEF BestOfSettled
    <3>5. ~ (best < Earliest[asked])
      BY <2>1, <3>3, <3>4
    <3> QED
      BY <3>3, <3>5 DEF Beaten, ReachedBy
  <2> QED
    BY <2>2, <2>3
<1> QED
  BY <1>1, WalksAreTaken, PTL
================================================================================
