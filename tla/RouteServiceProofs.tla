---------------------------- MODULE RouteServiceProofs ----------------------------
(***************************************************************************)
(* What is done with a path leaves the search alone: the service           *)
(* implements the router's specification, and what is proved of the router *)
(* holds in the service.                                                   *)
(***************************************************************************)
EXTENDS RouteService, TimeTableDijkstraProofs

\* No handler, printer or second router takes a step of the search or undoes one.
LEMMA StepsOfSearch == RouteNext => [Next]_vars
<1> SUFFICES ASSUME RouteNext
             PROVE  [Next]_vars
  OBVIOUS
<1>1. CASE Search
  BY <1>1 DEF Search
<1>2. CASE ReturnRoute
  BY <1>2 DEF ReturnRoute
<1>3. CASE Annotate
  BY <1>3 DEF Annotate
<1>4. CASE PrintReply
  BY <1>4 DEF PrintReply
<1>5. CASE RunRounds
  BY <1>5 DEF RunRounds
<1> QED
  BY <1>1, <1>2, <1>3, <1>4, <1>5 DEF RouteNext

\* The service with its request, annotations and answers implements the router.
THEOREM ServiceImplementsSearch == RouteSpec => Spec
<1>1. RouteInit => Init
  BY DEF RouteInit
<1>2. [RouteNext]_<< vars, service, rounds >> => [Next]_vars
  <2>1. UNCHANGED << vars, service, rounds >> => UNCHANGED vars
    OBVIOUS
  <2> QED
    BY <2>1, StepsOfSearch
<1> QED
  BY <1>1, <1>2, PTL DEF RouteSpec, Spec

\* While it is annotated, printed and searched for in rounds, the search keeps its types,
\* its handles and its order of settling.
THEOREM ServiceKeepsSearch == RouteSpec => [](SearchInv /\ TypeOK /\ HandlesLive /\ SettledInOrder)
  BY ServiceImplementsSearch, SearchInvariant, TypeCorrect, HandlesStayLive, SettlesInOrder, PTL

\* The labels and the path that are turned into a route stay journeys.
THEOREM ServiceKeepsPaths == RouteSpec => [](PathInv /\ LabelsSound /\ PathSound /\ BoardsInTime)
  BY ServiceImplementsSearch, PathInvariant, LabelsAreJourneys, PathsAreJourneys, BoardedInTime, PTL

\* No sequence of rides beats the answer the service works on, and nothing was left out.
THEOREM ServiceAnswersEarliest == RouteSpec => [](RouterInv /\ NoRideIsFaster)
  BY ServiceImplementsSearch, RouterInvariant, AnswerIsEarliest, PTL

\* And no later step of the service changes what was settled.
THEOREM ServiceKeepsSettled == RouteSpec => SettledIsFinal
  BY ServiceImplementsSearch, SettledLabelsAreFinal, PTL
-----------------------------------------------------------------------------
(* The rounds                                                               *)

\* transfers do not pass the end of the clock in the labels either
ASSUME LeastTransferAssumption ==
    /\ LeastTransfer \in Nat
    /\ \A table \in TimeTables, stop \in Stops :
         \A i \in DOMAIN table.stop_to_line[stop] :
           LET line == table.lines[table.stop_to_line[stop][i]]
           IN  \A d \in DOMAIN line.departures :
                 LET trip == Service(line, Offset(line, stop), d)
                 IN  \A k \in DOMAIN Visits(trip) : Visits(trip)[k].time + LeastTransfer < Width

State == [stop : Stops, arrival : Seconds]

RoundsType ==
    /\ DOMAIN labels \subseteq Stops
    /\ \A stop \in DOMAIN labels : labels[stop].arrival \in Seconds
    /\ states \in Seq(State)
    /\ offset \in Nat /\ count \in Nat /\ offset + count <= Len(states)
    /\ begins \in Seq(ADLeg)

\* the rounds begin when the search has ended, and with all starts
RoundsLast ==
    /\ pc # "done" => labels = [ stop \in {} |-> 0 ] /\ states = << >>
    /\ count > 0 => phase = "run" /\ begins = << >>
    /\ phase = "run" => ~ NoLegs

LabelledBy(stop, time) == stop \in DOMAIN labels /\ labels[stop].arrival <= time

BeginsOfQuery ==
    \A k \in DOMAIN begins : \E i \in DOMAIN query.origins : begins[k] = query.origins[i]

RoundsStarted ==
    phase = "run" =>
        \A i \in DOMAIN query.origins, stop \in Stops :
          \A time \in StartsFrom(query.origins[i], stop) :
             LabelledBy(stop, time) \/ \E k \in DOMAIN begins : begins[k] = query.origins[i]

\* where the other router is by then, or has a better answer
Late(stop, time) == WalksJoin /\ ~ Overtaking => Beaten(stop, time)

NeverEarly ==
    /\ \A stop \in DOMAIN labels : Late(stop, labels[stop].arrival)
    /\ \A i \in DOMAIN states : Late(states[i].stop, states[i].arrival)

RoundsInv == RoundsType /\ RoundsLast /\ BeginsOfQuery /\ RoundsStarted /\ NeverEarly

-----------------------------------------------------------------------------
(* The words of the rounds are those of the search                          *)

LEMMA SameClock ==
    /\ \A time, seconds : Rounds!Plus(time, seconds) = Plus(time, seconds)
    /\ Rounds!Infinity = Infinity
    /\ \A trip : Rounds!Visits(trip) = Visits(trip)
<1>1. \A time, seconds : Rounds!Plus(time, seconds) = Plus(time, seconds)
  BY DEF Rounds!Plus, Plus
<1>2. Rounds!Infinity = Infinity
  BY DEF Rounds!Infinity, Infinity
<1>3. \A trip : Rounds!Visits(trip) = Visits(trip)
  BY DEF Rounds!Visits, Visits, Rounds!Clock, Clock, Rounds!Plus, Plus
<1> QED
  BY <1>1, <1>2, <1>3

LEMMA SameGet ==
    \A line, stop, desired : Rounds!Get(line, stop, desired) = Get(line, stop, desired)
BY DEF Rounds!Get, Get, Rounds!Offset, Offset, Rounds!ListDepartures, ListDepartures,
       Rounds!LineDeparture, LineDeparture, Rounds!Before, Before, Rounds!PrefixTime, PrefixTime,
       Rounds!NextDeparture, NextDeparture, Rounds!Plus, Plus, Rounds!Infinity, Infinity

LEMMA SameLists ==
    ASSUME NEW S, NEW list, NEW keys
    PROVE  /\ Rounds!Cardinality(S) = Cardinality(S)
           /\ Rounds!SetToSeq(S) = SetToSeq(S)
           /\ Rounds!Sorted(list, keys) = Sorted(list, keys)
<1>1. ASSUME NEW T PROVE Rounds!Cardinality(T) = Cardinality(T)
  BY DEF Rounds!Cardinality, Cardinality
<1>2. Rounds!SetToSeq(S) = SetToSeq(S)
  BY <1>1 DEF Rounds!SetToSeq, SetToSeq, Rounds!IsInjective, IsInjective
<1>3. Rounds!Sorted(list, keys) = Sorted(list, keys)
  BY DEF Rounds!Sorted, Sorted, Rounds!Cardinality, Cardinality
<1> QED
  BY <1>1, <1>2, <1>3

-----------------------------------------------------------------------------
(* What a round makes of the labels and the states                          *)

LabelsGrown(table) ==
    /\ DOMAIN table \subseteq Stops
    /\ \A stop \in DOMAIN table : /\ table[stop].arrival \in Seconds
                                  /\ Late(stop, table[stop].arrival)
    /\ \A stop \in DOMAIN labels : /\ stop \in DOMAIN table
                                   /\ table[stop].arrival <= labels[stop].arrival

StatesGrown(list) ==
    /\ list \in Seq(State)
    /\ Len(states) <= Len(list)
    /\ \A i \in DOMAIN list : Late(list[i].stop, list[i].arrival)

Grown(progress) ==
    /\ DOMAIN progress = {"labels", "states"}
    /\ LabelsGrown(progress.labels)
    /\ StatesGrown(progress.states)

LEMMA NothingGrown ==
    ASSUME RoundsType, NeverEarly
    PROVE  Grown([labels |-> labels, states |-> states])
<1>1. \A stop \in DOMAIN labels : labels[stop].arrival <= labels[stop].arrival
  BY WidthAssumption DEF RoundsType, Seconds
<1>2. Len(states) \in Nat
  BY DEF RoundsType
<1> QED
  BY <1>1, <1>2 DEF Grown, LabelsGrown, StatesGrown, RoundsType, NeverEarly

LEMMA LabelGrown ==
    ASSUME RoundsType, NEW table, LabelsGrown(table), NEW stop \in Stops, NEW label,
           label.arrival \in Seconds, Late(stop, label.arrival),
           Rounds!Improved(table, stop, label.arrival)
    PROVE  LabelsGrown(Rounds!Label(table, stop, label))
<1>1. PICK after : after = Rounds!Label(table, stop, label)
  OBVIOUS
<1>2. /\ DOMAIN after = DOMAIN table \cup {stop}
      /\ after[stop] = label
      /\ \A other \in DOMAIN table : other # stop => after[other] = table[other]
  BY <1>1 DEF Rounds!Label
<1>3. ASSUME NEW other \in DOMAIN labels
      PROVE  other \in DOMAIN after /\ after[other].arrival <= labels[other].arrival
  <2>1. other \in DOMAIN table /\ table[other].arrival <= labels[other].arrival
    BY DEF LabelsGrown
  <2>2. table[other].arrival \in Int /\ labels[other].arrival \in Int /\ label.arrival \in Int
    BY <2>1, WidthAssumption DEF LabelsGrown, RoundsType, Seconds
  <2>3. CASE other = stop
    <3>1. label.arrival < table[other].arrival
      BY <2>1, <2>3 DEF Rounds!Improved
    <3>2. label.arrival <= labels[other].arrival
      BY <2>1, <2>2, <3>1
    <3> QED
      BY <1>2, <2>3, <3>2
  <2> QED
    BY <1>2, <2>1, <2>3
<1>4. \A other \in DOMAIN after : after[other].arrival \in Seconds /\ Late(other, after[other].arrival)
  BY <1>2 DEF LabelsGrown
<1> QED
  BY <1>1, <1>2, <1>3, <1>4 DEF LabelsGrown

LEMMA StateGrown ==
    ASSUME RoundsType, NEW list, StatesGrown(list), NEW state \in State,
           Late(state.stop, state.arrival)
    PROVE  StatesGrown(Append(list, state))
<1>1. PICK after : after = Append(list, state)
  OBVIOUS
<1>2. list \in Seq(State) /\ Len(list) \in Nat /\ Len(states) \in Nat /\ Len(states) <= Len(list)
  BY DEF StatesGrown, RoundsType
<1>3. after \in Seq(State) /\ Len(after) = Len(list) + 1 /\ DOMAIN after = 1 .. Len(list) + 1
      /\ \A i \in DOMAIN after : after[i] = IF i = Len(list) + 1 THEN state ELSE list[i]
  BY <1>1, <1>2
<1>4. Len(states) <= Len(after)
  BY <1>2, <1>3
<1>5. \A i \in DOMAIN after : i = Len(list) + 1 \/ i \in DOMAIN list
  BY <1>2, <1>3
<1> QED
  BY <1>1, <1>3, <1>4, <1>5 DEF StatesGrown

\* Late is as good as in time.
LEMMA LaterIsLate ==
    ASSUME HeapOK, best \in Seconds, NEW stop, NEW time \in Int, NEW later \in Int,
           time <= later
    PROVE  /\ Beaten(stop, time) => Beaten(stop, later)
           /\ Late(stop, time) => Late(stop, later)
<1>1. ASSUME Beaten(stop, time)
      PROVE  Beaten(stop, later)
  <2>1. CASE best < time
    <3>1. best \in Int
      BY WidthAssumption DEF Seconds
    <3>2. best < later
      BY <2>1, <3>1
    <3> QED
      BY <3>2 DEF Beaten
  <2>2. CASE ReachedBy(heap, stop, time)
    <3>1. stop \in ReachedStops /\ Key(heap, stop) <= time
      BY <2>2 DEF ReachedBy, Reached, ReachedStops
    <3>2. Key(heap, stop) \in Int
      BY <3>1, KeysAreTimes
    <3>3. Key(heap, stop) <= later
      BY <3>1, <3>2
    <3> QED
      BY <3>1, <3>3 DEF Beaten, ReachedBy, Reached, ReachedStops
  <2> QED
    BY <1>1, <2>1, <2>2 DEF Beaten
<1> QED
  BY <1>1 DEF Late

\* A transfer is no earlier in the labels than in the states, where it is late.
LEMMA TransferGrown ==
    ASSUME WInv, RoundsType, NEW progress, Grown(progress),
           NEW visit \in Visit, WalksFit(timetable, visit),
           visit.time + LeastTransfer < Width,
           NEW i \in DOMAIN timetable.transfers[visit.stop],
           Late(timetable.transfers[visit.stop][i].stop,
                visit.time + timetable.transfers[visit.stop][i].duration)
    PROVE  Grown(Rounds!Transfer(progress, visit.stop, visit.time,
                                 timetable.transfers[visit.stop][i]))
<1>1. PICK transfer : transfer = timetable.transfers[visit.stop][i]
  OBVIOUS
<1>2. PICK time : time = visit.time
  OBVIOUS
<1>3. InputOK /\ HeapOK /\ best \in Seconds
  BY DEF WInv, RInv, PInv, IInv, SearchInv, TypeOK
<1>4. transfer \in Transfer
  BY <1>1, <1>3, InputTypes, ElementOfSeq, LenProperties DEF IsTimeTable, Visit
<1>5. PICK duration : duration = transfer.duration
  OBVIOUS
<1>6. /\ transfer.stop \in Stops /\ time \in Nat /\ duration \in Nat /\ LeastTransfer \in Nat
      /\ time + duration < Width /\ time + LeastTransfer < Width
  <2>1. LeastTransfer \in Nat
    BY LeastTransferAssumption
  <2>2. transfer.stop \in Stops /\ time \in Seconds /\ duration \in Seconds
    BY <1>2, <1>4, <1>5 DEF Transfer, Visit
  <2>3. time + duration < Width /\ time + LeastTransfer < Width
    BY <1>1, <1>2, <1>5 DEF WalksFit
  <2> QED
    BY <2>1, <2>2, <2>3, WidthAssumption DEF Seconds
<1>7. PICK longer : longer = Rounds!Greater(duration, LeastTransfer)
  OBVIOUS
<1>8. longer \in Nat /\ duration <= longer /\ time + longer < Width
  BY <1>6, <1>7 DEF Rounds!Greater
<1>9. /\ Rounds!Plus(time, duration) = time + duration
      /\ Rounds!Plus(time, longer) = time + longer
  BY <1>6, <1>8, SameClock, PlusFits
<1>10. /\ time + duration \in Seconds /\ time + longer \in Seconds
       /\ time + duration \in Int /\ time + longer \in Int /\ time + duration <= time + longer
  BY <1>6, <1>8, WidthAssumption DEF Seconds
<1>11. Late(transfer.stop, time + duration)
  BY <1>1, <1>2, <1>5
<1>12. Late(transfer.stop, time + longer)
  BY <1>3, <1>10, <1>11, LaterIsLate
<1> DEFINE label == [ arrival |-> time + longer, parent |-> visit.stop, departure |-> time,
                      line |-> 0 ]
           state == [ stop |-> transfer.stop, arrival |-> time + duration ]
           better == Rounds!Improved(progress.labels, transfer.stop, time + longer)
<1>13. Rounds!Transfer(progress, visit.stop, time, transfer)
       = [ labels |-> IF better THEN Rounds!Label(progress.labels, transfer.stop, label)
                      ELSE progress.labels,
           states |-> IF better \/ transfer.stop = visit.stop
                      THEN Append(progress.states, state) ELSE progress.states ]
  BY <1>5, <1>7, <1>9 DEF Rounds!Transfer
<1>14. LabelsGrown(progress.labels) /\ StatesGrown(progress.states)
  BY DEF Grown
<1>15. better => LabelsGrown(Rounds!Label(progress.labels, transfer.stop, label))
  <2>1. label.arrival = time + longer
    OBVIOUS
  <2> HIDE DEF label
  <2> QED
    BY <1>6, <1>10, <1>12, <1>14, <2>1, LabelGrown
<1>16. StatesGrown(Append(progress.states, state))
  <2>1. state \in State /\ state.stop = transfer.stop /\ state.arrival = time + duration
    BY <1>6, <1>10 DEF State
  <2> HIDE DEF state
  <2> QED
    BY <1>11, <1>14, <2>1, StateGrown
<1> HIDE DEF label, state, better
<1> QED
  BY <1>1, <1>2, <1>13, <1>14, <1>15, <1>16 DEF Grown

-----------------------------------------------------------------------------
(* What is ridden to, and walked to from there                              *)

\* What a stop's lines hand out are rides, which the transfers of the labels fit to.
LEMMA GetIsRide ==
    ASSUME InputOK, NEW stop \in Stops, NEW time \in Seconds,
           NEW i \in DOMAIN timetable.stop_to_line[stop],
           NEW trip \in Get(timetable.lines[timetable.stop_to_line[stop][i]], stop, time),
           NEW k \in DOMAIN Visits(trip)
    PROVE  /\ Visits(trip)[k] \in Rides(stop, time)
           /\ Visits(trip)[k] \in Visit
           /\ WalksFit(timetable, Visits(trip)[k])
           /\ Visits(trip)[k].time + LeastTransfer < Width
<1>1. PICK line : line = timetable.lines[timetable.stop_to_line[stop][i]]
  OBVIOUS
<1>2. PICK boarding : boarding = Offset(line, stop)
  OBVIOUS
<1>3. /\ Orderly(line) /\ boarding \in DOMAIN line.stops
      /\ \E j \in DOMAIN line.stops : line.stops[j] = stop
  BY <1>1, <1>2, LineInOrder
<1>4. PICK d \in DOMAIN line.departures :
        trip = Service(line, boarding, d) /\ time <= trip.departure
  <2>1. trip \in Get(line, stop, time)
    BY <1>1
  <2>2. \E d \in DOMAIN line.departures :
           trip = Service(line, Offset(line, stop), d) /\ time <= trip.departure
    BY <1>3, <2>1, NoTripHasLeft
  <2> QED
    BY <1>2, <2>2
<1>5. trip = ServiceFrom(line, boarding, d) /\ trip.departure \in Nat /\ time \in Nat
  BY <1>3, <1>4, ServiceInTime, WidthAssumption DEF Seconds
<1>6. trip.departure >= time
  BY <1>4, <1>5
<1>7. trip \in Services(line, stop)
  BY <1>2, <1>5 DEF Services
<1>8. Visits(trip)[k] \in Rides(stop, time)
  BY <1>1, <1>6, <1>7 DEF Rides, Range
<1>9. Visits(trip)[k] \in Visit /\ WalksFit(timetable, Visits(trip)[k])
  BY RidesVisitStops, InputTypes DEF Punctual
<1>10. Visits(trip)[k].time + LeastTransfer < Width
  <2>1. timetable \in TimeTables
    BY DEF InputOK
  <2>2. LET here == timetable.lines[timetable.stop_to_line[stop][i]]
        IN  \A e \in DOMAIN here.departures :
              \A j \in DOMAIN Visits(Service(here, Offset(here, stop), e)) :
                 Visits(Service(here, Offset(here, stop), e))[j].time + LeastTransfer < Width
    BY <2>1, LeastTransferAssumption, Zenon
  <2> QED
    BY <1>1, <1>2, <1>4, <2>2
<1> QED
  BY <1>8, <1>9, <1>10

\* who gets off a vehicle is not where it is possible to walk to from there before the
\* other router, unless that one has started there
Taken(visit) ==
    /\ visit \in Visit /\ WalksFit(timetable, visit) /\ visit.time + LeastTransfer < Width
    /\ Late(visit.stop, visit.time)
    /\ \/ StartedBy(visit.stop, visit.time)
       \/ \A walk \in Footpaths(visit.stop) : Late(walk.stop, visit.time + walk.duration)

LEMMA RidesAreTaken ==
    ASSUME WInv, pc = "done", ~ NoLegs,
           NEW state \in State, Late(state.stop, state.arrival),
           NEW i \in DOMAIN timetable.stop_to_line[state.stop],
           NEW trip \in Get(timetable.lines[timetable.stop_to_line[state.stop][i]],
                            state.stop, state.arrival),
           NEW k \in DOMAIN Visits(trip)
    PROVE  Taken(Visits(trip)[k])
<1>1. PICK visit : visit = Visits(trip)[k]
  OBVIOUS
<1>2. PICK stop : stop = state.stop
  OBVIOUS
<1>3. PICK time : time = state.arrival
  OBVIOUS
<1>4. stop \in Stops /\ time \in Seconds /\ time \in Nat /\ InputOK /\ RInv
  BY <1>2, <1>3, WidthAssumption DEF State, Seconds, WInv, RInv, PInv, IInv
<1>5. /\ visit \in Rides(stop, time) /\ visit \in Visit
      /\ WalksFit(timetable, visit) /\ visit.time + LeastTransfer < Width
  BY <1>1, <1>2, <1>3, <1>4, GetIsRide
<1>6. CASE WalksJoin /\ ~ Overtaking
  <2>1. Beaten(stop, time)
    BY <1>2, <1>3, <1>6 DEF Late
  <2>2. Beaten(visit.stop, visit.time)
    BY <1>4, <1>5, <1>6, <2>1, RideIsBeaten
  <2>3. \/ StartedBy(visit.stop, visit.time)
        \/ \A walk \in Footpaths(visit.stop) : Beaten(walk.stop, visit.time + walk.duration)
    BY <1>4, <1>5, <1>6, <2>1, WalkIsBeaten
  <2> QED
    BY <1>1, <1>5, <2>2, <2>3 DEF Taken, Late
<1>7. CASE ~ (WalksJoin /\ ~ Overtaking)
  BY <1>1, <1>5, <1>7 DEF Taken, Late
<1> QED
  BY <1>6, <1>7

-----------------------------------------------------------------------------
(* What a state is relaxed into                                             *)

TransferNext(visit, progress, transfer) ==
    Rounds!Transfer(progress, visit.stop, visit.time, transfer)

\* a run is a trip on a line from a state, [from, trip], and from is [state, line]
RideNext(run, progress, visit) ==
    Rounds!Ride(progress, visit, run.from.state.stop, run.from.line, run.trip.departure)

TripNext(from, progress, trip) ==
    Rounds!FoldLeft(LAMBDA partial, visit :
                        Rounds!Ride(partial, visit, from.state.stop, from.line, trip.departure),
                    progress, Rounds!Visits(trip))

LineNext(state, progress, line) == Rounds!RelaxLine(progress, state, line)

GrownBy(context, k, progress) == Grown(progress)

Transferring == INSTANCE Folding WITH Step <- TransferNext, Keeps <- GrownBy
Riding == INSTANCE Folding WITH Step <- RideNext, Keeps <- GrownBy
Boarding == INSTANCE Folding WITH Step <- TripNext, Keeps <- GrownBy
Relaxing == INSTANCE Folding WITH Step <- LineNext, Keeps <- GrownBy

\* every start of the query has its label
AllStarted == \A stop \in Stops : \A time \in StartTimes(stop) : LabelledBy(stop, time)

\* Who improves the label of a stop is there too late to have started there.
LEMMA ImprovedIsNotStarted ==
    ASSUME InputOK, RoundsType, AllStarted, NEW table, LabelsGrown(table), NEW stop \in Stops,
           NEW time \in Seconds, Rounds!Improved(table, stop, time)
    PROVE  ~ StartedBy(stop, time)
<1> SUFFICES ASSUME NEW start \in StartTimes(stop), start <= time
             PROVE  FALSE
  BY DEF StartedBy
<1>1. stop \in DOMAIN labels /\ labels[stop].arrival <= start
  BY DEF AllStarted, LabelledBy
<1>2. stop \in DOMAIN table /\ table[stop].arrival <= labels[stop].arrival
  BY <1>1 DEF LabelsGrown
<1>3. time < table[stop].arrival
  BY <1>2 DEF Rounds!Improved
<1>4. start \in Int /\ time \in Int /\ table[stop].arrival \in Int /\ labels[stop].arrival \in Int
  BY <1>1, <1>2, StartTimesType, WidthAssumption DEF LabelsGrown, RoundsType, Seconds
<1> QED
  BY <1>1, <1>2, <1>3, <1>4

LEMMA RideGrown ==
    ASSUME WInv, RoundsType, AllStarted, NEW progress, Grown(progress), NEW visit, Taken(visit),
           NEW boarded, NEW line, NEW departure
    PROVE  Grown(Rounds!Ride(progress, visit, boarded, line, departure))
<1> DEFINE transfers == timetable.transfers[visit.stop]
           label == [ arrival |-> visit.time, parent |-> boarded, departure |-> departure,
                      line |-> line ]
           base == [ progress EXCEPT !.labels = Rounds!Label(@, visit.stop, label) ]
<1>1. InputOK
  BY DEF WInv, RInv, PInv, IInv
<1>2. /\ visit \in Visit /\ visit.stop \in Stops /\ visit.time \in Seconds
      /\ WalksFit(timetable, visit) /\ visit.time + LeastTransfer < Width
      /\ Late(visit.stop, visit.time)
  BY DEF Taken, Visit
<1>3. CASE ~ Rounds!Improved(progress.labels, visit.stop, visit.time)
  BY <1>3 DEF Rounds!Ride
<1>4. CASE Rounds!Improved(progress.labels, visit.stop, visit.time)
  <2>1. Grown(base)
    <3>1. LabelsGrown(Rounds!Label(progress.labels, visit.stop, label))
      <4>1. label.arrival = visit.time
        OBVIOUS
      <4> HIDE DEF label
      <4> QED
        BY <1>2, <1>4, <4>1, LabelGrown DEF Grown
    <3>2. /\ DOMAIN base = DOMAIN progress /\ base.states = progress.states
          /\ base.labels = Rounds!Label(progress.labels, visit.stop, label)
      BY DEF Grown
    <3> HIDE DEF base
    <3> QED
      BY <3>1, <3>2 DEF Grown
  <2>2. \A walk \in Footpaths(visit.stop) : Late(walk.stop, visit.time + walk.duration)
    <3>1. ~ StartedBy(visit.stop, visit.time)
      BY <1>1, <1>2, <1>4, ImprovedIsNotStarted DEF Grown
    <3> QED
      BY <3>1 DEF Taken
  <2>3. ASSUME NEW i \in DOMAIN transfers
        PROVE  Late(transfers[i].stop, visit.time + transfers[i].duration)
    <3>1. PICK walk \in Footpaths(visit.stop) :
            walk.stop = transfers[i].stop /\ walk.duration = transfers[i].duration
      BY <1>1, <1>2, FootpathFacts
    <3> QED
      BY <2>2, <3>1
  <2>4. PICK n \in Nat : DOMAIN transfers = 1 .. n
    <3>1. transfers \in Seq(Transfer)
      BY <1>1, <1>2, InputTypes DEF IsTimeTable
    <3> QED
      BY <3>1
  <2>5. ASSUME NEW k \in 1 .. n, NEW value, GrownBy(visit, k - 1, value)
        PROVE  GrownBy(visit, k, TransferNext(visit, value, transfers[k]))
    BY <1>2, <2>3, <2>4, <2>5, TransferGrown DEF GrownBy, TransferNext
  <2> HIDE DEF base, transfers
  <2>6. GrownBy(visit, 0, base)
    BY <2>1 DEF GrownBy
  <2>7. GrownBy(visit, n, Transferring!Fold(visit, base, transfers))
    BY <2>4, <2>5, <2>6, Transferring!FoldKeeps
  <2>8. Rounds!FoldLeft(LAMBDA partial, transfer :
                            Rounds!Transfer(partial, visit.stop, visit.time, transfer),
                        base, transfers)
        = Transferring!Fold(visit, base, transfers)
    BY Zenon DEF Rounds!FoldLeft, Rounds!MapThenFoldSet, Rounds!Max, Transferring!Fold,
                 Transferring!Latest, TransferNext
  <2>9. Rounds!Ride(progress, visit, boarded, line, departure)
        = Rounds!FoldLeft(LAMBDA partial, transfer :
                              Rounds!Transfer(partial, visit.stop, visit.time, transfer),
                          base, transfers)
    BY <1>4, Zenon DEF Rounds!Ride, base, transfers
  <2> QED
    BY <2>7, <2>8, <2>9 DEF GrownBy
<1> QED
  BY <1>3, <1>4

LEMMA TripGrown ==
    ASSUME WInv, RoundsType, AllStarted, NEW run, NEW n \in Nat, DOMAIN Visits(run.trip) = 1 .. n,
           \A k \in 1 .. n : Taken(Visits(run.trip)[k]),
           NEW progress, Grown(progress)
    PROVE  Grown(TripNext(run.from, progress, run.trip))
<1>1. PICK list : list = Visits(run.trip)
  OBVIOUS
<1>2. DOMAIN list = 1 .. n /\ \A k \in 1 .. n : Taken(list[k])
  BY <1>1
<1>3. ASSUME NEW k \in 1 .. n, NEW value, GrownBy(run, k - 1, value)
      PROVE  GrownBy(run, k, RideNext(run, value, list[k]))
  BY <1>2, <1>3, RideGrown DEF GrownBy, RideNext
<1>4. GrownBy(run, 0, progress)
  BY DEF GrownBy
<1>5. GrownBy(run, n, Riding!Fold(run, progress, list))
  BY <1>2, <1>3, <1>4, Riding!FoldKeeps
<1>6. TripNext(run.from, progress, run.trip) = Riding!Fold(run, progress, Rounds!Visits(run.trip))
  BY Zenon DEF TripNext, Rounds!FoldLeft, Rounds!MapThenFoldSet, Rounds!Max, Riding!Fold,
               Riding!Latest, RideNext
<1>7. Rounds!Visits(run.trip) = list
  BY <1>1, SameClock
<1> QED
  BY <1>5, <1>6, <1>7 DEF GrownBy

LEMMA RelaxLineGrown ==
    ASSUME WInv, RoundsType, AllStarted, pc = "done", ~ NoLegs,
           NEW from, from.state \in State, Late(from.state.stop, from.state.arrival),
           NEW i \in DOMAIN timetable.stop_to_line[from.state.stop],
           from.line = timetable.stop_to_line[from.state.stop][i],
           NEW progress, Grown(progress)
    PROVE  Grown(Rounds!RelaxLine(progress, from.state, from.line))
<1>1. PICK trips : trips = Get(timetable.lines[from.line], from.state.stop, from.state.arrival)
  OBVIOUS
<1>2. /\ InputOK /\ timetable \in TimeTables
      /\ from.state.stop \in Stops /\ from.state.arrival \in Seconds
  BY DEF WInv, RInv, PInv, IInv, InputOK, State
<1>3. \A trip, other \in trips : trip = other
  BY <1>1, <1>2, OneRide
<1>4. IsFiniteSet(trips)
  <2>1. CASE trips = {}
    BY <2>1, FS_EmptySet
  <2>2. ASSUME NEW trip \in trips
        PROVE  IsFiniteSet(trips)
    <3>1. trips = {trip}
      BY <1>3
    <3> QED
      BY <3>1, FS_Singleton
  <2> QED
    BY <2>1, <2>2
\* one trip
<1>5. ASSUME NEW trip \in trips, NEW before, Grown(before)
      PROVE  Grown(TripNext(from, before, trip))
  <2>1. PICK run : run = [from |-> from, trip |-> trip]
    OBVIOUS
  <2>2. run.from = from /\ run.trip = trip
    BY <2>1
  <2>3. Visits(trip) \in Seq(Visit)
    BY <1>1, <1>2, InputTypes DEF IsTimeTable
  <2>4. PICK n \in Nat : DOMAIN Visits(trip) = 1 .. n
    BY <2>3
  <2>5. \A k \in 1 .. n : Taken(Visits(trip)[k])
    BY <1>1, <2>4, RidesAreTaken
  <2> QED
    BY <1>5, <2>2, <2>4, <2>5, TripGrown
\* and all that are there
<1>6. SetToSeq(trips) \in Seq(trips)
  BY <1>4, SetToSeqFacts
<1>7. PICK list : list = SetToSeq(trips)
  OBVIOUS
<1>8. PICK n \in Nat : DOMAIN list = 1 .. n
  BY <1>6, <1>7
<1>9. \A k \in 1 .. n : list[k] \in trips
  BY <1>6, <1>7, <1>8
<1>10. ASSUME NEW k \in 1 .. n, NEW value, GrownBy(from, k - 1, value)
       PROVE  GrownBy(from, k, TripNext(from, value, list[k]))
  BY <1>5, <1>9, <1>10 DEF GrownBy
<1>11. GrownBy(from, 0, progress)
  BY DEF GrownBy
<1>12. GrownBy(from, n, Boarding!Fold(from, progress, list))
  BY <1>8, <1>10, <1>11, Boarding!FoldKeeps
<1>13. Rounds!RelaxLine(progress, from.state, from.line)
       = Boarding!Fold(from, progress,
                       Rounds!SetToSeq(Rounds!Get(timetable.lines[from.line], from.state.stop,
                                                  from.state.arrival)))
  BY Zenon DEF Rounds!RelaxLine, Rounds!FoldLeft, Rounds!MapThenFoldSet, Rounds!Max,
               Boarding!Fold, Boarding!Latest, TripNext
<1>14. Rounds!SetToSeq(Rounds!Get(timetable.lines[from.line], from.state.stop,
                                  from.state.arrival)) = list
  BY <1>1, <1>7, SameGet, SameLists
<1> QED
  BY <1>12, <1>13, <1>14 DEF GrownBy

\* what RelaxState makes of the labels and the states
RelaxedFrom(state) ==
    Rounds!FoldLeft(LAMBDA progress, line : Rounds!RelaxLine(progress, state, line),
                    [labels |-> labels, states |-> states],
                    timetable.stop_to_line[state.stop])

LEMMA RelaxStateGrown ==
    ASSUME WInv, RoundsType, NeverEarly, AllStarted, pc = "done", ~ NoLegs,
           NEW state \in State, Late(state.stop, state.arrival)
    PROVE  Grown(RelaxedFrom(state))
<1>1. PICK list : list = timetable.stop_to_line[state.stop]
  OBVIOUS
<1>2. PICK n \in Nat : DOMAIN list = 1 .. n
  <2>1. timetable.stop_to_line \in [Stops -> Seq(DOMAIN timetable.lines)] /\ state.stop \in Stops
    BY InputTypes DEF WInv, RInv, PInv, IInv, IsTimeTable, State
  <2>2. list \in Seq(DOMAIN timetable.lines)
    BY <1>1, <2>1
  <2> QED
    BY <2>2
<1>3. ASSUME NEW k \in 1 .. n, NEW value, GrownBy(state, k - 1, value)
      PROVE  GrownBy(state, k, LineNext(state, value, list[k]))
  <2>1. PICK from : from = [state |-> state, line |-> list[k]]
    OBVIOUS
  <2>2. from.state = state /\ from.line = list[k]
    BY <2>1
  <2>3. Grown(Rounds!RelaxLine(value, from.state, from.line))
    BY <1>1, <1>2, <1>3, <2>2, RelaxLineGrown DEF GrownBy
  <2> QED
    BY <2>2, <2>3 DEF GrownBy, LineNext
<1>4. PICK base : base = [labels |-> labels, states |-> states]
  OBVIOUS
<1>5. GrownBy(state, 0, base)
  BY <1>4, NothingGrown DEF GrownBy
<1>6. GrownBy(state, n, Relaxing!Fold(state, base, list))
  BY <1>2, <1>3, <1>5, Relaxing!FoldKeeps
<1>7. RelaxedFrom(state)
      = Relaxing!Fold(state, [labels |-> labels, states |-> states],
                      timetable.stop_to_line[state.stop])
  BY Zenon DEF RelaxedFrom, Rounds!FoldLeft, Rounds!MapThenFoldSet, Rounds!Max, Relaxing!Fold,
               Relaxing!Latest, LineNext
<1> QED
  BY <1>1, <1>4, <1>6, <1>7 DEF GrownBy

-----------------------------------------------------------------------------
(* The steps of the rounds                                                  *)

\* The other router is where it could start by then.
LEMMA StartIsLate ==
    ASSUME WInv, pc = "done", ~ NoLegs, NEW i \in DOMAIN query.origins,
           NEW stop \in Stops, timetable.station[stop] = timetable.station[query.origins[i].stop]
    PROVE  /\ Plus(query.departure, query.origins[i].seconds) \in Seconds
           /\ Late(stop, Plus(query.departure, query.origins[i].seconds))
<1> DEFINE time == Plus(query.departure, query.origins[i].seconds)
<1>1. InputOK /\ origins = << >> /\ starts = << >> /\ StartsReached
  BY DEF WInv, RInv, PInv, IInv, PathInv, PathLast, NoStarts, RelaxInv
<1>2. time \in Seconds
  <2>1. time \in StartTimes(stop)
    BY DEF StartTimes
  <2> QED
    BY <1>1, <2>1, StartTimesType
<1>3. time \in StartsFrom(query.origins[i], stop)
  BY DEF StartsFrom
<1> HIDE DEF time
<1>4. ReachedBy(heap, stop, time)
  BY <1>1, <1>3 DEF StartsReached
<1> QED
  BY <1>2, <1>4 DEF Late, Beaten, time

StartNext(origin, progress, start) ==
    Rounds!AddStart(progress, start, Rounds!Plus(query.departure, origin.seconds))

\* the starts that are added have their labels
Begun(table, stop, time) == stop \in DOMAIN table /\ table[stop].arrival <= time

BegunBy(origin, k, progress) ==
    /\ Grown(progress)
    /\ \A j \in 1 .. k :
          Begun(progress.labels, timetable.stops[timetable.station[origin.stop]][j],
                Plus(query.departure, origin.seconds))

Beginning == INSTANCE Folding WITH Step <- StartNext, Keeps <- BegunBy

LEMMA AddStartBegins ==
    ASSUME RoundsType, NEW progress, Grown(progress), NEW start \in Stops, NEW time \in Seconds,
           Late(start, time)
    PROVE  /\ Grown(Rounds!AddStart(progress, start, time))
           /\ Begun(Rounds!AddStart(progress, start, time).labels, start, time)
           /\ \A stop : \A other \in Int :
                 Begun(progress.labels, stop, other)
                    => Begun(Rounds!AddStart(progress, start, time).labels, stop, other)
<1> DEFINE label == [arrival |-> time, parent |-> start, departure |-> time, line |-> 0]
           state == [stop |-> start, arrival |-> time]
<1>1. LabelsGrown(progress.labels) /\ StatesGrown(progress.states)
  BY DEF Grown
<1>2. PICK table : table = progress.labels
  OBVIOUS
<1>3. time \in Int /\ \A stop \in DOMAIN table : table[stop].arrival \in Int
  BY <1>1, <1>2, WidthAssumption DEF LabelsGrown, Seconds
<1>4. CASE ~ Rounds!Improved(progress.labels, start, time)
  <2>1. Rounds!AddStart(progress, start, time) = progress
    BY <1>4 DEF Rounds!AddStart
  <2>2. start \in DOMAIN table /\ table[start].arrival <= time
    <3>1. start \in DOMAIN table /\ ~ (time < table[start].arrival)
      BY <1>2, <1>4 DEF Rounds!Improved
    <3> QED
      BY <1>3, <3>1
  <2> QED
    BY <1>2, <2>1, <2>2 DEF Begun
<1>5. CASE Rounds!Improved(progress.labels, start, time)
  <2>1. Rounds!AddStart(progress, start, time)
        = [ labels |-> Rounds!Label(table, start, label), states |-> Append(progress.states, state) ]
    BY <1>2, <1>5 DEF Rounds!AddStart
  <2>2. PICK after : after = Rounds!Label(table, start, label)
    OBVIOUS
  <2>3. LabelsGrown(after)
    <3>1. label.arrival = time
      OBVIOUS
    <3> HIDE DEF label
    <3> QED
      BY <1>1, <1>2, <1>5, <2>2, <3>1, LabelGrown
  <2>4. StatesGrown(Append(progress.states, state))
    <3>1. state \in State /\ state.stop = start /\ state.arrival = time
      BY DEF State
    <3> HIDE DEF state
    <3> QED
      BY <1>1, <3>1, StateGrown
  <2>5. /\ DOMAIN after = DOMAIN table \cup {start}
        /\ after[start].arrival = time
        /\ \A stop \in DOMAIN table : stop # start => after[stop] = table[stop]
    BY <2>2 DEF Rounds!Label
  <2>6. Begun(after, start, time)
    BY <1>3, <2>5 DEF Begun
  <2>7. ASSUME NEW stop, NEW other \in Int, Begun(table, stop, other)
        PROVE  Begun(after, stop, other)
    <3>1. stop \in DOMAIN table /\ table[stop].arrival <= other
      BY <2>7 DEF Begun
    <3>2. CASE stop = start
      <4>1. time < table[stop].arrival
        BY <1>2, <1>5, <3>1, <3>2 DEF Rounds!Improved
      <4>2. time <= other
        BY <1>3, <3>1, <4>1
      <4> QED
        BY <2>5, <3>2, <4>2 DEF Begun
    <3>3. CASE stop # start
      BY <2>5, <3>1, <3>3 DEF Begun
    <3> QED
      BY <3>2, <3>3
  <2> HIDE DEF label, state
  <2>8. /\ DOMAIN Rounds!AddStart(progress, start, time) = {"labels", "states"}
        /\ Rounds!AddStart(progress, start, time).labels = after
        /\ Rounds!AddStart(progress, start, time).states = Append(progress.states, state)
    BY <2>1, <2>2
  <2> QED
    BY <1>2, <2>3, <2>4, <2>6, <2>7, <2>8 DEF Grown
<1> QED
  BY <1>4, <1>5

\* what AddOrigin makes of the labels and the states
StartedFrom(origin) ==
    Rounds!FoldLeft(LAMBDA progress, start :
                       Rounds!AddStart(progress, start, Rounds!Plus(query.departure, origin.seconds)),
                    [labels |-> labels, states |-> states],
                    timetable.stops[timetable.station[origin.stop]])

\* Adding an origin labels all stops of its station.
LEMMA AddOriginBegins ==
    ASSUME WInv, RoundsType, NeverEarly, pc = "done", ~ NoLegs,
           NEW i \in DOMAIN query.origins, NEW origin, origin = query.origins[i]
    PROVE  /\ Grown(StartedFrom(origin))
           /\ \A stop \in Stops : \A time \in StartsFrom(origin, stop) :
                 Begun(StartedFrom(origin).labels, stop, time)
<1>1. InputOK /\ timetable \in TimeTables
  BY DEF WInv, RInv, PInv, IInv, InputOK
<1>2. origin.stop \in Stops
  <2>1. query.origins \in Seq(ADLeg)
    BY <1>1, InputTypes DEF IsQuery
  <2>2. origin \in ADLeg
    BY <2>1
  <2> QED
    BY <2>2 DEF ADLeg
<1>3. PICK list : list = timetable.stops[timetable.station[origin.stop]]
  OBVIOUS
<1>4. list \in Seq(Stops)
  <2>1. timetable.station \in [Stops -> Stops] /\ timetable.stops \in [Stops -> Seq(Stops)]
    BY <1>1, InputTypes DEF IsTimeTable
  <2> QED
    BY <1>2, <1>3, <2>1
<1>5. PICK n \in Nat : DOMAIN list = 1 .. n
  BY <1>4
<1>6. \A k \in 1 .. n : /\ list[k] \in Stops
                        /\ timetable.station[list[k]] = timetable.station[origin.stop]
  <2>1. \A k \in DOMAIN list : timetable.station[list[k]] = timetable.station[origin.stop]
    BY <1>1, <1>2, <1>3, GroupedAssumption DEF Grouped
  <2> QED
    BY <1>4, <1>5, <2>1
<1>7. PICK time : time = Plus(query.departure, origin.seconds)
  OBVIOUS
<1>8. \A k \in 1 .. n : time \in Seconds /\ Late(list[k], time)
  BY <1>6, <1>7, StartIsLate
<1>9. Rounds!Plus(query.departure, origin.seconds) = time
  BY <1>7, SameClock
<1>10. ASSUME NEW k \in 1 .. n, NEW value, BegunBy(origin, k - 1, value)
       PROVE  BegunBy(origin, k, StartNext(origin, value, list[k]))
  <2>1. Grown(value) /\ \A j \in 1 .. k - 1 : Begun(value.labels, list[j], time)
    BY <1>3, <1>7, <1>10 DEF BegunBy
  <2>2. time \in Seconds /\ time \in Int
    BY <1>8, WidthAssumption DEF Seconds
  <2>3. PICK start : start = list[k]
    OBVIOUS
  <2>4. PICK after : after = Rounds!AddStart(value, start, time)
    OBVIOUS
  <2>5. start \in Stops /\ Late(start, time)
    BY <1>6, <1>8, <2>3
  <2>6. /\ Grown(after) /\ Begun(after.labels, start, time)
        /\ \A stop : Begun(value.labels, stop, time) => Begun(after.labels, stop, time)
    BY <2>1, <2>2, <2>4, <2>5, AddStartBegins
  <2>7. \A j \in 1 .. k : j = k \/ j \in 1 .. k - 1
    OBVIOUS
  <2>8. \A j \in 1 .. k : Begun(after.labels, list[j], time)
    BY <2>1, <2>3, <2>6, <2>7
  <2>9. BegunBy(origin, k, after)
    BY <1>3, <1>7, <2>6, <2>8 DEF BegunBy
  <2> QED
    BY <1>9, <2>3, <2>4, <2>9 DEF StartNext
<1>11. PICK base : base = [labels |-> labels, states |-> states]
  OBVIOUS
<1>12. BegunBy(origin, 0, base)
  BY <1>11, NothingGrown DEF BegunBy
<1>13. BegunBy(origin, n, Beginning!Fold(origin, base, list))
  BY <1>5, <1>10, <1>12, Beginning!FoldKeeps
<1>14. StartedFrom(origin)
       = Beginning!Fold(origin, [labels |-> labels, states |-> states],
                        timetable.stops[timetable.station[origin.stop]])
  BY Zenon DEF StartedFrom, Rounds!FoldLeft, Rounds!MapThenFoldSet, Rounds!Max, Beginning!Fold,
               Beginning!Latest, StartNext
<1>15. BegunBy(origin, n, StartedFrom(origin))
  BY <1>3, <1>11, <1>13, <1>14
<1>16. ASSUME NEW stop \in Stops, NEW start \in StartsFrom(origin, stop)
       PROVE  Begun(StartedFrom(origin).labels, stop, start)
  <2>1. start = time /\ timetable.station[stop] = timetable.station[origin.stop]
    BY <1>7 DEF StartsFrom
  <2>2. \E k \in DOMAIN list : list[k] = stop
    <3>1. \E k \in DOMAIN timetable.stops[timetable.station[stop]] :
             timetable.stops[timetable.station[stop]][k] = stop
      BY <1>1, CompleteAssumption DEF Complete
    <3> QED
      BY <1>3, <2>1, <3>1
  <2> QED
    BY <1>3, <1>5, <1>7, <1>15, <2>1, <2>2 DEF BegunBy
<1> QED
  BY <1>15, <1>16 DEF BegunBy

\* The rounds read what the search has left, and do not change it.
LEMMA LateStays ==
    ASSUME UNCHANGED vars
    PROVE  /\ WalksJoin' = WalksJoin /\ Overtaking' = Overtaking
           /\ timetable' = timetable /\ query' = query /\ heap' = heap /\ best' = best
           /\ pc' = pc /\ NoLegs' = NoLegs
           /\ \A origin, stop : StartsFrom(origin, stop)' = StartsFrom(origin, stop)
<1>1. /\ timetable' = timetable /\ query' = query /\ heap' = heap /\ best' = best /\ pc' = pc
  BY DEF vars
<1>2. \A stop : Footpaths(stop)' = Footpaths(stop)
  <2> SUFFICES ASSUME NEW stop PROVE Footpaths(stop)' = Footpaths(stop)
    OBVIOUS
  <2>1. Walks(stop, 0)' = Walks(stop, 0)
    BY <1>1, WalksStay
  <2> QED
    BY <2>1 DEF Footpaths
<1>3. WalksJoin' = WalksJoin
  BY <1>2 DEF WalksJoin
<1>4. Overtaking' = Overtaking
  BY <1>1 DEF Overtaking
<1>5. NoLegs' = NoLegs
  BY <1>1 DEF NoLegs
<1>6. \A origin, stop : StartsFrom(origin, stop)' = StartsFrom(origin, stop)
  BY <1>1 DEF StartsFrom
<1> QED
  BY <1>1, <1>3, <1>4, <1>5, <1>6

LEMMA GrownNext ==
    ASSUME UNCHANGED vars, LabelsGrown(labels'), StatesGrown(states'),
           offset' \in Nat, count' \in Nat, offset' + count' <= Len(states'),
           begins' \in Seq(ADLeg)
    PROVE  RoundsType' /\ NeverEarly'
<1>1. /\ WalksJoin' = WalksJoin /\ Overtaking' = Overtaking /\ heap' = heap /\ best' = best
  BY LateStays
<1>2. RoundsType'
  BY DEF RoundsType, LabelsGrown, StatesGrown
<1>3. \A stop \in DOMAIN labels' : Late(stop, labels[stop].arrival)'
  BY <1>1 DEF LabelsGrown, Late, Beaten
<1>4. \A i \in DOMAIN states' : Late(states[i].stop, states[i].arrival)'
  BY <1>1 DEF StatesGrown, Late, Beaten
<1> QED
  BY <1>2, <1>3, <1>4 DEF NeverEarly

\* What has its label keeps it.
LEMMA StartedNext ==
    ASSUME UNCHANGED vars, RoundsType, RoundsStarted, LabelsGrown(labels'), InputOK,
           phase' = "run" => phase = "run",
           phase' = "run" =>
              \A i \in DOMAIN query.origins :
                 (\E k \in DOMAIN begins : begins[k] = query.origins[i])
                    => \/ \E k \in DOMAIN begins' : begins'[k] = query.origins[i]
                       \/ \A stop \in Stops : \A time \in StartsFrom(query.origins[i], stop) :
                             Begun(labels', stop, time)
    PROVE  RoundsStarted'
<1>1. /\ query' = query /\ \A origin, stop : StartsFrom(origin, stop)' = StartsFrom(origin, stop)
  BY LateStays
<1> SUFFICES ASSUME phase' = "run",
                    NEW i \in DOMAIN query.origins, NEW stop \in Stops,
                    NEW time \in StartsFrom(query.origins[i], stop)
             PROVE  \/ Begun(labels', stop, time)
                    \/ \E k \in DOMAIN begins' : begins'[k] = query.origins[i]
  BY <1>1 DEF RoundsStarted, LabelledBy, Begun
<1>2. CASE \E k \in DOMAIN begins : begins[k] = query.origins[i]
  BY <1>2
<1>3. CASE LabelledBy(stop, time)
  <2>1. /\ stop \in DOMAIN labels /\ labels[stop].arrival <= time
        /\ stop \in DOMAIN labels' /\ labels'[stop].arrival <= labels[stop].arrival
    BY <1>3 DEF LabelledBy, LabelsGrown
  <2>2. time \in StartTimes(stop)
    BY DEF StartsFrom, StartTimes
  <2>3. time \in Int /\ labels[stop].arrival \in Int /\ labels'[stop].arrival \in Int
    BY <2>1, <2>2, StartTimesType, WidthAssumption DEF RoundsType, LabelsGrown, Seconds
  <2> QED
    BY <2>1, <2>3 DEF Begun
<1> QED
  BY <1>2, <1>3 DEF RoundsStarted

LEMMA RoundsAddOrigin ==
    ASSUME WInv, RoundsInv, pc = "done", UNCHANGED vars, Rounds!AddOrigin
    PROVE  RoundsInv'
<1> USE DEF RoundsInv
<1>1. /\ phase = "run" /\ begins # << >> /\ begins' = Tail(begins)
      /\ UNCHANGED << phase, offset, count, bound, reached, rounds_path >>
  BY DEF Rounds!AddOrigin
<1>2. PICK origin : origin = Head(begins)
  OBVIOUS
<1>3. PICK added : added = StartedFrom(origin)
  OBVIOUS
<1>4. labels' = added.labels /\ states' = added.states
  <2>1. /\ labels' = StartedFrom(Head(begins)).labels
        /\ states' = StartedFrom(Head(begins)).states
    BY Zenon DEF Rounds!AddOrigin, StartedFrom
  <2> QED
    BY <1>2, <1>3, <2>1
<1>5. begins \in Seq(ADLeg) /\ origin = begins[1] /\ 1 \in DOMAIN begins
  BY <1>1, <1>2, HeadTailProperties, LenProperties DEF RoundsType
<1>6. PICK i \in DOMAIN query.origins : origin = query.origins[i]
  BY <1>5 DEF BeginsOfQuery
<1>7. InputOK /\ ~ NoLegs
  BY <1>1 DEF WInv, RInv, PInv, IInv, RoundsLast
<1>8. /\ Grown(added)
      /\ \A stop \in Stops : \A time \in StartsFrom(origin, stop) : Begun(added.labels, stop, time)
  BY <1>3, <1>6, <1>7, AddOriginBegins
<1>9. LabelsGrown(labels') /\ StatesGrown(states')
  BY <1>4, <1>8 DEF Grown
<1>10. begins' \in Seq(ADLeg) /\ \A k \in DOMAIN begins' : \E j \in DOMAIN begins : begins'[k] = begins[j]
  BY <1>1, <1>5
<1>11. RoundsType' /\ NeverEarly'
  <2>1. /\ offset' \in Nat /\ count' \in Nat /\ offset' + count' <= Len(states)
        /\ Len(states) \in Nat /\ Len(states') \in Nat /\ Len(states) <= Len(states')
    BY <1>1, <1>9 DEF RoundsType, StatesGrown
  <2>2. offset' + count' <= Len(states')
    BY <2>1
  <2> QED
    BY <1>9, <1>10, <2>1, <2>2, GrownNext
<1>12. RoundsStarted'
  <2>1. ASSUME NEW j \in DOMAIN query.origins, \E k \in DOMAIN begins : begins[k] = query.origins[j]
        PROVE  \/ \E k \in DOMAIN begins' : begins'[k] = query.origins[j]
               \/ \A stop \in Stops : \A time \in StartsFrom(query.origins[j], stop) :
                     Begun(labels', stop, time)
    <3>1. query.origins[j] = origin \/ \E k \in DOMAIN begins' : begins'[k] = query.origins[j]
      BY <1>1, <1>2, <1>5, <2>1, HeadOrTail
    <3> QED
      BY <1>4, <1>8, <3>1
  <2> QED
    BY <1>1, <1>7, <1>9, <2>1, StartedNext
<1>13. BeginsOfQuery'
  BY <1>10, LateStays DEF BeginsOfQuery
<1>14. RoundsLast'
  BY <1>1, LateStays DEF RoundsLast
<1> QED
  BY <1>11, <1>12, <1>13, <1>14

LEMMA RoundsRelaxState ==
    ASSUME WInv, RoundsInv, pc = "done", UNCHANGED vars, Rounds!RelaxState
    PROVE  RoundsInv'
<1> USE DEF RoundsInv
<1>1. /\ phase = "run" /\ count > 0 /\ offset' = offset + 1 /\ count' = count - 1
      /\ UNCHANGED << phase, begins, bound, reached, rounds_path >>
  BY DEF Rounds!RelaxState
<1>2. PICK state : state = states[offset + 1]
  OBVIOUS
<1>3. PICK relaxed : relaxed = RelaxedFrom(state)
  OBVIOUS
<1>4. labels' = relaxed.labels /\ states' = relaxed.states
  <2>1. /\ labels' = RelaxedFrom(states[offset + 1]).labels
        /\ states' = RelaxedFrom(states[offset + 1]).states
    BY Zenon DEF Rounds!RelaxState, RelaxedFrom
  <2> QED
    BY <1>2, <1>3, <2>1
<1>5. /\ offset \in Nat /\ count \in Nat /\ Len(states) \in Nat /\ offset + count <= Len(states)
      /\ states \in Seq(State)
  BY DEF RoundsType
<1>6. offset + 1 \in DOMAIN states
  BY <1>1, <1>5
<1>7. state \in State /\ Late(state.stop, state.arrival)
  BY <1>2, <1>5, <1>6 DEF NeverEarly
<1>8. InputOK /\ ~ NoLegs /\ begins = << >>
  BY <1>1 DEF WInv, RInv, PInv, IInv, RoundsLast
<1>9. AllStarted
  <2> SUFFICES ASSUME NEW stop \in Stops, NEW time \in StartTimes(stop)
               PROVE  LabelledBy(stop, time)
    BY DEF AllStarted
  <2>1. PICK i \in DOMAIN query.origins : time \in StartsFrom(query.origins[i], stop)
    BY DEF StartTimes, StartsFrom
  <2> QED
    BY <1>1, <1>8, <2>1 DEF RoundsStarted
<1>10. Grown(relaxed)
  BY <1>3, <1>7, <1>8, <1>9, RelaxStateGrown
<1>11. LabelsGrown(labels') /\ StatesGrown(states')
  BY <1>4, <1>10 DEF Grown
<1>12. RoundsType' /\ NeverEarly'
  <2>1. Len(states') \in Nat /\ Len(states) <= Len(states')
    BY <1>11 DEF StatesGrown
  <2>2. offset' \in Nat /\ count' \in Nat /\ offset' + count' <= Len(states')
    BY <1>1, <1>5, <2>1
  <2>3. begins' \in Seq(ADLeg)
    BY <1>1 DEF RoundsType
  <2> QED
    BY <1>11, <2>2, <2>3, GrownNext
<1>13. RoundsStarted'
  BY <1>1, <1>8, <1>11, StartedNext
<1>14. BeginsOfQuery' /\ RoundsLast'
  BY <1>1, <1>8, LateStays DEF BeginsOfQuery, RoundsLast
<1> QED
  BY <1>12, <1>13, <1>14

\* A round is put into the order of its arrivals.
LEMMA RoundsStartRound ==
    ASSUME WInv, RoundsInv, pc = "done", UNCHANGED vars, Rounds!StartRound
    PROVE  RoundsInv'
<1> USE DEF RoundsInv
<1> DEFINE before == SubSeq(states, 1, offset)
           rest == SubSeq(states, offset + 1, Len(states))
           keys == [ i \in DOMAIN rest |-> rest[i].arrival ]
           round == Sorted(rest, keys)
<1>1. /\ phase = "run" /\ begins = << >> /\ count = 0 /\ offset < Len(states)
      /\ UNCHANGED << phase, begins, offset, labels, rounds_path >>
      /\ count' = Len(states) - offset
  BY DEF Rounds!StartRound, Rounds!RoundOver
<1>2. states' = before \o round
  <2>1. Rounds!StableSort(rest, LAMBDA state : state.arrival) = Rounds!Sorted(rest, keys)
    BY DEF Rounds!StableSort
  <2> QED
    BY <2>1, SameLists DEF Rounds!StartRound
<1>3. offset \in Nat /\ states \in Seq(State) /\ Len(states) \in Nat /\ labels' = labels
  BY <1>1 DEF RoundsType
<1>4. /\ before \in Seq(State) /\ Len(before) = offset /\ rest \in Seq(State)
      /\ Len(rest) = Len(states) - offset
      /\ \A i \in 1 .. offset : before[i] = states[i]
      /\ \A i \in DOMAIN rest : rest[i] = states[offset + i] /\ offset + i \in DOMAIN states
  BY <1>1, <1>3
<1> HIDE DEF before, rest
<1>5. keys \in [DOMAIN rest -> Int]
  <2>1. ASSUME NEW i \in DOMAIN rest
        PROVE  rest[i].arrival \in Int
    <3>1. rest[i] \in State
      BY <1>4
    <3>2. rest[i].arrival \in Seconds
      BY <3>1 DEF State
    <3> QED
      BY <3>2, WidthAssumption DEF Seconds
  <2> QED
    BY <2>1
<1> HIDE DEF keys
<1>6. /\ round \in Seq(State) /\ Len(round) = Len(rest)
      /\ \A k \in DOMAIN rest : \E i \in DOMAIN rest : round[k] = rest[i]
  <2>1. /\ round \in Seq(State) /\ Len(round) = Len(rest)
        /\ \E from \in Bijection(DOMAIN rest, DOMAIN rest) :
              \A k \in DOMAIN rest : round[k] = rest[from[k]]
    <3>1. rest \in Seq(State)
      BY <1>4
    <3> QED
      BY <1>5, <3>1, SortedFacts
  <2>2. PICK from \in Bijection(DOMAIN rest, DOMAIN rest) :
          \A k \in DOMAIN rest : round[k] = rest[from[k]]
    BY <2>1
  <2>3. \A k \in DOMAIN rest : from[k] \in DOMAIN rest
    BY DEF Bijection, Injection, Surjection
  <2> QED
    BY <2>1, <2>2, <2>3
<1> HIDE DEF round
<1>7. PICK list : list = states'
  OBVIOUS
<1>8. /\ list \in Seq(State) /\ Len(list) = Len(states) /\ DOMAIN list = DOMAIN states
      /\ \A k \in DOMAIN list : list[k] = IF k <= offset THEN before[k] ELSE round[k - offset]
  <2>1. PICK left \in Seq(State) : left = before
    BY <1>4
  <2>2. PICK right \in Seq(State) : right = round
    BY <1>6
  <2>3. /\ Len(left) = offset /\ Len(right) = Len(states) - offset /\ list = left \o right
    BY <1>2, <1>4, <1>6, <1>7, <2>1, <2>2
  <2>4. list \in Seq(State) /\ Len(list) = Len(states)
    BY <1>3, <2>3
  <2>5. \A k \in 1 .. Len(list) : list[k] = IF k <= offset THEN left[k] ELSE right[k - offset]
    BY <1>3, <2>3, <2>4
  <2>6. DOMAIN list = DOMAIN states /\ DOMAIN list = 1 .. Len(list)
    BY <1>3, <2>4
  <2> QED
    BY <2>1, <2>2, <2>4, <2>5, <2>6
<1>9. ASSUME NEW k \in DOMAIN list
      PROVE  \E i \in DOMAIN states : list[k] = states[i]
  <2>1. CASE k <= offset
    <3>1. k \in 1 .. offset /\ k \in DOMAIN states
      BY <1>3, <1>8, <2>1
    <3> QED
      BY <1>4, <1>8, <2>1, <3>1
  <2>2. CASE ~ (k <= offset)
    <3>1. k - offset \in DOMAIN rest
      BY <1>3, <1>4, <1>8, <2>2
    <3> QED
      BY <1>4, <1>6, <1>8, <2>2, <3>1
  <2> QED
    BY <2>1, <2>2
<1>10. StatesGrown(states')
  <2>1. \A k \in DOMAIN list : Late(list[k].stop, list[k].arrival)
    BY <1>9 DEF NeverEarly
  <2> QED
    BY <1>3, <1>7, <1>8, <2>1 DEF StatesGrown
<1>11. LabelsGrown(labels')
  BY <1>3, NothingGrown DEF Grown
<1>12. InputOK
  BY DEF WInv, RInv, PInv, IInv
<1>13. RoundsType' /\ NeverEarly'
  <2>1. /\ offset' \in Nat /\ count' \in Nat /\ offset' + count' <= Len(states')
    BY <1>1, <1>3, <1>7, <1>8
  <2>2. begins' \in Seq(ADLeg)
    BY <1>1 DEF RoundsType
  <2> QED
    BY <1>10, <1>11, <2>1, <2>2, GrownNext
<1>14. RoundsStarted'
  BY <1>1, <1>11, <1>12, StartedNext
<1>15. BeginsOfQuery' /\ RoundsLast'
  BY <1>1, LateStays DEF BeginsOfQuery, RoundsLast
<1> QED
  BY <1>13, <1>14, <1>15

\* Nothing else changes a label or a state.
LEMMA RoundsIdle ==
    ASSUME WInv, RoundsInv, pc = "done", UNCHANGED vars,
           labels' = labels, states' = states, begins' = begins,
           offset' \in Nat, count' \in Nat, offset' + count' <= Len(states),
           phase' = "run" => phase = "run", count' > 0 => phase' = "run" /\ begins = << >>
    PROVE  RoundsInv'
<1> USE DEF RoundsInv
<1>1. LabelsGrown(labels') /\ StatesGrown(states')
  BY NothingGrown DEF Grown
<1>2. RoundsType' /\ NeverEarly'
  BY <1>1, GrownNext DEF RoundsType
<1>3. RoundsStarted'
  BY <1>1, StartedNext DEF WInv, RInv, PInv, IInv
<1>4. BeginsOfQuery' /\ RoundsLast'
  BY LateStays DEF BeginsOfQuery, RoundsLast
<1> QED
  BY <1>2, <1>3, <1>4

LEMMA RoundInvariant ==
    ASSUME WInv, RoundsInv, pc = "done", UNCHANGED vars, Rounds!Round
    PROVE  RoundsInv'
<1>1. CASE Rounds!AddOrigin
  BY <1>1, RoundsAddOrigin
<1>2. CASE Rounds!StartRound
  BY <1>2, RoundsStartRound
<1>3. CASE Rounds!RelaxState
  BY <1>3, RoundsRelaxState
<1>4. offset \in Nat /\ count \in Nat /\ offset + count <= Len(states) /\ Len(states) \in Nat
  BY DEF RoundsInv, RoundsType
<1>5. CASE Rounds!BreakRound
  <2>1. /\ labels' = labels /\ states' = states /\ begins' = begins /\ phase' = phase
        /\ offset' = offset + count /\ count' = 0
    BY <1>5 DEF Rounds!BreakRound
  <2> QED
    BY <1>4, <2>1, RoundsIdle
<1>6. CASE Rounds!Finish
  <2>1. /\ labels' = labels /\ states' = states /\ begins' = begins /\ phase = "run"
        /\ offset' = offset /\ count' = count /\ count = 0
    BY <1>6 DEF Rounds!Finish, Rounds!RoundOver
  <2> QED
    BY <1>4, <2>1, RoundsIdle
<1>7. CASE Rounds!ExtractPath
  <2>1. /\ labels' = labels /\ states' = states /\ begins' = begins
        /\ phase = "extract" /\ phase' \in {"done", "extract"}
        /\ offset' = offset /\ count' = count
    BY <1>7 DEF Rounds!ExtractPath
  <2>2. ~ (count > 0)
    BY <2>1 DEF RoundsInv, RoundsLast
  <2> QED
    BY <1>4, <2>1, <2>2, RoundsIdle
<1> QED
  BY <1>1, <1>2, <1>3, <1>5, <1>6, <1>7 DEF Rounds!Round

\* While the search goes on, there are no labels and no states.
LEMMA SearchRounds ==
    ASSUME WInv, RoundsInv, [Next]_vars, UNCHANGED rounds
    PROVE  RoundsInv'
<1> USE DEF RoundsInv
<1>1. /\ labels' = labels /\ states' = states /\ begins' = begins /\ phase' = phase
      /\ offset' = offset /\ count' = count
  BY DEF rounds
<1>2. CASE pc = "done"
  <2>1. UNCHANGED vars
    <3>1. ~ (AddOrigin \/ AddStart \/ Settle \/ BreakEarly \/ HeapEmpty \/ TraverseLine \/ RideTo
             \/ WalkTo \/ ExtractPath)
      BY <1>2 DEF AddOrigin, AddStart, Settle, BreakEarly, HeapEmpty, AtLoopHead, TraverseLine,
                  RideTo, WalkTo, ExtractPath
    <3> QED
      BY <3>1 DEF Next, Returned
  <2> QED
    BY <1>1, <1>2, <2>1, RoundsIdle DEF RoundsType, RoundsLast
<1>3. CASE pc # "done"
  <2>1. labels = [ stop \in {} |-> 0 ] /\ states = << >>
    BY <1>3 DEF RoundsLast
  <2>2. timetable' = timetable /\ query' = query
    BY DEF Next, AddOrigin, AddStart, Settle, BreakEarly, HeapEmpty, TraverseLine, RideTo, WalkTo,
           ExtractPath, Returned, vars
  <2>3. RoundsType'
    BY <1>1 DEF RoundsType
  <2>4. NeverEarly'
    <3>1. DOMAIN labels' = {} /\ DOMAIN states' = {}
      BY <1>1, <2>1
    <3> QED
      BY <3>1 DEF NeverEarly
  <2>5. \A origin, stop : StartsFrom(origin, stop)' = StartsFrom(origin, stop)
    BY <2>2 DEF StartsFrom
  <2>6. RoundsStarted'
    BY <1>1, <2>2, <2>5 DEF RoundsStarted, LabelledBy
  <2>7. NoLegs' = NoLegs
    BY <2>2 DEF NoLegs
  <2>8. RoundsLast' /\ BeginsOfQuery'
    BY <1>1, <2>1, <2>2, <2>7 DEF RoundsLast, BeginsOfQuery
  <2> QED
    BY <2>3, <2>4, <2>6, <2>8
<1> QED
  BY <1>2, <1>3

LEMMA InitRounds == RouteInit => RoundsInv
<1> SUFFICES ASSUME RouteInit
             PROVE  RoundsInv
  OBVIOUS
<1>1. InputOK /\ query \in Queries
  BY DEF RouteInit, Init, InputOK
<1>2. /\ phase = IF NoLegs THEN "done" ELSE "run"
      /\ begins = IF NoLegs THEN << >> ELSE query.origins
      /\ states = << >> /\ offset = 0 /\ count = 0 /\ labels = [ stop \in {} |-> 0 ]
  BY DEF RouteInit, Rounds!RoundsInit, Rounds!NoLegs, NoLegs
<1>3. begins \in Seq(ADLeg)
  BY <1>1, <1>2, InputTypes DEF IsQuery
<1>4. DOMAIN labels = {} /\ DOMAIN states = {} /\ Len(states) = 0
  BY <1>2
<1>5. RoundsType
  BY <1>2, <1>3, <1>4 DEF RoundsType
<1>6. RoundsLast
  BY <1>2 DEF RoundsLast
<1>7. RoundsStarted /\ BeginsOfQuery
  BY <1>2 DEF RoundsStarted, BeginsOfQuery
<1>8. NeverEarly
  BY <1>4 DEF NeverEarly
<1> QED
  BY <1>5, <1>6, <1>7, <1>8 DEF RoundsInv

LEMMA NextRounds == WInv /\ RoundsInv /\ [RouteNext]_<< vars, service, rounds >> => RoundsInv'
<1> SUFFICES ASSUME WInv, RoundsInv, [RouteNext]_<< vars, service, rounds >>
             PROVE  RoundsInv'
  OBVIOUS
<1>1. CASE RunRounds
  BY <1>1, RoundInvariant DEF RunRounds, Served
<1>2. ASSUME ~ RunRounds
      PROVE  [Next]_vars /\ UNCHANGED rounds
  BY <1>2 DEF RouteNext, Search, ReturnRoute, Annotate, PrintReply
<1> QED
  BY <1>1, <1>2, SearchRounds

\* The labels and states of the rounds have their order, their starts and nothing early.
THEOREM RoundsInvariant == RouteSpec => [](WInv /\ RoundsInv)
<1>1. RouteSpec => []WInv
  BY ServiceImplementsSearch, WalksAreTaken, PTL
<1>2. WInv /\ RoundsInv /\ [RouteNext]_<< vars, service, rounds >> => RoundsInv'
  BY NextRounds
<1> QED
  BY <1>1, <1>2, InitRounds, PTL DEF RouteSpec

\* Where walks join and no line is overtaken on, the router in rounds is nowhere before
\* Dijkstra's search, which has reached the stop by then or has a better answer.
THEOREM RoundsAreNeverEarly == RouteSpec => []RoundsNeverEarly
<1>1. WInv /\ RoundsInv => RoundsNeverEarly
  <2> SUFFICES ASSUME WInv, RoundsInv, WalksJoin, ~ Overtaking, NEW stop \in DOMAIN labels
               PROVE  \/ ReachedBy(heap, stop, labels[stop].arrival)
                      \/ best <= labels[stop].arrival
    BY DEF RoundsNeverEarly, ReachedBy, Overtaking
  <2>1. Beaten(stop, labels[stop].arrival)
    BY DEF RoundsInv, NeverEarly, Late
  <2>2. best \in Int /\ labels[stop].arrival \in Int
    BY WidthAssumption
       DEF WInv, RInv, PInv, IInv, SearchInv, TypeOK, RoundsInv, RoundsType, Seconds
  <2> QED
    BY <2>1, <2>2 DEF Beaten
<1> QED
  BY <1>1, RoundsInvariant, PTL

-----------------------------------------------------------------------------
(* The route: what make_route does to the path                              *)

Entries == [stop : Nat, line : Nat, arrival : Int, departure : Int]

\* nothing leaves before it is there, and nothing is there before it has left
InTime(list) ==
    /\ \A i \in DOMAIN list : list[i].arrival <= list[i].departure
    /\ \A i \in 1 .. Len(list) - 1 : list[i].departure <= list[i + 1].arrival

\* the departures in their places, and the first line
Prepared == Respond!SetFirstLine(Respond!UpdateDeparturesAndArrivals(path))

LEMMA PreparedIs ==
    ASSUME path \in Seq(Entries), path # << >>
    PROVE  /\ Prepared \in Seq(Entries) /\ Len(Prepared) = Len(path)
           /\ \A i \in DOMAIN path :
                /\ Prepared[i].stop = path[i].stop /\ Prepared[i].arrival = path[i].arrival
                /\ Prepared[i].departure = IF i < Len(path) THEN path[i + 1].departure
                                                            ELSE path[i].arrival
                /\ Prepared[i].line = IF i = 1 /\ Len(path) > 1 THEN path[2].line ELSE path[i].line
<1>1. PICK moved : moved = Respond!UpdateDeparturesAndArrivals(path)
  OBVIOUS
<1>2. DOMAIN path = 1 .. Len(path) /\ Len(path) \in Nat \ {0} /\ 1 \in DOMAIN path
  OBVIOUS
<1>3. /\ DOMAIN moved = DOMAIN path
      /\ \A i \in DOMAIN path :
            moved[i] = [path[i] EXCEPT !.departure = IF i < Len(path) THEN path[i + 1].departure
                                                                      ELSE path[i].arrival]
  BY <1>1 DEF Respond!UpdateDeparturesAndArrivals
<1>4. \A i \in DOMAIN path :
        /\ moved[i] \in Entries
        /\ moved[i].stop = path[i].stop /\ moved[i].arrival = path[i].arrival
        /\ moved[i].line = path[i].line
        /\ moved[i].departure = IF i < Len(path) THEN path[i + 1].departure ELSE path[i].arrival
  <2> SUFFICES ASSUME NEW i \in DOMAIN path
               PROVE  /\ moved[i] \in Entries
                      /\ moved[i].stop = path[i].stop /\ moved[i].arrival = path[i].arrival
                      /\ moved[i].line = path[i].line
                      /\ moved[i].departure = IF i < Len(path) THEN path[i + 1].departure
                                                               ELSE path[i].arrival
    OBVIOUS
  <2>1. path[i] \in Entries /\ (i < Len(path) => path[i + 1] \in Entries)
    BY <1>2
  <2> QED
    BY <1>3, <2>1 DEF Entries
<1>5. moved \in Seq(Entries) /\ Len(moved) = Len(path)
  <2>1. moved = [ i \in 1 .. Len(path) |-> moved[i] ]
    BY <1>1, <1>2 DEF Respond!UpdateDeparturesAndArrivals
  <2> QED
    BY <1>2, <1>4, <2>1
<1>6. Prepared = IF Len(moved) > 1 THEN [moved EXCEPT ![1].line = moved[2].line] ELSE moved
  BY <1>1 DEF Prepared, Respond!SetFirstLine
<1>7. CASE Len(path) > 1
  <2>1. PICK prepared : prepared = [moved EXCEPT ![1].line = moved[2].line]
    OBVIOUS
  <2>2. Prepared = prepared
    BY <1>5, <1>6, <1>7, <2>1
  <2>3. 1 \in DOMAIN path /\ 2 \in DOMAIN path
    BY <1>2, <1>7
  <2>4. /\ DOMAIN prepared = DOMAIN path
        /\ prepared[1] = [moved[1] EXCEPT !.line = moved[2].line]
        /\ \A i \in DOMAIN path : i # 1 => prepared[i] = moved[i]
    BY <1>3, <2>1, <2>3
  <2>5. /\ prepared[1] \in Entries /\ prepared[1].stop = moved[1].stop
        /\ prepared[1].arrival = moved[1].arrival /\ prepared[1].departure = moved[1].departure
        /\ prepared[1].line = path[2].line
    BY <1>4, <2>3, <2>4 DEF Entries
  <2>6. \A i \in DOMAIN path : prepared[i] \in Entries
    BY <1>4, <2>4, <2>5
  <2>7. prepared \in Seq(Entries) /\ Len(prepared) = Len(path)
    <3>1. prepared = [ i \in 1 .. Len(path) |-> prepared[i] ]
      BY <1>2, <1>3, <2>1
    <3> QED
      BY <1>2, <2>6, <3>1
  <2>8. ASSUME NEW i \in DOMAIN path
        PROVE  /\ prepared[i].stop = path[i].stop /\ prepared[i].arrival = path[i].arrival
               /\ prepared[i].departure = IF i < Len(path) THEN path[i + 1].departure
                                                           ELSE path[i].arrival
               /\ prepared[i].line = IF i = 1 /\ Len(path) > 1 THEN path[2].line ELSE path[i].line
    <3>1. CASE i = 1
      BY <1>4, <1>7, <2>3, <2>5, <3>1
    <3>2. CASE i # 1
      BY <1>4, <2>4, <3>2
    <3> QED
      BY <3>1, <3>2
  <2> QED
    BY <2>2, <2>7, <2>8
<1>8. CASE ~ Len(path) > 1
  BY <1>4, <1>5, <1>6, <1>8
<1> QED
  BY <1>7, <1>8

LEMMA PreparedInTime ==
    ASSUME path \in Seq(Entries), path # << >>,
           \A i \in 1 .. Len(path) - 1 : /\ path[i].arrival <= path[i + 1].departure
                                         /\ path[i + 1].departure <= path[i + 1].arrival
    PROVE  InTime(Prepared)
<1>1. PICK list : list = Prepared
  OBVIOUS
<1>2. /\ list \in Seq(Entries) /\ Len(list) = Len(path)
      /\ \A i \in DOMAIN path :
            /\ list[i].arrival = path[i].arrival
            /\ list[i].departure = IF i < Len(path) THEN path[i + 1].departure ELSE path[i].arrival
  BY <1>1, PreparedIs
<1>3. Len(path) \in Nat \ {0} /\ DOMAIN path = 1 .. Len(path) /\ DOMAIN list = 1 .. Len(path)
  BY <1>2
<1>4. \A i \in DOMAIN path : path[i].arrival \in Int
  <2>1. \A i \in DOMAIN path : path[i] \in Entries
    BY <1>3
  <2> QED
    BY <2>1 DEF Entries
<1>5. ASSUME NEW i \in DOMAIN list
      PROVE  list[i].arrival <= list[i].departure
  <2>1. CASE i < Len(path)
    BY <1>2, <1>3, <2>1
  <2>2. CASE ~ i < Len(path)
    BY <1>2, <1>3, <1>4, <2>2
  <2> QED
    BY <2>1, <2>2
<1>6. ASSUME NEW i \in 1 .. Len(list) - 1
      PROVE  list[i].departure <= list[i + 1].arrival
  <2>1. i \in DOMAIN path /\ i + 1 \in DOMAIN path /\ i < Len(path) /\ i \in 1 .. Len(path) - 1
    BY <1>2, <1>3
  <2> QED
    BY <1>2, <2>1
<1> QED
  BY <1>1, <1>5, <1>6 DEF InTime

\* what the stops passed become
Between(i) == Respond!PassedEntries(timetable.lines, Prepared[i], Prepared[i + 1])

\* one departs from them when one departs from the last entry
PassedInPlace ==
    \A i \in 1 .. Len(path) - 1 :
        /\ Between(i) \in Seq(Entries)
        /\ \A k \in DOMAIN Between(i) : /\ Between(i)[k].arrival = Prepared[i].departure
                                        /\ Between(i)[k].departure = Prepared[i].departure

Unpacked == Respond!UnpackPath(timetable.lines, Prepared)

StopsNext(context, unpacked, i) ==
    Respond!AddIntermediateStops(context.lines, context.path, unpacked, i)

\* followed by the next entry, what is unpacked is in time
UnpackedInTime(context, k, unpacked) ==
    /\ unpacked \in Seq(Entries)
    /\ k = 0 => unpacked = << >>
    /\ k # 0 => unpacked # << >> /\ unpacked[1] = context.path[1]
    /\ InTime(Append(unpacked, context.path[k + 1]))

Unpacking == INSTANCE Folding WITH Step <- StopsNext, Keeps <- UnpackedInTime

\* Lists in time, with stops in between that are passed at once.
LEMMA JoinedInTime ==
    ASSUME NEW list \in Seq(Entries), NEW last \in Entries, InTime(Append(list, last)),
           NEW passed \in Seq(Entries), NEW next \in Entries,
           \A k \in DOMAIN passed : /\ passed[k].arrival = last.departure
                                    /\ passed[k].departure = last.departure,
           last.departure <= next.arrival, next.arrival <= next.departure
    PROVE  InTime(Append(Append(list, last) \o passed, next))
<1>1. PICK before : before = Append(list, last)
  OBVIOUS
<1>2. PICK all : all = Append(before \o passed, next)
  OBVIOUS
<1>3. PICK n \in Nat : n = Len(list)
  OBVIOUS
<1>4. PICK m \in Nat : m = Len(passed)
  OBVIOUS
<1>5. /\ before \in Seq(Entries) /\ Len(before) = n + 1 /\ before[n + 1] = last
      /\ DOMAIN before = 1 .. n + 1
  BY <1>1, <1>3
<1>6. /\ all \in Seq(Entries) /\ Len(all) = n + m + 2 /\ DOMAIN all = 1 .. n + m + 2
      /\ \A i \in 1 .. n + 1 : all[i] = before[i]
      /\ \A i \in 1 .. m : all[n + 1 + i] = passed[i]
      /\ all[n + m + 2] = next
  <2>1. PICK middle : middle = before \o passed
    OBVIOUS
  <2>2. /\ middle \in Seq(Entries) /\ Len(middle) = n + m + 1
        /\ \A i \in 1 .. n + 1 : middle[i] = before[i]
        /\ \A i \in 1 .. m : middle[n + 1 + i] = passed[i]
    <3>1. /\ middle \in Seq(Entries) /\ Len(middle) = n + 1 + m
          /\ \A i \in 1 .. n + 1 + m :
                middle[i] = IF i <= n + 1 THEN before[i] ELSE passed[i - (n + 1)]
      <4>1. /\ before \o passed \in Seq(Entries)
            /\ Len(before \o passed) = Len(before) + Len(passed)
            /\ \A i \in 1 .. Len(before) + Len(passed) :
                  (before \o passed)[i] = IF i <= Len(before) THEN before[i]
                                          ELSE passed[i - Len(before)]
        BY <1>5, ConcatProperties
      <4> QED
        BY <1>4, <1>5, <2>1, <4>1
    <3>2. \A i \in 1 .. n + 1 : i \in 1 .. n + 1 + m /\ i <= n + 1
      OBVIOUS
    <3>3. \A i \in 1 .. m : /\ n + 1 + i \in 1 .. n + 1 + m /\ ~ (n + 1 + i <= n + 1)
                            /\ (n + 1 + i) - (n + 1) = i
      OBVIOUS
    <3>4. \A i \in 1 .. n + 1 : middle[i] = before[i]
      BY <3>1, <3>2
    <3>5. \A i \in 1 .. m : middle[n + 1 + i] = passed[i]
      BY <3>1, <3>3
    <3>6. Len(middle) = n + m + 1
      BY <3>1
    <3> QED
      BY <3>1, <3>4, <3>5, <3>6
  <2>3. all = Append(middle, next)
    BY <1>2, <2>1
  <2>4. /\ all \in Seq(Entries) /\ Len(all) = n + m + 2 /\ DOMAIN all = 1 .. n + m + 2
        /\ \A i \in 1 .. n + m + 1 : all[i] = middle[i]
        /\ all[n + m + 2] = next
    BY <2>2, <2>3
  <2>5. \A i \in 1 .. n + 1 : i \in 1 .. n + m + 1
    OBVIOUS
  <2>6. \A i \in 1 .. m : n + 1 + i \in 1 .. n + m + 1
    OBVIOUS
  <2> QED
    BY <2>2, <2>4, <2>5, <2>6
<1>7. InTime(before)
  BY <1>1
<1>8. \A i \in 1 .. m : /\ all[n + 1 + i].arrival = last.departure
                        /\ all[n + 1 + i].departure = last.departure
  <2> SUFFICES ASSUME NEW i \in 1 .. m
               PROVE  /\ all[n + 1 + i].arrival = last.departure
                      /\ all[n + 1 + i].departure = last.departure
    OBVIOUS
  <2>1. i \in DOMAIN passed
    BY <1>4
  <2>2. all[n + 1 + i] = passed[i]
    BY <1>6
  <2> QED
    BY <2>1, <2>2
<1>9. last.departure \in Int /\ last.arrival \in Int /\ next.arrival \in Int
  BY DEF Entries
<1>10. ASSUME NEW i \in n + 2 .. n + m + 1
       PROVE  all[i].arrival = last.departure /\ all[i].departure = last.departure
  <2>1. PICK j \in 1 .. m : n + 1 + j = i
    <3>1. i - (n + 1) \in 1 .. m /\ n + 1 + (i - (n + 1)) = i
      OBVIOUS
    <3> QED
      BY <3>1
  <2>2. all[n + 1 + j].arrival = last.departure /\ all[n + 1 + j].departure = last.departure
    BY <1>8
  <2> QED
    BY <2>1, <2>2
<1>11. ASSUME NEW i \in DOMAIN all
       PROVE  all[i].arrival <= all[i].departure
  <2>1. CASE i \in 1 .. n + 1
    BY <1>5, <1>6, <1>7, <2>1 DEF InTime
  <2>2. CASE i \in n + 2 .. n + m + 1
    BY <1>9, <1>10, <2>2
  <2>3. CASE i = n + m + 2
    BY <1>6, <2>3
  <2> QED
    BY <1>6, <2>1, <2>2, <2>3
<1>12. ASSUME NEW i \in 1 .. Len(all) - 1
       PROVE  all[i].departure <= all[i + 1].arrival
  <2>1. CASE i \in 1 .. n
    <3>1. i \in 1 .. n + 1 /\ i + 1 \in 1 .. n + 1 /\ i \in 1 .. Len(before) - 1
      BY <1>5, <2>1
    <3> QED
      BY <1>6, <1>7, <3>1 DEF InTime
  <2>2. CASE i \in n + 1 .. n + m + 1
    <3>1. all[i].departure = last.departure
      <4>1. CASE i = n + 1
        BY <1>5, <1>6, <4>1
      <4>2. CASE i # n + 1
        BY <1>10, <2>2, <4>2
      <4> QED
        BY <4>1, <4>2
    <3>2. CASE i + 1 = n + m + 2
      BY <1>6, <3>1, <3>2
    <3>3. CASE i + 1 # n + m + 2
      <4>1. i + 1 \in n + 2 .. n + m + 1
        BY <2>2, <3>3
      <4>2. all[i + 1].arrival = last.departure
        BY <1>10, <4>1
      <4> QED
        BY <1>9, <3>1, <4>2
    <3> QED
      BY <3>2, <3>3
  <2> QED
    BY <1>6, <2>1, <2>2
<1>13. InTime(all)
  BY <1>11, <1>12 DEF InTime
<1> QED
  BY <1>1, <1>2, <1>13

LEMMA UnpackedIsInTime ==
    ASSUME path \in Seq(Entries), path # << >>, InTime(Prepared), PassedInPlace
    PROVE  /\ Unpacked \in Seq(Entries) /\ Unpacked # << >> /\ InTime(Unpacked)
           /\ Unpacked[1] = Prepared[1]
<1>1. PICK context : context = [lines |-> timetable.lines, path |-> Prepared]
  OBVIOUS
<1>2. context.lines = timetable.lines /\ context.path = Prepared
  BY <1>1
<1>3. Prepared \in Seq(Entries) /\ Len(Prepared) = Len(path)
  BY PreparedIs
<1>4. PICK n \in Nat : Len(path) = n + 1
  <2>1. Len(path) \in Nat \ {0}
    OBVIOUS
  <2>2. Len(path) - 1 \in Nat /\ Len(path) = (Len(path) - 1) + 1
    BY <2>1
  <2> QED
    BY <2>2
<1>5. PICK list : list = [ i \in 1 .. n |-> i ]
  OBVIOUS
<1>6. PICK prepared \in Seq(Entries) : prepared = Prepared
  BY <1>3
<1>7. Len(prepared) = n + 1 /\ DOMAIN prepared = 1 .. n + 1
  BY <1>3, <1>4, <1>6
<1>8. ASSUME NEW k \in 1 .. n, NEW value, UnpackedInTime(context, k - 1, value)
      PROVE  UnpackedInTime(context, k, StopsNext(context, value, list[k]))
  <2>1. PICK passed : passed = Between(k)
    OBVIOUS
  <2>2. list[k] = k
    BY <1>5
  <2>3. StopsNext(context, value, k) = Append(value, prepared[k]) \o passed
    BY <1>2, <1>6, <2>1 DEF StopsNext, Respond!AddIntermediateStops, Between
  <2>4. /\ passed \in Seq(Entries)
        /\ \A j \in DOMAIN passed : /\ passed[j].arrival = prepared[k].departure
                                    /\ passed[j].departure = prepared[k].departure
    BY <1>4, <1>6, <2>1 DEF PassedInPlace
  <2>5. /\ prepared[k] \in Entries /\ prepared[k + 1] \in Entries
        /\ prepared[k].departure <= prepared[k + 1].arrival
        /\ prepared[k + 1].arrival <= prepared[k + 1].departure
    <3>1. k \in 1 .. n + 1 /\ k + 1 \in 1 .. n + 1 /\ k \in 1 .. Len(prepared) - 1
      BY <1>7
    <3>2. InTime(prepared)
      BY <1>6
    <3> QED
      BY <1>7, <3>1, <3>2 DEF InTime
  <2>6. /\ value \in Seq(Entries) /\ InTime(Append(value, prepared[k]))
        /\ k - 1 = 0 => value = << >>
        /\ k - 1 # 0 => value # << >> /\ value[1] = prepared[1]
    <3>1. (k - 1) + 1 = k
      OBVIOUS
    <3> QED
      BY <1>2, <1>6, <1>8, <3>1 DEF UnpackedInTime
  <2>7. PICK next : next = Append(value, prepared[k]) \o passed
    OBVIOUS
  <2>8. InTime(Append(next, prepared[k + 1]))
    BY <2>4, <2>5, <2>6, <2>7, JoinedInTime
  <2>9. next \in Seq(Entries)
    BY <2>4, <2>5, <2>6, <2>7
  <2>10. next # << >> /\ next[1] = prepared[1]
    <3>1. CASE k = 1
      <4>1. Append(value, prepared[k]) = << prepared[1] >>
        BY <2>6, <3>1
      <4> QED
        BY <2>4, <2>5, <2>7, <3>1, <4>1
    <3>2. CASE k # 1
      <4>1. value # << >> /\ value[1] = prepared[1] /\ Len(value) \in Nat \ {0}
        BY <2>6, <3>2
      <4>2. PICK before : before = Append(value, prepared[k])
        OBVIOUS
      <4>3. /\ before \in Seq(Entries) /\ Len(before) = Len(value) + 1
            /\ before[1] = value[1]
        BY <2>5, <2>6, <4>1, <4>2
      <4>4. next = before \o passed
        BY <2>7, <4>2
      <4>5. Len(next) = Len(before) + Len(passed) /\ next[1] = before[1]
        <5>1. 1 \in 1 .. Len(before) + Len(passed) /\ 1 <= Len(before)
          BY <2>4, <4>1, <4>3
        <5> QED
          BY <2>4, <4>3, <4>4, <5>1, ConcatProperties
      <4> QED
        BY <2>4, <4>1, <4>3, <4>5
    <3> QED
      BY <3>1, <3>2
  <2> QED
    <3>1. StopsNext(context, value, list[k]) = next
      BY <2>2, <2>3, <2>7
    <3>2. context.path = prepared /\ k # 0
      BY <1>2, <1>6
    <3>3. UnpackedInTime(context, k, next)
      BY <2>8, <2>9, <2>10, <3>2 DEF UnpackedInTime
    <3> QED
      BY <3>1, <3>3
<1>9. UnpackedInTime(context, 0, << >>)
  <2>1. prepared[1] \in Entries /\ prepared[1].arrival <= prepared[1].departure
    BY <1>6, <1>7 DEF InTime
  <2>2. PICK first : first = prepared[1]
    OBVIOUS
  <2>3. InTime(<< first >>)
    BY <2>1, <2>2 DEF InTime
  <2>4. Append(<< >>, first) = << first >>
    OBVIOUS
  <2> QED
    BY <1>2, <1>6, <2>2, <2>3, <2>4 DEF UnpackedInTime
<1>10. UnpackedInTime(context, n, Unpacking!Fold(context, << >>, list))
  <2>1. DOMAIN list = 1 .. n
    BY <1>5
  <2> QED
    BY <1>8, <1>9, <2>1, Unpacking!FoldKeeps
<1>11. PICK folded : folded = Unpacking!Fold(context, << >>, list)
  OBVIOUS
<1>12. Unpacked = Append(folded, prepared[n + 1])
  <2>3. Respond!UnpackPath(context.lines, context.path)
        = Append(Unpacking!Fold(context, << >>, [ i \in 1 .. Len(context.path) - 1 |-> i ]),
                 context.path[Len(context.path)])
    BY Zenon DEF Respond!UnpackPath, Respond!FoldLeft, Respond!MapThenFoldSet, Respond!Max,
                 Unpacking!Fold, Unpacking!Latest, StopsNext
  <2>2. Len(context.path) = n + 1 /\ Len(context.path) - 1 = n
    BY <1>2, <1>3, <1>4
  <2> QED
    BY <1>2, <1>5, <1>6, <1>11, <2>2, <2>3 DEF Unpacked
<1>13. /\ folded \in Seq(Entries) /\ InTime(Append(folded, prepared[n + 1]))
       /\ n = 0 => folded = << >>
       /\ n # 0 => folded # << >> /\ folded[1] = prepared[1]
  BY <1>2, <1>6, <1>10, <1>11 DEF UnpackedInTime
<1>14. prepared[n + 1] \in Entries
  BY <1>7
<1> QED
  BY <1>6, <1>12, <1>13, <1>14

-----------------------------------------------------------------------------
(* The segments of a route                                                  *)

Calls == [id : Nat, arrival : Int, departure : Int]

TransitSegment ==
    [type : {"transit"}, stops : Seq(Calls), line : Nat, departure : Int, arrival : Int]

TransferSegment ==
    [type : {"transfer"}, origin : Nat, destination : Nat, departure : Int, arrival : Int]

\* a route under construction
Progress ==
    [ segments : Seq(TransitSegment \cup TransferSegment), stops : Seq(Calls), line : Nat,
      departure : Int, arrival : Int ]

CallAt(list, i) == [id |-> list[i].stop, arrival |-> list[i].arrival, departure |-> list[i].departure]

\* where a vehicle is boarded that one has not walked to
BoardedAt(list, i) ==
    IF list[i].line = WALKING_TRANSFER THEN << >>
    ELSE << [id |-> list[i - 1].stop, arrival |-> list[i - 1].departure,
             departure |-> list[i - 1].departure] >>

TransitOf(progress) ==
    [ type |-> "transit", stops |-> progress.stops, line |-> progress.line,
      departure |-> progress.departure, arrival |-> progress.arrival ]

\* some segments, and a transit behind them, perhaps with a transfer
ClosedWith(segments, transit, closed) ==
    /\ Len(closed) \in {Len(segments) + 1, Len(segments) + 2}
    /\ \A j \in DOMAIN segments : closed[j] = segments[j]
    /\ closed[Len(segments) + 1] = transit
    /\ Len(closed) = Len(segments) + 2 => closed[Len(segments) + 2].type = "transfer"

Waits(list, i) == list[i].line = WALKING_TRANSFER /\ i < Len(list)

LEMMA CallIs ==
    ASSUME NEW list \in Seq(Entries), NEW i \in DOMAIN list
    PROVE  /\ Respond!StopOf(list[i]) = CallAt(list, i) /\ CallAt(list, i) \in Calls
           /\ list[i] \in Entries
<1>1. list[i] \in Entries
  OBVIOUS
<1> QED
  BY <1>1 DEF Respond!StopOf, CallAt, Calls, Entries

LEMMA EntryOnSameLine ==
    ASSUME NEW list \in Seq(Entries), NEW i \in DOMAIN list, NEW progress \in Progress,
           list[i].line = progress.line,
           NEW next, next = Respond!AddEntry(list, progress, i)
    PROVE  /\ next \in Progress
           /\ next.segments = progress.segments /\ next.line = progress.line
           /\ next.stops = Append(progress.stops, CallAt(list, i))
<1>1. /\ Respond!StopOf(list[i]) = CallAt(list, i) /\ CallAt(list, i) \in Calls
      /\ list[i].arrival \in Int
  BY CallIs DEF Entries
<1>2. next = [progress EXCEPT !.stops = Append(@, CallAt(list, i)), !.arrival = list[i].arrival]
  BY <1>1 DEF Respond!AddEntry
<1>3. Append(progress.stops, CallAt(list, i)) \in Seq(Calls)
  BY <1>1 DEF Progress
<1> QED
  BY <1>1, <1>2, <1>3 DEF Progress

LEMMA EntryOnOtherLine ==
    ASSUME NEW list \in Seq(Entries), NEW i \in 2 .. Len(list), NEW progress \in Progress,
           list[i].line # progress.line,
           NEW next, next = Respond!AddEntry(list, progress, i)
    PROVE  /\ next \in Progress
           /\ ClosedWith(progress.segments, TransitOf(progress), next.segments)
           /\ next.line = IF Waits(list, i) THEN list[i + 1].line ELSE list[i].line
           /\ next.stops = Append(BoardedAt(list, i), CallAt(list, i))
<1>1. /\ i \in DOMAIN list /\ i - 1 \in DOMAIN list /\ (Waits(list, i) => i + 1 \in DOMAIN list)
      /\ Len(list) \in Nat
  BY DEF Waits
<1>2. /\ list[i] \in Entries /\ list[i - 1] \in Entries
      /\ Respond!StopOf(list[i]) = CallAt(list, i) /\ CallAt(list, i) \in Calls
      /\ Waits(list, i) => list[i + 1] \in Entries
  BY <1>1, CallIs
<1>3. PICK changed : changed = Respond!ChangeLine(list, progress, i)
  OBVIOUS
<1>4. PICK transfer : transfer = Respond!TransferAt(list[i])
  OBVIOUS
<1>5. transfer \in TransferSegment
  BY <1>2, <1>4 DEF Respond!TransferAt, TransferSegment, Entries
<1>6. TransitOf(progress) \in TransitSegment /\ Respond!Transit(progress) = TransitOf(progress)
  BY DEF Respond!Transit, TransitOf, TransitSegment, Progress
<1>7. /\ changed.segments = progress.segments \o << TransitOf(progress) >>
                       \o (IF Waits(list, i) THEN << transfer >> ELSE << >>)
      /\ changed.line = IF Waits(list, i) THEN list[i + 1].line ELSE list[i].line
      /\ changed.stops = BoardedAt(list, i)
      /\ changed.departure = list[i - 1].departure
      /\ changed = [ segments |-> changed.segments, line |-> changed.line, departure |-> changed.departure,
                arrival |-> list[i].arrival, stops |-> changed.stops ]
  <2>1. Respond!OnFoot = WALKING_TRANSFER
    BY DEF Respond!OnFoot, WALKING_TRANSFER
  <2>2. Respond!StopOf([list[i - 1] EXCEPT !.arrival = list[i - 1].departure])
        = [ id |-> list[i - 1].stop, arrival |-> list[i - 1].departure,
            departure |-> list[i - 1].departure ]
    BY <1>2 DEF Respond!StopOf, Entries
  <2> QED
    BY <1>3, <1>4, <1>6, <2>1, <2>2 DEF Respond!ChangeLine, Waits, BoardedAt
<1>8. BoardedAt(list, i) \in Seq(Calls)
  <2>1. [ id |-> list[i - 1].stop, arrival |-> list[i - 1].departure,
          departure |-> list[i - 1].departure ] \in Calls
    BY <1>2 DEF Entries, Calls
  <2> QED
    BY <2>1 DEF BoardedAt
<1>9. next = [changed EXCEPT !.stops = Append(@, CallAt(list, i)), !.arrival = list[i].arrival]
  BY <1>2, <1>3 DEF Respond!AddEntry
<1>10. /\ next.segments = changed.segments /\ next.line = changed.line
       /\ next.stops = Append(BoardedAt(list, i), CallAt(list, i))
       /\ next = [ segments |-> changed.segments, line |-> changed.line, departure |-> changed.departure,
                   arrival |-> list[i].arrival,
                   stops |-> Append(BoardedAt(list, i), CallAt(list, i)) ]
  BY <1>7, <1>9
<1>11. /\ changed.segments \in Seq(TransitSegment \cup TransferSegment)
       /\ ClosedWith(progress.segments, TransitOf(progress), changed.segments)
  <2>1. PICK segments \in Seq(TransitSegment \cup TransferSegment) : segments = progress.segments
    BY DEF Progress
  <2>2. PICK transit \in TransitSegment : transit = TransitOf(progress)
    BY <1>6
  <2>3. PICK longer : longer = segments \o << transit >>
    OBVIOUS
  <2>4. PICK n \in Nat : n = Len(segments)
    OBVIOUS
  <2>5. /\ longer \in Seq(TransitSegment \cup TransferSegment) /\ Len(longer) = n + 1
        /\ \A j \in 1 .. n : longer[j] = segments[j]
        /\ longer[n + 1] = transit
    BY <2>3, <2>4
  <2>6. CASE Waits(list, i)
    <3>1. changed.segments = longer \o << transfer >>
      BY <1>7, <2>1, <2>2, <2>3, <2>6
    <3>2. PICK longest : longest = longer \o << transfer >>
      OBVIOUS
    <3>3. /\ longest \in Seq(TransitSegment \cup TransferSegment) /\ Len(longest) = n + 2
          /\ \A j \in 1 .. n + 1 : longest[j] = longer[j]
          /\ longest[n + 2] = transfer
      BY <1>5, <2>5, <3>2
    <3>4. longest[n + 2].type = "transfer"
      BY <1>5, <3>3 DEF TransferSegment
    <3>5. \A j \in DOMAIN segments : longest[j] = segments[j]
      <4>1. \A j \in 1 .. n : j \in 1 .. n + 1
        OBVIOUS
      <4>2. DOMAIN segments = 1 .. n
        BY <2>4
      <4> QED
        BY <2>5, <3>3, <4>1, <4>2
    <3>6. longest[n + 1] = transit
      BY <2>5, <3>3
    <3> QED
      BY <2>1, <2>2, <2>4, <3>1, <3>2, <3>3, <3>4, <3>5, <3>6 DEF ClosedWith
  <2>7. CASE ~ Waits(list, i)
    <3>1. changed.segments = longer
      <4>1. changed.segments = longer \o << >>
        BY <1>7, <2>1, <2>2, <2>3, <2>7
      <4>2. longer \o << >> = longer
        BY <2>5
      <4> QED
        BY <4>1, <4>2, Zenon
    <3> QED
      BY <2>1, <2>2, <2>4, <2>5, <3>1 DEF ClosedWith
  <2> QED
    BY <2>6, <2>7
<1>12. next \in Progress
  <2>1. changed.line \in Nat /\ changed.departure \in Int /\ list[i].arrival \in Int
    BY <1>2, <1>7 DEF Entries
  <2>2. Append(BoardedAt(list, i), CallAt(list, i)) \in Seq(Calls)
    BY <1>2, <1>8
  <2> QED
    BY <1>10, <1>11, <2>1, <2>2 DEF Progress
<1> QED
  BY <1>7, <1>10, <1>11, <1>12

-----------------------------------------------------------------------------
(* The times of a route                                                     *)

FirstEntry(list) ==
    [ segments |-> << >>, stops |-> << >>, line |-> list[1].line,
      departure |-> list[1].departure, arrival |-> list[1].arrival ]

LastCall(stops) == stops[Len(stops)]

TransitAmong(segments, i) == i \in DOMAIN segments /\ segments[i].type = "transit"

\* the calls of every transit and those of any two
SegmentsInTime(segments, begin) ==
    \A i \in DOMAIN segments :
        segments[i].type = "transit" =>
            /\ segments[i].stops # << >> /\ segments[i].stops \in Seq(Calls)
            /\ InTime(segments[i].stops)
            /\ begin <= segments[i].stops[1].arrival
            /\ \A j \in DOMAIN segments :
                  i < j /\ segments[j].type = "transit" =>
                      LastCall(segments[i].stops).departure <= segments[j].stops[1].arrival

\* all closed transits are over when one comes to a time
OverBy(segments, time) ==
    \A i \in DOMAIN segments :
        segments[i].type = "transit" => LastCall(segments[i].stops).departure <= time

StopsInTime(list, k, progress) ==
    /\ progress.stops # << >> /\ InTime(progress.stops)
    /\ LastCall(progress.stops) = CallAt(list, k)
    /\ list[1].arrival <= progress.stops[1].arrival
    /\ progress.stops[1].arrival <= list[k].arrival
    /\ SegmentsInTime(progress.segments, list[1].arrival)
    /\ OverBy(progress.segments, progress.stops[1].arrival)

EntriesInTime(list, k, progress) ==
    /\ progress \in Progress
    /\ k = 0 => progress = FirstEntry(list)
    /\ k # 0 => StopsInTime(list, k, progress)

EntryNext(list, progress, i) == Respond!AddEntry(list, progress, i)

Entering == INSTANCE Folding WITH Step <- EntryNext, Keeps <- EntriesInTime

LEMMA AppendedInTime ==
    ASSUME NEW stops \in Seq(Calls), stops # << >>, InTime(stops), NEW call \in Calls,
           LastCall(stops).departure <= call.arrival, call.arrival <= call.departure
    PROVE  /\ Append(stops, call) \in Seq(Calls) /\ Append(stops, call) # << >>
           /\ InTime(Append(stops, call)) /\ LastCall(Append(stops, call)) = call
           /\ Append(stops, call)[1] = stops[1]
<1>1. PICK n \in Nat \ {0} : n = Len(stops)
  OBVIOUS
<1>2. PICK longer : longer = Append(stops, call)
  OBVIOUS
<1>3. /\ longer \in Seq(Calls) /\ Len(longer) = n + 1 /\ DOMAIN longer = 1 .. n + 1
      /\ \A i \in 1 .. n : longer[i] = stops[i]
      /\ longer[n + 1] = call /\ DOMAIN stops = 1 .. n
  BY <1>1, <1>2
<1>4. \A i \in DOMAIN longer : longer[i].arrival <= longer[i].departure
  <2> SUFFICES ASSUME NEW i \in 1 .. n + 1
               PROVE  longer[i].arrival <= longer[i].departure
    BY <1>3
  <2>1. CASE i = n + 1
    BY <1>3, <2>1
  <2>2. CASE i # n + 1
    BY <1>3, <2>2 DEF InTime
  <2> QED
    BY <2>1, <2>2
<1>5. \A i \in 1 .. Len(longer) - 1 : longer[i].departure <= longer[i + 1].arrival
  <2> SUFFICES ASSUME NEW i \in 1 .. n
               PROVE  longer[i].departure <= longer[i + 1].arrival
    BY <1>3
  <2>1. CASE i = n
    BY <1>1, <1>3, <2>1 DEF LastCall
  <2>2. CASE i # n
    <3>1. i \in 1 .. Len(stops) - 1 /\ i + 1 \in 1 .. n
      BY <1>1, <2>2
    <3> QED
      BY <1>3, <3>1 DEF InTime
  <2> QED
    BY <2>1, <2>2
<1> QED
  BY <1>2, <1>3, <1>4, <1>5 DEF InTime, LastCall

LEMMA EntryKeepsLine ==
    ASSUME NEW list \in Seq(Entries), InTime(list), NEW i \in 2 .. Len(list),
           NEW progress \in Progress, StopsInTime(list, i - 1, progress),
           list[i].line = progress.line
    PROVE  EntriesInTime(list, i, EntryNext(list, progress, i))
<1>1. PICK next : next = EntryNext(list, progress, i)
  OBVIOUS
<1>2. i \in DOMAIN list /\ i - 1 \in DOMAIN list /\ i - 1 \in 1 .. Len(list) - 1 /\ (i - 1) + 1 = i
  OBVIOUS
<1>3. /\ next \in Progress /\ next.segments = progress.segments
      /\ next.stops = Append(progress.stops, CallAt(list, i))
  BY <1>1, <1>2, EntryOnSameLine DEF EntryNext
<1>4. /\ list[i].arrival <= list[i].departure /\ list[i - 1].departure <= list[i].arrival
      /\ list[i - 1].arrival <= list[i - 1].departure
  BY <1>2 DEF InTime
<1>5. /\ CallAt(list, i) \in Calls
      /\ CallAt(list, i).arrival = list[i].arrival /\ CallAt(list, i).departure = list[i].departure
      /\ CallAt(list, i - 1).departure = list[i - 1].departure
      /\ list[i] \in Entries /\ list[i - 1] \in Entries
  BY <1>2, CallIs DEF CallAt
<1>6. progress.stops \in Seq(Calls)
  BY DEF Progress
<1>7. /\ next.stops # << >> /\ InTime(next.stops) /\ LastCall(next.stops) = CallAt(list, i)
      /\ next.stops[1] = progress.stops[1]
  BY <1>3, <1>4, <1>5, <1>6, AppendedInTime DEF StopsInTime
<1>8. progress.stops[1].arrival <= list[i].arrival
  <2>1. progress.stops[1] \in Calls
    BY <1>6 DEF StopsInTime
  <2>2. progress.stops[1].arrival \in Int /\ list[i].arrival \in Int
        /\ list[i - 1].arrival \in Int /\ list[i - 1].departure \in Int
    BY <1>5, <2>1 DEF Calls, Entries
  <2> QED
    BY <1>4, <2>2 DEF StopsInTime
<1>9. StopsInTime(list, i, next)
  BY <1>3, <1>7, <1>8 DEF StopsInTime
<1> QED
  BY <1>1, <1>3, <1>9 DEF EntriesInTime

LEMMA EntryChangesLine ==
    ASSUME NEW list \in Seq(Entries), InTime(list), NEW i \in 2 .. Len(list),
           NEW progress \in Progress, StopsInTime(list, i - 1, progress),
           list[i].line # progress.line
    PROVE  EntriesInTime(list, i, EntryNext(list, progress, i))
<1>1. PICK next : next = EntryNext(list, progress, i)
  OBVIOUS
<1>2. /\ i \in DOMAIN list /\ i - 1 \in DOMAIN list /\ i - 1 \in 1 .. Len(list) - 1
      /\ (i - 1) + 1 = i /\ 1 \in DOMAIN list
  OBVIOUS
<1>3. /\ next \in Progress
      /\ ClosedWith(progress.segments, TransitOf(progress), next.segments)
      /\ next.stops = Append(BoardedAt(list, i), CallAt(list, i))
  BY <1>1, EntryOnOtherLine DEF EntryNext
<1>4. /\ list[i].arrival <= list[i].departure /\ list[i - 1].departure <= list[i].arrival
      /\ list[i - 1].arrival <= list[i - 1].departure
  BY <1>2 DEF InTime
<1>5. /\ CallAt(list, i) \in Calls
      /\ CallAt(list, i).arrival = list[i].arrival /\ CallAt(list, i).departure = list[i].departure
      /\ CallAt(list, i - 1).departure = list[i - 1].departure
      /\ list[i] \in Entries /\ list[i - 1] \in Entries /\ list[1] \in Entries
  BY <1>2, CallIs DEF CallAt
<1>6. /\ list[i].arrival \in Int /\ list[i].departure \in Int /\ list[i - 1].arrival \in Int
      /\ list[i - 1].departure \in Int /\ list[1].arrival \in Int
  BY <1>5 DEF Entries
<1>7. progress.stops \in Seq(Calls) /\ progress.stops[1] \in Calls
  BY DEF Progress, StopsInTime
<1>8. progress.stops[1].arrival \in Int
  BY <1>7 DEF Calls
\* where the next transit begins
<1>9. /\ next.stops # << >> /\ InTime(next.stops) /\ LastCall(next.stops) = CallAt(list, i)
      /\ list[i - 1].departure <= next.stops[1].arrival
      /\ next.stops[1].arrival <= list[i].arrival
      /\ next.stops[1].arrival \in Int
  <2>1. CASE list[i].line = WALKING_TRANSFER
    <3>1. next.stops = << CallAt(list, i) >>
      BY <1>3, <2>1 DEF BoardedAt
    <3>2. Len(next.stops) = 1 /\ DOMAIN next.stops = {1} /\ next.stops[1] = CallAt(list, i)
      BY <3>1
    <3> QED
      BY <1>4, <1>5, <1>6, <3>1, <3>2 DEF InTime, LastCall
  <2>2. CASE list[i].line # WALKING_TRANSFER
    <3>1. PICK call : call = [ id |-> list[i - 1].stop, arrival |-> list[i - 1].departure,
                               departure |-> list[i - 1].departure ]
      OBVIOUS
    <3>2. /\ call \in Calls /\ call.arrival = list[i - 1].departure
          /\ call.departure = list[i - 1].departure
      BY <1>5, <3>1 DEF Entries, Calls
    <3>3. next.stops = Append(<< call >>, CallAt(list, i))
      BY <1>3, <2>2, <3>1 DEF BoardedAt
    <3>4. << call >> \in Seq(Calls) /\ << call >> # << >> /\ InTime(<< call >>)
          /\ LastCall(<< call >>) = call /\ << call >>[1] = call
      BY <1>6, <3>2 DEF InTime, LastCall
    <3>5. /\ next.stops # << >> /\ InTime(next.stops) /\ LastCall(next.stops) = CallAt(list, i)
          /\ next.stops[1] = call
      <4>1. PICK one \in Seq(Calls) : one = << call >>
        BY <3>4
      <4> QED
        BY <1>4, <1>5, <3>2, <3>3, <3>4, <4>1, AppendedInTime
    <3> QED
      BY <1>4, <1>6, <3>2, <3>5
  <2> QED
    BY <2>1, <2>2
\* what was closed
<1>10. PICK segments \in Seq(TransitSegment \cup TransferSegment) : segments = progress.segments
  BY DEF Progress
<1>11. PICK closed : closed = next.segments
  OBVIOUS
<1>12. PICK n \in Nat : n = Len(segments)
  OBVIOUS
<1>13. /\ DOMAIN segments = 1 .. n /\ n + 1 \in DOMAIN closed
       /\ closed \in Seq(TransitSegment \cup TransferSegment)
       /\ \A j \in 1 .. n : closed[j] = segments[j]
       /\ closed[n + 1] = TransitOf(progress)
       /\ \A j \in DOMAIN closed : closed[j].type = "transit" => j \in 1 .. n \/ j = n + 1
  <2>1. closed \in Seq(TransitSegment \cup TransferSegment)
    BY <1>3, <1>11 DEF Progress
  <2>2. /\ Len(closed) \in {n + 1, n + 2} /\ DOMAIN closed = 1 .. Len(closed)
        /\ DOMAIN segments = 1 .. n
        /\ \A j \in DOMAIN segments : closed[j] = segments[j]
        /\ closed[n + 1] = TransitOf(progress)
        /\ Len(closed) = n + 2 => closed[n + 2].type = "transfer"
    BY <1>3, <1>10, <1>11, <1>12, <2>1 DEF ClosedWith
  <2>3. ASSUME NEW j \in DOMAIN closed, closed[j].type = "transit"
        PROVE  j \in 1 .. n \/ j = n + 1
    <3>1. CASE Len(closed) = n + 1
      <4>1. j \in 1 .. n + 1
        BY <2>2, <2>3, <3>1
      <4> QED
        BY <4>1
    <3>2. CASE Len(closed) = n + 2
      <4>1. j \in 1 .. n + 2 /\ j # n + 2
        BY <2>2, <2>3, <3>2
      <4> QED
        BY <4>1
    <3> QED
      BY <2>2, <3>1, <3>2
  <2>4. n + 1 \in DOMAIN closed
    <3>1. n + 1 \in 1 .. n + 1 /\ n + 1 \in 1 .. n + 2
      OBVIOUS
    <3> QED
      BY <2>2, <3>1
  <2> QED
    BY <2>1, <2>2, <2>3, <2>4
<1>14. /\ TransitOf(progress).type = "transit" /\ TransitOf(progress).stops = progress.stops
       /\ LastCall(progress.stops).departure = list[i - 1].departure
       /\ list[1].arrival <= progress.stops[1].arrival
  BY <1>5 DEF TransitOf, StopsInTime
<1>15. SegmentsInTime(segments, list[1].arrival) /\ OverBy(segments, progress.stops[1].arrival)
  BY <1>10 DEF StopsInTime
<1>16. ASSUME NEW j \in DOMAIN closed, closed[j].type = "transit"
       PROVE  /\ closed[j].stops # << >> /\ closed[j].stops \in Seq(Calls)
              /\ InTime(closed[j].stops)
              /\ list[1].arrival <= closed[j].stops[1].arrival
  <2>1. CASE j \in 1 .. n
    BY <1>13, <1>15, <1>16, <2>1 DEF SegmentsInTime
  <2>2. CASE j = n + 1
    BY <1>7, <1>13, <1>14, <2>2 DEF StopsInTime
  <2> QED
    BY <1>13, <1>16, <2>1, <2>2
<1>17. ASSUME NEW j \in DOMAIN closed, closed[j].type = "transit",
              NEW k \in DOMAIN closed, closed[k].type = "transit", j < k
       PROVE  LastCall(closed[j].stops).departure <= closed[k].stops[1].arrival
  <2>1. j \in 1 .. n
    BY <1>13, <1>17
  <2>2. CASE k \in 1 .. n
    BY <1>13, <1>15, <1>17, <2>1, <2>2 DEF SegmentsInTime
  <2>3. CASE k = n + 1
    BY <1>13, <1>14, <1>15, <1>17, <2>1, <2>3 DEF OverBy
  <2> QED
    BY <1>13, <1>17, <2>2, <2>3
<1>18. SegmentsInTime(closed, list[1].arrival)
  BY <1>16, <1>17 DEF SegmentsInTime
<1>19. OverBy(closed, list[i - 1].departure)
  <2> SUFFICES ASSUME NEW j \in DOMAIN closed, closed[j].type = "transit"
               PROVE  LastCall(closed[j].stops).departure <= list[i - 1].departure
    BY DEF OverBy
  <2>1. CASE j = n + 1
    BY <1>6, <1>13, <1>14, <2>1
  <2>2. CASE j \in 1 .. n
    <3>1. LastCall(segments[j].stops).departure <= progress.stops[1].arrival
          /\ segments[j].stops \in Seq(Calls) /\ segments[j].stops # << >>
      BY <1>13, <1>15, <2>2 DEF OverBy, SegmentsInTime
    <3>2. LastCall(segments[j].stops) \in Calls
      BY <3>1 DEF LastCall
    <3>3. LastCall(segments[j].stops).departure \in Int
      BY <3>2 DEF Calls
    <3>4. progress.stops[1].arrival <= list[i - 1].arrival
      BY DEF StopsInTime
    <3> QED
      BY <1>4, <1>6, <1>8, <1>13, <2>2, <3>1, <3>3, <3>4
  <2> QED
    BY <1>13, <2>1, <2>2
<1>20. OverBy(closed, next.stops[1].arrival)
  <2> SUFFICES ASSUME NEW j \in DOMAIN closed, closed[j].type = "transit"
               PROVE  LastCall(closed[j].stops).departure <= next.stops[1].arrival
    BY DEF OverBy
  <2>1. LastCall(closed[j].stops).departure <= list[i - 1].departure
    BY <1>19 DEF OverBy
  <2>2. LastCall(closed[j].stops) \in Calls
    BY <1>16 DEF LastCall
  <2>3. LastCall(closed[j].stops).departure \in Int
    BY <2>2 DEF Calls
  <2> QED
    BY <1>6, <1>9, <2>1, <2>3
<1>21. list[1].arrival <= next.stops[1].arrival
  <2>1. progress.stops[1].arrival <= list[i - 1].arrival
    BY DEF StopsInTime
  <2> QED
    BY <1>4, <1>6, <1>8, <1>9, <1>14, <2>1
<1>22. StopsInTime(list, i, next)
  BY <1>9, <1>11, <1>18, <1>20, <1>21 DEF StopsInTime
<1> QED
  BY <1>1, <1>3, <1>22 DEF EntriesInTime

LEMMA RouteInTime ==
    ASSUME NEW list \in Seq(Entries), list # << >>, InTime(list)
    PROVE  EntriesInTime(list, Len(list),
                         Entering!Fold(list, FirstEntry(list), [ i \in DOMAIN list |-> i ]))
<1>1. PICK n \in Nat \ {0} : n = Len(list)
  OBVIOUS
<1>2. PICK places : places = [ i \in DOMAIN list |-> i ]
  OBVIOUS
<1>3. /\ DOMAIN list = 1 .. n /\ DOMAIN places = 1 .. n /\ \A k \in 1 .. n : places[k] = k
      /\ 1 \in DOMAIN list /\ list[1] \in Entries
  BY <1>1, <1>2
<1>4. FirstEntry(list) \in Progress
  BY <1>3 DEF FirstEntry, Progress, Entries
<1>5. EntriesInTime(list, 0, FirstEntry(list))
  BY <1>4 DEF EntriesInTime
<1>6. ASSUME NEW k \in 1 .. n, NEW value, EntriesInTime(list, k - 1, value)
      PROVE  EntriesInTime(list, k, EntryNext(list, value, places[k]))
  <2>1. places[k] = k /\ value \in Progress
    BY <1>3, <1>6 DEF EntriesInTime
  <2>2. CASE k = 1
    <3>1. value = FirstEntry(list)
      BY <1>6, <2>2 DEF EntriesInTime
    <3>2. PICK next : next = EntryNext(list, value, 1)
      OBVIOUS
    <3>3. value.segments = << >> /\ value.stops = << >> /\ value.line = list[1].line
      BY <3>1 DEF FirstEntry
    <3>4. /\ next \in Progress /\ next.segments = << >>
          /\ next.stops = Append(<< >>, CallAt(list, 1))
      BY <1>3, <2>1, <3>2, <3>3, EntryOnSameLine DEF EntryNext
    <3>5. CallAt(list, 1) \in Calls /\ CallAt(list, 1).arrival = list[1].arrival
          /\ CallAt(list, 1).departure = list[1].departure
      BY <1>3, CallIs DEF CallAt
    <3>6. /\ next.stops = << CallAt(list, 1) >> /\ Len(next.stops) = 1 /\ next.stops # << >>
          /\ DOMAIN next.stops = {1} /\ next.stops[1] = CallAt(list, 1)
      BY <3>4
    <3>7. list[1].arrival <= list[1].departure /\ list[1].arrival \in Int
      BY <1>3 DEF InTime, Entries
    <3>8. InTime(next.stops) /\ LastCall(next.stops) = CallAt(list, 1)
      BY <3>5, <3>6, <3>7 DEF InTime, LastCall
    <3>9. SegmentsInTime(next.segments, list[1].arrival)
          /\ OverBy(next.segments, next.stops[1].arrival)
      BY <3>4 DEF SegmentsInTime, OverBy
    <3>10. StopsInTime(list, 1, next)
      BY <3>5, <3>6, <3>7, <3>8, <3>9 DEF StopsInTime
    <3> QED
      BY <2>1, <2>2, <3>2, <3>4, <3>10 DEF EntriesInTime
  <2>3. CASE k # 1
    <3>1. k \in 2 .. Len(list) /\ k - 1 # 0
      BY <1>1, <2>3
    <3>2. StopsInTime(list, k - 1, value)
      BY <1>6, <3>1 DEF EntriesInTime
    <3> QED
      BY <2>1, <3>1, <3>2, EntryKeepsLine, EntryChangesLine
  <2> QED
    BY <2>2, <2>3
<1>7. EntriesInTime(list, n, Entering!Fold(list, FirstEntry(list), places))
  BY <1>3, <1>5, <1>6, Entering!FoldKeeps
<1> QED
  BY <1>1, <1>2, <1>7

\* what make_route has entered when it has seen all of the path
Entered == Entering!Fold(Unpacked, FirstEntry(Unpacked), [ i \in DOMAIN Unpacked |-> i ])

LEMMA RouteIsEntered ==
    Respond!MakeRoute(timetable.lines, path)
    = [segments |-> Append(Entered.segments, TransitOf(Entered))]
<1>1. Respond!MakeRoute(timetable.lines, path)
      = [ segments |-> Append(Entered.segments, Respond!Transit(Entered)) ]
  BY Zenon DEF Respond!MakeRoute, Respond!FoldLeft, Respond!MapThenFoldSet, Respond!Max, Entered,
               Entering!Fold, Entering!Latest, EntryNext, Unpacked, Prepared, FirstEntry
<1>2. Respond!Transit(Entered) = TransitOf(Entered)
  BY DEF Respond!Transit, TransitOf
<1> QED
  BY <1>1, <1>2

-----------------------------------------------------------------------------
(* The stops that are passed                                                *)

LEMMA PassedStopsType ==
    ASSUME NEW line, line.stops \in Seq(Nat), NEW from, NEW to
    PROVE  Respond!PassedStops(line, from, to) \in Seq(Nat)
<1>1. PICK list \in Seq(Nat) : list = line.stops
  OBVIOUS
<1>2. PICK ahead : ahead = Respond!StopsFrom(line, from)
  OBVIOUS
<1>3. ahead \in Seq(Nat)
  <2>1. CASE from \in { list[i] : i \in DOMAIN list }
    <3>1. PICK i \in DOMAIN list : list[i] = from
      BY <2>1
    <3>2. \E first \in 1 .. Len(list) : /\ list[first] = from
                                        /\ \A j \in 1 .. first - 1 : list[j] # from
      <4>1. { k \in DOMAIN list : list[k] = from } \subseteq Nat
            /\ { k \in DOMAIN list : list[k] = from } # {}
        BY <3>1
      <4>2. PICK first \in { k \in DOMAIN list : list[k] = from } :
              \A k \in { k \in DOMAIN list : list[k] = from } : first <= k
        BY <4>1, LeastOfNumbers
      <4> QED
        BY <4>2
    <3>3. Respond!Offset(line, from) \in 1 .. Len(list)
      BY <1>1, <3>2 DEF Respond!Offset
    <3>4. ahead = SubSeq(list, Respond!Offset(line, from), Len(list))
      BY <1>1, <1>2, <2>1 DEF Respond!StopsFrom
    <3> QED
      BY <3>3, <3>4
  <2>2. CASE from \notin { list[i] : i \in DOMAIN list }
    BY <1>1, <1>2, <2>2 DEF Respond!StopsFrom
  <2> QED
    BY <2>1, <2>2
<1>4. PICK rest : rest = IF ahead = << >> THEN << >> ELSE Tail(ahead)
  OBVIOUS
<1>5. rest \in Seq(Nat)
  BY <1>3, <1>4
<1>6. Respond!PassedStops(line, from, to)
      = LET until == { i \in DOMAIN rest : rest[i] = to }
        IN  IF until = {} THEN rest ELSE SubSeq(rest, 1, (CHOOSE i \in until : TRUE) - 1)
  BY <1>2, <1>4 DEF Respond!PassedStops
<1> DEFINE until == { i \in DOMAIN rest : rest[i] = to }
<1>7. CASE until = {}
  BY <1>5, <1>6, <1>7
<1>8. CASE until # {}
  <2>1. (CHOOSE i \in until : TRUE) \in until
    BY <1>8
  <2>2. PICK last \in DOMAIN rest : last = (CHOOSE i \in until : TRUE)
    BY <2>1
  <2>3. SubSeq(rest, 1, last - 1) \in Seq(Nat)
    BY <1>5
  <2> QED
    BY <1>6, <1>8, <2>2, <2>3
<1> QED
  BY <1>7, <1>8

\* an entry of a path has been ridden to from the one before
LEMMA PathRides ==
    ASSUME PInv, pc = "done", path # << >>, NEW i \in 1 .. Len(path) - 1,
           path[i + 1].line # WALKING_TRANSFER
    PROVE  /\ i \in DOMAIN path /\ i + 1 \in DOMAIN path
           /\ path[i].stop \in Stops /\ path[i].arrival \in Seconds
           /\ \E k \in DOMAIN timetable.stop_to_line[path[i].stop] :
                 timetable.stop_to_line[path[i].stop][k] = path[i + 1].line
           /\ \E trip \in Get(timetable.lines[path[i + 1].line], path[i].stop, path[i].arrival) :
                 /\ trip.departure = path[i + 1].departure
                 /\ \E k \in DOMAIN Visits(trip) :
                      Visits(trip)[k] = [stop |-> path[i + 1].stop, time |-> path[i + 1].arrival]
           /\ path[i].stop # path[i + 1].stop
<1>1. DOMAIN path = 1 .. Len(path) /\ Len(path) \in Nat \ {0} /\ path \in Seq(PathEntry)
  BY LenProperties DEF PInv, IInv, SearchInv, TypeOK
<1>2. i \in DOMAIN path /\ i + 1 \in DOMAIN path
  BY <1>1
<1>3. PICK here : here = path[i].stop
  OBVIOUS
<1>4. PICK there : there = path[i + 1].stop
  OBVIOUS
<1>5. /\ path[i] = Entry(here, heap.label[here]) /\ path[i + 1] = Entry(there, heap.label[there])
      /\ there \in ReachedStops /\ here = heap.label[there].data.parent
      /\ LabelFits(there, heap.label[there])
  BY <1>1, <1>2, <1>3, <1>4 DEF PInv, PathInv, PathOfLabels, LabelsFit, Parent
<1>6. /\ path[i].arrival = Key(heap, here) /\ path[i + 1].arrival = heap.label[there].key
      /\ path[i + 1].line = heap.label[there].data.line
      /\ path[i + 1].departure = heap.label[there].data.departure
  BY <1>5 DEF Entry, Key
<1>7. here # there /\ RodeTo(there, heap.label[there])
  BY <1>5, <1>6 DEF LabelFits
<1>8. path[i].stop \in Stops /\ path[i].arrival \in Seconds
  <2>1. path[i] \in PathEntry
    BY <1>1, <1>2
  <2> QED
    BY <2>1 DEF PathEntry
<1>9. /\ \E k \in DOMAIN timetable.stop_to_line[here] :
            timetable.stop_to_line[here][k] = path[i + 1].line
      /\ \E trip \in Get(timetable.lines[path[i + 1].line], here, path[i].arrival) :
            /\ trip.departure = path[i + 1].departure
            /\ \E k \in DOMAIN Visits(trip) :
                  Visits(trip)[k] = [stop |-> there, time |-> path[i + 1].arrival]
  BY <1>5, <1>6, <1>7, Zenon DEF RodeTo
<1> QED
  BY <1>2, <1>3, <1>4, <1>7, <1>8, <1>9

LEMMA PathIsList ==
    ASSUME PInv
    PROVE  path \in Seq(Entries)
<1>1. path \in Seq(PathEntry)
  BY DEF PInv, IInv, SearchInv, TypeOK
<1>2. PathEntry \subseteq Entries
  <2>1. Stops \subseteq Nat
    BY InputAssumption
  <2>2. Seconds \subseteq Int
    BY DEF Seconds
  <2> QED
    BY <2>1, <2>2 DEF PathEntry, Entries
<1> QED
  BY <1>1, <1>2

LEMMA PassedAreInPlace ==
    ASSUME PInv, pc = "done", path # << >>
    PROVE  PassedInPlace
<1> SUFFICES ASSUME NEW i \in 1 .. Len(path) - 1
             PROVE  /\ Between(i) \in Seq(Entries)
                    /\ \A k \in DOMAIN Between(i) : /\ Between(i)[k].arrival = Prepared[i].departure
                                                    /\ Between(i)[k].departure = Prepared[i].departure
  BY DEF PassedInPlace
<1>1. path \in Seq(Entries)
  BY PathIsList
<1>2. /\ i \in DOMAIN path /\ i + 1 \in DOMAIN path /\ i + 1 # 1
      /\ Len(path) \in Nat
  BY <1>1
<1>3. PICK from : from = Prepared[i]
  OBVIOUS
<1>4. PICK to : to = Prepared[i + 1]
  OBVIOUS
<1>5. /\ from \in Entries /\ to \in Entries /\ to.line = path[i + 1].line
      /\ from.stop = path[i].stop
  BY <1>1, <1>2, <1>3, <1>4, PreparedIs
<1>6. PICK passed : passed = IF to.line = WALKING_TRANSFER THEN << >>
                             ELSE Respond!PassedStops(timetable.lines[to.line], from.stop, to.stop)
  OBVIOUS
<1>7. Between(i) = [ k \in DOMAIN passed |-> [ stop |-> passed[k], line |-> to.line,
                                               arrival |-> from.departure,
                                               departure |-> from.departure ] ]
  BY <1>3, <1>4, <1>6 DEF Between, Respond!PassedEntries, Respond!OnFoot, WALKING_TRANSFER
<1>8. passed \in Seq(Nat)
  <2>1. CASE to.line = WALKING_TRANSFER
    BY <1>6, <2>1
  <2>2. CASE to.line # WALKING_TRANSFER
    <3>1. PICK k \in DOMAIN timetable.stop_to_line[path[i].stop] :
            timetable.stop_to_line[path[i].stop][k] = path[i + 1].line
      BY <1>5, <2>2, PathRides
    <3>2. path[i].stop \in Stops
      BY <1>5, <2>2, PathRides
    <3>3. timetable.lines[to.line].stops \in Seq(Nat)
      <4>1. InputOK
        BY DEF PInv, IInv
      <4>2. PICK line : line = timetable.lines[timetable.stop_to_line[path[i].stop][k]]
        OBVIOUS
      <4>3. Orderly(line)
        BY <3>2, <4>1, <4>2, LineInOrder
      <4> QED
        BY <1>5, <3>1, <4>2, <4>3 DEF Orderly
    <3> QED
      BY <1>6, <2>2, <3>3, PassedStopsType
  <2> QED
    BY <2>1, <2>2
<1>9. PICK n \in Nat : n = Len(passed)
  BY <1>8
<1>10. PICK between : between = Between(i)
  OBVIOUS
<1>11. /\ DOMAIN passed = 1 .. n /\ DOMAIN between = 1 .. n
       /\ between = [ k \in 1 .. n |-> between[k] ]
       /\ \A k \in 1 .. n : between[k] = [ stop |-> passed[k], line |-> to.line,
                                           arrival |-> from.departure,
                                           departure |-> from.departure ]
  BY <1>7, <1>8, <1>9, <1>10
<1>12. \A k \in 1 .. n : between[k] \in Entries
  BY <1>5, <1>8, <1>11 DEF Entries
<1>13. between \in Seq(Entries)
  BY <1>11, <1>12
<1>14. \A k \in DOMAIN between : /\ between[k].arrival = from.departure
                                 /\ between[k].departure = from.departure
  BY <1>11
<1> QED
  BY <1>3, <1>10, <1>13, <1>14

-----------------------------------------------------------------------------
(* What the service has made                                                *)

\* a route is made of the path that was found, and not before that
RouteMade ==
    \A found \in route :
        /\ pc = "done" /\ path # << >>
        /\ found = Respond!MakeRoute(timetable.lines, path)

THEOREM RoutesAreMade == RouteSpec => []RouteMade
<1>1. RouteInit => RouteMade
  BY DEF RouteInit, RouteMade
<1>2. RouteMade /\ [RouteNext]_<< vars, service, rounds >> => RouteMade'
  <2> SUFFICES ASSUME RouteMade, [RouteNext]_<< vars, service, rounds >>
               PROVE  RouteMade'
    OBVIOUS
  <2>1. CASE Search
    <3>1. route' = route /\ Next
      BY <2>1 DEF Search, service
    <3>2. CASE pc = "done"
      <4>1. ~ (AddOrigin \/ AddStart \/ Settle \/ BreakEarly \/ HeapEmpty \/ TraverseLine
               \/ RideTo \/ WalkTo \/ ExtractPath)
        BY <3>2 DEF AddOrigin, AddStart, Settle, BreakEarly, HeapEmpty, AtLoopHead,
                    TraverseLine, RideTo, WalkTo, ExtractPath
      <4>2. UNCHANGED vars
        BY <3>1, <4>1 DEF Next, Returned
      <4> QED
        BY <3>1, <4>2 DEF RouteMade, vars
    <3>3. CASE pc # "done"
      BY <3>1, <3>3 DEF RouteMade
    <3> QED
      BY <3>2, <3>3
  <2>2. CASE ReturnRoute
    BY <2>2 DEF ReturnRoute, RouteMade, vars
  <2>3. CASE UNCHANGED << vars, route >>
    BY <2>3 DEF RouteMade, vars
  <2>4. Annotate \/ PrintReply \/ RunRounds \/ UNCHANGED << vars, service, rounds >>
        => UNCHANGED << vars, route >>
    BY DEF Annotate, PrintReply, RunRounds, service, vars
  <2> QED
    BY <2>1, <2>2, <2>3, <2>4 DEF RouteNext
<1> QED
  BY <1>1, <1>2, PTL DEF RouteSpec

\* nobody walks to a start beyond the end of the clock
ASSUME ClockAssumption ==
    \A request \in Queries : \A i \in DOMAIN request.origins :
        request.departure + request.origins[i].seconds < Width

\* The path begins after the query.
LEMMA PathBegins ==
    ASSUME PInv, PathSound, pc = "done", path # << >>
    PROVE  query.departure <= path[1].arrival
<1>1. 1 \in DOMAIN path
  BY PathIsList
<1>2. PICK first : first = path[1].stop
  OBVIOUS
<1>3. path[1] = Entry(first, heap.label[first])
  BY <1>1, <1>2 DEF PInv, PathInv, PathOfLabels
<1>4. path[1].arrival = heap.label[first].key
  BY <1>3 DEF Entry
<1>5. PICK i \in DOMAIN query.origins :
        heap.label[first].key = Plus(query.departure, query.origins[i].seconds)
  BY <1>2, Zenon DEF PathSound, StartedAt
<1>6. query.departure \in Seconds /\ query.origins[i] \in ADLeg
  BY InputTypes DEF PInv, IInv, IsQuery
<1>7. query.departure + query.origins[i].seconds < Width
  BY ClockAssumption DEF PInv, IInv, InputOK
<1>8. query.departure \in Nat /\ query.origins[i].seconds \in Nat
  BY <1>6 DEF ADLeg, Seconds
<1> QED
  BY <1>4, <1>5, <1>7, <1>8, PlusFits

LEMMA MadeInOrder == PInv /\ PathSound /\ RouteMade => StopTimesInOrder
<1> SUFFICES ASSUME PInv, PathSound, RouteMade, NEW found \in route, ~ StandsStill,
                    NEW i \in Transits(found)
             PROVE  /\ query.departure <= FirstOf(found.segments[i]).arrival
                    /\ \A k \in 1 .. Len(found.segments[i].stops) - 1 :
                          /\ found.segments[i].stops[k].arrival
                             <= found.segments[i].stops[k].departure
                          /\ found.segments[i].stops[k].departure
                             <= found.segments[i].stops[k + 1].arrival
                    /\ \A j \in Transits(found) :
                          i < j => /\ LastOf(found.segments[i]).arrival
                                      <= LastOf(found.segments[i]).departure
                                   /\ LastOf(found.segments[i]).departure
                                      <= FirstOf(found.segments[j]).arrival
  BY Zenon DEF StopTimesInOrder
<1>1. /\ pc = "done" /\ path # << >> /\ path \in Seq(Entries)
      /\ found = [segments |-> Append(Entered.segments, TransitOf(Entered))]
  BY PathIsList, RouteIsEntered DEF RouteMade
<1>2. \A k \in 1 .. Len(path) - 1 : /\ path[k].arrival <= path[k + 1].departure
                                    /\ path[k + 1].departure <= path[k + 1].arrival
  BY <1>1 DEF PathSound, StandsStill
<1>3. InTime(Prepared)
  BY <1>1, <1>2, PreparedInTime
<1>4. /\ Unpacked \in Seq(Entries) /\ Unpacked # << >> /\ InTime(Unpacked)
      /\ Unpacked[1] = Prepared[1]
  BY <1>1, <1>3, PassedAreInPlace, UnpackedIsInTime
<1>5. PICK n \in Nat \ {0} : n = Len(Unpacked)
  BY <1>4
<1>6. Entered \in Progress /\ StopsInTime(Unpacked, n, Entered)
  BY <1>4, <1>5, RouteInTime DEF Entered, EntriesInTime
<1>7. Unpacked[1].arrival = path[1].arrival
  <2>1. 1 \in DOMAIN path
    BY <1>1
  <2>2. Prepared[1].arrival = path[1].arrival
    BY <1>1, <2>1, PreparedIs
  <2> QED
    BY <1>4, <2>2, Zenon
<1>8. PICK segments \in Seq(TransitSegment \cup TransferSegment) : segments = Entered.segments
  BY <1>6 DEF Progress
<1>9. PICK m \in Nat : m = Len(segments)
  OBVIOUS
<1>10. TransitOf(Entered).type = "transit" /\ TransitOf(Entered).stops = Entered.stops
       /\ TransitOf(Entered) \in TransitSegment
  BY <1>6 DEF TransitOf, TransitSegment, Progress
<1>11. PICK all : all = found.segments
  OBVIOUS
<1>12. /\ DOMAIN all = 1 .. m + 1 /\ \A j \in 1 .. m : all[j] = segments[j]
       /\ all[m + 1] = TransitOf(Entered) /\ DOMAIN segments = 1 .. m
  BY <1>1, <1>8, <1>9, <1>10, <1>11
<1>13. \A j \in Transits(found) : j \in 1 .. m + 1 /\ all[j].type = "transit"
  BY <1>11, <1>12 DEF Transits, Respond!IsTransit
<1>14. /\ SegmentsInTime(segments, path[1].arrival)
       /\ OverBy(segments, Entered.stops[1].arrival)
       /\ Entered.stops # << >> /\ Entered.stops \in Seq(Calls) /\ InTime(Entered.stops)
       /\ path[1].arrival <= Entered.stops[1].arrival
  BY <1>6, <1>7, <1>8 DEF StopsInTime, Progress
<1>15. ASSUME NEW j \in Transits(found)
       PROVE  /\ all[j].stops # << >> /\ all[j].stops \in Seq(Calls) /\ InTime(all[j].stops)
              /\ path[1].arrival <= all[j].stops[1].arrival
  <2>1. CASE j \in 1 .. m
    BY <1>12, <1>13, <1>14, <2>1 DEF SegmentsInTime
  <2>2. CASE j = m + 1
    BY <1>10, <1>12, <1>14, <2>2
  <2> QED
    BY <1>13, <2>1, <2>2
<1>16. query.departure <= FirstOf(all[i]).arrival
  <2>1. query.departure <= path[1].arrival
    BY <1>1, PathBegins
  <2>2. query.departure \in Int
    BY InputTypes DEF PInv, IInv, IsQuery, Seconds
  <2>3. path[1] \in Entries
    BY <1>1
  <2>4. all[i].stops[1] \in Calls
    BY <1>15
  <2>5. path[1].arrival \in Int /\ all[i].stops[1].arrival \in Int
    BY <2>3, <2>4 DEF Entries, Calls
  <2> QED
    BY <1>15, <2>1, <2>2, <2>5 DEF FirstOf
<1>17. ASSUME NEW k \in 1 .. Len(all[i].stops) - 1
       PROVE  /\ all[i].stops[k].arrival <= all[i].stops[k].departure
              /\ all[i].stops[k].departure <= all[i].stops[k + 1].arrival
  <2>1. k \in DOMAIN all[i].stops
    BY <1>15
  <2> QED
    BY <1>15, <2>1 DEF InTime
<1>18. ASSUME NEW j \in Transits(found), i < j
       PROVE  /\ LastOf(all[i]).arrival <= LastOf(all[i]).departure
              /\ LastOf(all[i]).departure <= FirstOf(all[j]).arrival
  <2>1. Len(all[i].stops) \in DOMAIN all[i].stops
    BY <1>15
  <2>2. LastOf(all[i]).arrival <= LastOf(all[i]).departure
    BY <1>15, <2>1 DEF InTime, LastOf
  <2>3. i \in 1 .. m /\ all[i] = segments[i]
    BY <1>12, <1>13, <1>18
  <2>4. i \in DOMAIN segments /\ segments[i].type = "transit"
    <3>1. i \in DOMAIN segments
      BY <1>12, <2>3
    <3> QED
      BY <1>13, <2>3, <3>1
  <2>5. CASE j \in 1 .. m
    <3>1. j \in DOMAIN segments /\ all[j] = segments[j]
      BY <1>12, <2>5
    <3>2. segments[j].type = "transit"
      BY <1>13, <3>1
    <3>3. LastCall(segments[i].stops).departure <= segments[j].stops[1].arrival
      BY <1>14, <1>18, <2>4, <3>1, <3>2, Zenon DEF SegmentsInTime
    <3> QED
      BY <2>2, <2>3, <3>1, <3>3, Zenon DEF LastOf, LastCall, FirstOf
  <2>6. CASE j = m + 1
    <3>1. LastCall(segments[i].stops).departure <= Entered.stops[1].arrival
      BY <1>14, <2>4, Zenon DEF OverBy
    <3>2. all[j].stops = Entered.stops
      BY <1>10, <1>12, <2>6, Zenon
    <3> QED
      BY <2>2, <2>3, <3>1, <3>2, Zenon DEF LastOf, LastCall, FirstOf
  <2> QED
    BY <1>13, <2>5, <2>6
<1> QED
  BY <1>11, <1>16, <1>17, <1>18

\* In every route nothing leaves before it is there and nothing arrives before it has left,
\* from the time of the query on, unless one stays where one is.
THEOREM RoutesAreInOrder == RouteSpec => []StopTimesInOrder
<1>1. RouteSpec => []PInv
  BY ServiceImplementsSearch, JointInvariant, PTL
<1> QED
  BY <1>1, ServiceKeepsPaths, RoutesAreMade, MadeInOrder, PTL
====
