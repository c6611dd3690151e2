--------------------------- MODULE RouteJourneyProofs ---------------------------
(***************************************************************************)
(* The route made of a path is a journey.  An entry of the path is a mark  *)
(* among the entries that are unpacked from it, and what lies between two  *)
(* marks is one service ridden or one walk; the segments that the entries  *)
(* are entered into keep it so.                                            *)
(***************************************************************************)
EXTENDS RouteServiceProofs

-----------------------------------------------------------------------------
(* The legs of what is unpacked                                             *)

\* a vehicle is boarded at one place of a list and left at another
Ridden(list, first, last) ==
    \E trip \in Services(timetable.lines[list[last].line], list[first].stop) :
        /\ last - first + 1 <= Len(trip.stops)
        /\ \A x \in first .. last : list[x].stop = trip.stops[x - first + 1]
        /\ list[first].departure = trip.departure
        /\ list[last].arrival = Visits(trip)[last - first + 1].time

LegLine(list, marks, m) == list[marks[m + 1]].line

\* between two marks one rides with a single service or walks
Legs(list, marks, n) ==
    /\ marks \in [1 .. n -> 1 .. Len(list)] /\ marks[1] = 1 /\ marks[n] = Len(list)
    /\ \A m \in 1 .. n - 1 :
          /\ marks[m] < marks[m + 1]
          /\ \A x \in marks[m] + 1 .. marks[m + 1] : list[x].line = LegLine(list, marks, m)
          /\ IF LegLine(list, marks, m) = WALKING_TRANSFER
             THEN /\ marks[m + 1] = marks[m] + 1
                  /\ Walkable(list[marks[m]].stop, list[marks[m + 1]].stop)
             ELSE Ridden(list, marks[m], marks[m + 1])
    /\ \A m \in 1 .. n - 2 :
          LegLine(list, marks, m) = LegLine(list, marks, m + 1)
              => LegLine(list, marks, m) = WALKING_TRANSFER
    /\ list[1].line = IF n > 1 THEN LegLine(list, marks, 1) ELSE WALKING_TRANSFER

\* one has come to a mark on foot
Afoot(list, marks, m, k, stops, line) ==
    /\ line = WALKING_TRANSFER /\ k = marks[m]
    /\ \A j \in 1 .. Len(stops) - 1 : Walkable(stops[j].id, stops[j + 1].id)
    /\ LastCall(stops).id = list[k].stop

\* one is on the vehicle to the next mark, or stands where it leaves
Aboard(list, marks, m, k, stops, line) ==
    /\ m + 1 \in DOMAIN marks /\ k <= marks[m + 1]
    /\ line = LegLine(list, marks, m) /\ line # WALKING_TRANSFER
    /\ Len(stops) = k - marks[m] + 1
    /\ \A j \in DOMAIN stops : stops[j].id = list[marks[m] + j - 1].stop
    /\ stops[1].departure = list[marks[m]].departure
    /\ LastCall(stops).arrival = list[k].arrival

OnTheWay(list, marks, k, stops, line) ==
    \E m \in DOMAIN marks :
        /\ marks[m] <= k
        /\ \/ Afoot(list, marks, m, k, stops, line)
           \/ Aboard(list, marks, m, k, stops, line)

\* the transits up to now, and what they lead to
SegmentsJoin(segments, begin, next) ==
    /\ \A i \in DOMAIN segments :
          segments[i].type = "transit" =>
              /\ segments[i].stops # << >>
              /\ IsWalk(segments[i]) \/ IsRide(segments[i])
              /\ \A j \in DOMAIN segments :
                    /\ i < j /\ segments[j].type = "transit"
                    /\ \A k \in DOMAIN segments : segments[k].type = "transit" => k <= i \/ j <= k
                    => Walkable(LastCall(segments[i].stops).id, segments[j].stops[1].id)
              /\ (\A j \in DOMAIN segments : segments[j].type = "transit" => j <= i)
                     => Walkable(LastCall(segments[i].stops).id, next)
              /\ (\A j \in DOMAIN segments : segments[j].type = "transit" => i <= j)
                     => segments[i].stops[1].id = begin
    /\ (\A i \in DOMAIN segments : segments[i].type # "transit") => next = begin

WayTaken(list, marks, k, progress) ==
    /\ progress.stops # << >>
    /\ OnTheWay(list, marks, k, progress.stops, progress.line)
    /\ SegmentsJoin(progress.segments, list[1].stop, progress.stops[1].id)

\* A transit is closed behind the others.
LEMMA ClosedJoin ==
    ASSUME NEW segments \in Seq(TransitSegment \cup TransferSegment),
           NEW closed \in Seq(TransitSegment \cup TransferSegment),
           NEW transit, transit.type = "transit", transit.stops # << >>,
           IsWalk(transit) \/ IsRide(transit),
           ClosedWith(segments, transit, closed), NEW begin, NEW next,
           SegmentsJoin(segments, begin, transit.stops[1].id),
           Walkable(LastCall(transit.stops).id, next)
    PROVE  SegmentsJoin(closed, begin, next)
<1>1. PICK n \in Nat : n = Len(segments)
  OBVIOUS
<1>2. /\ DOMAIN segments = 1 .. n /\ n + 1 \in DOMAIN closed
      /\ \A j \in 1 .. n : closed[j] = segments[j]
      /\ closed[n + 1] = transit
      /\ \A j \in DOMAIN closed : closed[j].type = "transit" => j \in 1 .. n \/ j = n + 1
  <2>1. /\ Len(closed) \in {n + 1, n + 2} /\ DOMAIN closed = 1 .. Len(closed)
        /\ DOMAIN segments = 1 .. n
        /\ \A j \in DOMAIN segments : closed[j] = segments[j]
        /\ closed[n + 1] = transit
        /\ Len(closed) = n + 2 => closed[n + 2].type = "transfer"
    BY <1>1 DEF ClosedWith
  <2>2. ASSUME NEW j \in DOMAIN closed, closed[j].type = "transit"
        PROVE  j \in 1 .. n \/ j = n + 1
    <3>1. CASE Len(closed) = n + 1
      <4>1. j \in 1 .. n + 1
        BY <2>1, <2>2, <3>1
      <4> QED
        BY <4>1
    <3>2. CASE Len(closed) = n + 2
      <4>1. j \in 1 .. n + 2 /\ j # n + 2
        BY <2>1, <2>2, <3>2
      <4> QED
        BY <4>1
    <3> QED
      BY <2>1, <3>1, <3>2
  <2>3. n + 1 \in DOMAIN closed
    <3>1. n + 1 \in 1 .. n + 1 /\ n + 1 \in 1 .. n + 2
      OBVIOUS
    <3> QED
      BY <2>1, <3>1
  <2> QED
    BY <2>1, <2>2, <2>3
<1>3. \A j \in 1 .. n : j \in DOMAIN closed /\ j < n + 1 /\ j <= n + 1 /\ ~ (n + 1 <= j)
  <2>1. DOMAIN closed = 1 .. Len(closed) /\ n + 1 <= Len(closed) /\ Len(closed) \in Nat
    BY <1>2
  <2> QED
    BY <2>1
<1>4. ASSUME NEW i \in 1 .. n, closed[i].type = "transit"
      PROVE  /\ segments[i].type = "transit" /\ closed[i] = segments[i] /\ i \in DOMAIN segments
             /\ i < n + 1 /\ i <= n + 1 /\ ~ (n + 1 <= i)
  BY <1>2, <1>3, <1>4
<1>5. ASSUME NEW i \in DOMAIN closed, closed[i].type = "transit"
      PROVE  /\ closed[i].stops # << >>
             /\ IsWalk(closed[i]) \/ IsRide(closed[i])
  <2>1. CASE i \in 1 .. n
    BY <1>4, <1>5, <2>1 DEF SegmentsJoin
  <2>2. CASE i = n + 1
    BY <1>2, <2>2
  <2> QED
    BY <1>2, <1>5, <2>1, <2>2
<1>6. ASSUME NEW i \in DOMAIN closed, closed[i].type = "transit",
             NEW j \in DOMAIN closed, closed[j].type = "transit", i < j,
             \A k \in DOMAIN closed : closed[k].type = "transit" => k <= i \/ j <= k
      PROVE  Walkable(LastCall(closed[i].stops).id, closed[j].stops[1].id)
  <2>1. i \in 1 .. n
    BY <1>2, <1>3, <1>6
  <2>2. CASE j \in 1 .. n
    <3>1. \A k \in DOMAIN segments : segments[k].type = "transit" => k <= i \/ j <= k
      BY <1>2, <1>3, <1>6
    <3>2. closed[i] = segments[i] /\ closed[j] = segments[j]
          /\ segments[i].type = "transit" /\ segments[j].type = "transit"
      BY <1>4, <1>6, <2>1, <2>2
    <3> QED
      BY <1>2, <1>6, <2>1, <2>2, <3>1, <3>2, Zenon DEF SegmentsJoin
  <2>3. CASE j = n + 1
    <3>1. \A k \in DOMAIN segments : segments[k].type = "transit" => k <= i
      BY <1>2, <1>3, <1>6, <2>3
    <3>2. closed[i] = segments[i] /\ segments[i].type = "transit" /\ closed[j] = transit
      BY <1>2, <1>4, <1>6, <2>1, <2>3
    <3> QED
      BY <1>2, <2>1, <3>1, <3>2, Zenon DEF SegmentsJoin
  <2> QED
    BY <1>2, <1>6, <2>2, <2>3
<1>7. ASSUME NEW i \in DOMAIN closed, closed[i].type = "transit",
             \A j \in DOMAIN closed : closed[j].type = "transit" => j <= i
      PROVE  Walkable(LastCall(closed[i].stops).id, next)
  <2>1. i = n + 1
    BY <1>2, <1>3, <1>7
  <2> QED
    BY <1>2, <2>1
<1>8. ASSUME NEW i \in DOMAIN closed, closed[i].type = "transit",
             \A j \in DOMAIN closed : closed[j].type = "transit" => i <= j
      PROVE  closed[i].stops[1].id = begin
  <2>1. CASE i \in 1 .. n
    <3>1. \A j \in DOMAIN segments : segments[j].type = "transit" => i <= j
      BY <1>2, <1>3, <1>8
    <3>2. closed[i] = segments[i] /\ segments[i].type = "transit"
      BY <1>4, <1>8, <2>1
    <3> QED
      BY <1>2, <2>1, <3>1, <3>2, Zenon DEF SegmentsJoin
  <2>2. CASE i = n + 1
    <3>1. \A j \in DOMAIN segments : segments[j].type # "transit"
      BY <1>2, <1>3, <1>8, <2>2
    <3> QED
      BY <1>2, <2>2, <3>1 DEF SegmentsJoin
  <2> QED
    BY <1>2, <1>8, <2>1, <2>2
<1>9. ~ \A i \in DOMAIN closed : closed[i].type # "transit"
  BY <1>2
<1> QED
  BY <1>5, <1>6, <1>7, <1>8, <1>9, Zenon DEF SegmentsJoin

LEMMA MarkFacts ==
    ASSUME NEW list \in Seq(Entries), NEW n \in Nat \ {0}, NEW marks, Legs(list, marks, n),
           NEW p \in DOMAIN marks
    PROVE  /\ DOMAIN marks = 1 .. n /\ p \in Nat /\ marks[p] \in DOMAIN list /\ marks[p] \in Nat
           /\ p + 1 \in DOMAIN marks =>
                 /\ p \in 1 .. n - 1 /\ marks[p + 1] \in Nat /\ marks[p + 1] \in DOMAIN list
                 /\ marks[p] < marks[p + 1]
           /\ p + 1 \notin DOMAIN marks => p = n
<1>1. DOMAIN marks = 1 .. n /\ DOMAIN list = 1 .. Len(list) /\ Len(list) \in Nat
  BY DEF Legs
<1>2. \A m \in 1 .. n : marks[m] \in 1 .. Len(list)
  BY DEF Legs
<1>3. p + 1 \in DOMAIN marks => p \in 1 .. n - 1 /\ p + 1 \in 1 .. n
  BY <1>1
<1> QED
  BY <1>1, <1>2, <1>3 DEF Legs

\* From a mark one goes on with the next leg.
LEMMA NextLeg ==
    ASSUME NEW list \in Seq(Entries), NEW n \in Nat \ {0}, NEW marks, Legs(list, marks, n),
           NEW p \in DOMAIN marks, NEW i \in 2 .. Len(list), marks[p] = i - 1
    PROVE  /\ p \in 1 .. n - 1 /\ p + 1 \in DOMAIN marks /\ i <= marks[p + 1]
           /\ list[i].line = LegLine(list, marks, p)
           /\ list[i].line = WALKING_TRANSFER =>
                 marks[p + 1] = i /\ Walkable(list[i - 1].stop, list[i].stop)
<1>1. DOMAIN marks = 1 .. n /\ p \in 1 .. n
  BY DEF Legs
<1>2. p # n
  BY DEF Legs
<1>3. p \in 1 .. n - 1 /\ p + 1 \in 1 .. n
  BY <1>1, <1>2
<1>4. marks[p + 1] \in Nat /\ marks[p] < marks[p + 1]
  BY <1>1, <1>3, MarkFacts
<1>5. i \in marks[p] + 1 .. marks[p + 1]
  BY <1>4
<1>6. list[i].line = LegLine(list, marks, p)
  BY <1>3, <1>5 DEF Legs
<1>7. ASSUME list[i].line = WALKING_TRANSFER
      PROVE  marks[p + 1] = i /\ Walkable(list[i - 1].stop, list[i].stop)
  <2>1. /\ marks[p + 1] = marks[p] + 1
        /\ Walkable(list[marks[p]].stop, list[marks[p + 1]].stop)
    BY <1>3, <1>6, <1>7 DEF Legs
  <2>2. marks[p + 1] = i
    BY <2>1
  <2> QED
    BY <2>1, <2>2
<1> QED
  BY <1>1, <1>3, <1>5, <1>6, <1>7

\* Who stands at a mark may go on from there.
LEMMA AtMark ==
    ASSUME NEW list \in Seq(Entries), NEW n \in Nat \ {0}, NEW marks, Legs(list, marks, n),
           NEW p \in DOMAIN marks, NEW i, i = marks[p], NEW line,
           line = IF p + 1 \in DOMAIN marks THEN LegLine(list, marks, p) ELSE WALKING_TRANSFER
    PROVE  OnTheWay(list, marks, i, << CallAt(list, i) >>, line)
<1>1. PICK stops : stops = << CallAt(list, i) >>
  OBVIOUS
<1>2. Len(stops) = 1 /\ DOMAIN stops = {1} /\ stops[1] = CallAt(list, i)
      /\ LastCall(stops) = CallAt(list, i)
  BY <1>1 DEF LastCall
<1>3. /\ i \in Nat /\ (p + 1 \in DOMAIN marks => marks[p + 1] \in Nat /\ i < marks[p + 1])
  BY MarkFacts
<1>4. /\ CallAt(list, i).id = list[i].stop /\ CallAt(list, i).departure = list[i].departure
      /\ CallAt(list, i).arrival = list[i].arrival
  BY DEF CallAt
<1>5. CASE line = WALKING_TRANSFER
  <2>1. Afoot(list, marks, p, i, stops, line)
    BY <1>2, <1>4, <1>5 DEF Afoot
  <2> QED
    BY <1>1, <1>3, <2>1 DEF OnTheWay
<1>6. CASE line # WALKING_TRANSFER
  <2>1. p + 1 \in DOMAIN marks /\ line = LegLine(list, marks, p)
    BY <1>6
  <2>2. Len(stops) = i - marks[p] + 1 /\ marks[p] + 1 - 1 = i /\ i <= marks[p + 1]
    BY <1>2, <1>3, <2>1
  <2>3. Aboard(list, marks, p, i, stops, line)
    BY <1>2, <1>4, <1>6, <2>1, <2>2 DEF Aboard
  <2> QED
    BY <1>1, <1>3, <2>3 DEF OnTheWay
<1> QED
  BY <1>5, <1>6

\* Who is on the way is at a mark, or stays on the vehicle.
LEMMA OnVehicle ==
    ASSUME NEW list \in Seq(Entries), NEW n \in Nat \ {0}, NEW marks, Legs(list, marks, n),
           NEW i \in 2 .. Len(list), NEW stops \in Seq(Calls), stops # << >>, NEW line,
           NEW m \in DOMAIN marks, marks[m] <= i - 1,
           Aboard(list, marks, m, i - 1, stops, line)
    PROVE  \/ i <= marks[m + 1] /\ list[i].line = line
           \/ i - 1 = marks[m + 1] /\ list[i].line # line
<1>1. /\ m \in 1 .. n - 1 /\ m + 1 \in DOMAIN marks /\ marks[m] \in Nat /\ marks[m + 1] \in Nat
  BY MarkFacts DEF Aboard
<1>2. CASE i <= marks[m + 1]
  <2>1. i \in marks[m] + 1 .. marks[m + 1]
    BY <1>1, <1>2
  <2> QED
    BY <1>1, <1>2, <2>1 DEF Legs, Aboard
<1>3. CASE ~ i <= marks[m + 1]
  <2>1. i - 1 = marks[m + 1]
    BY <1>1, <1>3 DEF Aboard
  <2>2. m + 1 \in 1 .. n - 1 /\ list[i].line = LegLine(list, marks, m + 1)
    BY <1>1, <2>1, NextLeg
  <2>3. m \in 1 .. n - 2
    BY <1>1, <2>2
  <2> QED
    BY <2>1, <2>2, <2>3 DEF Legs, Aboard
<1> QED
  BY <1>2, <1>3

LEMMA SameLineOnTheWay ==
    ASSUME NEW list \in Seq(Entries), NEW n \in Nat \ {0}, NEW marks, Legs(list, marks, n),
           NEW i \in 2 .. Len(list), NEW stops \in Seq(Calls), stops # << >>,
           OnTheWay(list, marks, i - 1, stops, list[i].line)
    PROVE  /\ OnTheWay(list, marks, i, Append(stops, CallAt(list, i)), list[i].line)
           /\ Append(stops, CallAt(list, i)) # << >>
           /\ Append(stops, CallAt(list, i))[1] = stops[1]
<1>1. PICK k \in Nat \ {0} : k = Len(stops)
  OBVIOUS
<1>2. PICK longer : longer = Append(stops, CallAt(list, i))
  OBVIOUS
<1>3. /\ CallAt(list, i) \in Calls
      /\ CallAt(list, i).id = list[i].stop /\ CallAt(list, i).departure = list[i].departure
      /\ CallAt(list, i).arrival = list[i].arrival
  BY CallIs DEF CallAt
<1>4. /\ longer \in Seq(Calls) /\ Len(longer) = k + 1 /\ DOMAIN longer = 1 .. k + 1
      /\ DOMAIN stops = 1 .. k /\ longer # << >>
      /\ \A j \in 1 .. k : longer[j] = stops[j]
      /\ longer[k + 1] = CallAt(list, i) /\ LastCall(longer) = CallAt(list, i)
      /\ longer[1] = stops[1] /\ LastCall(stops) = stops[k]
  BY <1>1, <1>2, <1>3 DEF LastCall
<1>5. PICK m \in DOMAIN marks :
        /\ marks[m] <= i - 1
        /\ \/ Afoot(list, marks, m, i - 1, stops, list[i].line)
           \/ Aboard(list, marks, m, i - 1, stops, list[i].line)
  BY DEF OnTheWay
<1>6. marks[m] \in Nat /\ m \in Nat
  BY MarkFacts
<1>7. CASE Afoot(list, marks, m, i - 1, stops, list[i].line)
  <2>1. /\ m + 1 \in DOMAIN marks /\ marks[m + 1] = i
        /\ Walkable(list[i - 1].stop, list[i].stop)
    BY <1>7, NextLeg DEF Afoot
  <2>2. \A j \in 1 .. Len(longer) - 1 : Walkable(longer[j].id, longer[j + 1].id)
    <3> SUFFICES ASSUME NEW j \in 1 .. k
                 PROVE  Walkable(longer[j].id, longer[j + 1].id)
      BY <1>4
    <3>1. CASE j = k
      <4>1. longer[j].id = list[i - 1].stop /\ longer[j + 1].id = list[i].stop
        BY <1>3, <1>4, <1>7, <3>1 DEF Afoot
      <4> QED
        BY <2>1, <4>1
    <3>2. CASE j # k
      <4>1. j \in 1 .. Len(stops) - 1 /\ j + 1 \in 1 .. k
        BY <1>1, <3>2
      <4>2. longer[j] = stops[j] /\ longer[j + 1] = stops[j + 1]
        BY <1>4, <4>1
      <4> QED
        BY <1>7, <4>1, <4>2 DEF Afoot
    <3> QED
      BY <3>1, <3>2
  <2>3. Afoot(list, marks, m + 1, i, longer, list[i].line)
    BY <1>3, <1>4, <1>7, <2>1, <2>2 DEF Afoot
  <2>4. OnTheWay(list, marks, i, longer, list[i].line)
    BY <2>1, <2>3 DEF OnTheWay
  <2> QED
    BY <1>2, <1>4, <2>4
<1>8. CASE Aboard(list, marks, m, i - 1, stops, list[i].line)
  <2>1. i <= marks[m + 1]
    BY <1>5, <1>8, OnVehicle
  <2>2. Len(longer) = i - marks[m] + 1 /\ marks[m] + (k + 1) - 1 = i
    <3>1. k = (i - 1) - marks[m] + 1
      BY <1>1, <1>8 DEF Aboard
    <3>2. i \in Nat /\ Len(longer) = k + 1
      BY <1>4
    <3> QED
      BY <1>6, <3>1, <3>2
  <2>3. \A j \in DOMAIN longer : longer[j].id = list[marks[m] + j - 1].stop
    <3> SUFFICES ASSUME NEW j \in 1 .. k + 1
                 PROVE  longer[j].id = list[marks[m] + j - 1].stop
      BY <1>4
    <3>1. CASE j = k + 1
      BY <1>3, <1>4, <2>2, <3>1
    <3>2. CASE j # k + 1
      <4>1. j \in DOMAIN stops /\ longer[j] = stops[j]
        BY <1>4, <3>2
      <4> QED
        BY <1>8, <4>1 DEF Aboard
    <3> QED
      BY <3>1, <3>2
  <2>4. /\ m + 1 \in DOMAIN marks /\ list[i].line = LegLine(list, marks, m)
        /\ list[i].line # WALKING_TRANSFER
        /\ longer[1].departure = list[marks[m]].departure
        /\ LastCall(longer).arrival = list[i].arrival
    BY <1>3, <1>4, <1>8 DEF Aboard
  <2>5. Aboard(list, marks, m, i, longer, list[i].line)
    BY <2>1, <2>2, <2>3, <2>4 DEF Aboard
  <2>6. marks[m] <= i
    BY <1>5, <1>6
  <2>7. OnTheWay(list, marks, i, longer, list[i].line)
    BY <2>5, <2>6 DEF OnTheWay
  <2> QED
    BY <1>2, <1>4, <2>7
<1> QED
  BY <1>5, <1>7, <1>8

\* Who changes has walked, or has been taken by a service to where it was left.
LEMMA TransitDone ==
    ASSUME NEW list \in Seq(Entries), NEW n \in Nat \ {0}, NEW marks, Legs(list, marks, n),
           NEW m \in DOMAIN marks, NEW k \in DOMAIN list, marks[m] <= k,
           NEW progress \in Progress, progress.stops # << >>,
           \/ Afoot(list, marks, m, k, progress.stops, progress.line)
           \/ Aboard(list, marks, m, k, progress.stops, progress.line) /\ k = marks[m + 1]
    PROVE  /\ IsWalk(TransitOf(progress)) \/ IsRide(TransitOf(progress))
           /\ LastCall(progress.stops).id = list[k].stop
<1>1. PICK stops \in Seq(Calls) : stops = progress.stops
  BY DEF Progress
<1>2. PICK transit : transit = TransitOf(progress)
  OBVIOUS
<1>3. transit.stops = stops /\ transit.line = progress.line /\ stops # << >>
  BY <1>1, <1>2 DEF TransitOf
<1>4. CASE Afoot(list, marks, m, k, stops, progress.line)
  <2>1. IsWalk(transit)
    BY <1>3, <1>4 DEF Afoot, IsWalk
  <2> QED
    BY <1>1, <1>2, <1>4, <2>1 DEF Afoot
<1>5. CASE Aboard(list, marks, m, k, stops, progress.line) /\ k = marks[m + 1]
  <2>1. /\ m \in 1 .. n - 1 /\ marks[m] \in Nat /\ marks[m + 1] \in Nat /\ marks[m] < marks[m + 1]
    BY <1>5, MarkFacts DEF Aboard
  <2>2. PICK first \in Nat : first = marks[m]
    BY <2>1
  <2>3. /\ list[k].line = progress.line /\ progress.line # WALKING_TRANSFER
        /\ Ridden(list, first, k)
    BY <1>5, <2>1, <2>2 DEF Legs, Aboard, LegLine
  <2>4. /\ Len(stops) = k - first + 1 /\ k \in Nat /\ first < k
        /\ \A j \in DOMAIN stops : stops[j].id = list[first + j - 1].stop
        /\ stops[1].departure = list[first].departure
        /\ LastCall(stops).arrival = list[k].arrival
    BY <1>5, <2>1, <2>2 DEF Aboard
  <2>5. PICK trip \in Services(timetable.lines[progress.line], list[first].stop) :
          /\ k - first + 1 <= Len(trip.stops)
          /\ \A x \in first .. k : list[x].stop = trip.stops[x - first + 1]
          /\ list[first].departure = trip.departure
          /\ list[k].arrival = Visits(trip)[k - first + 1].time
    BY <2>3 DEF Ridden
  <2>6. \A j \in DOMAIN stops : stops[j].id = trip.stops[j]
    <3> SUFFICES ASSUME NEW j \in 1 .. k - first + 1
                 PROVE  stops[j].id = trip.stops[j]
      BY <2>4
    <3>1. first + j - 1 \in first .. k /\ (first + j - 1) - first + 1 = j /\ j \in DOMAIN stops
      BY <2>4
    <3>2. stops[j].id = list[first + j - 1].stop
      BY <2>4, <3>1
    <3>3. list[first + j - 1].stop = trip.stops[(first + j - 1) - first + 1]
      BY <2>5, <3>1
    <3> QED
      BY <3>1, <3>2, <3>3
  <2>7. 1 \in DOMAIN stops /\ FirstOf(transit).id = list[first].stop
    <3>1. 1 \in DOMAIN stops /\ first + 1 - 1 = first
      BY <2>4
    <3>2. stops[1].id = list[first + 1 - 1].stop
      BY <2>4, <3>1
    <3> QED
      BY <1>3, <3>1, <3>2 DEF FirstOf
  <2>8. LastOf(transit).arrival = Visits(trip)[Len(stops)].time
    BY <1>3, <2>4, <2>5 DEF LastOf, LastCall
  <2>9. FirstOf(transit).departure = trip.departure
    BY <1>3, <2>4, <2>5 DEF FirstOf
  <2>10. Len(stops) <= Len(trip.stops)
    BY <2>4, <2>5
  <2>11. IsRide(transit)
    BY <1>3, <2>5, <2>6, <2>7, <2>8, <2>9, <2>10 DEF IsRide
  <2>12. LastCall(stops).id = list[k].stop
    <3>1. Len(stops) \in DOMAIN stops /\ first + Len(stops) - 1 = k
      BY <1>3, <2>4
    <3> QED
      BY <2>4, <3>1 DEF LastCall
  <2> QED
    BY <1>1, <1>2, <2>11, <2>12
<1> QED
  BY <1>1, <1>4, <1>5

LEMMA BoardedCalls ==
    ASSUME NEW call \in Calls, NEW second \in Calls
    PROVE  \E stops \in Seq(Calls) :
             /\ stops = Append(<< call >>, second)
             /\ Len(stops) = 2 /\ DOMAIN stops = {1, 2} /\ stops # << >>
             /\ stops[1] = call /\ stops[2] = second /\ LastCall(stops) = second
<1>1. << call >> \in Seq(Calls)
  OBVIOUS
<1>2. Append(<< call >>, second) \in Seq(Calls)
  BY <1>1
<1>3. PICK stops \in Seq(Calls) : stops = Append(<< call >>, second)
  BY <1>2
<1>4. /\ Len(stops) = 2 /\ DOMAIN stops = {1, 2} /\ stops # << >>
      /\ stops[1] = call /\ stops[2] = second
  BY <1>3
<1> QED
  BY <1>3, <1>4 DEF LastCall

\* The next transit begins where the last one ends, or one can walk from there.
LEMMA OtherLineOnTheWay ==
    ASSUME NEW list \in Seq(Entries), NEW n \in Nat \ {0}, NEW marks, Legs(list, marks, n),
           NEW i \in 2 .. Len(list), NEW p \in DOMAIN marks, marks[p] = i - 1,
           NEW line, line = IF Waits(list, i) THEN list[i + 1].line ELSE list[i].line
    PROVE  \E stops : /\ stops = Append(BoardedAt(list, i), CallAt(list, i))
                     /\ stops # << >> /\ OnTheWay(list, marks, i, stops, line)
                     /\ Walkable(list[i - 1].stop, stops[1].id)
<1>1. /\ p \in 1 .. n - 1 /\ p + 1 \in DOMAIN marks /\ i <= marks[p + 1]
      /\ list[i].line = LegLine(list, marks, p)
      /\ list[i].line = WALKING_TRANSFER =>
            marks[p + 1] = i /\ Walkable(list[i - 1].stop, list[i].stop)
  BY NextLeg
<1>2. i \in DOMAIN list /\ i - 1 \in DOMAIN list
  OBVIOUS
<1>3. /\ CallAt(list, i) \in Calls
      /\ CallAt(list, i).id = list[i].stop /\ CallAt(list, i).departure = list[i].departure
      /\ CallAt(list, i).arrival = list[i].arrival
      /\ list[i - 1] \in Entries
  BY <1>2, CallIs DEF CallAt
<1>4. CASE list[i].line = WALKING_TRANSFER
  <2>1. PICK stops : stops = << CallAt(list, i) >>
    OBVIOUS
  <2>4. stops = Append(BoardedAt(list, i), CallAt(list, i)) /\ stops # << >>
        /\ stops[1].id = list[i].stop
    BY <1>3, <1>4, <2>1 DEF BoardedAt
  <2>2. line = IF (p + 1) + 1 \in DOMAIN marks THEN LegLine(list, marks, p + 1)
               ELSE WALKING_TRANSFER
    <3>1. CASE i < Len(list)
      <4>1. i + 1 \in 2 .. Len(list) /\ marks[p + 1] = (i + 1) - 1
        BY <1>1, <1>4, <3>1
      <4>2. (p + 1) + 1 \in DOMAIN marks /\ list[i + 1].line = LegLine(list, marks, p + 1)
        BY <1>1, <4>1, NextLeg
      <4> QED
        BY <1>4, <3>1, <4>2 DEF Waits
    <3>2. CASE ~ i < Len(list)
      <4>1. i = Len(list)
        BY <3>2
      <4>2. ~ (p + 1) + 1 \in DOMAIN marks
        <5>1. marks[p + 1] = Len(list)
          BY <1>1, <1>4, <4>1
        <5>2. ASSUME (p + 1) + 1 \in DOMAIN marks
              PROVE  FALSE
          <6>1. marks[p + 1] < marks[(p + 1) + 1] /\ marks[(p + 1) + 1] \in DOMAIN list
            BY <1>1, <5>2, MarkFacts
          <6> QED
            BY <5>1, <6>1
        <5> QED
          BY <5>2
      <4> QED
        BY <1>4, <3>2, <4>2 DEF Waits
    <3> QED
      BY <3>1, <3>2
  <2>3. OnTheWay(list, marks, i, << CallAt(list, i) >>, line)
    BY <1>1, <1>4, <2>2, AtMark
  <2>5. OnTheWay(list, marks, i, stops, line)
    BY <2>1, <2>3
  <2> QED
    BY <1>1, <1>4, <2>4, <2>5
<1>5. CASE list[i].line # WALKING_TRANSFER
  <2>1. PICK call : call = [ id |-> list[i - 1].stop, arrival |-> list[i - 1].departure,
                             departure |-> list[i - 1].departure ]
    OBVIOUS
  <2>2. call.id = list[i - 1].stop /\ call.departure = list[i - 1].departure
    BY <2>1
  <2>3. call \in Calls
    BY <1>3, <2>1 DEF Entries, Calls
  <2>4. PICK stops \in Seq(Calls) :
          /\ stops = Append(<< call >>, CallAt(list, i))
          /\ Len(stops) = 2 /\ DOMAIN stops = {1, 2} /\ stops # << >>
          /\ stops[1] = call /\ stops[2] = CallAt(list, i) /\ LastCall(stops) = CallAt(list, i)
    BY <1>3, <2>3, BoardedCalls, Zenon
  <2>11. BoardedAt(list, i) = << call >>
    BY <1>5, <2>1 DEF BoardedAt
  <2>12. stops = Append(BoardedAt(list, i), CallAt(list, i))
    BY <2>4, <2>11
  <2>5. line = list[i].line
    BY <1>5 DEF Waits
  <2>6. \A j \in DOMAIN stops : stops[j].id = list[marks[p] + j - 1].stop
    <3>1. marks[p] + 1 - 1 = i - 1 /\ marks[p] + 2 - 1 = i
      OBVIOUS
    <3> QED
      BY <1>3, <2>2, <2>4, <3>1
  <2>7. Len(stops) = i - marks[p] + 1 /\ marks[p] <= i
    BY <2>4
  <2>8. Aboard(list, marks, p, i, stops, line)
    BY <1>1, <1>3, <1>5, <2>2, <2>4, <2>5, <2>6, <2>7 DEF Aboard
  <2>9. OnTheWay(list, marks, i, stops, line)
    BY <2>7, <2>8 DEF OnTheWay
  <2>10. Walkable(list[i - 1].stop, stops[1].id)
    BY <2>2, <2>4 DEF Walkable
  <2> QED
    BY <2>4, <2>9, <2>10, <2>12
<1> QED
  BY <1>4, <1>5

\* A route entered up to an entry of its list.
EntriesOnTheWay(list, marks, n, k, progress) ==
    /\ progress \in Progress
    /\ k = 0 => progress = FirstEntry(list)
    /\ k # 0 => WayTaken(list, marks, k, progress)

LEMMA FirstOnTheWay ==
    ASSUME NEW list \in Seq(Entries), NEW n \in Nat \ {0}, NEW marks, Legs(list, marks, n),
           NEW next, next = EntryNext(list, FirstEntry(list), 1)
    PROVE  EntriesOnTheWay(list, marks, n, 1, next)
<1>1. 1 \in DOMAIN list /\ list[1] \in Entries /\ 1 \in DOMAIN marks /\ marks[1] = 1
      /\ DOMAIN marks = 1 .. n
  <2>1. marks[1] \in 1 .. Len(list) /\ marks[1] = 1 /\ DOMAIN marks = 1 .. n
    BY DEF Legs
  <2>2. 1 \in DOMAIN list
    BY <2>1
  <2> QED
    BY <2>1, <2>2
<1>2. FirstEntry(list) \in Progress
  BY <1>1 DEF FirstEntry, Progress, Entries
<1>3. /\ FirstEntry(list).segments = << >> /\ FirstEntry(list).stops = << >>
      /\ FirstEntry(list).line = list[1].line
  BY DEF FirstEntry
<1>4. /\ next \in Progress /\ next.segments = << >> /\ next.line = list[1].line
      /\ next.stops = << CallAt(list, 1) >>
  <2>1. PICK first \in Progress : first = FirstEntry(list)
    BY <1>2
  <2>2. /\ next \in Progress /\ next.segments = << >> /\ next.line = list[1].line
        /\ next.stops = Append(<< >>, CallAt(list, 1))
    BY <1>1, <1>3, <2>1, EntryOnSameLine DEF EntryNext
  <2> QED
    BY <2>2
<1>5. next.line = IF 1 + 1 \in DOMAIN marks THEN LegLine(list, marks, 1) ELSE WALKING_TRANSFER
  <2>1. 1 + 1 \in DOMAIN marks <=> n > 1
    BY <1>1
  <2> QED
    BY <1>4, <2>1 DEF Legs
<1>6. OnTheWay(list, marks, 1, next.stops, next.line)
  BY <1>1, <1>4, <1>5, AtMark
<1>7. next.stops # << >> /\ next.stops[1].id = list[1].stop
  BY <1>4 DEF CallAt
<1>8. SegmentsJoin(next.segments, list[1].stop, next.stops[1].id)
  BY <1>4, <1>7 DEF SegmentsJoin
<1> QED
  BY <1>4, <1>6, <1>7, <1>8 DEF EntriesOnTheWay, WayTaken

LEMMA EntryOnTheWay ==
    ASSUME NEW list \in Seq(Entries), NEW n \in Nat \ {0}, NEW marks, Legs(list, marks, n),
           NEW i \in 2 .. Len(list), NEW progress \in Progress,
           WayTaken(list, marks, i - 1, progress),
           NEW next, next = EntryNext(list, progress, i)
    PROVE  EntriesOnTheWay(list, marks, n, i, next)
<1>1. i \in DOMAIN list /\ i - 1 \in DOMAIN list /\ i # 0
  OBVIOUS
<1>2. PICK stops \in Seq(Calls) : stops = progress.stops
  BY DEF Progress
<1>3. stops # << >>
  BY <1>2 DEF WayTaken
<1>4. CASE list[i].line = progress.line
  <2>1. /\ next \in Progress /\ next.segments = progress.segments
        /\ next.line = progress.line /\ next.stops = Append(progress.stops, CallAt(list, i))
    BY <1>1, <1>4, EntryOnSameLine DEF EntryNext
  <2>2. OnTheWay(list, marks, i - 1, stops, list[i].line)
    BY <1>2, <1>4 DEF WayTaken
  <2>3. /\ OnTheWay(list, marks, i, next.stops, next.line)
        /\ next.stops # << >> /\ next.stops[1] = progress.stops[1]
    BY <1>2, <1>3, <1>4, <2>1, <2>2, SameLineOnTheWay
  <2>4. WayTaken(list, marks, i, next)
    BY <2>1, <2>3 DEF WayTaken
  <2> QED
    BY <1>1, <2>1, <2>4 DEF EntriesOnTheWay
<1>5. CASE list[i].line # progress.line
  <2>1. /\ next \in Progress
        /\ ClosedWith(progress.segments, TransitOf(progress), next.segments)
        /\ next.line = IF Waits(list, i) THEN list[i + 1].line ELSE list[i].line
        /\ next.stops = Append(BoardedAt(list, i), CallAt(list, i))
    BY <1>5, EntryOnOtherLine DEF EntryNext
  <2>2. PICK m \in DOMAIN marks :
          /\ marks[m] <= i - 1
          /\ \/ Afoot(list, marks, m, i - 1, stops, progress.line)
             \/ Aboard(list, marks, m, i - 1, stops, progress.line)
    BY <1>2 DEF WayTaken, OnTheWay
  <2>3. Aboard(list, marks, m, i - 1, stops, progress.line) => i - 1 = marks[m + 1]
    BY <1>3, <1>5, <2>2, OnVehicle
  <2>4. /\ IsWalk(TransitOf(progress)) \/ IsRide(TransitOf(progress))
        /\ LastCall(progress.stops).id = list[i - 1].stop
    <3>1. \/ Afoot(list, marks, m, i - 1, progress.stops, progress.line)
          \/ /\ Aboard(list, marks, m, i - 1, progress.stops, progress.line)
             /\ i - 1 = marks[m + 1]
      BY <1>2, <2>2, <2>3
    <3>2. PICK k \in DOMAIN list : k = i - 1
      BY <1>1
    <3>3. marks[m] <= k /\ progress.stops # << >>
      BY <1>2, <1>3, <2>2, <3>2
    <3>4. \/ Afoot(list, marks, m, k, progress.stops, progress.line)
          \/ Aboard(list, marks, m, k, progress.stops, progress.line) /\ k = marks[m + 1]
      BY <3>1, <3>2
    <3>5. /\ IsWalk(TransitOf(progress)) \/ IsRide(TransitOf(progress))
          /\ LastCall(progress.stops).id = list[k].stop
      <4>1. CASE Afoot(list, marks, m, k, progress.stops, progress.line)
        BY <3>3, <4>1, TransitDone
      <4>2. CASE /\ Aboard(list, marks, m, k, progress.stops, progress.line)
                 /\ k = marks[m + 1]
        BY <3>3, <4>2, TransitDone
      <4> QED
        BY <3>4, <4>1, <4>2
    <3> QED
      BY <3>2, <3>5
  <2>5. \E p \in DOMAIN marks : marks[p] = i - 1
    <3>1. CASE Afoot(list, marks, m, i - 1, stops, progress.line)
      BY <3>1 DEF Afoot
    <3>2. CASE Aboard(list, marks, m, i - 1, stops, progress.line)
      BY <2>3, <3>2 DEF Aboard
    <3> QED
      BY <2>2, <3>1, <3>2
  <2>6. /\ next.stops # << >> /\ OnTheWay(list, marks, i, next.stops, next.line)
        /\ Walkable(list[i - 1].stop, next.stops[1].id)
    <3>1. PICK p \in DOMAIN marks : marks[p] = i - 1
      BY <2>5
    <3>2. PICK line : line = IF Waits(list, i) THEN list[i + 1].line ELSE list[i].line
      OBVIOUS
    <3>3. \E stops_i : /\ stops_i = Append(BoardedAt(list, i), CallAt(list, i))
                      /\ stops_i # << >> /\ OnTheWay(list, marks, i, stops_i, line)
                      /\ Walkable(list[i - 1].stop, stops_i[1].id)
      BY <3>1, <3>2, OtherLineOnTheWay
    <3> QED
      BY <2>1, <3>2, <3>3, Zenon
  <2>7. PICK segments \in Seq(TransitSegment \cup TransferSegment) : segments = progress.segments
    BY DEF Progress
  <2>8. PICK closed \in Seq(TransitSegment \cup TransferSegment) : closed = next.segments
    BY <2>1 DEF Progress
  <2>9. PICK transit : transit = TransitOf(progress)
    OBVIOUS
  <2>10. transit.type = "transit" /\ transit.stops = stops
    BY <1>2, <2>9 DEF TransitOf
  <2>11. SegmentsJoin(segments, list[1].stop, transit.stops[1].id)
    BY <1>2, <2>7, <2>10 DEF WayTaken
  <2>12. SegmentsJoin(closed, list[1].stop, next.stops[1].id)
    <3>1. ClosedWith(segments, transit, closed) /\ (IsWalk(transit) \/ IsRide(transit))
      BY <2>1, <2>4, <2>7, <2>8, <2>9
    <3>2. Walkable(LastCall(transit.stops).id, next.stops[1].id)
      BY <1>2, <2>4, <2>6, <2>10
    <3> QED
      BY <1>3, <2>10, <2>11, <3>1, <3>2, ClosedJoin
  <2>13. WayTaken(list, marks, i, next)
    BY <2>6, <2>8, <2>12 DEF WayTaken
  <2> QED
    BY <1>1, <2>1, <2>13 DEF EntriesOnTheWay
<1> QED
  BY <1>4, <1>5

\* wherever the marks are
TravelledBy(list, k, progress) ==
    \A n \in Nat \ {0} : \A marks :
        Legs(list, marks, n) => EntriesOnTheWay(list, marks, n, k, progress)

Travelling == INSTANCE Folding WITH Step <- EntryNext, Keeps <- TravelledBy

LEMMA RouteTravelled ==
    ASSUME NEW list \in Seq(Entries), list # << >>
    PROVE  TravelledBy(list, Len(list),
                       Travelling!Fold(list, FirstEntry(list), [ i \in DOMAIN list |-> i ]))
<1>1. PICK n \in Nat \ {0} : n = Len(list)
  OBVIOUS
<1>2. PICK places : places = [ i \in DOMAIN list |-> i ]
  OBVIOUS
<1>3. /\ DOMAIN list = 1 .. n /\ DOMAIN places = 1 .. n /\ \A k \in 1 .. n : places[k] = k
      /\ 1 \in DOMAIN list /\ list[1] \in Entries
  BY <1>1, <1>2
<1>4. FirstEntry(list) \in Progress
  BY <1>3 DEF FirstEntry, Progress, Entries
<1>5. TravelledBy(list, 0, FirstEntry(list))
  BY <1>4 DEF TravelledBy, EntriesOnTheWay
<1>6. ASSUME NEW k \in 1 .. n, NEW value, TravelledBy(list, k - 1, value)
      PROVE  TravelledBy(list, k, EntryNext(list, value, places[k]))
  <2> SUFFICES ASSUME NEW legs \in Nat \ {0}, NEW marks, Legs(list, marks, legs)
               PROVE  EntriesOnTheWay(list, marks, legs, k, EntryNext(list, value, k))
    BY <1>3 DEF TravelledBy
  <2>1. EntriesOnTheWay(list, marks, legs, k - 1, value)
    BY <1>6 DEF TravelledBy
  <2>2. CASE k = 1
    <3>1. value = FirstEntry(list)
      BY <2>1, <2>2 DEF EntriesOnTheWay
    <3> QED
      BY <2>2, <3>1, FirstOnTheWay
  <2>3. CASE k # 1
    <3>1. k \in 2 .. Len(list) /\ k - 1 # 0
      BY <1>1, <2>3
    <3>2. value \in Progress /\ WayTaken(list, marks, k - 1, value)
      BY <2>1, <3>1 DEF EntriesOnTheWay
    <3> QED
      BY <3>1, <3>2, EntryOnTheWay
  <2> QED
    BY <2>2, <2>3
<1>7. TravelledBy(list, n, Travelling!Fold(list, FirstEntry(list), places))
  BY <1>3, <1>5, <1>6, Travelling!FoldKeeps
<1> QED
  BY <1>1, <1>2, <1>7

LEMMA EnteredTravelled ==
    ASSUME Unpacked \in Seq(Entries), Unpacked # << >>
    PROVE  TravelledBy(Unpacked, Len(Unpacked), Entered)
<1>1. Entered = Travelling!Fold(Unpacked, FirstEntry(Unpacked), [ i \in DOMAIN Unpacked |-> i ])
  BY Zenon DEF Entered, Entering!Fold, Entering!Latest, Travelling!Fold, Travelling!Latest
<1> QED
  BY <1>1, RouteTravelled

-----------------------------------------------------------------------------
(* Where the entries of the path are among those that are unpacked          *)

Laid(list, marks, n) ==
    /\ marks \in [1 .. n -> 1 .. Len(list)] /\ marks[1] = 1 /\ marks[n] = Len(list)
    /\ \A m \in 1 .. n : list[marks[m]] = Prepared[m]
    /\ \A m \in 1 .. n - 1 :
          /\ marks[m + 1] = marks[m] + 1 + Len(Between(m))
          /\ \A j \in 1 .. Len(Between(m)) : list[marks[m] + j] = Between(m)[j]

LEMMA JoinedIs ==
    ASSUME NEW before \in Seq(Entries), NEW passed \in Seq(Entries), NEW next \in Entries
    PROVE  LET all == Append(before \o passed, next)
           IN  /\ all \in Seq(Entries) /\ Len(all) = Len(before) + Len(passed) + 1
               /\ \A i \in 1 .. Len(before) : all[i] = before[i]
               /\ \A i \in 1 .. Len(passed) : all[Len(before) + i] = passed[i]
               /\ all[Len(before) + Len(passed) + 1] = next
<1>1. PICK n \in Nat : n = Len(before)
  OBVIOUS
<1>2. PICK m \in Nat : m = Len(passed)
  OBVIOUS
<1>3. PICK middle : middle = before \o passed
  OBVIOUS
<1>4. /\ middle \in Seq(Entries) /\ Len(middle) = n + m
      /\ \A i \in 1 .. n + m : middle[i] = IF i <= n THEN before[i] ELSE passed[i - n]
  <2>1. /\ before \o passed \in Seq(Entries)
        /\ Len(before \o passed) = Len(before) + Len(passed)
        /\ \A i \in 1 .. Len(before) + Len(passed) :
              (before \o passed)[i] = IF i <= Len(before) THEN before[i]
                                      ELSE passed[i - Len(before)]
    BY ConcatProperties
  <2> QED
    BY <1>1, <1>2, <1>3, <2>1
<1>5. PICK all : all = Append(middle, next)
  OBVIOUS
<1>6. /\ all \in Seq(Entries) /\ Len(all) = n + m + 1
      /\ \A i \in 1 .. n + m : all[i] = middle[i]
      /\ all[n + m + 1] = next
  BY <1>4, <1>5
<1>7. \A i \in 1 .. n : all[i] = before[i]
  <2>1. \A i \in 1 .. n : i \in 1 .. n + m /\ i <= n
    OBVIOUS
  <2> QED
    BY <1>4, <1>6, <2>1
<1>8. \A i \in 1 .. m : all[n + i] = passed[i]
  <2>1. \A i \in 1 .. m : n + i \in 1 .. n + m /\ ~ (n + i <= n) /\ (n + i) - n = i
    OBVIOUS
  <2> QED
    BY <1>4, <1>6, <2>1
<1> QED
  BY <1>1, <1>2, <1>3, <1>5, <1>6, <1>7, <1>8

LEMMA LaidFurther ==
    ASSUME NEW before \in Seq(Entries), NEW k \in Nat \ {0}, NEW marks, Laid(before, marks, k),
           \A j \in 1 .. k : Between(j) \in Seq(Entries),
           NEW passed \in Seq(Entries), passed = Between(k),
           NEW next \in Entries, next = Prepared[k + 1]
    PROVE  \E further : Laid(Append(before \o passed, next), further, k + 1)
<1>1. PICK n \in Nat : n = Len(before)
  OBVIOUS
<1>2. PICK m \in Nat : m = Len(passed)
  OBVIOUS
<1>3. PICK all : all = Append(before \o passed, next)
  OBVIOUS
<1>4. /\ Len(all) = n + m + 1
      /\ \A i \in 1 .. n : all[i] = before[i]
      /\ \A i \in 1 .. m : all[n + i] = passed[i]
      /\ all[n + m + 1] = next
  BY <1>1, <1>2, <1>3, JoinedIs
<1>5. /\ marks \in [1 .. k -> 1 .. n] /\ marks[1] = 1 /\ marks[k] = n
      /\ \A j \in 1 .. k : before[marks[j]] = Prepared[j]
      /\ \A j \in 1 .. k - 1 :
            /\ marks[j + 1] = marks[j] + 1 + Len(Between(j))
            /\ \A i \in 1 .. Len(Between(j)) : before[marks[j] + i] = Between(j)[i]
  BY <1>1 DEF Laid
<1>6. PICK further : further = [ j \in 1 .. k + 1 |-> IF j <= k THEN marks[j] ELSE n + m + 1 ]
  OBVIOUS
<1>7. /\ \A j \in 1 .. k : further[j] = marks[j] /\ marks[j] \in 1 .. n
      /\ further[k + 1] = n + m + 1 /\ further \in [1 .. k + 1 -> 1 .. n + m + 1]
  <2>1. \A j \in 1 .. k : j \in 1 .. k + 1 /\ j <= k /\ marks[j] \in 1 .. n
    BY <1>5
  <2>2. k + 1 \in 1 .. k + 1 /\ ~ (k + 1 <= k)
    OBVIOUS
  <2>3. \A j \in 1 .. k + 1 : (IF j <= k THEN marks[j] ELSE n + m + 1) \in 1 .. n + m + 1
    BY <1>5
  <2>4. \A j \in 1 .. k : further[j] = marks[j]
    BY <1>6, <2>1
  <2>5. further[k + 1] = n + m + 1
    BY <1>6, <2>2
  <2>6. further \in [1 .. k + 1 -> 1 .. n + m + 1]
    BY <1>6, <2>3
  <2> QED
    BY <2>1, <2>4, <2>5, <2>6
<1>8. further[1] = 1
  BY <1>5, <1>7
<1>9. ASSUME NEW j \in 1 .. k + 1
      PROVE  all[further[j]] = Prepared[j]
  <2>1. CASE j \in 1 .. k
    <3>1. further[j] = marks[j] /\ marks[j] \in 1 .. n
      BY <1>7, <2>1
    <3>2. all[marks[j]] = before[marks[j]] /\ before[marks[j]] = Prepared[j]
      BY <1>4, <1>5, <2>1, <3>1
    <3> QED
      BY <3>1, <3>2
  <2>2. CASE j = k + 1
    BY <1>4, <1>7, <2>2
  <2> QED
    BY <2>1, <2>2
<1>10. ASSUME NEW j \in 1 .. k
       PROVE  /\ further[j + 1] = further[j] + 1 + Len(Between(j))
              /\ \A i \in 1 .. Len(Between(j)) : all[further[j] + i] = Between(j)[i]
  <2>1. CASE j = k
    <3>1. further[j] = n /\ further[j + 1] = n + m + 1 /\ Between(j) = passed
      BY <1>5, <1>7, <2>1
    <3>2. n + m + 1 = n + 1 + m
      OBVIOUS
    <3> QED
      BY <1>2, <1>4, <3>1, <3>2
  <2>2. CASE j # k
    <3>1. j \in 1 .. k - 1 /\ j + 1 \in 1 .. k
      BY <2>2
    <3>2. /\ marks[j + 1] = marks[j] + 1 + Len(Between(j))
          /\ \A i \in 1 .. Len(Between(j)) : before[marks[j] + i] = Between(j)[i]
      BY <1>5, <3>1
    <3>3. further[j] = marks[j] /\ further[j + 1] = marks[j + 1]
      BY <1>7, <3>1
    <3>4. marks[j] \in 1 .. n /\ marks[j + 1] \in 1 .. n
      BY <1>7, <3>1
    <3>5. PICK l \in Nat : l = Len(Between(j))
      <4>1. Between(j) \in Seq(Entries)
        OBVIOUS
      <4> QED
        BY <4>1
    <3>6. PICK from \in 1 .. n : from = marks[j]
      BY <3>4
    <3>7. from + 1 + l \in 1 .. n
      BY <3>2, <3>4, <3>5, <3>6
    <3>8. ASSUME NEW i \in 1 .. l
          PROVE  from + i \in 1 .. n
      BY <3>7
    <3>9. \A i \in 1 .. l : all[from + i] = before[from + i]
      BY <1>4, <3>8
    <3> QED
      BY <3>2, <3>3, <3>5, <3>6, <3>9
  <2> QED
    BY <2>1, <2>2
<1>11. Laid(all, further, k + 1)
  <2>1. (k + 1) - 1 = k
    OBVIOUS
  <2>2. further \in [1 .. k + 1 -> 1 .. Len(all)] /\ further[k + 1] = Len(all)
    BY <1>4, <1>7
  <2> QED
    BY <1>8, <1>9, <1>10, <2>1, <2>2 DEF Laid
<1> QED
  BY <1>3, <1>11

\* the entries before the next one are laid out with it
LaidBy(context, k, unpacked) ==
    /\ unpacked \in Seq(Entries)
    /\ \E marks : Laid(Append(unpacked, context.path[k + 1]), marks, k + 1)

Laying == INSTANCE Folding WITH Step <- StopsNext, Keeps <- LaidBy

LEMMA UnpackedIsLaid ==
    ASSUME path \in Seq(Entries), path # << >>, PassedInPlace
    PROVE  /\ Unpacked \in Seq(Entries) /\ Unpacked # << >>
           /\ \E marks : Laid(Unpacked, marks, Len(path))
<1>1. PICK context : context = [lines |-> timetable.lines, path |-> Prepared]
  OBVIOUS
<1>2. context.lines = timetable.lines /\ context.path = Prepared
  BY <1>1
<1>3. Prepared \in Seq(Entries) /\ Len(Prepared) = Len(path)
  BY PreparedIs
<1>4. PICK n \in Nat : Len(path) = n + 1
  <2>1. Len(path) \in Nat \ {0}
    OBVIOUS
  <2>2. Len(path) - 1 \in Nat /\ Len(path) = (Len(path) - 1) + 1
    BY <2>1
  <2> QED
    BY <2>2
<1>5. PICK list : list = [ i \in 1 .. n |-> i ]
  OBVIOUS
<1>6. PICK prepared \in Seq(Entries) : prepared = Prepared
  BY <1>3
<1>7. Len(prepared) = n + 1 /\ DOMAIN prepared = 1 .. n + 1
  BY <1>3, <1>4, <1>6
<1>8. ASSUME NEW k \in 1 .. n, NEW value, LaidBy(context, k - 1, value)
      PROVE  LaidBy(context, k, StopsNext(context, value, list[k]))
  <2>1. PICK passed : passed = Between(k)
    OBVIOUS
  <2>2. list[k] = k /\ (k - 1) + 1 = k /\ k \in Nat \ {0} /\ Len(path) - 1 = n
    BY <1>4, <1>5
  <2>3. StopsNext(context, value, k) = Append(value, prepared[k]) \o passed
    BY <1>2, <1>6, <2>1 DEF StopsNext, Respond!AddIntermediateStops, Between
  <2>4. passed \in Seq(Entries) /\ \A j \in 1 .. k : Between(j) \in Seq(Entries)
    <3>1. \A j \in 1 .. n : Between(j) \in Seq(Entries)
      BY <2>2 DEF PassedInPlace
    <3>2. \A j \in 1 .. k : j \in 1 .. n
      OBVIOUS
    <3> QED
      BY <2>1, <3>1, <3>2
  <2>5. prepared[k] \in Entries /\ prepared[k + 1] \in Entries
    BY <1>7
  <2>6. value \in Seq(Entries) /\ \E marks : Laid(Append(value, prepared[k]), marks, k)
    BY <1>2, <1>6, <1>8, <2>2 DEF LaidBy
  <2>7. PICK before \in Seq(Entries) : before = Append(value, prepared[k])
    <3>1. value \in Seq(Entries)
      BY <2>6
    <3>2. Append(value, prepared[k]) \in Seq(Entries)
      BY <2>5, <3>1
    <3> QED
      BY <3>2
  <2>8. \E marks : Laid(Append(before \o passed, prepared[k + 1]), marks, k + 1)
    <3>1. PICK marks : Laid(before, marks, k)
      BY <2>6, <2>7
    <3>2. prepared[k + 1] = Prepared[k + 1]
      BY <1>6
    <3> QED
      BY <2>1, <2>2, <2>4, <2>5, <3>1, <3>2, LaidFurther
  <2>9. before \o passed \in Seq(Entries)
    BY <2>4
  <2>10. StopsNext(context, value, list[k]) = before \o passed
    BY <2>2, <2>3, <2>7
  <2>11. context.path = prepared
    BY <1>2, <1>6
  <2> QED
    BY <2>8, <2>9, <2>10, <2>11, Zenon DEF LaidBy
<1>9. LaidBy(context, 0, << >>)
  <2>1. PICK first \in Entries : first = prepared[1]
    BY <1>7
  <2>2. Append(<< >>, first) = << first >>
    OBVIOUS
  <2>3. Laid(<< first >>, [ j \in 1 .. 1 |-> 1 ], 1)
    <3>1. first = Prepared[1]
      BY <1>6, <2>1
    <3>2. Len(<< first >>) = 1 /\ << first >>[1] = first
      OBVIOUS
    <3>3. 1 .. 1 - 1 = {} /\ 1 \in 1 .. 1 /\ \A j \in 1 .. 1 : j = 1
      OBVIOUS
    <3> QED
      BY <3>1, <3>2, <3>3 DEF Laid
  <2>4. Append(<< >>, context.path[0 + 1]) = << first >> /\ 0 + 1 = 1
    BY <1>2, <1>6, <2>1, <2>2
  <2>5. << >> \in Seq(Entries)
    OBVIOUS
  <2> QED
    BY <2>3, <2>4, <2>5, Zenon DEF LaidBy
<1>10. LaidBy(context, n, Laying!Fold(context, << >>, list))
  <2>1. DOMAIN list = 1 .. n
    BY <1>5
  <2> QED
    BY <1>8, <1>9, <2>1, Laying!FoldKeeps
<1>11. PICK folded : folded = Laying!Fold(context, << >>, list)
  OBVIOUS
<1>12. Unpacked = Append(folded, prepared[n + 1])
  <2>1. Respond!UnpackPath(context.lines, context.path)
        = Append(Laying!Fold(context, << >>, [ i \in 1 .. Len(context.path) - 1 |-> i ]),
                 context.path[Len(context.path)])
    BY Zenon DEF Respond!UnpackPath, Respond!FoldLeft, Respond!MapThenFoldSet, Respond!Max,
                 Laying!Fold, Laying!Latest, StopsNext
  <2>2. Len(context.path) = n + 1 /\ Len(context.path) - 1 = n
    BY <1>2, <1>3, <1>4
  <2> QED
    BY <1>2, <1>5, <1>6, <1>11, <2>1, <2>2 DEF Unpacked
<1>13. folded \in Seq(Entries) /\ \E marks : Laid(Append(folded, prepared[n + 1]), marks, n + 1)
  BY <1>2, <1>6, <1>10, <1>11, Zenon DEF LaidBy
<1>14. prepared[n + 1] \in Entries
  BY <1>7
<1>15. Unpacked \in Seq(Entries) /\ Unpacked # << >>
  <2>1. Append(folded, prepared[n + 1]) \in Seq(Entries)
        /\ Append(folded, prepared[n + 1]) # << >>
    BY <1>13, <1>14
  <2> QED
    BY <1>12, <2>1
<1> QED
  BY <1>4, <1>12, <1>13, <1>15

-----------------------------------------------------------------------------
(* The vehicles of the path                                                 *)

Once(stops) == \A i, j \in DOMAIN stops : stops[i] = stops[j] => i = j

\* a vehicle that comes back to a stop is cut into lines that do not
ASSUME ServedOnceAssumption ==
    \A table \in TimeTables : \A id \in DOMAIN table.lines :
        Once(table.lines[id].stops)

\* a service of the line, from a stop on
ServiceOf(line, stop, trip) ==
    /\ trip \in Services(line, stop)
    /\ Offset(line, stop) \in 1 .. Len(line.stops) /\ line.stops \in Seq(Nat)
    /\ line.stops[Offset(line, stop)] = stop
    /\ trip.stops = SubSeq(line.stops, Offset(line, stop), Len(line.stops))

\* What a line hands out is one of its services, from the stop on.
LEMMA GetIsService ==
    ASSUME InputOK, NEW stop \in Stops, NEW time \in Seconds,
           NEW i \in DOMAIN timetable.stop_to_line[stop],
           NEW line, line = timetable.lines[timetable.stop_to_line[stop][i]],
           NEW trip \in Get(line, stop, time)
    PROVE  ServiceOf(line, stop, trip)
<1>1. PICK boarding : boarding = Offset(line, stop)
  OBVIOUS
<1>2. /\ Orderly(line) /\ boarding \in DOMAIN line.stops
      /\ \E j \in DOMAIN line.stops : line.stops[j] = stop
  BY <1>1, LineInOrder
<1>3. PICK d \in DOMAIN line.departures :
        trip = Service(line, boarding, d) /\ time <= trip.departure
  <2>1. \E d \in DOMAIN line.departures :
           trip = Service(line, Offset(line, stop), d) /\ time <= trip.departure
    BY <1>2, NoTripHasLeft
  <2> QED
    BY <1>1, <2>1
<1>4. trip = ServiceFrom(line, boarding, d)
  BY <1>2, <1>3, ServiceInTime
<1>5. trip \in Services(line, stop)
  BY <1>1, <1>4 DEF Services
<1>6. trip.stops = SubSeq(line.stops, boarding, Len(line.stops))
  BY <1>4 DEF ServiceFrom
<1>7. line.stops \in Seq(Nat)
  BY <1>2 DEF Orderly
<1>8. line.stops[boarding] = stop
  <2>1. PICK stops \in Seq(Nat) : stops = line.stops
    BY <1>7
  <2>2. \E first \in 1 .. Len(stops) : stops[first] = stop
                                       /\ \A j \in 1 .. first - 1 : stops[j] # stop
    <3>1. { k \in DOMAIN stops : stops[k] = stop } \subseteq Nat
          /\ { k \in DOMAIN stops : stops[k] = stop } # {}
      <4>1. \E j \in DOMAIN stops : stops[j] = stop
        BY <1>2, <2>1
      <4>2. DOMAIN stops \subseteq Nat
        OBVIOUS
      <4> QED
        BY <4>1, <4>2
    <3>2. PICK first \in { k \in DOMAIN stops : stops[k] = stop } :
            \A k \in { k \in DOMAIN stops : stops[k] = stop } : first <= k
      BY <3>1, LeastOfNumbers
    <3> QED
      BY <3>2
  <2> QED
    BY <1>1, <2>1, <2>2 DEF Offset
<1>9. boarding \in 1 .. Len(line.stops)
  <2>1. DOMAIN line.stops = 1 .. Len(line.stops)
    BY <1>7
  <2> QED
    BY <1>2, <2>1
<1> QED
  BY <1>1, <1>5, <1>6, <1>7, <1>8, <1>9, Zenon DEF ServiceOf

\* the stops between the first one and the one that is k - 1 stops after it
Cut(stops, n, first, k, ahead, rest, passed) ==
    /\ ahead = SubSeq(stops, first, n) /\ ahead # << >> /\ rest = Tail(ahead)
    /\ { i \in DOMAIN rest : rest[i] = stops[first + k - 1] } = {k - 1}
    /\ passed = SubSeq(rest, 1, k - 2) /\ Len(passed) = k - 2
    /\ \A j \in 1 .. k - 2 : passed[j] = stops[first + j]

LEMMA CutBetween ==
    ASSUME NEW stops \in Seq(Nat), NEW n \in Nat, n = Len(stops), Once(stops),
           NEW first \in Nat, 1 <= first, NEW k \in Nat, k >= 2, first + k - 1 <= n
    PROVE  \E ahead, rest, passed \in Seq(Nat) : Cut(stops, n, first, k, ahead, rest, passed)
<1>1. DOMAIN stops = 1 .. n /\ \A i \in 1 .. n : stops[i] \in Nat
  OBVIOUS
<1>10. PICK ahead : ahead = SubSeq(stops, first, n)
  OBVIOUS
<1>11. PICK rest : rest = Tail(ahead)
  OBVIOUS
<1>2. /\ ahead \in Seq(Nat) /\ Len(ahead) = n - first + 1
      /\ \A i \in 1 .. n - first + 1 : ahead[i] = stops[first + i - 1]
  <2>1. \A i \in first .. n : stops[i] \in Nat
    BY <1>1
  <2>2. first <= n /\ n \in Int /\ first \in Int
    OBVIOUS
  <2>3. /\ SubSeq(stops, first, n) \in Seq(Nat)
        /\ Len(SubSeq(stops, first, n)) = IF first <= n THEN n - first + 1 ELSE 0
        /\ \A i \in 1 .. n - first + 1 : SubSeq(stops, first, n)[i] = stops[first + i - 1]
    BY <2>1, <2>2, SubSeqProperties
  <2> QED
    BY <1>10, <2>2, <2>3
<1>3. ahead # << >>
  BY <1>2
<1>4. /\ rest \in Seq(Nat) /\ Len(rest) = n - first
      /\ \A i \in 1 .. n - first : rest[i] = ahead[i + 1]
  <2>1. /\ Tail(ahead) \in Seq(Nat) /\ Len(Tail(ahead)) = Len(ahead) - 1
        /\ \A i \in 1 .. Len(Tail(ahead)) : Tail(ahead)[i] = ahead[i + 1]
    BY <1>2, <1>3, HeadTailProperties
  <2> QED
    BY <1>2, <1>11, <2>1
<1>5. ASSUME NEW i \in 1 .. n - first
      PROVE  rest[i] = stops[first + i] /\ first + i \in 1 .. n
  <2>1. i + 1 \in 1 .. n - first + 1 /\ first + (i + 1) - 1 = first + i
    OBVIOUS
  <2> QED
    BY <1>2, <1>4, <2>1
<1>6. /\ k - 1 \in 1 .. n - first /\ first + (k - 1) = first + k - 1
      /\ DOMAIN rest = 1 .. n - first
  BY <1>4
<1>7. ASSUME NEW i \in 1 .. n - first, rest[i] = stops[first + k - 1]
      PROVE  i = k - 1
  <2>1. stops[first + i] = stops[first + k - 1] /\ first + i \in 1 .. n
    BY <1>5, <1>7
  <2>2. first + k - 1 \in 1 .. n
    OBVIOUS
  <2>3. first + i = first + k - 1
    BY <1>1, <2>1, <2>2 DEF Once
  <2> QED
    BY <2>3
<1>8. rest[k - 1] = stops[first + k - 1]
  BY <1>5, <1>6
<1>9. PICK m \in Nat : m = k - 2
  OBVIOUS
<1>12. \A j \in 1 .. m : rest[j] \in Nat /\ j \in 1 .. n - first
  <2>1. \A j \in 1 .. m : j \in 1 .. n - first
    BY <1>9
  <2>2. \A j \in DOMAIN rest : rest[j] \in Nat
    BY <1>4
  <2> QED
    BY <1>6, <2>1, <2>2
<1>13. PICK passed : passed = SubSeq(rest, 1, m)
  OBVIOUS
<1>14. passed \in Seq(Nat) /\ Len(passed) = m /\ \A j \in 1 .. m : passed[j] = rest[j]
  <2>1. /\ SubSeq(rest, 1, m) \in Seq(Nat)
        /\ Len(SubSeq(rest, 1, m)) = IF 1 <= m THEN m - 1 + 1 ELSE 0
        /\ \A j \in 1 .. m - 1 + 1 : SubSeq(rest, 1, m)[j] = rest[1 + j - 1]
    BY <1>12, SubSeqProperties
  <2>2. m - 1 + 1 = m /\ (IF 1 <= m THEN m - 1 + 1 ELSE 0) = m
    OBVIOUS
  <2>3. \A j \in 1 .. m : 1 + j - 1 = j
    OBVIOUS
  <2> QED
    BY <1>13, <2>1, <2>2, <2>3
<1>15. { i \in DOMAIN rest : rest[i] = stops[first + k - 1] } = {k - 1}
  BY <1>6, <1>7, <1>8
<1>16. \A j \in 1 .. m : passed[j] = stops[first + j]
  BY <1>5, <1>12, <1>14
<1>17. /\ passed = SubSeq(rest, 1, k - 2) /\ Len(passed) = k - 2
       /\ \A j \in 1 .. k - 2 : passed[j] = stops[first + j]
  BY <1>9, <1>13, <1>14, <1>16
<1>18. ahead \in Seq(Nat) /\ rest \in Seq(Nat) /\ passed \in Seq(Nat)
  BY <1>2, <1>4, <1>14
<1>19. Cut(stops, n, first, k, ahead, rest, passed)
  BY <1>3, <1>10, <1>11, <1>15, <1>17, Zenon DEF Cut
<1> QED
  BY <1>18, <1>19

\* the stops of a line between one and the one that is k - 1 stops after it
PassedBefore(line, from, to, first, k, passed) ==
    /\ passed = Respond!PassedStops(line, from, to)
    /\ Len(passed) = k - 2
    /\ \A j \in 1 .. k - 2 : passed[j] = line.stops[first + j]

\* The stops passed are those of the service, without the first and the last one.
LEMMA PassedOnTheRide ==
    ASSUME NEW line, line.stops \in Seq(Nat), Once(line.stops),
           NEW from, NEW to, from # to, NEW first \in Nat, first = Offset(line, from),
           first \in DOMAIN line.stops, line.stops[first] = from,
           NEW k \in Nat, 1 <= k, first + k - 1 <= Len(line.stops), line.stops[first + k - 1] = to
    PROVE  /\ k >= 2
           /\ \E passed \in Seq(Nat) : PassedBefore(line, from, to, first, k, passed)
<1>1. PICK stops \in Seq(Nat) : stops = line.stops
  OBVIOUS
<1>2. PICK n \in Nat : n = Len(stops)
  OBVIOUS
<1>3. 1 <= first /\ first + k - 1 <= n /\ first \in DOMAIN stops
  BY <1>1, <1>2
<1>4. k >= 2
  <2>1. k = 1 => first + k - 1 = first
    OBVIOUS
  <2> QED
    BY <2>1
<1>5. PICK ahead, rest, cut \in Seq(Nat) : Cut(stops, n, first, k, ahead, rest, cut)
  <2>1. Once(stops)
    BY <1>1
  <2> QED
    BY <1>2, <1>3, <1>4, <2>1, CutBetween
<1>6. /\ ahead = SubSeq(stops, first, n) /\ ahead # << >> /\ rest = Tail(ahead)
      /\ { i \in DOMAIN rest : rest[i] = stops[first + k - 1] } = {k - 1}
      /\ cut = SubSeq(rest, 1, k - 2) /\ Len(cut) = k - 2
      /\ \A j \in 1 .. k - 2 : cut[j] = stops[first + j]
  BY <1>5 DEF Cut
<1>8. Respond!Offset(line, from) = first
  BY DEF Respond!Offset, Offset
<1>9. Respond!StopsFrom(line, from) = ahead
  <2>1. from \in { line.stops[i] : i \in DOMAIN line.stops }
    OBVIOUS
  <2> QED
    BY <1>1, <1>2, <1>6, <1>8, <2>1, Zenon DEF Respond!StopsFrom
<1>10. PICK until : until = { i \in DOMAIN rest : rest[i] = to }
  OBVIOUS
<1>11. until = {k - 1}
  BY <1>1, <1>6, <1>10
<1>12. Respond!PassedStops(line, from, to)
       = IF until = {} THEN rest ELSE SubSeq(rest, 1, (CHOOSE i \in until : TRUE) - 1)
  <2>1. PICK tail : tail = IF ahead = << >> THEN << >> ELSE Tail(ahead)
    OBVIOUS
  <2>2. tail = rest
    BY <1>6, <2>1
  <2>3. Respond!PassedStops(line, from, to)
        = LET here == { i \in DOMAIN tail : tail[i] = to }
          IN  IF here = {} THEN tail ELSE SubSeq(tail, 1, (CHOOSE i \in here : TRUE) - 1)
    BY <1>9, <2>1 DEF Respond!PassedStops
  <2> QED
    BY <1>10, <2>2, <2>3, Zenon
<1>13. until # {} /\ (CHOOSE i \in until : TRUE) = k - 1
  BY <1>11
<1>14. Respond!PassedStops(line, from, to) = cut
  <2>1. (k - 1) - 1 = k - 2
    OBVIOUS
  <2> QED
    BY <1>6, <1>12, <1>13, <2>1
<1>15. PassedBefore(line, from, to, first, k, cut)
  BY <1>1, <1>6, <1>14 DEF PassedBefore
<1> QED
  BY <1>4, <1>15

\* the stops passed on the way to the next entry of the path
PassedTo(i) ==
    IF path[i + 1].line = WALKING_TRANSFER THEN << >>
    ELSE Respond!PassedStops(timetable.lines[path[i + 1].line], path[i].stop, path[i + 1].stop)

\* What is entered for them.
LEMMA BetweenIs ==
    ASSUME path \in Seq(Entries), NEW i \in 1 .. Len(path) - 1,
           NEW passed \in Seq(Nat), passed = PassedTo(i)
    PROVE  /\ Len(Between(i)) = Len(passed)
           /\ \A k \in 1 .. Len(passed) : /\ Between(i)[k].stop = passed[k]
                                          /\ Between(i)[k].line = path[i + 1].line
<1>1. i \in DOMAIN path /\ i + 1 \in DOMAIN path /\ i + 1 # 1
  OBVIOUS
<1>2. PICK from : from = Prepared[i]
  OBVIOUS
<1>3. PICK to : to = Prepared[i + 1]
  OBVIOUS
<1>4. /\ to.line = path[i + 1].line /\ to.stop = path[i + 1].stop
      /\ from.stop = path[i].stop
  BY <1>1, <1>2, <1>3, PreparedIs
<1>5. Between(i) = [ k \in DOMAIN passed |-> [ stop |-> passed[k], line |-> to.line,
                                               arrival |-> from.departure,
                                               departure |-> from.departure ] ]
  <2>1. PICK stops : stops = IF to.line = WALKING_TRANSFER THEN << >>
                             ELSE Respond!PassedStops(timetable.lines[to.line], from.stop, to.stop)
    OBVIOUS
  <2>2. Between(i) = [ k \in DOMAIN stops |-> [ stop |-> stops[k], line |-> to.line,
                                                arrival |-> from.departure,
                                                departure |-> from.departure ] ]
    BY <1>2, <1>3, <2>1 DEF Between, Respond!PassedEntries, Respond!OnFoot, WALKING_TRANSFER
  <2>3. stops = passed
    BY <1>4, <2>1 DEF PassedTo
  <2> QED
    BY <2>2, <2>3
<1>6. PICK n \in Nat : n = Len(passed)
  OBVIOUS
<1>7. PICK between : between = Between(i)
  OBVIOUS
<1>8. /\ DOMAIN passed = 1 .. n /\ between = [ k \in 1 .. n |-> between[k] ]
      /\ \A k \in 1 .. n : between[k] = [ stop |-> passed[k], line |-> to.line,
                                          arrival |-> from.departure,
                                          departure |-> from.departure ]
  BY <1>5, <1>6, <1>7
<1>9. Len(between) = n
  BY <1>8
<1>10. \A k \in 1 .. n : between[k].stop = passed[k] /\ between[k].line = to.line
  BY <1>8
<1> QED
  BY <1>4, <1>6, <1>7, <1>9, <1>10

\* a service goes from one entry of the path through what is passed to the next one
RunsBetween(i, trip, k) ==
    /\ trip \in Services(timetable.lines[path[i + 1].line], path[i].stop)
    /\ k >= 2 /\ k <= Len(trip.stops) /\ Len(Between(i)) = k - 2
    /\ trip.stops[1] = path[i].stop /\ trip.stops[k] = path[i + 1].stop
    /\ trip.departure = path[i + 1].departure /\ Visits(trip)[k].time = path[i + 1].arrival
    /\ \A j \in 1 .. k - 2 : /\ Between(i)[j].stop = trip.stops[j + 1]
                             /\ Between(i)[j].line = path[i + 1].line

LEMMA RideOfPath ==
    ASSUME PInv, pc = "done", path # << >>, NEW i \in 1 .. Len(path) - 1,
           path[i + 1].line # WALKING_TRANSFER
    PROVE  \E trip : \E k \in Nat : RunsBetween(i, trip, k)
<1>1. PICK here \in Stops : here = path[i].stop
  BY PathRides
<1>2. PICK there : there = path[i + 1].stop
  OBVIOUS
<1>3. PICK id : id = path[i + 1].line
  OBVIOUS
<1>4. PICK line : line = timetable.lines[id]
  OBVIOUS
<1>5. PICK s \in DOMAIN timetable.stop_to_line[here] : timetable.stop_to_line[here][s] = id
  BY <1>1, <1>3, PathRides
<1>6. /\ path[i].arrival \in Seconds /\ here # there
      /\ \E trip \in Get(line, here, path[i].arrival) :
            /\ trip.departure = path[i + 1].departure
            /\ \E k \in DOMAIN Visits(trip) :
                  Visits(trip)[k] = [stop |-> there, time |-> path[i + 1].arrival]
  BY <1>1, <1>2, <1>3, <1>4, PathRides
<1>7. PICK trip \in Get(line, here, path[i].arrival) :
         /\ trip.departure = path[i + 1].departure
         /\ \E k \in DOMAIN Visits(trip) :
               Visits(trip)[k] = [stop |-> there, time |-> path[i + 1].arrival]
  BY <1>6
<1>8. PICK k \in DOMAIN Visits(trip) :
        Visits(trip)[k] = [stop |-> there, time |-> path[i + 1].arrival]
  BY <1>7
<1>9. InputOK
  BY DEF PInv, IInv
<1>10. PICK first : first = Offset(line, here)
  OBVIOUS
<1>11. /\ trip \in Services(line, here)
       /\ first \in 1 .. Len(line.stops) /\ line.stops \in Seq(Nat)
       /\ line.stops[first] = here
       /\ trip.stops = SubSeq(line.stops, first, Len(line.stops))
  <2>1. line = timetable.lines[timetable.stop_to_line[here][s]]
    BY <1>4, <1>5
  <2>2. PICK time \in Seconds : time = path[i].arrival
    BY <1>6
  <2>3. trip \in Get(line, here, time)
    BY <1>7, <2>2
  <2>4. ServiceOf(line, here, trip)
    BY <1>9, <2>1, <2>3, GetIsService
  <2> QED
    BY <1>10, <2>4, Zenon DEF ServiceOf
<1>12. Once(line.stops)
  <2>1. timetable \in TimeTables /\ IsTimeTable(timetable)
    BY <1>9, InputTypes DEF InputOK
  <2>2. timetable.stop_to_line \in [Stops -> Seq(DOMAIN timetable.lines)]
    BY <2>1 DEF IsTimeTable
  <2>3. id \in DOMAIN timetable.lines
    BY <1>5, <2>2
  <2> QED
    BY <1>4, <2>1, <2>3, ServedOnceAssumption
<1>13. PICK n \in Nat : n = Len(line.stops)
  BY <1>11
<1>14. /\ trip.stops \in Seq(Nat) /\ Len(trip.stops) = n - first + 1
       /\ \A j \in 1 .. n - first + 1 : trip.stops[j] = line.stops[first + j - 1]
  <2>1. \A j \in first .. n : line.stops[j] \in Nat
    <3>1. \A j \in 1 .. Len(line.stops) : line.stops[j] \in Nat
      <4>1. PICK stops \in Seq(Nat) : stops = line.stops
        BY <1>11
      <4>2. \A j \in 1 .. Len(stops) : stops[j] \in Nat
        OBVIOUS
      <4> QED
        BY <4>1, <4>2
    <3>2. \A j \in first .. n : j \in 1 .. Len(line.stops)
      BY <1>11, <1>13
    <3> QED
      BY <3>1, <3>2
  <2>2. first \in Int /\ first <= n
    BY <1>11, <1>13
  <2>3. /\ SubSeq(line.stops, first, n) \in Seq(Nat)
        /\ Len(SubSeq(line.stops, first, n)) = IF first <= n THEN n - first + 1 ELSE 0
        /\ \A j \in 1 .. n - first + 1 :
              SubSeq(line.stops, first, n)[j] = line.stops[first + j - 1]
    BY <2>1, <2>2, SubSeqProperties
  <2> QED
    BY <1>11, <1>13, <2>2, <2>3
<1>15. /\ DOMAIN Visits(trip) = 1 .. Len(trip.stops)
       /\ \A j \in 1 .. Len(trip.stops) : Visits(trip)[j].stop = trip.stops[j]
  BY DEF Visits
<1>16. /\ k \in 1 .. n - first + 1 /\ k \in Nat /\ first \in Nat /\ trip.stops[k] = there
       /\ Visits(trip)[k].time = path[i + 1].arrival
  <2>1. k \in 1 .. Len(trip.stops) /\ Visits(trip)[k].stop = there
        /\ Visits(trip)[k].time = path[i + 1].arrival
    BY <1>8, <1>15
  <2>2. k \in 1 .. n - first + 1
    BY <1>14, <2>1
  <2>3. first \in Nat /\ k \in Nat
    BY <1>11, <2>2
  <2> QED
    BY <1>15, <2>1, <2>2, <2>3
<1>17. /\ first + k - 1 <= Len(line.stops) /\ 1 <= k /\ first \in DOMAIN line.stops
       /\ line.stops[first + k - 1] = there
  BY <1>11, <1>13, <1>14, <1>16
<1>18. k >= 2 /\ \E passed \in Seq(Nat) : PassedBefore(line, here, there, first, k, passed)
  BY <1>6, <1>10, <1>11, <1>12, <1>16, <1>17, PassedOnTheRide
<1>19. PICK passed \in Seq(Nat) :
         /\ passed = Respond!PassedStops(line, here, there)
         /\ Len(passed) = k - 2
         /\ \A j \in 1 .. k - 2 : passed[j] = line.stops[first + j]
  BY <1>18 DEF PassedBefore
<1>20. /\ Len(Between(i)) = k - 2
       /\ \A j \in 1 .. k - 2 : Between(i)[j].stop = passed[j] /\ Between(i)[j].line = id
  <2>1. path \in Seq(Entries)
    BY PathIsList
  <2>2. passed = PassedTo(i)
    BY <1>1, <1>2, <1>3, <1>4, <1>19 DEF PassedTo
  <2>3. /\ Len(Between(i)) = Len(passed)
        /\ \A j \in 1 .. Len(passed) : /\ Between(i)[j].stop = passed[j]
                                       /\ Between(i)[j].line = path[i + 1].line
    BY <2>1, <2>2, BetweenIs
  <2> QED
    BY <1>3, <1>19, <2>3
<1>21. \A j \in 1 .. k - 2 : passed[j] = trip.stops[j + 1]
  <2>1. \A j \in 1 .. k - 2 : j + 1 \in 1 .. n - first + 1 /\ first + (j + 1) - 1 = first + j
    BY <1>16
  <2> QED
    BY <1>14, <1>19, <2>1
<1>22. trip.stops[1] = here
  <2>1. 1 \in 1 .. n - first + 1 /\ first + 1 - 1 = first
    BY <1>16
  <2> QED
    BY <1>11, <1>14, <2>1
<1>23. k <= Len(trip.stops)
  BY <1>14, <1>16
<1>24. RunsBetween(i, trip, k)
  BY <1>1, <1>2, <1>3, <1>4, <1>7, <1>11, <1>16, <1>18, <1>20, <1>21, <1>22, <1>23
     DEF RunsBetween
<1> QED
  BY <1>16, <1>24

\* Nothing is entered for the stops passed on foot, and one can walk.
LEMMA WalkOfPath ==
    ASSUME PInv, pc = "done", path # << >>, NEW i \in 1 .. Len(path) - 1,
           path[i + 1].line = WALKING_TRANSFER
    PROVE  Len(Between(i)) = 0 /\ Walkable(path[i].stop, path[i + 1].stop)
<1>1. /\ DOMAIN path = 1 .. Len(path) /\ Len(path) \in Nat \ {0} /\ path \in Seq(PathEntry)
      /\ path \in Seq(Entries)
  BY LenProperties, PathIsList DEF PInv, IInv, SearchInv, TypeOK
<1>2. Len(Between(i)) = 0
  <2>0. << >> \in Seq(Nat)
    OBVIOUS
  <2>1. PICK passed \in Seq(Nat) : passed = << >>
    BY <2>0
  <2>2. passed = PassedTo(i)
    BY <2>1 DEF PassedTo
  <2>3. Len(Between(i)) = Len(passed)
    BY <1>1, <2>2, BetweenIs
  <2> QED
    BY <2>1, <2>3
<1>3. i \in DOMAIN path /\ i + 1 \in DOMAIN path
  BY <1>1
<1>4. PICK here : here = path[i].stop
  OBVIOUS
<1>5. PICK there : there = path[i + 1].stop
  OBVIOUS
<1>6. /\ path[i + 1] = Entry(there, heap.label[there])
      /\ there \in ReachedStops /\ here = heap.label[there].data.parent
      /\ LabelFits(there, heap.label[there])
  BY <1>1, <1>3, <1>4, <1>5 DEF PInv, PathInv, PathOfLabels, LabelsFit, Parent
<1>7. heap.label[there].data.line = WALKING_TRANSFER
  BY <1>6 DEF Entry
<1>8. here \in Stops
  <2>1. path[i] \in PathEntry
    BY <1>1, <1>3
  <2> QED
    BY <1>4, <2>1 DEF PathEntry
<1>9. Walkable(here, there)
  <2>1. CASE here = there
    BY <2>1 DEF Walkable
  <2>2. CASE here # there
    <3>1. WalkedTo(there, heap.label[there])
      BY <1>6, <1>7, <2>2 DEF LabelFits, StartedAt
    <3>2. PICK time : time = heap.label[there].data.departure
      OBVIOUS
    <3>3. PICK k \in DOMAIN Walks(here, time) : Walks(here, time)[k].stop = there
      BY <1>6, <3>1, <3>2 DEF WalkedTo
    <3>4. InputOK
      BY DEF PInv, IInv
    <3>5. k \in DOMAIN Walks(here, 0) /\ Walks(here, 0)[k].stop = there
      BY <1>8, <3>3, <3>4, FootpathFacts
    <3> QED
      BY <3>5 DEF Walkable
  <2> QED
    BY <2>1, <2>2
<1> QED
  BY <1>2, <1>4, <1>5, <1>9

\* What lies between two entries that a service connects has been ridden through.
LEMMA LegRidden ==
    ASSUME path \in Seq(Entries), path # << >>, NEW i \in 1 .. Len(path) - 1,
           NEW trip, NEW k \in Nat, RunsBetween(i, trip, k),
           NEW list \in Seq(Entries), NEW first \in Nat, NEW last \in Nat,
           list[first] = Prepared[i], list[last] = Prepared[i + 1],
           last = first + 1 + Len(Between(i)),
           \A j \in 1 .. Len(Between(i)) : list[first + j] = Between(i)[j]
    PROVE  /\ Ridden(list, first, last)
           /\ \A x \in first + 1 .. last : list[x].line = path[i + 1].line
<1>1. /\ i \in DOMAIN path /\ i + 1 \in DOMAIN path /\ i + 1 # 1 /\ i < Len(path)
      /\ Len(path) \in Nat
  OBVIOUS
<1>2. /\ list[first].stop = path[i].stop /\ list[first].departure = path[i + 1].departure
      /\ list[last].stop = path[i + 1].stop /\ list[last].arrival = path[i + 1].arrival
      /\ list[last].line = path[i + 1].line
  BY <1>1, PreparedIs
<1>3. /\ trip \in Services(timetable.lines[path[i + 1].line], path[i].stop)
      /\ k >= 2 /\ k <= Len(trip.stops) /\ Len(Between(i)) = k - 2
      /\ trip.stops[1] = path[i].stop /\ trip.stops[k] = path[i + 1].stop
      /\ trip.departure = path[i + 1].departure /\ Visits(trip)[k].time = path[i + 1].arrival
      /\ \A j \in 1 .. k - 2 : /\ Between(i)[j].stop = trip.stops[j + 1]
                               /\ Between(i)[j].line = path[i + 1].line
  BY DEF RunsBetween
<1>8. Len(Between(i)) = k - 2 /\ k >= 2
  BY <1>3
<1>4. last = first + k - 1 /\ last - first + 1 = k
  BY <1>8
<1>5. ASSUME NEW x \in first .. last
      PROVE  /\ list[x].stop = trip.stops[x - first + 1]
             /\ x # first => list[x].line = path[i + 1].line
  <2>1. CASE x = first
    <3>1. x - first + 1 = 1
      BY <2>1
    <3> QED
      BY <1>2, <1>3, <2>1, <3>1
  <2>2. CASE x = last
    BY <1>2, <1>3, <1>4, <2>2
  <2>3. CASE x # first /\ x # last
    <3>1. PICK j \in Nat : j = x - first
      OBVIOUS
    <3>2. j \in 1 .. k - 2 /\ first + j = x /\ x - first + 1 = j + 1
      BY <1>4, <2>3, <3>1
    <3>3. list[x] = Between(i)[j]
      BY <1>3, <3>2
    <3> QED
      BY <1>3, <3>2, <3>3
  <2> QED
    BY <2>1, <2>2, <2>3
<1>6. Ridden(list, first, last)
  <2>1. /\ trip \in Services(timetable.lines[list[last].line], list[first].stop)
        /\ last - first + 1 <= Len(trip.stops)
        /\ list[first].departure = trip.departure
        /\ list[last].arrival = Visits(trip)[last - first + 1].time
    BY <1>2, <1>3, <1>4
  <2>2. \A x \in first .. last : list[x].stop = trip.stops[x - first + 1]
    BY <1>5
  <2> QED
    BY <2>1, <2>2, Zenon DEF Ridden
<1>7. \A x \in first + 1 .. last : x \in first .. last /\ x # first
  OBVIOUS
<1> QED
  BY <1>5, <1>6, <1>7

LEMMA LegsLaid ==
    ASSUME PInv, pc = "done", path # << >>, ~ RidesOn,
           NEW list \in Seq(Entries), NEW n \in Nat \ {0}, n = Len(path),
           NEW marks, Laid(list, marks, n)
    PROVE  Legs(list, marks, n)
<1>1. path \in Seq(Entries) /\ PassedInPlace /\ DOMAIN path = 1 .. n
  BY PathIsList, PassedAreInPlace
<1>2. /\ marks \in [1 .. n -> 1 .. Len(list)] /\ marks[1] = 1 /\ marks[n] = Len(list)
      /\ \A m \in 1 .. n : list[marks[m]] = Prepared[m]
      /\ \A m \in 1 .. n - 1 :
            /\ marks[m + 1] = marks[m] + 1 + Len(Between(m))
            /\ \A j \in 1 .. Len(Between(m)) : list[marks[m] + j] = Between(m)[j]
  BY DEF Laid
<1>7. \A m \in 1 .. n : marks[m] \in Nat
  <2>1. marks \in [1 .. n -> 1 .. Len(list)]
    BY <1>2
  <2>2. \A m \in 1 .. n : marks[m] \in 1 .. Len(list)
    BY <2>1
  <2> QED
    BY <2>2
<1>3. ASSUME NEW m \in 1 .. n - 1
      PROVE  LegLine(list, marks, m) = path[m + 1].line
  <2>1. m + 1 \in 1 .. n /\ m + 1 # 1
    OBVIOUS
  <2>2. list[marks[m + 1]] = Prepared[m + 1]
    BY <1>2, <2>1
  <2>3. Prepared[m + 1].line = path[m + 1].line
    BY <1>1, <2>1, PreparedIs
  <2> QED
    BY <2>2, <2>3 DEF LegLine
<1>4. ASSUME NEW m \in 1 .. n - 1
      PROVE  /\ marks[m] < marks[m + 1]
             /\ \A x \in marks[m] + 1 .. marks[m + 1] : list[x].line = LegLine(list, marks, m)
             /\ IF LegLine(list, marks, m) = WALKING_TRANSFER
                THEN /\ marks[m + 1] = marks[m] + 1
                     /\ Walkable(list[marks[m]].stop, list[marks[m + 1]].stop)
                ELSE Ridden(list, marks[m], marks[m + 1])
  <2>1. m \in 1 .. n /\ m + 1 \in 1 .. n /\ m \in DOMAIN path /\ m + 1 \in DOMAIN path
    BY <1>1
  <2>2. PICK first \in Nat : first = marks[m]
    BY <1>7, <2>1
  <2>3. PICK last \in Nat : last = marks[m + 1]
    BY <1>7, <2>1
  <2>4. /\ list[first] = Prepared[m] /\ list[last] = Prepared[m + 1]
        /\ last = first + 1 + Len(Between(m))
        /\ \A j \in 1 .. Len(Between(m)) : list[first + j] = Between(m)[j]
    BY <1>2, <2>1, <2>2, <2>3
  <2>5. list[first].stop = path[m].stop /\ list[last].stop = path[m + 1].stop
    BY <1>1, <2>1, <2>4, PreparedIs
  <2>6. CASE path[m + 1].line = WALKING_TRANSFER
    <3>1. Len(Between(m)) = 0 /\ Walkable(path[m].stop, path[m + 1].stop)
      BY <2>6, WalkOfPath
    <3>2. last = first + 1
      BY <2>4, <3>1
    <3>3. \A x \in first + 1 .. last : x = last
      BY <3>2
    <3>4. LegLine(list, marks, m) = list[last].line
      BY <2>3 DEF LegLine
    <3> QED
      BY <1>3, <2>2, <2>3, <2>5, <2>6, <3>1, <3>2, <3>3, <3>4
  <2>7. CASE path[m + 1].line # WALKING_TRANSFER
    <3>1. PICK trip : \E k \in Nat : RunsBetween(m, trip, k)
      BY <2>7, RideOfPath
    <3>2. PICK k \in Nat : RunsBetween(m, trip, k)
      BY <3>1
    <3>3. /\ Ridden(list, first, last)
          /\ \A x \in first + 1 .. last : list[x].line = path[m + 1].line
      BY <1>1, <2>4, <3>2, LegRidden
    <3>4. first < last
      <4>1. Len(Between(m)) = k - 2 /\ k >= 2
        BY <3>2 DEF RunsBetween
      <4> QED
        BY <2>4, <4>1
    <3> QED
      BY <1>3, <2>2, <2>3, <2>7, <3>3, <3>4
  <2> QED
    BY <2>6, <2>7
<1>5. ASSUME NEW m \in 1 .. n - 2, LegLine(list, marks, m) = LegLine(list, marks, m + 1)
      PROVE  LegLine(list, marks, m) = WALKING_TRANSFER
  <2>1. m \in 1 .. n - 1 /\ m + 1 \in 1 .. n - 1 /\ m + 1 \in 1 .. Len(path) - 1
    OBVIOUS
  <2>2. path[m + 1].line = path[(m + 1) + 1].line
    BY <1>3, <1>5, <2>1
  <2>3. path[m + 1].line = WALKING_TRANSFER
    BY <2>1, <2>2 DEF RidesOn
  <2> QED
    BY <1>3, <2>1, <2>3
<1>6. list[1].line = IF n > 1 THEN LegLine(list, marks, 1) ELSE WALKING_TRANSFER
  <2>1. 1 \in 1 .. n /\ 1 \in DOMAIN path /\ list[1] = Prepared[1]
    BY <1>1, <1>2
  <2>2. list[1].line = IF n > 1 THEN path[2].line ELSE path[1].line
    BY <1>1, <2>1, PreparedIs
  <2>3. CASE n > 1
    <3>1. 1 \in 1 .. n - 1 /\ 1 + 1 = 2
      BY <2>3
    <3> QED
      BY <1>3, <2>2, <2>3, <3>1
  <2>4. CASE ~ n > 1
    <3>1. PICK stop : stop = path[1].stop
      OBVIOUS
    <3>2. /\ path[1] = Entry(stop, heap.label[stop]) /\ stop = heap.label[stop].data.parent
          /\ LabelFits(stop, heap.label[stop])
      BY <2>1, <3>1 DEF PInv, PathInv, PathOfLabels, LabelsFit, Parent
    <3>3. heap.label[stop].data.line = WALKING_TRANSFER
      BY <3>2 DEF LabelFits
    <3> QED
      BY <2>2, <2>4, <3>2, <3>3 DEF Entry
  <2> QED
    BY <2>3, <2>4
<1> QED
  BY <1>2, <1>4, <1>5, <1>6 DEF Legs

-----------------------------------------------------------------------------
(* Every route can be travelled                                             *)

LEMMA MadeCanBeTravelled == PInv /\ PathSound /\ RouteMade => RouteIsJourney
<1> SUFFICES ASSUME PInv, PathSound, RouteMade, NEW found \in route, ~ RidesOn
             PROVE  /\ \A i \in Transits(found) :
                          IsWalk(found.segments[i]) \/ IsRide(found.segments[i])
                    /\ \A i, j \in Transits(found) :
                          /\ i < j
                          /\ \A k \in Transits(found) : k <= i \/ j <= k
                          => Walkable(LastOf(found.segments[i]).id, FirstOf(found.segments[j]).id)
                    /\ \E i \in Transits(found) :
                          /\ \A j \in Transits(found) : i <= j
                          /\ \E k \in DOMAIN query.origins :
                                timetable.station[FirstOf(found.segments[i]).id]
                                = timetable.station[query.origins[k].stop]
                    /\ \E i \in Transits(found) :
                          /\ \A j \in Transits(found) : j <= i
                          /\ LastOf(found.segments[i]).id \in destination
  BY Zenon DEF RouteIsJourney
<1>1. /\ pc = "done" /\ path # << >> /\ path \in Seq(Entries) /\ PassedInPlace
      /\ found = [segments |-> Append(Entered.segments, TransitOf(Entered))]
  BY PathIsList, PassedAreInPlace, RouteIsEntered DEF RouteMade
<1>2. PICK n \in Nat \ {0} : n = Len(path)
  BY <1>1
<1>3. PICK list \in Seq(Entries) : list = Unpacked /\ list # << >>
  BY <1>1, UnpackedIsLaid
<1>4. PICK marks : Laid(list, marks, n)
  BY <1>1, <1>2, <1>3, UnpackedIsLaid
<1>5. Legs(list, marks, n)
  BY <1>1, <1>2, <1>4, LegsLaid
<1>6. PICK l \in Nat \ {0} : l = Len(list)
  BY <1>3
<1>7. list[1].stop = path[1].stop /\ list[l].stop = path[n].stop
  <2>1. list[1] = Prepared[1] /\ list[l] = Prepared[n]
    BY <1>4, <1>6 DEF Laid
  <2>2. 1 \in DOMAIN path /\ n \in DOMAIN path
    BY <1>1, <1>2
  <2>3. Prepared[1].stop = path[1].stop /\ Prepared[n].stop = path[n].stop
    BY <1>1, <2>2, PreparedIs
  <2> QED
    BY <2>1, <2>3
<1>8. Entered \in Progress /\ WayTaken(list, marks, l, Entered)
  <2>1. TravelledBy(list, l, Entered)
    BY <1>3, <1>6, EnteredTravelled
  <2> QED
    BY <1>5, <2>1 DEF TravelledBy, EntriesOnTheWay
<1>9. /\ IsWalk(TransitOf(Entered)) \/ IsRide(TransitOf(Entered))
      /\ LastCall(Entered.stops).id = list[l].stop
  <2>1. PICK m \in DOMAIN marks :
          /\ marks[m] <= l
          /\ \/ Afoot(list, marks, m, l, Entered.stops, Entered.line)
             \/ Aboard(list, marks, m, l, Entered.stops, Entered.line)
    BY <1>8 DEF WayTaken, OnTheWay
  <2>2. l \in DOMAIN list /\ Entered.stops # << >>
    BY <1>3, <1>6, <1>8 DEF WayTaken
  <2>3. CASE Afoot(list, marks, m, l, Entered.stops, Entered.line)
    BY <1>5, <1>8, <2>1, <2>2, <2>3, TransitDone
  <2>4. CASE Aboard(list, marks, m, l, Entered.stops, Entered.line)
    <3>1. m + 1 \in DOMAIN marks /\ l <= marks[m + 1]
      BY <2>4 DEF Aboard
    <3>2. marks[m + 1] \in 1 .. l
      BY <1>5, <1>6, <3>1 DEF Legs
    <3>3. l = marks[m + 1]
      BY <3>1, <3>2
    <3> QED
      BY <1>5, <1>8, <2>1, <2>2, <2>4, <3>3, TransitDone
  <2> QED
    BY <2>1, <2>3, <2>4
<1>10. PICK segments \in Seq(TransitSegment \cup TransferSegment) : segments = Entered.segments
  BY <1>8 DEF Progress
<1>11. PICK transit : transit = TransitOf(Entered)
  OBVIOUS
<1>12. /\ transit.type = "transit" /\ transit.stops = Entered.stops /\ transit.stops # << >>
       /\ transit \in TransitSegment
  BY <1>8, <1>11 DEF TransitOf, TransitSegment, Progress, WayTaken
<1>13. PICK all \in Seq(TransitSegment \cup TransferSegment) : all = Append(segments, transit)
  <2>1. PICK Kinds : Kinds = TransitSegment \cup TransferSegment
    OBVIOUS
  <2>2. segments \in Seq(Kinds) /\ transit \in Kinds
    BY <1>12, <2>1
  <2>3. Append(segments, transit) \in Seq(Kinds)
    BY <2>2
  <2> QED
    BY <2>1, <2>3
<1>14. found.segments = all
  BY <1>1, <1>10, <1>11, <1>13
<1>15. PICK m \in Nat : m = Len(segments)
  OBVIOUS
<1>16. /\ DOMAIN all = 1 .. m + 1 /\ Len(all) = m + 1 /\ all[m + 1] = transit
       /\ DOMAIN segments = 1 .. m /\ \A j \in 1 .. m : all[j] = segments[j]
  BY <1>12, <1>13, <1>15
<1>17. ClosedWith(segments, transit, all)
  BY <1>15, <1>16 DEF ClosedWith
<1>18. SegmentsJoin(all, list[1].stop, list[l].stop)
  <2>1. SegmentsJoin(segments, list[1].stop, transit.stops[1].id)
    BY <1>8, <1>10, <1>12 DEF WayTaken
  <2>2. Walkable(LastCall(transit.stops).id, list[l].stop)
    BY <1>9, <1>12 DEF Walkable
  <2>3. IsWalk(transit) \/ IsRide(transit)
    BY <1>9, <1>11
  <2> QED
    BY <1>12, <1>17, <2>1, <2>2, <2>3, ClosedJoin
<1>19. \A i : i \in Transits(found) <=> i \in DOMAIN all /\ all[i].type = "transit"
  BY <1>14 DEF Transits, Respond!IsTransit
<1>20. ASSUME NEW i \in Transits(found)
       PROVE  IsWalk(all[i]) \/ IsRide(all[i])
  BY <1>18, <1>19, Zenon DEF SegmentsJoin
<1>21. ASSUME NEW i \in Transits(found), NEW j \in Transits(found), i < j,
              \A k \in Transits(found) : k <= i \/ j <= k
       PROVE  Walkable(LastOf(all[i]).id, FirstOf(all[j]).id)
  <2>1. \A k \in DOMAIN all : all[k].type = "transit" => k <= i \/ j <= k
    BY <1>19, <1>21, Zenon
  <2> QED
    BY <1>18, <1>19, <1>21, <2>1, Zenon DEF SegmentsJoin, LastOf, FirstOf, LastCall
<1>22. m + 1 \in Transits(found) /\ Transits(found) \subseteq 1 .. m + 1
  <2>1. m + 1 \in DOMAIN all
    BY <1>16
  <2> QED
    BY <1>12, <1>16, <1>19, <2>1
<1>23. \E i \in Transits(found) :
         /\ \A j \in Transits(found) : i <= j
         /\ \E k \in DOMAIN query.origins :
               timetable.station[FirstOf(all[i]).id]
               = timetable.station[query.origins[k].stop]
  <2>1. Transits(found) \subseteq Nat /\ Transits(found) # {}
    BY <1>22
  <2>2. PICK i \in Transits(found) : \A j \in Transits(found) : i <= j
    BY <2>1, LeastOfNumbers
  <2>3. all[i].stops[1].id = list[1].stop
    <3>1. \A j \in DOMAIN all : all[j].type = "transit" => i <= j
      BY <1>19, <2>2, Zenon
    <3> QED
      BY <1>18, <1>19, <2>2, <3>1, Zenon DEF SegmentsJoin
  <2>4. \E k \in DOMAIN query.origins :
           timetable.station[path[1].stop] = timetable.station[query.origins[k].stop]
    BY <1>1 DEF PathSound, StartedAt
  <2>5. FirstOf(all[i]).id = path[1].stop
    BY <1>7, <2>3 DEF FirstOf
  <2> QED
    BY <2>2, <2>4, <2>5, Zenon
<1>24. \E i \in Transits(found) :
         /\ \A j \in Transits(found) : j <= i
         /\ LastOf(all[i]).id \in destination
  <2>1. \A j \in Transits(found) : j <= m + 1
    BY <1>22
  <2>2. path[n].stop \in destination
    BY <1>1, <1>2 DEF PathSound
  <2>3. LastOf(all[m + 1]).id = path[n].stop
    BY <1>7, <1>9, <1>12, <1>16 DEF LastOf, LastCall
  <2> QED
    BY <1>22, <2>1, <2>2, <2>3
<1> QED
  BY <1>14, <1>20, <1>21, <1>23, <1>24, Zenon

\* Every route can be travelled from a start of the query to the stop the search reached:
\* its transits are walks, or runs of single services through all the stops in between, and
\* each begins where one can walk to from the end of the one before, unless it rides on with
\* the line it is on.
THEOREM RoutesAreJourneys == RouteSpec => []RouteIsJourney
<1>1. RouteSpec => []PInv
  BY ServiceImplementsSearch, JointInvariant, PTL
<1> QED
  BY <1>1, ServiceKeepsPaths, RoutesAreMade, MadeCanBeTravelled, PTL
=============================================================================
