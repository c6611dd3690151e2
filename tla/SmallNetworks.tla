------------------------------ MODULE SmallNetworks ------------------------------
(***************************************************************************)
(* Small networks for the routers, produced by the factories from          *)
(* datasets: any selection of the trips below, with and without a station  *)
(* that joins stops 2 and 3, and the queries put to them.                  *)
(***************************************************************************)
EXTENDS TimeTableFactory, AnnotationFactory

NetworkStops == 0 .. 4

\* a vehicle that leaves as soon as it arrives, from the first stop on
At(stop, time) == [stop |-> stop, arrival |-> time, departure |-> time, interpolated |-> FALSE]

Stand(stop, arrival, departure) ==
    [stop |-> stop, arrival |-> arrival, departure |-> departure, interpolated |-> FALSE]

\* a stop time without times
Blank(stop) == [stop |-> stop, arrival |-> 0, departure |-> 0, interpolated |-> TRUE]

Trip(id, route, times) == [id |-> id, route |-> route, times |-> times]

Trips == <<
    \* two services of one line, the second one slower
    Trip(1, 1, << At(0, 10), At(1, 14), At(2, 20) >>),
    Trip(2, 1, << At(0, 20), At(1, 25), At(2, 32) >>),
    \* a feeder, twice
    Trip(3, 2, << At(1, 16), At(3, 21) >>),
    Trip(4, 2, << At(1, 26), At(3, 30) >>),
    \* a slow direct line and a trip against the grain
    Trip(5, 3, << At(0, 12), Blank(1), At(3, 36), At(4, 40) >>),
    Trip(6, 4, << At(3, 22), At(2, 24), At(1, 25), At(4, 29) >>),
    \* a vehicle that comes back to its first stop
    Trip(7, 5, << At(2, 21), At(4, 24), At(2, 27), At(0, 31) >>),
    \* vehicles that stand at the first stop, or where they cut their own way
    Trip(8, 6, << Stand(0, 8, 10), At(3, 16), At(1, 20) >>),
    Trip(9, 7, << At(1, 2), At(4, 4), Stand(1, 6, 9), At(3, 11), At(0, 14) >>),
    \* a fast vehicle that leaves after the second service of the first line and overtakes it
    Trip(10, 1, << At(0, 22), At(1, 24), At(2, 28) >>),
    \* a vehicle one catches only if the transfer takes no time
    Trip(11, 8, << At(3, 15), At(4, 19), At(1, 21) >>),
    \* a slow vehicle, from which one seems to reach the one before
    Trip(12, 1, << At(0, 12), At(1, 22), At(2, 24) >>),
    Trip(13, 1, << At(0, 11), At(1, 13), At(2, 15) >>) >>

NetworkTransfers == << [from |-> 2, to |-> 3, type |-> "RECOMMENDED", duration |-> 5] >>

\* stops 1 and 4 are close to each other
Near(stop) ==
    << [stop |-> stop, distance |-> 0] >>
    \o (CASE stop = 1 -> << [stop |-> 4, distance |-> 8] >>
          [] stop = 4 -> << [stop |-> 1, distance |-> 8] >>
          [] OTHER -> << >>)

Parents == { [ stop \in NetworkStops |-> {} ],
             [ stop \in NetworkStops |-> IF stop \in {2, 3} THEN {2} ELSE {} ] }

Dataset(ids, parent) ==
    [ parent    |-> parent,
      near      |-> [ stop \in NetworkStops |-> Near(stop) ],
      trips     |-> SelectSeq(Trips, LAMBDA trip : trip.id \in ids),
      transfers |-> NetworkTransfers ]

(***************************************************************************)
(* What the annotations of a network are made of.  Two trips have a shape, *)
(* so that lines beyond the second one are taken for none; on the second   *)
(* shape no vehicle comes to stop 4.                                       *)
(***************************************************************************)
StopLocations == << 0, 100, 200, 260, 108 >>

StopRows == [ i \in DOMAIN StopLocations |->
                [id |-> i - 1, name |-> i - 1, location |-> StopLocations[i]] ]

RouteRows == [ i \in 1 .. 9 |-> [id |-> i - 1, name |-> 4 + i] ]

TripRows ==
    LET Shape(id) == CASE id \in {1, 7} -> {0} [] id = 3 -> {1} [] OTHER -> {}
        Route(id) == IF id = 0 THEN 0 ELSE Trips[id].route
    IN  [ i \in 1 .. 14 |-> [id |-> i - 1, route |-> Route(i - 1), shape |-> Shape(i - 1)] ]

Point(id, sequence, location) == [id |-> id, sequence |-> sequence, location |-> location]

ShapeRows == << Point(1, 1, 90), Point(0, 2, 150), Point(0, 1, 0), Point(1, 3, 245), Point(1, 2, 105),
                Point(1, 4, 260), Point(0, 3, 60), Point(0, 5, 200), Point(0, 4, 104) >>

\* a timetable with its annotations
AnnotatedWith(stops, dataset, produced) ==
    [ timetable |-> TimeTableWith(dataset, produced),
      tree |-> CoordinateToStop(stops),
      annotations |->
        [ geometry |-> GeometryAnnotation(stops, TripRows, produced.trip_offsets, produced.lines,
                                          SegmentTable(ShapeRows)),
          lines |-> LineAnnotation(produced.trip_offsets, RouteRows, TripRows),
          stops |-> StopAnnotation(stops),
          dictionary |-> << "Bank", "Abbey", "Castle", "Dock", "East",
                            "0", "1", "2", "3", "4", "5", "6", "7", "8" >> ] ]

Annotated(stops, dataset) == AnnotatedWith(stops, dataset, ProduceLines(dataset))

Network(ids, parent) == Annotated(StopRows, Dataset(ids, parent))

(***************************************************************************)
(* Networks without a line, whose transfers are the arcs of any graph with *)
(* three nodes, in both orders, and of those with four and a few arcs.     *)
(***************************************************************************)
Arcs(size) == [ i \in 1 .. size * size |-> << (i - 1) \div size, (i - 1) % size >> ]

ArcNetwork(size, arcs) ==
    LET stops == 0 .. size - 1
    IN  Annotated(SubSeq(StopRows, 1, size),
                  [ parent    |-> [ stop \in stops |-> {} ],
                    near      |-> [ stop \in stops |-> << [stop |-> stop, distance |-> 0] >> ],
                    trips     |-> << >>,
                    transfers |-> [ i \in DOMAIN arcs |->
                                      [ from |-> arcs[i][1], to |-> arcs[i][2],
                                        type |-> "LONG", duration |-> 5 ] ] ])

ArcNetworks ==
    LET Chosen(arcs, pairs) == SelectSeq(arcs, LAMBDA arc : arc \in pairs)
        Pairs(size) == (0 .. size - 1) \X (0 .. size - 1)
    IN  { ArcNetwork(3, Chosen(Arcs(3), pairs)) : pairs \in SUBSET Pairs(3) }
        \cup { ArcNetwork(3, Chosen(Reverse(Arcs(3)), pairs)) : pairs \in SUBSET Pairs(3) }
        \cup { ArcNetwork(4, Chosen(Arcs(4), pairs)) :
                 pairs \in { some \in SUBSET { pair \in Pairs(4) : pair[1] # pair[2] } :
                               Cardinality(some) \in {4, 5} } }

\* every vehicle leaves its first stop as soon as it arrives there
MovingNetworks(least) ==
    { Network(ids, parent) :
        ids \in { selection \in SUBSET (1 .. 7) : Cardinality(selection) >= least }
               \cup { {1, 2, 10}, {2, 3, 10}, {2, 4, 6, 10}, {1, 3, 11}, {1, 6, 11}, {12, 13} },
        parent \in Parents }

\* some vehicle stands at its first stop
StandingTimeTables ==
    { TimeTable(Dataset(ids \cup standing, parent)) :
        ids \in { selection \in SUBSET (1 .. 7) : Cardinality(selection) \in {1, 2} },
        standing \in SUBSET {8, 9} \ {{}}, parent \in Parents }

Leg(stop, seconds) == [stop |-> stop, seconds |-> seconds]

NetworkQueries ==
    { [kind |-> "stops", departure |-> 9, origins |-> << Leg(0, 0) >>,
       destinations |-> << Leg(to, 0) >>] : to \in {0, 3, 4} }
    \cup
    { [kind |-> "legs", departure |-> departure, origins |-> << Leg(0, 1), Leg(1, 15) >>,
       destinations |-> << Leg(2, seconds), Leg(4, 2) >>] :
         departure \in {9, 11}, seconds \in {0, 8} }
    \cup
    { [kind |-> "legs", departure |-> 20, origins |-> << Leg(2, 3), Leg(3, 1), Leg(2, 2) >>,
       destinations |-> << Leg(0, 4) >>],
      [kind |-> "legs", departure |-> 9, origins |-> << Leg(0, 3) >>,
       destinations |-> << Leg(0, 0) >>] }
    \cup
    { [kind |-> "legs", departure |-> 0, origins |-> << >>, destinations |-> << Leg(2, 0) >>] }

\* requests between coordinates: close to stops, with a radius that has to grow, on both
\* sides of two stops, far from everything, and for the latest departure
Request(origin, destination, departure, arrival, radius) ==
    [ origin |-> origin, destination |-> destination, departure |-> departure,
      arrival |-> arrival, walking_radius |-> radius ]

NetworkRequests ==
    { Request(2, 199, {6}, {}, 10), Request(103, 262, {12}, {}, 1),
      Request(0, 2400, {6}, {}, 10), Request(2, 199, {}, {40}, 10) }
==================================================================================
