------------------------------ MODULE Connectivity ------------------------------
(***************************************************************************)
(* service::Master::components and service::Tile: the timetable is adapted *)
(* to a graph, the strongly connected components of the graph are          *)
(* computed, and tiles show where they end.                                *)
(***************************************************************************)
EXTENDS TarjanSCC, GraphAdaptor

CONSTANTS
    Networks,      \* records [timetable, tree, annotations]
    TileRequests,
    World, TileSize, Extent, TileBuffer, LookupBuffer, MinZoom, MaxZoom

VARIABLES
    network,      \* what else the master has
    tile          \* {}, or the tile made with what it was asked for

Tiles == INSTANCE TileService

connectivity == << adaptor, vars, network, tile >>

\* the search looks at a graph without nodes until there is another one
ConnectivityInit ==
    /\ network \in Networks
    /\ timetable = network.timetable
    /\ AdaptorInit
    /\ Init
    /\ tile = {}

\* the graph that is returned goes to the search
AdaptTimetable ==
    /\ Adapt
    /\ graph' = IF pass' = "adapted" THEN building' ELSE graph
    /\ UNCHANGED << search, network, tile >>

ComputeSCC ==
    /\ pass = "adapted"
    /\ Next
    /\ UNCHANGED << adaptor, network, tile >>

Done == pass = "adapted" /\ Finished

Services ==
    [ table |-> timetable, tree |-> network.tree, annotations |-> network.annotations,
      component |-> component, component_sizes |-> component_sizes ]

\* ServiceIPC answers what is not valid itself
HandleTile ==
    /\ Done
    /\ tile = {}
    /\ \E request \in TileRequests :
          /\ Tiles!Valid(request)
          /\ tile' = { IF Tiles!TileKnown(Services, request)
                       THEN [ state |-> "made", request |-> request,
                              layers |-> Tiles!MakeTile(Services, request) ]
                       ELSE [state |-> "crashed"] }
    /\ UNCHANGED << adaptor, vars, network >>

ConnectivityNext == AdaptTimetable \/ ComputeSCC \/ HandleTile

ConnectivitySpec == ConnectivityInit /\ [][ConnectivityNext]_connectivity

\* a sequential computation; nobody has to ask for a tile
FairConnectivitySpec == ConnectivitySpec /\ WF_connectivity(AdaptTimetable \/ ComputeSCC)

-----------------------------------------------------------------------------
(* Properties                                                               *)

\* The two passes agree: the second never adds more edges than the first has
\* counted, and leaves none of them out.
\* ("This is seriously messed up. The timetable graph adaptor seems broken.")
AllocationExact ==
    /\ pass # "thrown"
    /\ pass = "adapted" => Valid(graph)

\* where a journey that has come to some stops may end: wherever their lines take
\* it, at the stops of their stations and where their transfers lead
Leads(stops) ==
    /\ \A id \in DOMAIN timetable.lines :
          LET on == timetable.lines[id].stops
          IN  \A i, j \in DOMAIN on : i < j /\ on[i] \in stops => on[j] \in stops
    /\ \A from \in stops :
          /\ { to \in DOMAIN timetable.station : StationOf(to) = StationOf(from) }
             \subseteq stops
          /\ Range(TransferTargets(from)) \subseteq stops

Journey(x, y) ==
    \A stops \in SUBSET DOMAIN timetable.station : x \in stops /\ Leads(stops) => y \in stops

\* Two stops share a component if and only if there is a way from each to the other
\* by the lines, stations and transfers of the timetable.
ComponentsOfJourneys ==
    Done => \A x, y \in DOMAIN timetable.station :
                component[x] = component[y] <=> Journey(x, y) /\ Journey(y, x)

\* The parts a feature is drawn in, as points of the tile. Whoever reads a feature begins at
\* the edge of the tile and goes on with every part from where the last one has ended.
Read(state, value) ==
    IF state.count = 0
    THEN IF value = Tiles!MoveTo
         THEN [state EXCEPT !.parts = Append(@, << >>), !.count = 1]
         ELSE [state EXCEPT !.count = value \div 8]
    ELSE LET point == state.cursor + Tiles!UnZigZag(value)
         IN  [ parts  |-> Append(Front(state.parts), Append(Last(state.parts), point)),
               cursor |-> point,
               count  |-> state.count - 1 ]

\* nothing, if a command wants more than there is
Parts(feature) ==
    LET read == FoldLeft(Read, [parts |-> << >>, cursor |-> 0, count |-> 0], feature.geometry)
    IN  IF read.count = 0 THEN read.parts ELSE << >>

Attributes(layer, feature) ==
    { << layer.keys[feature.tags[2 * i - 1] + 1], layer.values[feature.tags[2 * i] + 1] >> :
        i \in 1 .. Len(feature.tags) \div 2 }

\* how often a line comes over the pixels that can be seen, here those between two points
Crossings(points) ==
    [ x \in Tiles!ClipBox.lower .. Tiles!ClipBox.upper - 1 |->
        Cardinality({ i \in 1 .. Len(points) - 1 :
                        /\ Min({points[i], points[i + 1]}) <= x
                        /\ x < Max({points[i], points[i + 1]}) }) ]

\* the sections of a line of which something can be seen
Seen(points) ==
    { i \in 1 .. Len(points) - 1 :
        \E x \in Range(Crossings(<< points[i], points[i + 1] >>)) : x > 0 }

\* the line until it leaves what can be seen
FirstStay(points) ==
    LET left == { k \in DOMAIN points : /\ points[k] # Tiles!Clamped(points[k], Tiles!ClipBox)
                                        /\ \E i \in Seen(points) : i < k }
    IN  SubSeq(points, 1, Min(left \cup {Len(points)}))

\* what there is to see of a line until it leaves, and whether it comes back
Sight(points) ==
    [ stay |-> Crossings(FirstStay(points)),
      back |-> \E i \in Seen(points) : i >= Len(FirstStay(points)) ]

Drawn(feature) ==
    [stay |-> Crossings(Head(Parts(feature))), back |-> Len(Parts(feature)) > 1]

LayerDraws(layer, lines) ==
    /\ \A feature \in Range(layer.features) : Parts(feature) # << >>
    /\ { Drawn(feature) : feature \in Range(layer.features) }
       = { Sight(points) : points \in { line \in lines : Seen(line) # {} } }

TellsBox(request, layers) ==
    LET nearby == { entry.stop : entry \in
                      { e \in network.tree :
                          Tiles!Inside(Tiles!BoundingBox(request, LookupBuffer), e.location) } }
        At(location) == Tiles!ToTilePoint(location, Tiles!BoundingBox(request, 0))
        Place(s) == At(Tiles!Place(Services, s))
        Shown(s) == Tiles!Within(Place(s), Tiles!ClipBox)
        Points(layer) == { << Parts(f), Attributes(layer, f) >> : f \in Range(layer.features) }
        \* a line goes on from where it first comes to a stop
        Ahead == UNION { { << on, i >> :
                              i \in { k \in 1 .. Len(timetable.lines[on].stops) - 1 :
                                        LET s == timetable.lines[on].stops[k]
                                        IN  s \in nearby /\ \A j \in 1 .. k - 1 :
                                                              timetable.lines[on].stops[j] # s } }
                          : on \in DOMAIN timetable.lines }
        From(on) == timetable.lines[on[1]].stops[on[2]]
        To(on) == timetable.lines[on[1]].stops[on[2] + 1]
        Shape(on) == Tiles!PointsBetween(network.annotations.geometry, on[1], From(on), To(on))
        Line(on) == IF Shape(on) = << >> THEN << Place(From(on)), Place(To(on)) >>
                    ELSE [ i \in DOMAIN Shape(on) |-> At(Shape(on)[i]) ]
        Walks == UNION { { << s, t >> : t \in Range(TransferTargets(s)) } : s \in nearby }
        Name(s) == network.annotations.dictionary[network.annotations.stops[s + 1] + 1]
        Flag(s, key) == << << << Place(s) >> >>, { << key, << 7, TRUE >> >> } >>
        Leaving == { on \in Ahead : ~ Journey(To(on), From(on)) }
        Alone == { s \in nearby : \A t \in DOMAIN timetable.station \ {s} :
                                      ~ Journey(s, t) \/ ~ Journey(t, s) }
    IN  /\ LayerDraws(layers[1], { Line(on) : on \in Ahead })
        /\ LayerDraws(layers[2], { << Place(walk[1]), Place(walk[2]) >> : walk \in Walks })
        /\ Points(layers[3]) =
              { Flag(s, "origin") : s \in { t \in Alone \cup { From(on) : on \in Leaving } : Shown(t) } }
              \cup { Flag(s, "destinantion") : s \in { t \in { To(on) : on \in Leaving } : Shown(t) } }
        /\ Points(layers[4]) =
              { << << << Place(s) >> >>, { << "name", << 1, Name(s) >> >> } >> :
                  s \in { t \in { timetable.station[u] : u \in nearby } : Shown(t) } }
        /\ Len(layers[4].features) = Cardinality(Points(layers[4]))

(***************************************************************************)
(* A reader of a tile sees what the network is like there: everything that *)
(* leads from a stop nearby to the next one or to another one on foot, as  *)
(* far as it is in the tile; every station once, at its own place and with *)
(* its own name; and a mark wherever there is no way back from the next    *)
(* stop of a line, or no other stop with a way there and back.             *)
(*   Of a line that leaves the tile and comes back only the first part is  *)
(* asked for: every part is written from a cursor of its own               *)
(* (mapbox_vector_tile.cpp:298), a reader has one cursor for the line and  *)
(* sees the other parts in the wrong place.                                *)
(***************************************************************************)
TileTellsBox ==
    \A answer \in tile : answer.state = "made" => TellsBox(answer.request, answer.layers)

\* Every timetable gets its components, although edges are looked at more than once.
ComponentsComplete == <>Done
================================================================================
