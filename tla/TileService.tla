------------------------------- MODULE TileService -------------------------------
(***************************************************************************)
(* service::Tile: what a tile of the map shows of the network around it.   *)
(* The stops are looked up in a wider box than the one that is drawn.      *)
(*                                                                         *)
(* The services of the master a tile is made from are a record             *)
(*   table         the timetable                                           *)
(*   tree          the stops by their place                                *)
(*   annotations   see Annotation, AnnotationFactory                       *)
(*   component, component_sizes                                            *)
(*                 see TarjanSCC                                           *)
(***************************************************************************)
EXTENDS Route, Annotation, VectorTile, Dictionary
LOCAL INSTANCE SequencesExt

CONSTANTS
    LookupBuffer,       \* how far around a tile stops are looked up, 1024 in the code
    MinZoom, MaxZoom    \* 12 and 20

\* TileParameters::valid; identifiers are unsigned
Valid(tile) ==
    /\ tile.horizontal <= 2 ^ tile.zoom - 1
    /\ tile.zoom < MaxZoom
    /\ tile.zoom >= MinZoom

StopsAround(master, tile) ==
    SetToSortSeq({ entry.stop : entry \in AllWithin(master.tree, BoundingBox(tile, LookupBuffer)) }, <)

Place(master, stop) == LocationOf(master.annotations.geometry, stop)

\* the lines at a stop that go on from it, with the stops from there
Departing(master, stop) ==
    LET ids == SelectSeq(master.table.stop_to_line[stop],
                         LAMBDA id : Len(StopsFrom(master.table.lines[id], stop)) > 1)
    IN  [ i \in DOMAIN ids |-> << ids[i], StopsFrom(master.table.lines[ids[i]], stop) >> ]

\* a pair of stops is drawn once for every line with a shape between them, and once for
\* all the others; drawn is [layer, added]
DrawConnection(master, box, drawn, line, from, to) ==
    LET shape == PointsBetween(master.annotations.geometry, line, from, to)
        key   == << from, to, IF shape = << >> THEN NoLine ELSE line >>
        line_string == IF shape = << >> THEN << Place(master, from), Place(master, to) >> ELSE shape
    IN  IF key \in drawn.added THEN drawn
        ELSE [ layer |-> AddLine(drawn.layer, line_string, << >>, box),
               added |-> drawn.added \cup {key} ]

AddLines(master, stops, box) ==
    LET connections == FlattenSeq([ i \in DOMAIN stops |-> Departing(master, stops[i]) ])
    IN  FoldLeft(LAMBDA drawn, next :
                     DrawConnection(master, box, drawn, next[1], next[2][1], next[2][2]),
                 [layer |-> NewLayer("lines"), added |-> {}], connections).layer

AddTransfers(master, stops, box) ==
    LET From(stop) ==
            LET away == SelectSeq(master.table.transfers[stop], LAMBDA transfer : transfer.stop # stop)
            IN  [ i \in DOMAIN away |-> << Place(master, stop), Place(master, away[i].stop) >> ]
    IN  FoldLeft(LAMBDA layer, line_string : AddLine(layer, line_string, << >>, box),
                 NewLayer("transfers"), FlattenSeq([ i \in DOMAIN stops |-> From(stops[i]) ]))

\* where a line leads out of a component, and the stops that are one of their own
ComponentPoints(master, stop) ==
    LET origin      == << stop, << << "origin", Value("BOOL", TRUE) >> >> >>
        Destination(to) == << to, << << "destinantion", Value("BOOL", TRUE) >> >> >>
        next        == Departing(master, stop)
        Out(i) == LET to == next[i][2][2]
                  IN  IF master.component[stop] # master.component[to]
                      THEN << origin, Destination(to) >> ELSE << >>
    IN  FlattenSeq([ i \in DOMAIN next |-> Out(i) ])
        \o (IF master.component_sizes[master.component[stop] + 1] = 1 THEN << origin >> ELSE << >>)

AddComponents(master, stops, box) ==
    LET points == FlattenSeq([ i \in DOMAIN stops |-> ComponentPoints(master, stops[i]) ])
    IN  FoldLeft(LAMBDA layer, point : AddPoint(layer, Place(master, point[1]), point[2], box),
                 NewLayer("components"), points)

\* every station once, at its own place and with its own name
AddStops(master, stops, box) ==
    LET Name(stop) == GetString(master.annotations.dictionary, master.annotations.stops[stop + 1])
        stations == SetToSortSeq({ master.table.station[stops[i]] : i \in DOMAIN stops }, <)
    IN  FoldLeft(LAMBDA layer, station :
                     AddPoint(layer, Place(master, station),
                              << << "name", Value("STRING", Name(station)) >> >>, box),
                 NewLayer("stations"), stations)

MakeTile(master, tile) ==
    LET stops  == StopsAround(master, tile)
        box    == BoundingBox(tile, 0)
        layers == << AddLines(master, stops, box), AddTransfers(master, stops, box),
                     AddComponents(master, stops, box), AddStops(master, stops, box) >>
    IN  [ i \in DOMAIN layers |-> Written(layers[i]) ]

\* no connection asks for a place the annotation cannot look up
TileKnown(master, tile) ==
    \A i \in DOMAIN StopsAround(master, tile) :
        LET next == Departing(master, StopsAround(master, tile)[i])
        IN  \A k \in DOMAIN next :
               Defined(master.annotations.geometry, next[k][1], next[k][2][1], next[k][2][2])
==================================================================================
