------------------------------- MODULE VectorTile -------------------------------
(***************************************************************************)
(* tool::container::MapboxVectorTile and its layers.  Places lie on a      *)
(* line, so that there is one coordinate where the code has two, a tile is *)
(* [horizontal, zoom], and commands and coordinates share a sequence.      *)
(*                                                                         *)
(* A layer is a record                                                     *)
(*   name, features                                                        *)
(*            a feature is [id, type, tags, geometry], with the indices of *)
(*            a key and a value in turns as the tags                       *)
(*   keys, values                                                          *)
(*            the tables in the order of their indices                     *)
(***************************************************************************)
EXTENDS Geometric, Polyline, SequencesExt

CONSTANTS
    World,       \* how long the line is, the circumference of the earth in the code
    TileSize,    \* 256 in the code
    Extent,      \* the length of a tile in virtual pixels, 4096
    TileBuffer   \* what is clipped lies so far outside, 128

MoveTo == 9
LineTo(count) == 8 * count + 2

-----------------------------------------------------------------------------
(* WGS84BoundingBox(horizontal, vertical, zoom_level, tile_size, buffer)    *)

Shift(zoom) == 2 ^ zoom * TileSize

BoundingBox(tile, buffer) ==
    LET Place(pixel) == (pixel * World) \div Shift(tile.zoom)
    IN  [ lower |-> Place(tile.horizontal * TileSize - buffer),
          upper |-> Place((tile.horizontal + 1) * TileSize + buffer) ]

\* llround: halves away from zero
Rounded(dividend, divisor) ==
    IF dividend >= 0 THEN (2 * dividend + divisor) \div (2 * divisor)
                     ELSE -((divisor - 2 * dividend) \div (2 * divisor))

ToTilePoint(location, box) == Rounded((location - box.lower) * Extent, box.upper - box.lower)

ClipBox == [lower |-> -TileBuffer, upper |-> Extent + TileBuffer]

-----------------------------------------------------------------------------
(* boost::geometry: what is within a box, and the parts of a line in one    *)

Within(point, box) == box.lower < point /\ point < box.upper

Clamped(point, box) ==
    IF point < box.lower THEN box.lower ELSE IF point > box.upper THEN box.upper ELSE point

\* a point that repeats the last one is not added
Extended(line, point) ==
    IF line # << >> /\ line[Len(line)] = point THEN line ELSE Append(line, point)

Flushed(state) ==
    IF state.line = << >> THEN state
    ELSE [lines |-> Append(state.lines, state.line), line |-> << >>]

\* the line breaks off where it leaves the box and begins anew where it enters
Clip(state, from, to, box) ==
    LET enters == Clamped(from, box)
        leaves == Clamped(to, box)
        before == IF enters # from THEN Flushed(state) ELSE state
        after  == [before EXCEPT !.line =
                      Extended(IF @ = << >> THEN << enters >> ELSE @, leaves)]
    IN  IF (from < box.lower /\ to < box.lower) \/ (from > box.upper /\ to > box.upper)
        THEN Flushed(state)
        ELSE IF leaves # to THEN Flushed(after) ELSE after

Intersection(points, box) ==
    Flushed(FoldLeft(LAMBDA state, i : Clip(state, points[i], points[i + 1], box),
                     [lines |-> << >>, line |-> << >>],
                     [ i \in 1 .. Len(points) - 1 |-> i ])).lines

-----------------------------------------------------------------------------
(* MapboxVectorTileLayer                                                    *)

NewLayer(name) == [name |-> name, features |-> << >>, keys |-> << >>, values |-> << >>]

\* values of different types are never the same
Value(type, content) == [type |-> type, content |-> content]

\* an index for the content, the next one if it is new
WithIndex(table, content) ==
    IF \E i \in DOMAIN table : table[i] = content THEN table ELSE Append(table, content)

GetMapIndex(table, content) == (CHOOSE i \in DOMAIN table : table[i] = content) - 1

\* features are pairs << key, value >>
EncodeFeatures(layer, features) ==
    FoldLeft(LAMBDA state, entry :
                 LET keys   == WithIndex(state.layer.keys, entry[1])
                     values == WithIndex(state.layer.values, entry[2])
                 IN  [ layer |-> [state.layer EXCEPT !.keys = keys, !.values = values],
                       tags  |-> state.tags \o << GetMapIndex(keys, entry[1]),
                                                  GetMapIndex(values, entry[2]) >> ],
             [layer |-> layer, tags |-> << >>], features)

AddFeature(layer, type, features, geometry) ==
    LET encoded == EncodeFeatures(layer, features)
        feature == [ id |-> Len(layer.features) + 1, type |-> type, tags |-> encoded.tags,
                     geometry |-> geometry ]
    IN  [encoded.layer EXCEPT !.features = Append(@, feature)]

AddPoint(layer, location, features, box) ==
    LET point == ToTilePoint(location, box)
    IN  IF Within(point, ClipBox)
        THEN AddFeature(layer, "point", features, << MoveTo, ZigZag(point) >>)
        ELSE layer

\* mutant of EncodeLine: the first point counts as one to draw a line to
EncodeLineFromFirst(line) ==
    << MoveTo, ZigZag(line[1]), LineTo(Len(line)) >>
    \o [ i \in 1 .. Len(line) - 1 |-> ZigZag(line[i + 1] - line[i]) ]

\* a part of a line, with a cursor of its own that starts at the edge of the tile
EncodeLine(line) ==
    << MoveTo, ZigZag(line[1]), LineTo(Len(line) - 1) >>
    \o [ i \in 1 .. Len(line) - 1 |-> ZigZag(line[i + 1] - line[i]) ]

AddLine(layer, places, features, box) ==
    LET line   == [ i \in DOMAIN places |-> ToTilePoint(places[i], box) ]
        pieces == SelectSeq(Intersection(line, ClipBox), LAMBDA piece : Len(piece) >= 2)
    IN  IF Len(places) <= 1 \/ pieces = << >> THEN layer
        ELSE AddFeature(layer, "line", features,
                        FlattenSeq([ i \in DOMAIN pieces |-> EncodeLine(pieces[i]) ]))

\* the destructor writes the tables, of a value what it is
FieldOf == [ STRING |-> 1, FLOAT |-> 2, DOUBLE |-> 3, UINT |-> 5, INT |-> 6, BOOL |-> 7 ]

Written(layer) ==
    [ layer EXCEPT !.values = [ i \in DOMAIN @ |-> << FieldOf[@[i].type], @[i].content >> ] ]
================================================================================
