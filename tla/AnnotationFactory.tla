--------------------------- MODULE AnnotationFactory ---------------------------
(***************************************************************************)
(* annotation::GeometryFactory, annotation::LineFactory, the constructor   *)
(* of annotation::Stop and Dataset::shapes_as_indexed_vector: what the     *)
(* annotations are made of.  Trips, routes and stops come in the order of  *)
(* their ids, which count from 0.                                          *)
(***************************************************************************)
EXTENDS LineTableFactory, Geometric, Annotation

\* the shapes in the order of their ids, the points of one in the order of their sequence
SortedShapes(shapes) ==
    StableSort(StableSort(shapes, LAMBDA shape : shape.sequence), LAMBDA shape : shape.id)

SegmentTable(shapes) ==
    FoldLeft(LAMBDA table, shape : PushBack(table, shape.id, shape.location),
             EmptyVector, SortedShapes(shapes))

\* std::min_element: on the way along a shape the point closest to every stop, never
\* before the last one
Offsets(stops, line, points) ==
    LET Closest(i, first) ==
            LET Far(k) == Distance(stops[line.stops[i] + 1].location, points[k + 1])
            IN  Min({ k \in first .. Len(points) - 1 :
                        \A j \in first .. Len(points) - 1 : Far(k) <= Far(j) })
        offset[i \in DOMAIN line.stops] == Closest(i, IF i = 1 THEN 0 ELSE offset[i - 1])
    IN  offset

ShapeOf(trips, offsets, line) == trips[offsets[line] + 1].shape

\* add_offsets_for_stops: the stops of a line whose trip has a shape, with their offsets
StopsOnShape(stops, trips, offsets, line_tables, segment_table, line) ==
    LET on == line_tables[line].stops
        Placed(shape) ==
            LET offset == Offsets(stops, line_tables[line], Category(segment_table, shape))
            IN  [ i \in DOMAIN on |-> [stop |-> on[i], line |-> line, shape |-> shape,
                                       offset |-> offset[i]] ]
    IN  FlattenSeq([ i \in 1 .. Cardinality(ShapeOf(trips, offsets, line)) |->
                       Placed(CHOOSE shape \in ShapeOf(trips, offsets, line) : TRUE) ])

GeometryAnnotation(stops, trips, offsets, line_tables, segment_table) ==
    LET placed == FlattenSeq([ line \in DOMAIN line_tables |->
                                 StopsOnShape(stops, trips, offsets, line_tables, segment_table, line) ])
        Add(info, entry) ==
            PushBack(info, entry.stop,
                     [line |-> entry.line, shape |-> entry.shape, offset |-> entry.offset])
    IN  [ segment_table  |-> segment_table,
          stop_locations |-> [ i \in DOMAIN stops |-> stops[i].location ],
          shape_info     |-> FoldLeft(Add, EmptyVector,
                                      StableSort(placed, LAMBDA entry : entry.stop)) ]

\* LineFactory: what the route of the trip that founded the line is called
LineAnnotation(offsets, routes, trips) ==
    [ line \in DOMAIN offsets |-> routes[trips[offsets[line] + 1].route + 1].name ]

StopAnnotation(stops) == [ i \in DOMAIN stops |-> stops[i].name ]
================================================================================
