------------------------------- MODULE Annotation -------------------------------
(***************************************************************************)
(* What the annotations hand out: annotation::Geometry and annotation::Line *)
(*                                                                         *)
(* A geometry annotation is a record                                       *)
(*   segment_table   the points of the shapes, by shape                    *)
(*   stop_locations  the places of the stops                               *)
(*   shape_info      by stop, its places [line, shape, offset] on the      *)
(*                   shapes of its lines                                   *)
(* both tables are containers of IndexedVector.                            *)
(***************************************************************************)
EXTENDS IndexedVector

\* LineIDs count from 1 here; the code's WALKING_TRANSFER is its largest LineID
NoLine == 0

\* get(stop)
LocationOf(geometry, stop) == geometry.stop_locations[stop + 1]

\* The number of a line is compared with the number of shapes, and no stop but those up
\* to the last one with a place may be asked for.
IsLine(geometry, line) == line # NoLine /\ Categories(geometry.segment_table) > line - 1

Defined(geometry, line, from, to) ==
    IsLine(geometry, line) => HasCategory(geometry.shape_info, from)
                              /\ HasCategory(geometry.shape_info, to)

\* std::find_if: the first place of the stop on the line
PlacesOn(geometry, line, stop) ==
    IF HasCategory(geometry.shape_info, stop)
    THEN SelectSeq(Category(geometry.shape_info, stop), LAMBDA place : place.line = line)
    ELSE << >>

\* get(line, from, to): the points of the shape from one stop to the other, if both are on it
PointsBetween(geometry, line, from, to) ==
    IF ~ IsLine(geometry, line) THEN << >>
    ELSE LET begin == PlacesOn(geometry, line, from)
             end   == PlacesOn(geometry, line, to)
         IN  IF begin = << >> \/ end = << >> THEN << >>
             ELSE IF begin[1].offset > end[1].offset THEN << >>
             ELSE Part(geometry.segment_table, begin[1].shape, begin[1].offset, end[1].offset + 1)

\* operator() of annotation::Line, which only asserts that there is such a line
HasLine(line_annotation, line) == line \in DOMAIN line_annotation
================================================================================
