------------------------------- MODULE Geometric -------------------------------
(***************************************************************************)
(* The coordinates (geometric::WGS84Coordinate) and what is asked of them. *)
(* Places lie on a line: a coordinate is a number of meters.               *)
(***************************************************************************)
EXTENDS Integers, Sequences, SequencesExt

Distance(from, to) == IF from <= to THEN to - from ELSE from - to

\* a bounding box is a record [lower, upper], its borders belong to it
Inside(box, location) == box.lower <= location /\ location <= box.upper

-----------------------------------------------------------------------------
(* search::CoordinateToStop; a tree of entries [stop, location]             *)

\* the constructor
CoordinateToStop(stops) ==
    { [stop |-> stops[i].id, location |-> stops[i].location] : i \in DOMAIN stops }

\* all(location, radius), the closest first
AllAround(tree, location, radius) ==
    LET near == { entry \in tree : Distance(location, entry.location) <= radius }
    IN  SetToSortSeq({ [stop |-> entry.stop, distance |-> Distance(location, entry.location)] :
                         entry \in near },
                     LAMBDA x, y : x.distance < y.distance)

\* all(bounding_box), in any order
AllWithin(tree, box) == { entry \in tree : Inside(box, entry.location) }
================================================================================
