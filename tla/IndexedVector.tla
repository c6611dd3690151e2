----------------------------- MODULE IndexedVector -----------------------------
(***************************************************************************)
(* tool::container::IndexedVector: values by category, in one vector.      *)
(* A container is a record                                                 *)
(*   offsets  for every category where its values begin, and a sentinel    *)
(*   data     the values, category by category                             *)
(* Categories and the positions in them count from 0, as in the code.      *)
(***************************************************************************)
EXTENDS Integers, Sequences, SequencesExt

EmptyVector == [offsets |-> << 0 >>, data |-> << >>]

\* category_size()
Categories(vector) == Len(vector.offsets) - 1

\* the offsets, as far as the one behind the category
Reaching(offsets, category, size) ==
    offsets \o [ i \in 1 .. category + 2 - Len(offsets) |-> size ]

\* behind the values of its category; whatever lies behind moves up
PushBack(vector, category, value) ==
    LET offsets == Reaching(vector.offsets, category, Len(vector.data))
    IN  [ offsets |-> [ i \in DOMAIN offsets |->
                          IF i >= category + 2 THEN offsets[i] + 1 ELSE offsets[i] ],
          data    |-> InsertAt(vector.data, offsets[category + 2] + 1, value) ]

\* Nothing checks that the category exists: reading another one's offsets is undefined.
HasCategory(vector, category) == category \in 0 .. Categories(vector) - 1

\* crange(category) and category_size(category)
Category(vector, category) ==
    SubSeq(vector.data, vector.offsets[category + 1] + 1, vector.offsets[category + 2])

CategorySize(vector, category) == vector.offsets[category + 2] - vector.offsets[category + 1]

\* crange(category, from, to), without a check either
Part(vector, category, from, to) ==
    SubSeq(vector.data, vector.offsets[category + 1] + from + 1, vector.offsets[category + 1] + to)
================================================================================
