--------------------------------- MODULE Lists ---------------------------------
(***************************************************************************)
(* What the code asks of the algorithms of the C++ library for a list.     *)
(***************************************************************************)
EXTENDS Integers, Sequences, FiniteSets

\* std::copy_if and std::remove_if: the elements at some places, in their order
Selected(list, places) ==
    [ k \in 1 .. Cardinality(places) |->
        list[CHOOSE i \in places : Cardinality({ j \in places : j <= i }) = k] ]

\* std::find_if: the first place where something holds, the one behind the last if nowhere
IndexOf(list, Test(_)) ==
    LET matches == { i \in DOMAIN list : Test(list[i]) }
    IN  IF matches = {} THEN Len(list) + 1 ELSE CHOOSE i \in matches : \A j \in matches : i <= j

(***************************************************************************)
(* std::sort by a key. Equal elements keep their order: stable by name for *)
(* std::stable_sort, and for std::sort because libstdc++ sorts up to 16    *)
(* elements by insertion.                                                  *)
(***************************************************************************)
Sorted(list, keys) ==
    LET Rank(i) == Cardinality({ j \in DOMAIN list :
                                   keys[j] < keys[i] \/ (keys[j] = keys[i] /\ j <= i) })
        sorted  == [ k \in DOMAIN list |-> list[CHOOSE i \in DOMAIN list : Rank(i) = k] ]
    IN  SubSeq(sorted, 1, Len(list))   \* a tuple, so that TLC evaluates it once

StableSort(list, KeyOf(_)) == Sorted(list, [ i \in DOMAIN list |-> KeyOf(list[i]) ])
================================================================================
