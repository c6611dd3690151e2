-------------------------------- MODULE Folding --------------------------------
(***************************************************************************)
(* What holds of a value before a list is folded into it and is kept by    *)
(* every element holds of the fold.                                        *)
(*                                                                         *)
(* The module is instantiated with the step of a fold and with what the    *)
(* step keeps: an operator of a context, of how many elements are folded   *)
(* already, and of the value so far.                                       *)
(***************************************************************************)
EXTENDS Integers, WellFoundedInduction, TLAPS

CONSTANTS
    Step(_, _, _),   \* of a context, the value so far and the next element
    Keeps(_, _, _)

Latest(places) == CHOOSE i \in places : \A j \in places : i >= j

\* FoldLeft as the library defines it
Fold(context, base, list) ==
    LET iter[places \in SUBSET DOMAIN list] ==
            IF places = {} THEN base
            ELSE Step(context, iter[places \ {Latest(places)}], list[Latest(places)])
    IN  iter[DOMAIN list]

\* there is a function that folds any of the first elements
Folds(iter, context, base, list, k) ==
    iter = [ places \in SUBSET (1 .. k) |->
               IF places = {} THEN base
               ELSE Step(context, iter[places \ {Latest(places)}], list[Latest(places)]) ]

LEMMA First ==
    ASSUME NEW S, S \subseteq Nat, S # {}
    PROVE  \E least \in S : \A n \in S : least <= n
<1>1. PICK least \in S : \A n \in S : << n, least >> \notin OpToRel(<, Nat)
  BY WFMin, NatLessThanWellFounded, Zenon
<1>2. \A n \in S : ~ (n < least)
  BY <1>1 DEF OpToRel
<1> QED
  BY <1>2

LEMMA LatestOf ==
    ASSUME NEW k \in Nat, NEW places \in SUBSET (1 .. k), k \in places
    PROVE  Latest(places) = k
<1>1. \A j \in places : k >= j
  OBVIOUS
<1>2. \A i \in places : (\A j \in places : i >= j) => i = k
  <2> SUFFICES ASSUME NEW i \in places, i >= k
               PROVE  i = k
    OBVIOUS
  <2> QED
    OBVIOUS
<1> QED
  BY <1>1, <1>2, Zenon DEF Latest

LEMMA LatestIn ==
    ASSUME NEW k \in Nat, NEW places \in SUBSET (1 .. k), places # {}
    PROVE  Latest(places) \in places
<1> DEFINE Left == { d \in Nat : k - d \in places }
<1>1. Left \subseteq Nat /\ Left # {}
  <2>1. PICK i \in places : TRUE
    OBVIOUS
  <2>2. i \in Nat /\ k - i \in Nat /\ k - (k - i) = i
    OBVIOUS
  <2> QED
    BY <2>2
<1>2. PICK least \in Left : \A n \in Left : least <= n
  <2> HIDE DEF Left
  <2> QED
    BY <1>1, First
<1>3. k - least \in places /\ least \in Nat
  BY <1>2
<1>4. \A j \in places : k - least >= j
  <2> SUFFICES ASSUME NEW j \in places
               PROVE  k - least >= j
    OBVIOUS
  <2>1. j \in Nat /\ k - j \in Nat /\ k - (k - j) = j
    OBVIOUS
  <2>2. least <= k - j
    BY <1>2, <2>1
  <2> QED
    BY <1>3, <2>1, <2>2
<1> QED
  BY <1>3, <1>4, Zenon DEF Latest

\* The recursion of a fold has a solution.
LEMMA FoldsExist ==
    ASSUME NEW context, NEW base, NEW list, NEW n \in Nat
    PROVE  \E iter : Folds(iter, context, base, list, n)
<1> DEFINE Missing == { k \in Nat : ~ \E iter : Folds(iter, context, base, list, k) }
<1> SUFFICES ASSUME Missing # {}
             PROVE  FALSE
  OBVIOUS
<1>1. PICK m \in Missing : \A k \in Missing : m <= k
  <2>1. Missing \subseteq Nat
    OBVIOUS
  <2> HIDE DEF Missing
  <2> QED
    BY <2>1, First
<1>2. m # 0
  <2>1. Folds([ places \in SUBSET (1 .. 0) |-> base ], context, base, list, 0)
    <3>1. \A places \in SUBSET (1 .. 0) : places = {}
      OBVIOUS
    <3> QED
      BY <3>1 DEF Folds
  <2> QED
    BY <2>1
<1>3. m \in Nat /\ m - 1 \in Nat /\ m - 1 \notin Missing
  BY <1>1, <1>2
<1>4. PICK before : Folds(before, context, base, list, m - 1)
  BY <1>3
<1> DEFINE iter == [ places \in SUBSET (1 .. m) |->
                       IF places \subseteq 1 .. m - 1 THEN before[places]
                       ELSE Step(context, before[places \ {m}], list[m]) ]
<1>5. ASSUME NEW places \in SUBSET (1 .. m)
      PROVE  iter[places] =
               IF places = {} THEN base
               ELSE Step(context, iter[places \ {Latest(places)}], list[Latest(places)])
  <2>1. CASE places \subseteq 1 .. m - 1
    <3>1. places \ {Latest(places)} \in SUBSET (1 .. m - 1)
          /\ places \ {Latest(places)} \in SUBSET (1 .. m)
      BY <2>1
    <3>2. iter[places] = before[places]
          /\ iter[places \ {Latest(places)}] = before[places \ {Latest(places)}]
      BY <2>1, <3>1
    <3>3. before[places] =
            IF places = {} THEN base
            ELSE Step(context, before[places \ {Latest(places)}], list[Latest(places)])
      BY <1>4, <2>1 DEF Folds
    <3> HIDE DEF iter
    <3> QED
      BY <3>2, <3>3
  <2>2. CASE ~ places \subseteq 1 .. m - 1
    <3>1. m \in places
      BY <1>3, <2>2
    <3>2. Latest(places) = m
      BY <1>3, <3>1, LatestOf
    <3>3. places \ {m} \subseteq 1 .. m - 1 /\ places \ {m} \in SUBSET (1 .. m)
      BY <1>3
    <3>4. iter[places] = Step(context, before[places \ {m}], list[m])
          /\ iter[places \ {m}] = before[places \ {m}]
      BY <2>2, <3>3
    <3> HIDE DEF iter
    <3> QED
      BY <3>1, <3>2, <3>4
  <2> QED
    BY <2>1, <2>2
<1>6. iter = [ places \in SUBSET (1 .. m) |-> iter[places] ]
  OBVIOUS
<1> HIDE DEF iter
<1>7. Folds(iter, context, base, list, m)
  BY <1>5, <1>6 DEF Folds
<1> QED
  BY <1>1, <1>7

\* What every step keeps holds of the fold.
THEOREM FoldKeeps ==
    ASSUME NEW context, NEW base, NEW list, NEW n \in Nat, DOMAIN list = 1 .. n,
           Keeps(context, 0, base),
           \A k \in 1 .. n : \A value :
              Keeps(context, k - 1, value) => Keeps(context, k, Step(context, value, list[k]))
    PROVE  Keeps(context, n, Fold(context, base, list))
<1> DEFINE iter == CHOOSE iter : Folds(iter, context, base, list, n)
<1>1. Folds(iter, context, base, list, n)
  BY FoldsExist
<1>2. Fold(context, base, list) = iter[1 .. n]
  BY DEF Fold, Folds
<1> HIDE DEF iter
<1>3. iter[{}] = base
  BY <1>1 DEF Folds
<1>4. ASSUME NEW k \in 1 .. n
      PROVE  iter[1 .. k] = Step(context, iter[1 .. k - 1], list[k])
  <2>1. Latest(1 .. k) = k
    BY LatestOf
  <2>2. (1 .. k) \ {k} = 1 .. k - 1 /\ 1 .. k # {} /\ 1 .. k \in SUBSET (1 .. n)
    OBVIOUS
  <2>3. iter[1 .. k] = Step(context, iter[(1 .. k) \ {Latest(1 .. k)}], list[Latest(1 .. k)])
    BY <1>1, <2>2 DEF Folds
  <2> QED
    BY <2>1, <2>2, <2>3
<1> DEFINE Missing == { k \in 0 .. n : ~ Keeps(context, k, iter[1 .. k]) }
<1>5. Missing = {}
  <2> SUFFICES ASSUME Missing # {}
               PROVE  FALSE
    OBVIOUS
  <2>1. PICK m \in Missing : \A k \in Missing : m <= k
    <3>1. Missing \subseteq Nat
      OBVIOUS
    <3> HIDE DEF Missing
    <3> QED
      BY <3>1, First
  <2>2. m # 0
    <3>1. 1 .. 0 = {}
      OBVIOUS
    <3> QED
      BY <1>3, <3>1
  <2>3. m \in 1 .. n /\ m - 1 \in 0 .. n /\ m - 1 \notin Missing
    BY <2>1, <2>2
  <2>4. Keeps(context, m - 1, iter[1 .. m - 1])
    BY <2>3
  <2>5. Keeps(context, m, Step(context, iter[1 .. m - 1], list[m]))
    BY <2>3, <2>4
  <2>6. Keeps(context, m, iter[1 .. m])
    BY <1>4, <2>3, <2>5
  <2> QED
    BY <2>1, <2>6
<1> QED
  BY <1>2, <1>5
================================================================================
