--------------------------- MODULE LineTableProofs ---------------------------
(***************************************************************************)
(* LineTable::get on the tables the factories make: among all services of  *)
(* the line it finds the first one that can still be caught, although it   *)
(* looks at a part of the departures only, and for the time at another     *)
(* stop than the one asked for.                                            *)
(***************************************************************************)
EXTENDS LineTable, Lists, SequencesExt, FiniteSetTheorems, SequenceTheorems, WellFoundedInduction, TLAPS

Departure == [begin : Seconds, end : Seconds, headway : Nat, duration : Nat]

\* departures are single services, sorted; no service passes the end of the clock, and
\* time_deltas are no shorter than the way of any of them
Orderly(line) ==
    LET departures == line.departures
    IN  /\ line.stops \in Seq(Nat)
        /\ departures \in Seq(Departure)
        /\ \A k \in DOMAIN line.stops : line.time_deltas[k] \in Nat
        /\ \A i \in DOMAIN departures :
              /\ departures[i].end = departures[i].begin
              /\ departures[i].headway = 0
              /\ \A j \in 1 .. i : departures[j].begin <= departures[i].begin
              /\ \A k \in DOMAIN line.stops :
                    LET prefix == PrefixTime(line, departures[i], k)
                    IN  /\ prefix \in Nat
                        /\ prefix <= line.time_deltas[k]
                        /\ departures[i].begin + prefix < Infinity

\* the departures that have not yet left the stop at an offset
Catchable(line, offset, desired) ==
    { i \in DOMAIN line.departures :
        desired <= line.departures[i].begin + PrefixTime(line, line.departures[i], offset) }

\* those of them that leave the first stop first, and the first one of these
FirstToLeave(line, some) ==
    { i \in some :
        \A j \in some :
            \/ line.departures[i].begin < line.departures[j].begin
            \/ line.departures[i].begin = line.departures[j].begin /\ i <= j }

Service(line, offset, i) ==
    [ stops     |-> SubSeq(line.stops, offset, Len(line.stops)),
      deltas    |-> SubSeq(line.durations[line.departures[i].duration].delta,
                           offset, Len(line.stops)),
      departure |-> line.departures[i].begin + PrefixTime(line, line.departures[i], offset) ]

-----------------------------------------------------------------------------
(* The least of some numbers                                                *)

LEMMA LeastOfNumbers ==
    ASSUME NEW S, S \subseteq Nat, S # {}
    PROVE  \E least \in S : \A n \in S : least <= n
<1>1. PICK least \in S : \A n \in S : << n, least >> \notin OpToRel(<, Nat)
  BY WFMin, NatLessThanWellFounded, Zenon
<1>2. \A n \in S : ~ (n < least)
  BY <1>1 DEF OpToRel
<1> QED
  BY <1>2

-----------------------------------------------------------------------------
(* Lists                                                                    *)

\* There is an element at every rank of a finite set of places, and every one has a rank.
LEMMA Ranks ==
    ASSUME NEW size \in Nat, NEW places \in SUBSET (1 .. size)
    PROVE  LET Rank(i) == Cardinality({ k \in places : k <= i })
           IN  /\ Cardinality(places) \in Nat
               /\ \A r \in 1 .. Cardinality(places) : \E i \in places : Rank(i) = r
               /\ \A i \in places : Rank(i) \in 1 .. Cardinality(places)
               /\ \A i, j \in places : Rank(i) = Rank(j) => i = j
<1> DEFINE UpTo(i) == { k \in places : k <= i }
           Rank(i) == Cardinality(UpTo(i))
<1>1. IsFiniteSet(places) /\ Cardinality(places) \in Nat
  <2>1. IsFiniteSet(1 .. size)
    BY FS_Interval
  <2> QED
    BY <2>1, FS_Subset, FS_CardinalityType
<1>2. \A i \in Nat : IsFiniteSet(UpTo(i)) /\ Rank(i) \in Nat /\ Rank(i) <= Cardinality(places)
  <2> SUFFICES ASSUME NEW i \in Nat
               PROVE  IsFiniteSet(UpTo(i)) /\ Rank(i) \in Nat /\ Rank(i) <= Cardinality(places)
    OBVIOUS
  <2>1. UpTo(i) \in SUBSET places
    OBVIOUS
  <2> HIDE DEF UpTo
  <2> QED
    BY <1>1, <2>1, FS_Subset, FS_CardinalityType
<1>3. Rank(0) = 0 /\ Rank(size) = Cardinality(places)
  <2>1. \A k \in places : k \in 1 .. size
    OBVIOUS
  <2>2. UpTo(0) = {}
    <3>1. \A k \in places : ~ (k <= 0)
      BY <2>1
    <3> QED
      BY <3>1
  <2>3. UpTo(size) = places
    <3>1. \A k \in places : k <= size
      BY <2>1
    <3> QED
      BY <3>1
  <2> HIDE DEF UpTo
  <2> QED
    BY <2>2, <2>3, FS_EmptySet
<1>4. ASSUME NEW i \in 1 .. size
      PROVE  Rank(i) = IF i \in places THEN Rank(i - 1) + 1 ELSE Rank(i - 1)
  <2>1. UpTo(i) = IF i \in places THEN UpTo(i - 1) \cup {i} ELSE UpTo(i - 1)
    <3>1. \A k \in places : k <= i <=> k = i \/ k <= i - 1
      OBVIOUS
    <3> QED
      BY <3>1
  <2>2. i \notin UpTo(i - 1) /\ i - 1 \in Nat
    OBVIOUS
  <2>3. IsFiniteSet(UpTo(i - 1))
    BY <1>2, <2>2
  <2> HIDE DEF UpTo
  <2> QED
    BY <2>1, <2>2, <2>3, FS_AddElement
<1>5. ASSUME NEW r \in 1 .. Cardinality(places)
      PROVE  \E i \in places : Rank(i) = r
  <2> DEFINE enough == { i \in 0 .. size : r <= Rank(i) }
  <2>1. size \in enough
    BY <1>1, <1>3
  <2>2. PICK i \in enough : \A k \in enough : i <= k
    <3> HIDE DEF Rank
    <3>1. enough \subseteq Nat /\ enough # {}
      BY <2>1
    <3> HIDE DEF enough
    <3> QED
      BY <3>1, LeastOfNumbers
  <2> HIDE DEF Rank
  <2>3. i # 0
    BY <1>1, <1>3, <2>2
  <2>4. i \in 1 .. size /\ i - 1 \in 0 .. size /\ i - 1 \in Nat /\ i \in Nat
    BY <2>2, <2>3
  <2>5. ~ (r <= Rank(i - 1)) /\ r <= Rank(i)
    BY <2>2, <2>4
  <2>6. Rank(i - 1) \in Nat /\ Rank(i) \in Nat
    BY <1>2, <2>4
  <2> QED
    BY <1>4, <2>4, <2>5, <2>6
<1>6. ASSUME NEW i \in places
      PROVE  Rank(i) \in 1 .. Cardinality(places)
  <2>1. i \in 1 .. size /\ i - 1 \in Nat /\ i \in Nat
    OBVIOUS
  <2> HIDE DEF Rank
  <2>2. Rank(i) = Rank(i - 1) + 1
    BY <1>4, <2>1
  <2>3. Rank(i - 1) \in Nat /\ Rank(i) \in Nat /\ Rank(i) <= Cardinality(places)
    BY <1>2, <2>1
  <2> QED
    BY <1>1, <2>2, <2>3
<1>7. ASSUME NEW i \in places, NEW j \in places, i < j
      PROVE  Rank(i) # Rank(j)
  <2>1. j \in Nat /\ j <= j /\ ~ (j <= i) /\ \A k \in places : k <= i => k <= j
    <3>1. i \in 1 .. size /\ j \in 1 .. size /\ \A k \in places : k \in 1 .. size
      OBVIOUS
    <3> QED
      BY <1>7, <3>1
  <2>2. UpTo(i) \in SUBSET UpTo(j) /\ j \in UpTo(j) /\ j \notin UpTo(i)
    BY <2>1
  <2>3. IsFiniteSet(UpTo(j))
    BY <1>2, <2>1
  <2> HIDE DEF UpTo
  <2> QED
    BY <2>2, <2>3, FS_Subset
<1>8. ASSUME NEW i \in places, NEW j \in places, Rank(i) = Rank(j)
      PROVE  i = j
  <2>1. i \in Nat /\ j \in Nat
    OBVIOUS
  <2> HIDE DEF Rank
  <2> QED
    BY <1>7, <1>8, <2>1
<1> HIDE DEF Rank, UpTo
<1>9. /\ Cardinality(places) \in Nat
      /\ \A r \in 1 .. Cardinality(places) : \E i \in places : Rank(i) = r
      /\ \A i \in places : Rank(i) \in 1 .. Cardinality(places)
      /\ \A i, j \in places : Rank(i) = Rank(j) => i = j
  BY <1>1, <1>5, <1>6, <1>8
<1> QED
  BY <1>9 DEF Rank, UpTo

\* What is selected are the elements at the places and no others.
LEMMA SelectedFacts ==
    ASSUME NEW S, NEW list \in Seq(S), NEW places \in SUBSET DOMAIN list
    PROVE  /\ Cardinality(places) \in Nat
           /\ Selected(list, places) \in Seq(S)
           /\ Len(Selected(list, places)) = Cardinality(places)
           /\ \A r \in DOMAIN Selected(list, places) :
                 \E i \in places : Selected(list, places)[r] = list[i]
           /\ \A i \in places : \E r \in DOMAIN Selected(list, places) :
                 Selected(list, places)[r] = list[i]
           /\ \E from \in Bijection(1 .. Cardinality(places), places) :
                 \A r \in 1 .. Cardinality(places) : Selected(list, places)[r] = list[from[r]]
<1> DEFINE Rank(i) == Cardinality({ k \in places : k <= i })
           At(r) == CHOOSE i \in places : Rank(i) = r
           size == Cardinality(places)
<1>1. Len(list) \in Nat /\ places \in SUBSET (1 .. Len(list))
  OBVIOUS
<1>2. /\ size \in Nat
      /\ \A r \in 1 .. size : \E i \in places : Rank(i) = r
      /\ \A i \in places : Rank(i) \in 1 .. size
      /\ \A i, j \in places : Rank(i) = Rank(j) => i = j
  BY <1>1, Ranks
<1>3. Selected(list, places) = [ r \in 1 .. size |-> list[At(r)] ]
  BY DEF Selected
<1> HIDE DEF Rank, size
<1>4. \A r \in 1 .. size : At(r) \in places /\ Rank(At(r)) = r
  BY <1>2
<1>5. \A i \in places : At(Rank(i)) = i
  BY <1>2, <1>4
<1> HIDE DEF At
<1>6. \A i \in places : list[i] \in S
  OBVIOUS
<1>7. \A r \in 1 .. size : list[At(r)] \in S
  BY <1>4, <1>6
<1>8. [ r \in 1 .. size |-> list[At(r)] ] \in Seq(S)
  BY <1>2, <1>7, IsASeq
<1> DEFINE from == [ r \in 1 .. size |-> At(r) ]
<1>9. from \in Bijection(1 .. size, places)
  <2>1. from \in [1 .. size -> places] /\ \A r \in 1 .. size : Rank(from[r]) = r
    BY <1>4
  <2>2. \A i \in places : Rank(i) \in 1 .. size /\ from[Rank(i)] = i
    BY <1>2, <1>5
  <2> HIDE DEF from
  <2> QED
    BY <2>1, <2>2 DEF Bijection, Injection, Surjection, IsInjective
<1>10. \A r \in 1 .. size : Selected(list, places)[r] = list[from[r]]
  BY <1>3
<1> QED
  BY <1>2, <1>3, <1>4, <1>5, <1>8, <1>9, <1>10 DEF size

\* A sorted list has the elements of the list it was made from, each where it belongs.
LEMMA SortedFacts ==
    ASSUME NEW S, NEW list \in Seq(S), NEW keys \in [DOMAIN list -> Int]
    PROVE  /\ Sorted(list, keys) \in Seq(S)
           /\ Len(Sorted(list, keys)) = Len(list)
           /\ \E from \in Bijection(DOMAIN list, DOMAIN list) :
                 /\ \A k \in DOMAIN list : Sorted(list, keys)[k] = list[from[k]]
                 /\ \A i, k \in DOMAIN list : i < k => keys[from[i]] <= keys[from[k]]
<1> DEFINE n == Len(list)
           Ahead(j, i) == keys[j] < keys[i] \/ (keys[j] = keys[i] /\ j <= i)
           UpTo(i) == { j \in 1 .. n : Ahead(j, i) }
           AsWritten(i) == CHOOSE m \in DOMAIN list :
               Cardinality({ j \in DOMAIN list :
                               keys[j] < keys[m] \/ (keys[j] = keys[m] /\ j <= m) }) = i
           rank == [ i \in 1 .. n |-> Cardinality(UpTo(i)) ]
<1>1. n \in Nat /\ DOMAIN list = 1 .. n /\ \A i \in 1 .. n : list[i] \in S /\ keys[i] \in Int
  OBVIOUS
<1> HIDE DEF n
<1> HIDE DEF AsWritten
<1>2. /\ \A i \in 1 .. n : Ahead(i, i)
      /\ \A i, j \in 1 .. n : Ahead(i, j) \/ Ahead(j, i)
      /\ \A i, j \in 1 .. n : Ahead(i, j) /\ Ahead(j, i) => i = j
      /\ \A i, j, k \in 1 .. n : Ahead(i, j) /\ Ahead(j, k) => Ahead(i, k)
  BY <1>1
<1>3. \A i, j \in 1 .. n : Ahead(i, j) => keys[i] <= keys[j]
  BY <1>1
<1> HIDE DEF Ahead
<1>4. ASSUME NEW i \in 1 .. n
      PROVE  IsFiniteSet(UpTo(i)) /\ Cardinality(UpTo(i)) \in 1 .. n
  <2>1. IsFiniteSet(1 .. n) /\ Cardinality(1 .. n) = n
    BY <1>1, FS_Interval
  <2>2. UpTo(i) \in SUBSET (1 .. n) /\ i \in UpTo(i)
    BY <1>2
  <2>3. IsFiniteSet(UpTo(i)) /\ Cardinality(UpTo(i)) <= n
    BY <2>1, <2>2, FS_Subset
  <2>4. Cardinality(UpTo(i)) \in Nat /\ Cardinality(UpTo(i)) # 0
    BY <2>2, <2>3, FS_CardinalityType, FS_EmptySet
  <2> QED
    BY <1>1, <2>3, <2>4
<1>5. ASSUME NEW i \in 1 .. n, NEW j \in 1 .. n, Ahead(i, j), i # j
      PROVE  rank[i] < rank[j]
  <2>1. UpTo(i) \in SUBSET UpTo(j)
    BY <1>2, <1>5
  <2>2. j \in UpTo(j) /\ j \notin UpTo(i)
    BY <1>2, <1>5
  <2> HIDE DEF UpTo
  <2>3. IsFiniteSet(UpTo(j)) /\ Cardinality(UpTo(i)) \in Nat /\ Cardinality(UpTo(j)) \in Nat
    <3>1. Cardinality(UpTo(i)) \in 1 .. n
      BY <1>4
    <3>2. IsFiniteSet(UpTo(j)) /\ Cardinality(UpTo(j)) \in 1 .. n
      BY <1>4
    <3> QED
      BY <1>1, <3>1, <3>2
  <2>4. Cardinality(UpTo(i)) <= Cardinality(UpTo(j)) /\ Cardinality(UpTo(i)) # Cardinality(UpTo(j))
    BY <2>1, <2>2, <2>3, FS_Subset
  <2> QED
    BY <2>3, <2>4
<1>6. rank \in [1 .. n -> 1 .. n]
  BY <1>4
<1> HIDE DEF UpTo
<1>7. ASSUME NEW i \in 1 .. n, NEW j \in 1 .. n, rank[i] = rank[j]
      PROVE  i = j
  <2> HIDE DEF rank
  <2>1. rank[i] \in Nat /\ ~ (rank[i] < rank[j]) /\ ~ (rank[j] < rank[i])
    BY <1>6, <1>7
  <2> QED
    BY <1>2, <1>5, <2>1
<1>8. rank \in Surjection(1 .. n, 1 .. n)
  <2> HIDE DEF rank
  <2>1. rank \in Injection(1 .. n, 1 .. n)
    BY <1>6, <1>7 DEF Injection, IsInjective
  <2>2. IsFiniteSet(1 .. n)
    BY <1>1, FS_Interval
  <2> QED
    BY <2>1, <2>2, FS_Injection
<1> DEFINE from == [ k \in 1 .. n |-> CHOOSE i \in 1 .. n : Cardinality(UpTo(i)) = k ]
<1>9. \A k \in 1 .. n : from[k] \in 1 .. n /\ rank[from[k]] = k
  <2>1. \A k \in 1 .. n : \E i \in 1 .. n : rank[i] = k
    <3> HIDE DEF rank
    <3> QED
      BY <1>8 DEF Surjection
  <2>2. \A k \in 1 .. n : \E i \in 1 .. n : Cardinality(UpTo(i)) = k
    BY <2>1
  <2> QED
    BY <2>2
<1>10. from \in Bijection(1 .. n, 1 .. n)
  <2> HIDE DEF rank
  <2>1. from \in [1 .. n -> 1 .. n]
    BY <1>9
  <2>2. \A k \in 1 .. n : rank[k] \in 1 .. n /\ from[rank[k]] = k
    BY <1>6, <1>7, <1>9
  <2>3. \A i, k \in 1 .. n : from[i] = from[k] => i = k
    BY <1>9
  <2> HIDE DEF from
  <2> QED
    BY <2>1, <2>2, <2>3 DEF Bijection, Injection, Surjection, IsInjective
<1>11. Sorted(list, keys) = SubSeq([ k \in 1 .. n |-> list[from[k]] ], 1, n)
  <2>1. Sorted(list, keys) = SubSeq([ k \in DOMAIN list |-> list[AsWritten(k)] ], 1, Len(list))
    BY Zenon DEF Sorted, AsWritten
  <2>2. ASSUME NEW k \in 1 .. n
        PROVE  from[k] = AsWritten(k)
    <3>1. from[k] = CHOOSE i \in 1 .. n : Cardinality(UpTo(i)) = k
      OBVIOUS
    <3> HIDE DEF from
    <3> QED
      BY <1>1, <3>1, Zenon DEF AsWritten, UpTo, Ahead
  <2> HIDE DEF from, UpTo, AsWritten
  <2>3. [ k \in DOMAIN list |-> list[AsWritten(k)] ] = [ k \in 1 .. n |-> list[from[k]] ]
    BY <1>1, <2>2
  <2> QED
    BY <1>1, <2>1, <2>3, Zenon DEF n
<1> HIDE DEF rank, from
<1>12. [ k \in 1 .. n |-> list[from[k]] ] \in Seq(S)
  BY <1>1, <1>9, IsASeq
<1>13. Sorted(list, keys) = [ k \in 1 .. n |-> list[from[k]] ]
  BY <1>1, <1>11, <1>12
<1>14. ASSUME NEW i \in 1 .. n, NEW k \in 1 .. n, i < k
       PROVE  keys[from[i]] <= keys[from[k]]
  <2>1. ~ Ahead(from[k], from[i]) \/ from[k] = from[i]
    <3>1. ~ (rank[from[k]] < rank[from[i]])
      BY <1>9, <1>14
    <3> QED
      BY <1>5, <1>9, <3>1
  <2> QED
    BY <1>2, <1>3, <1>9, <2>1
<1> QED
  BY <1>1, <1>10, <1>12, <1>13, <1>14

LEMMA RangeOfBoth ==
    ASSUME NEW S, NEW first \in Seq(S), NEW second \in Seq(S)
    PROVE  Range(first \o second) = Range(first) \cup Range(second)
<1> DEFINE both == first \o second
<1>1. Len(first) \in Nat /\ Len(second) \in Nat
      /\ DOMAIN first = 1 .. Len(first) /\ DOMAIN second = 1 .. Len(second)
  OBVIOUS
<1>2. /\ DOMAIN both = 1 .. Len(first) + Len(second)
      /\ \A i \in 1 .. Len(first) : both[i] = first[i]
      /\ \A i \in 1 .. Len(second) : both[Len(first) + i] = second[i]
  BY <1>1
<1> HIDE DEF both
<1>3. \A i \in DOMAIN first : i \in DOMAIN both /\ both[i] = first[i]
  BY <1>1, <1>2
<1>4. ASSUME NEW i \in DOMAIN second
      PROVE  Len(first) + i \in DOMAIN both /\ both[Len(first) + i] = second[i]
  <2>1. PICK m \in Nat : m = Len(first)
    BY <1>1
  <2>2. i \in 1 .. Len(second) /\ m + i \in 1 .. m + Len(second)
    BY <1>1
  <2> QED
    BY <1>2, <2>1, <2>2
<1>5. ASSUME NEW i \in DOMAIN both
      PROVE  both[i] \in Range(first) \cup Range(second)
  <2>1. CASE i <= Len(first)
    BY <1>1, <1>2, <2>1 DEF Range
  <2>2. CASE ~ (i <= Len(first))
    <3>1. i - Len(first) \in 1 .. Len(second) /\ Len(first) + (i - Len(first)) = i
      BY <1>1, <1>2, <2>2
    <3> QED
      BY <1>1, <1>2, <3>1 DEF Range
  <2> QED
    BY <2>1, <2>2
<1>6. Range(both) \subseteq Range(first) \cup Range(second)
  BY <1>5 DEF Range
<1>7. Range(first) \subseteq Range(both)
  BY <1>3 DEF Range
<1>8. Range(second) \subseteq Range(both)
  BY <1>4 DEF Range
<1> QED
  BY <1>6, <1>7, <1>8 DEF both

\* The elements of a set in some order.
LEMMA SetToSeqFacts ==
    ASSUME NEW S, IsFiniteSet(S)
    PROVE  SetToSeq(S) \in Seq(S) /\ Range(SetToSeq(S)) = S
<1>1. Cardinality(S) \in Nat /\ ExistsBijection(1 .. Cardinality(S), S)
  BY FS_CardinalityType
<1>2. \E f \in [1 .. Cardinality(S) -> S] : IsInjective(f)
  BY <1>1 DEF ExistsBijection, Bijection, Injection
<1>3. SetToSeq(S) \in [1 .. Cardinality(S) -> S] /\ IsInjective(SetToSeq(S))
  BY <1>2 DEF SetToSeq
<1>4. SetToSeq(S) \in Surjection(1 .. Cardinality(S), S)
  <2>1. SetToSeq(S) \in Injection(1 .. Cardinality(S), S)
    BY <1>3 DEF Injection
  <2>2. IsFiniteSet(1 .. Cardinality(S)) /\ Cardinality(1 .. Cardinality(S)) = Cardinality(S)
    BY <1>1, FS_Interval
  <2> QED
    BY <2>1, <2>2, FS_Injection
<1>5. Range(SetToSeq(S)) = S
  BY <1>3, <1>4 DEF Surjection, Range
<1>6. SetToSeq(S) \in Seq(S)
  BY <1>1, <1>3
<1> QED
  BY <1>5, <1>6

\* Lists are flattened one after the other.
LEMMA FlattenSteps ==
    ASSUME NEW S, NEW lists \in Seq(Seq(S))
    PROVE  \E flat \in [0 .. Len(lists) -> Seq(S)] :
              /\ flat[0] = << >>
              /\ \A i \in 1 .. Len(lists) : flat[i] = flat[i - 1] \o lists[i]
              /\ FlattenSeq(lists) = flat[Len(lists)]
<1> DEFINE n == Len(lists)
           Steps(f, k) == f[0] = << >> /\ \A i \in 1 .. k : f[i] = f[i - 1] \o lists[i]
           Stuck == { k \in 0 .. n : ~ \E f \in [0 .. k -> Seq(S)] : Steps(f, k) }
           Step(g, i) == IF i = 1 THEN lists[i] ELSE g[i - 1] \o lists[i]
           chosen == CHOOSE g : g = [ i \in 1 .. n |-> Step(g, i) ]
<1>1. n \in Nat /\ DOMAIN lists = 1 .. n /\ \A i \in 1 .. n : lists[i] \in Seq(S)
  OBVIOUS
<1>2. CASE n = 0
  <2>1. lists = << >>
    BY <1>2
  <2>2. FlattenSeq(lists) = << >>
    BY <1>2, <2>1, Zenon DEF FlattenSeq, n
  <2> DEFINE none == [ i \in 0 .. n |-> << >> ]
  <2>3. none \in [0 .. n -> Seq(S)] /\ none[0] = << >> /\ none[n] = << >>
    BY <1>2
  <2>4. \A i \in 1 .. n : FALSE
    BY <1>2
  <2> HIDE DEF n, none
  <2>5. \A i \in 1 .. n : none[i] = none[i - 1] \o lists[i]
    BY <2>4
  <2> QED
    BY <2>2, <2>3, <2>5 DEF n
<1> HIDE DEF n, Steps
<1>3. CASE n # 0
  <2>1. Stuck = {}
    <3> SUFFICES ASSUME Stuck # {}
                 PROVE  FALSE
      OBVIOUS
    <3>1. PICK m \in Stuck : \A k \in Stuck : m <= k
      <4>1. Stuck \subseteq Nat
        BY <1>1
      <4> HIDE DEF Stuck
      <4> QED
        BY <4>1, LeastOfNumbers
    <3>2. m # 0
      <4>1. [ i \in 0 .. 0 |-> << >> ] \in [0 .. 0 -> Seq(S)]
            /\ Steps([ i \in 0 .. 0 |-> << >> ], 0)
        BY DEF Steps
      <4> QED
        BY <4>1
    <3>3. m \in 1 .. n /\ m - 1 \in 0 .. n /\ m - 1 \notin Stuck
      <4>1. m \in 0 .. n
        BY <3>1
      <4>2. m \in 1 .. n /\ m - 1 \in 0 .. n /\ ~ (m <= m - 1)
        BY <1>1, <3>2, <4>1
      <4> HIDE DEF Stuck
      <4> QED
        BY <3>1, <4>2
    <3>4. PICK f \in [0 .. m - 1 -> Seq(S)] : Steps(f, m - 1)
      BY <3>3
    <3> DEFINE longer == [ i \in 0 .. m |-> IF i = m THEN f[m - 1] \o lists[m] ELSE f[i] ]
    <3>5. f[m - 1] \o lists[m] \in Seq(S)
      BY <1>1, <3>3
    <3>6. longer \in [0 .. m -> Seq(S)]
      BY <3>3, <3>5
    <3>7. Steps(longer, m)
      <4>1. longer[0] = << >>
        BY <3>3, <3>4 DEF Steps
      <4>2. ASSUME NEW i \in 1 .. m
            PROVE  longer[i] = longer[i - 1] \o lists[i]
        <5>1. longer[i - 1] = f[i - 1]
          BY <3>3
        <5>2. CASE i = m
          <6>0. i \in 0 .. m
            BY <3>3
          <6>1. longer[i] = f[m - 1] \o lists[m]
            BY <5>2, <6>0, Zenon
          <6> QED
            BY <5>1, <5>2, <6>1
        <5>3. CASE i # m
          <6>1. longer[i] = f[i] /\ i \in 1 .. m - 1
            BY <3>3, <5>3
          <6> QED
            BY <3>4, <5>1, <6>1 DEF Steps
        <5> QED
          BY <5>2, <5>3
      <4> HIDE DEF longer
      <4> QED
        BY <4>1, <4>2 DEF Steps
    <3> HIDE DEF longer
    <3> QED
      BY <3>1, <3>6, <3>7
  <2>2. PICK f \in [0 .. n -> Seq(S)] : Steps(f, n)
    <3>1. n \in 0 .. n
      BY <1>1
    <3> QED
      BY <2>1, <3>1
  <2>3. [ i \in 1 .. n |-> f[i] ] = [ i \in 1 .. n |-> Step([ k \in 1 .. n |-> f[k] ], i) ]
    <3>1. ASSUME NEW i \in 1 .. n
          PROVE  f[i] = Step([ k \in 1 .. n |-> f[k] ], i)
      <4>1. CASE i = 1
        <5>1. f[1] = << >> \o lists[1]
          <6>1. f[0] = << >> /\ f[1] = f[1 - 1] \o lists[1] /\ 1 - 1 = 0
            <7>1. 1 \in 1 .. n
              BY <4>1
            <7>2. f[0] = << >> /\ \A k \in 1 .. n : f[k] = f[k - 1] \o lists[k]
              BY <2>2 DEF Steps
            <7>3. f[1] = f[1 - 1] \o lists[1]
              BY <7>1, <7>2
            <7> QED
              BY <7>2, <7>3
          <6>2. lists[1] \in Seq(S)
            BY <1>1, <4>1
          <6> QED
            BY <6>1, <6>2
        <5> QED
          BY <1>1, <4>1, <5>1
      <4>2. CASE i # 1
        <5>1. i - 1 \in 1 .. n
          BY <1>1, <4>2
        <5> QED
          BY <2>2, <4>2, <5>1 DEF Steps
      <4> QED
        BY <4>1, <4>2
    <3> HIDE DEF Step
    <3> QED
      BY <3>1
  <2>4. chosen = [ i \in 1 .. n |-> Step(chosen, i) ]
    <3> HIDE DEF Step
    <3> QED
      BY <2>3
  <2>5. FlattenSeq(lists) = chosen[n]
    BY <1>3, Zenon DEF FlattenSeq, n
  <2> HIDE DEF chosen
  <2> DEFINE Apart == { i \in 1 .. n : chosen[i] # f[i] }
  <2>6. Apart = {}
    <3> SUFFICES ASSUME Apart # {}
                 PROVE  FALSE
      OBVIOUS
    <3>1. PICK m \in Apart : \A k \in Apart : m <= k
      <4>1. Apart \subseteq Nat
        BY <1>1
      <4> HIDE DEF Apart
      <4> QED
        BY <4>1, LeastOfNumbers
    <3>2. chosen[m] = Step(chosen, m) /\ f[m] = Step([ k \in 1 .. n |-> f[k] ], m)
      <4> HIDE DEF Step
      <4> QED
        BY <2>3, <2>4, <3>1
    <3>3. CASE m = 1
      BY <3>1, <3>2, <3>3
    <3>4. CASE m # 1
      <4>1. m - 1 \in 1 .. n /\ m - 1 \notin Apart
        BY <1>1, <3>1, <3>4
      <4> QED
        BY <3>1, <3>2, <3>4, <4>1
    <3> QED
      BY <3>3, <3>4
  <2>7. FlattenSeq(lists) = f[n]
    <3>1. n \in 1 .. n
      BY <1>1, <1>3
    <3> QED
      BY <2>5, <2>6, <3>1
  <2> QED
    BY <2>2, <2>7 DEF n, Steps
<1> QED
  BY <1>2, <1>3 DEF n

\* What is flattened are the elements of the lists and no others.
LEMMA FlattenFacts ==
    ASSUME NEW S, NEW lists \in Seq(Seq(S))
    PROVE  /\ FlattenSeq(lists) \in Seq(S)
           /\ Range(FlattenSeq(lists)) = UNION { Range(lists[i]) : i \in DOMAIN lists }
<1> DEFINE n == Len(lists)
<1>1. PICK flat \in [0 .. n -> Seq(S)] :
              /\ flat[0] = << >>
              /\ \A i \in 1 .. n : flat[i] = flat[i - 1] \o lists[i]
              /\ FlattenSeq(lists) = flat[n]
  BY FlattenSteps
<1>2. n \in Nat /\ DOMAIN lists = 1 .. n /\ \A i \in 1 .. n : lists[i] \in Seq(S)
  OBVIOUS
<1> HIDE DEF n
<1> DEFINE Among(k) == \A x : x \in Range(flat[k]) <=> \E i \in 1 .. k : x \in Range(lists[i])
           Bad == { k \in 0 .. n : ~ Among(k) }
<1>3. Bad = {}
  <2> SUFFICES ASSUME Bad # {}
               PROVE  FALSE
    OBVIOUS
  <2>1. PICK m \in Bad : \A k \in Bad : m <= k
    <3>1. Bad \subseteq Nat
      BY <1>2
    <3> HIDE DEF Bad
    <3> QED
      BY <3>1, LeastOfNumbers
  <2>2. m # 0
    <3>1. Range(flat[0]) = {}
      BY <1>1 DEF Range
    <3>2. 1 .. 0 = {}
      OBVIOUS
    <3> QED
      BY <3>1, <3>2
  <2>3. m \in 1 .. n /\ m - 1 \in 0 .. n /\ m - 1 \notin Bad
    <3>1. m \in 0 .. n
      BY <2>1
    <3>2. m \in 1 .. n /\ m - 1 \in 0 .. n /\ ~ (m <= m - 1)
      BY <1>2, <2>2, <3>1
    <3> HIDE DEF Bad
    <3> QED
      BY <2>1, <3>2
  <2>4. Among(m - 1)
    BY <2>3
  <2>5. Range(flat[m]) = Range(flat[m - 1]) \cup Range(lists[m])
    <3>1. flat[m] = flat[m - 1] \o lists[m] /\ flat[m - 1] \in Seq(S) /\ lists[m] \in Seq(S)
      BY <1>1, <1>2, <2>3
    <3> QED
      BY <3>1, RangeOfBoth
  <2>6. \A i : i \in 1 .. m <=> i \in 1 .. m - 1 \/ i = m
    BY <2>3
  <2> HIDE DEF Bad
  <2>7. Among(m)
    BY <2>4, <2>5, <2>6
  <2> QED
    BY <2>1, <2>7 DEF Bad
<1>4. n \in 0 .. n
  BY <1>2
<1>5. Among(n)
  BY <1>3, <1>4
<1> HIDE DEF Bad
<1>6. Range(flat[n]) = UNION { Range(lists[i]) : i \in 1 .. n }
  BY <1>5
<1> QED
  BY <1>1, <1>2, <1>4, <1>6

-----------------------------------------------------------------------------
(* Services                                                                 *)

\* Where a line serves a stop.
LEMMA OffsetOfStop ==
    ASSUME NEW line, line.stops \in Seq(Nat), NEW stop,
           \E k \in DOMAIN line.stops : line.stops[k] = stop
    PROVE  /\ Offset(line, stop) \in DOMAIN line.stops
           /\ line.stops[Offset(line, stop)] = stop
<1> DEFINE places == { k \in DOMAIN line.stops : line.stops[k] = stop }
<1>1. DOMAIN line.stops = 1 .. Len(line.stops) /\ Len(line.stops) \in Nat
  OBVIOUS
<1>2. PICK first \in places : \A k \in places : first <= k
  <2>1. places \subseteq Nat /\ places # {}
    BY <1>1
  <2> HIDE DEF places
  <2> QED
    BY <2>1, LeastOfNumbers
<1>3. ASSUME NEW j \in 1 .. first - 1
      PROVE  line.stops[j] # stop
  <2>1. first \in 1 .. Len(line.stops) /\ j \in 1 .. Len(line.stops) /\ ~ (first <= j)
    BY <1>1, <1>2
  <2> QED
    BY <1>1, <1>2, <2>1
<1>4. \E i \in 1 .. Len(line.stops) : /\ line.stops[i] = stop
                                      /\ \A j \in 1 .. i - 1 : line.stops[j] # stop
  BY <1>1, <1>2, <1>3
<1> QED
  BY <1>1, <1>4 DEF Offset

-----------------------------------------------------------------------------
(* The departures that are looked at                                        *)

\* The times get_line_departure computes: the begin of a departure that can be caught.
LEMMA LeavesAt ==
    ASSUME NEW line, Orderly(line), NEW offset \in DOMAIN line.stops, NEW desired \in Seconds,
           NEW i \in DOMAIN line.departures
    PROVE  LineDeparture(line, offset, desired, line.departures[i])
           = IF i \in Catchable(line, offset, desired) THEN line.departures[i].begin ELSE Infinity
<1> DEFINE departure == line.departures[i]
           prefix == PrefixTime(line, departure, offset)
<1>1. departure \in Departure /\ departure.end = departure.begin
  BY DEF Orderly
<1>2. prefix \in Nat /\ departure.begin \in Int /\ desired \in Int
  BY <1>1, WidthAssumption DEF Orderly, Departure, Seconds
<1>3. i \in Catchable(line, offset, desired) <=> desired <= departure.begin + prefix
  BY DEF Catchable
<1>4. departure.begin >= 0
  BY <1>1, WidthAssumption DEF Departure, Seconds
<1> HIDE DEF prefix
<1>5. (departure.end < Before(desired, prefix)) <=> ~ (desired <= departure.begin + prefix)
  BY <1>1, <1>2, <1>4 DEF Before
<1>6. Before(desired, prefix) <= departure.begin
      => NextDeparture(departure, Before(desired, prefix)) = departure.begin
  BY DEF NextDeparture
<1>7. Before(desired, prefix) \in Int
  BY <1>2 DEF Before
<1>8. LineDeparture(line, offset, desired, departure)
      = IF departure.end < Before(desired, prefix) THEN Infinity
        ELSE NextDeparture(departure, Before(desired, prefix))
  BY DEF LineDeparture, prefix
<1> QED
  BY <1>1, <1>2, <1>3, <1>5, <1>6, <1>7, <1>8

\* The lookback leaves out nothing that can be caught.
LEMMA ListsCatchable ==
    ASSUME NEW line, Orderly(line), NEW offset \in DOMAIN line.stops, NEW desired \in Seconds
    PROVE  Catchable(line, offset, desired)
           \subseteq ListDepartures(line, Before(desired, line.time_deltas[offset]))
<1> SUFFICES ASSUME NEW i \in Catchable(line, offset, desired)
             PROVE  i \in ListDepartures(line, Before(desired, line.time_deltas[offset]))
  OBVIOUS
<1> DEFINE departure == line.departures[i]
           prefix == PrefixTime(line, departure, offset)
           back == Before(desired, line.time_deltas[offset])
<1>1. /\ i \in DOMAIN line.departures /\ departure \in Departure
      /\ departure.end = departure.begin /\ departure.headway = 0
      /\ prefix \in Nat /\ prefix <= line.time_deltas[offset] /\ line.time_deltas[offset] \in Nat
      /\ desired <= departure.begin + prefix
  BY DEF Orderly, Catchable
<1>2. i \in 1 .. i
  <2>1. i \in Nat \ {0}
    BY <1>1 DEF Orderly
  <2> QED
    BY <2>1
<1>3. back <= departure.begin /\ back \in Seconds /\ departure.begin \in Int
  BY <1>1, WidthAssumption DEF Before, Departure, Seconds
<1>4. Plus(back, departure.headway) = back
  BY <1>1, <1>3, WidthAssumption DEF Plus, Seconds
<1>5. departure.end >= Plus(back, departure.headway)
  BY <1>1, <1>3, <1>4, WidthAssumption DEF Seconds
<1> QED
  BY <1>1, <1>2, <1>5 DEF ListDepartures

-----------------------------------------------------------------------------
(* The theorems                                                             *)

\* LineTable::get hands out the service that leaves first among all that can be caught,
\* and nothing if none can.
THEOREM GetIsNextService ==
    ASSUME NEW line, Orderly(line), NEW stop, NEW desired \in Seconds,
           \E k \in DOMAIN line.stops : line.stops[k] = stop
    PROVE  Get(line, stop, desired)
           = { Service(line, Offset(line, stop), i) :
                 i \in FirstToLeave(line, Catchable(line, Offset(line, stop), desired)) }
<1> DEFINE offset == Offset(line, stop)
           catchable == Catchable(line, offset, desired)
           listed == ListDepartures(line, Before(desired, line.time_deltas[offset]))
           Leaves(i) == LineDeparture(line, offset, desired, line.departures[i])
           earliest == { i \in listed :
                           \A j \in listed : \/ Leaves(i) < Leaves(j)
                                             \/ Leaves(i) = Leaves(j) /\ i <= j }
           served == { i \in earliest : Leaves(i) <= line.departures[i].end }
<1>1. offset \in DOMAIN line.stops
  BY OffsetOfStop DEF Orderly
<1>2. catchable \subseteq listed /\ listed \subseteq DOMAIN line.departures
  BY <1>1, ListsCatchable DEF ListDepartures
<1>3. \A i \in DOMAIN line.departures :
        Leaves(i) = IF i \in catchable THEN line.departures[i].begin ELSE Infinity
  BY <1>1, LeavesAt
<1>4. \A i \in DOMAIN line.departures :
        /\ i \in Nat
        /\ line.departures[i].begin \in Nat /\ line.departures[i].begin < Infinity
        /\ line.departures[i].end = line.departures[i].begin
        /\ PrefixTime(line, line.departures[i], offset) \in Nat
        /\ line.departures[i].begin + PrefixTime(line, line.departures[i], offset) < Infinity
  <2> SUFFICES ASSUME NEW i \in DOMAIN line.departures
               PROVE  /\ i \in Nat
                      /\ line.departures[i].begin \in Nat /\ line.departures[i].begin < Infinity
                      /\ line.departures[i].end = line.departures[i].begin
                      /\ PrefixTime(line, line.departures[i], offset) \in Nat
                      /\ line.departures[i].begin + PrefixTime(line, line.departures[i], offset)
                         < Infinity
    OBVIOUS
  <2>1. /\ i \in Nat /\ line.departures[i] \in Departure
        /\ line.departures[i].end = line.departures[i].begin
        /\ PrefixTime(line, line.departures[i], offset) \in Nat
        /\ line.departures[i].begin + PrefixTime(line, line.departures[i], offset) < Infinity
    BY <1>1 DEF Orderly
  <2>2. line.departures[i].begin \in Nat
    BY <2>1, WidthAssumption DEF Departure, Seconds
  <2> QED
    BY <2>1, <2>2, WidthAssumption DEF Infinity
<1>5. Infinity \in Nat
  BY WidthAssumption DEF Infinity
<1>6. served = FirstToLeave(line, catchable)
  <2> HIDE DEF Leaves, listed, catchable, offset
  <2>1. served \subseteq catchable
    BY <1>2, <1>3, <1>4, <1>5
  <2>2. ASSUME NEW i \in catchable
        PROVE  i \in served <=> i \in FirstToLeave(line, catchable)
    <3>1. i \in listed /\ Leaves(i) = line.departures[i].begin
      BY <1>2, <1>3
    <3>2. \A j \in listed \ catchable : Leaves(i) < Leaves(j)
      BY <1>2, <1>3, <1>4, <3>1
    <3>3. \A j \in catchable : Leaves(j) = line.departures[j].begin
      BY <1>2, <1>3
    <3>4. Leaves(i) <= line.departures[i].end
      BY <1>2, <1>4, <3>1
    <3> QED
      BY <1>2, <3>1, <3>2, <3>3, <3>4 DEF FirstToLeave
  <2> QED
    BY <2>1, <2>2 DEF FirstToLeave
<1>7. \A i \in served : [ stops     |-> SubSeq(line.stops, offset, Len(line.stops)),
                          deltas    |-> SubSeq(line.durations[line.departures[i].duration].delta,
                                               offset, Len(line.stops)),
                          departure |-> Plus(Leaves(i), PrefixTime(line, line.departures[i], offset)) ]
                        = Service(line, offset, i)
  <2> SUFFICES ASSUME NEW i \in served
               PROVE  Plus(Leaves(i), PrefixTime(line, line.departures[i], offset))
                      = line.departures[i].begin + PrefixTime(line, line.departures[i], offset)
    BY DEF Service
  <2>1. i \in catchable /\ i \in DOMAIN line.departures
    BY <1>2, <1>6 DEF FirstToLeave
  <2>2. Leaves(i) = line.departures[i].begin
    BY <1>3, <2>1
  <2>3. PICK prefix : prefix = PrefixTime(line, line.departures[i], offset)
    OBVIOUS
  <2>4. PICK begin : begin = line.departures[i].begin
    OBVIOUS
  <2>5. prefix \in Nat /\ begin \in Nat /\ begin + prefix < Infinity
    BY <1>4, <2>1, <2>3, <2>4
  <2>6. Plus(begin, prefix) = begin + prefix
    BY <2>5, WidthAssumption DEF Plus, Infinity
  <2> QED
    BY <2>2, <2>3, <2>4, <2>6
<1>8. Get(line, stop, desired)
      = { [ stops     |-> SubSeq(line.stops, offset, Len(line.stops)),
            deltas    |-> SubSeq(line.durations[line.departures[i].duration].delta,
                                 offset, Len(line.stops)),
            departure |-> Plus(Leaves(i), PrefixTime(line, line.departures[i], offset)) ]
          : i \in served }
  BY DEF Get
<1> HIDE DEF Leaves, served
<1> QED
  BY <1>6, <1>7, <1>8

\* Whoever asks for a ride never boards before the time asked for.
THEOREM NoTripHasLeft ==
    ASSUME NEW line, Orderly(line), NEW stop, NEW desired \in Seconds,
           \E k \in DOMAIN line.stops : line.stops[k] = stop,
           NEW trip \in Get(line, stop, desired)
    PROVE  \E i \in DOMAIN line.departures :
              trip = Service(line, Offset(line, stop), i) /\ desired <= trip.departure
<1>1. PICK i \in FirstToLeave(line, Catchable(line, Offset(line, stop), desired)) :
        trip = Service(line, Offset(line, stop), i)
  BY GetIsNextService
<1> QED
  BY <1>1 DEF FirstToLeave, Catchable, Service

\* As long as some service can be caught there is a ride.
THEOREM SomeTripIsFound ==
    ASSUME NEW line, Orderly(line), NEW stop, NEW desired \in Seconds,
           \E k \in DOMAIN line.stops : line.stops[k] = stop,
           Catchable(line, Offset(line, stop), desired) # {}
    PROVE  Get(line, stop, desired) # {}
<1> DEFINE catchable == Catchable(line, Offset(line, stop), desired)
           begins == { line.departures[i].begin : i \in catchable }
<1>1. ASSUME NEW i \in catchable
      PROVE  i \in Nat /\ line.departures[i].begin \in Nat
  <2>1. i \in DOMAIN line.departures
    BY DEF Catchable
  <2>2. i \in Nat /\ line.departures[i] \in Departure
    BY <2>1 DEF Orderly
  <2> QED
    BY <2>2, WidthAssumption DEF Departure, Seconds
<1>2. PICK least \in begins : \A n \in begins : least <= n
  <2>1. begins \subseteq Nat /\ begins # {}
    BY <1>1
  <2> HIDE DEF begins
  <2> QED
    BY <2>1, LeastOfNumbers
<1> DEFINE firsts == { i \in catchable : line.departures[i].begin = least }
<1>3. PICK first \in firsts : \A i \in firsts : first <= i
  <2>1. firsts \subseteq Nat /\ firsts # {}
    BY <1>1, <1>2
  <2> HIDE DEF firsts
  <2> QED
    BY <2>1, LeastOfNumbers
<1>4. first \in FirstToLeave(line, catchable)
  <2> SUFFICES ASSUME NEW j \in catchable
               PROVE  \/ line.departures[first].begin < line.departures[j].begin
                      \/ line.departures[first].begin = line.departures[j].begin /\ first <= j
    BY <1>3 DEF FirstToLeave
  <2>1. line.departures[first].begin = least /\ first \in catchable
    BY <1>3
  <2>2. least <= line.departures[j].begin /\ least \in Nat /\ line.departures[j].begin \in Nat
    BY <1>1, <1>2
  <2>3. line.departures[j].begin = least => first <= j
    BY <1>3
  <2> QED
    BY <2>1, <2>2, <2>3
<1> QED
  BY <1>4, GetIsNextService
==============================================================================
