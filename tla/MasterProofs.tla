------------------------------ MODULE MasterProofs ------------------------------
(***************************************************************************)
(* What the constructor of service::Master makes of a feed, and what the   *)
(* services built on it leave alone: names become places in lists, stops   *)
(* nobody needs go, and stations are close to their stops.                 *)
(***************************************************************************)
EXTENDS LineTableProofs, Master

-----------------------------------------------------------------------------
(* Folds over the rows of a file                                            *)

\* Learn folds this, given the names to learn from
LearnNext(context, ids, key) == IF Contains(ids, key) THEN ids ELSE Append(ids, key)

\* the context are the names there may be, the ids known before and the keys
Learned(context, k, ids) ==
    /\ ids \in Seq(context.names)
    /\ Range(context.known) \subseteq Range(ids)
    /\ \A i \in 1 .. k : context.keys[i] \in Range(ids)

Learning == INSTANCE Folding WITH Step <- LearnNext, Keeps <- Learned

\* An id is learned for every key, and the ones known before are kept.
LEMMA LearnFacts ==
    ASSUME NEW names, NEW known \in Seq(names), NEW keys \in Seq(names)
    PROVE  /\ Learn(known, keys) \in Seq(names)
           /\ Range(known) \subseteq Range(Learn(known, keys))
           /\ Range(keys) \subseteq Range(Learn(known, keys))
<1> DEFINE context == [names |-> names, known |-> known, keys |-> keys]
           n == Len(keys)
<1>1. n \in Nat /\ DOMAIN keys = 1 .. n /\ \A k \in 1 .. n : keys[k] \in names
  OBVIOUS
<1>2. Learn(known, keys) = Learning!Fold(context, known, keys)
  BY Zenon DEF Learn, FoldLeft, MapThenFoldSet, Max, Learning!Fold, Learning!Latest, LearnNext
<1>3. Learned(context, 0, known)
  BY DEF Learned
<1>4. ASSUME NEW k \in 1 .. n, NEW ids, Learned(context, k - 1, ids)
      PROVE  Learned(context, k, LearnNext(context, ids, keys[k]))
  <2>1. ids \in Seq(names) /\ Range(known) \subseteq Range(ids)
        /\ \A i \in 1 .. k - 1 : keys[i] \in Range(ids)
    BY <1>4 DEF Learned
  <2>2. CASE Contains(ids, keys[k])
    <3>1. keys[k] \in Range(ids)
      BY <2>1, <2>2 DEF Contains, Range
    <3>2. \A i \in 1 .. k : keys[i] \in Range(ids)
      BY <1>1, <2>1, <3>1
    <3> QED
      BY <2>1, <2>2, <3>2 DEF Learned, LearnNext
  <2>3. CASE ~ Contains(ids, keys[k])
    <3>1. Append(ids, keys[k]) \in Seq(names)
          /\ Range(Append(ids, keys[k])) = Range(ids) \cup {keys[k]}
      <4>1. Append(ids, keys[k]) \in Seq(names) /\ Len(Append(ids, keys[k])) = Len(ids) + 1
            /\ \A i \in 1 .. Len(ids) : Append(ids, keys[k])[i] = ids[i]
            /\ Append(ids, keys[k])[Len(ids) + 1] = keys[k]
        BY <1>1, <2>1
      <4>2. Len(ids) \in Nat /\ DOMAIN ids = 1 .. Len(ids)
            /\ DOMAIN Append(ids, keys[k]) = 1 .. Len(ids) + 1
        BY <2>1, <4>1
      <4> QED
        BY <4>1, <4>2 DEF Range
    <3>2. \A i \in 1 .. k : keys[i] \in Range(Append(ids, keys[k]))
      BY <1>1, <2>1, <3>1
    <3> QED
      BY <2>1, <2>3, <3>1, <3>2 DEF Learned, LearnNext
  <2> QED
    BY <2>2, <2>3
<1> HIDE DEF context
<1>5. Learned(context, n, Learn(known, keys))
  <2>1. Learned(context, n, Learning!Fold(context, known, keys))
    BY <1>1, <1>3, <1>4, Learning!FoldKeeps
  <2> QED
    BY <1>2, <2>1
<1> QED
  BY <1>1, <1>5 DEF Learned, context, Range

\* The place of a key in the list of the keys.
LEMMA GetIDFacts ==
    ASSUME NEW names, NEW list \in Seq(names)
    PROVE  /\ \A key : GetID(list, key) \in Nat
           /\ \A key \in Range(list) : GetID(list, key) + 1 \in DOMAIN list
                                       /\ list[GetID(list, key) + 1] = key
<1>1. Len(list) \in Nat /\ DOMAIN list = 1 .. Len(list)
  OBVIOUS
<1> SUFFICES ASSUME NEW key
             PROVE  /\ GetID(list, key) \in Nat
                    /\ key \in Range(list) => GetID(list, key) + 1 \in DOMAIN list
                                              /\ list[GetID(list, key) + 1] = key
  OBVIOUS
<1> DEFINE matches == { i \in DOMAIN list : list[i] = key }
           first == CHOOSE i \in matches : \A j \in matches : i <= j
<1>2. GetID(list, key) = (IF matches = {} THEN Len(list) + 1 ELSE first) - 1
  BY Zenon DEF GetID, IndexOf
<1>3. CASE matches = {}
  BY <1>1, <1>2, <1>3 DEF Range
<1>4. CASE matches # {}
  <2>1. matches \subseteq Nat /\ matches \subseteq DOMAIN list
    BY <1>1
  <2>2. first \in matches
    <3> HIDE DEF matches
    <3> QED
      BY <1>4, <2>1, LeastOfNumbers
  <2>3. GetID(list, key) = first - 1 /\ first \in 1 .. Len(list) /\ list[first] = key
    BY <1>1, <1>2, <1>4, <2>2
  <2>4. PICK m \in Nat : m = first
    BY <2>3
  <2> HIDE DEF first
  <2>5. GetID(list, key) = m - 1 /\ m \in 1 .. Len(list) /\ list[m] = key
    BY <2>3, <2>4
  <2>6. GetID(list, key) \in Nat /\ GetID(list, key) + 1 = m
    BY <2>5
  <2> QED
    BY <1>1, <2>5, <2>6
<1> QED
  BY <1>3, <1>4

\* Different keys have different ids.
LEMMA IDsDiffer ==
    ASSUME NEW names, NEW list \in Seq(names), NEW one \in Range(list), NEW other \in Range(list),
           GetID(list, one) = GetID(list, other)
    PROVE  one = other
<1>1. list[GetID(list, one) + 1] = one /\ list[GetID(list, other) + 1] = other
  BY GetIDFacts
<1> QED
  BY <1>1

-----------------------------------------------------------------------------
(* The ids of a feed                                                        *)

\* every key that names a stop
Names(files) ==
    { row.key : row \in Range(files.stops) } \cup { row.stop : row \in Range(files.stop_times) }
    \cup (UNION { row.parent : row \in Range(files.stops) })
    \cup (UNION { {row.from, row.to} : row \in Range(files.transfers) })

LEMMA NamesAre ==
    ASSUME NEW files, NEW name
    PROVE  name \in Names(files)
           <=> \/ \E row \in Range(files.stops) : name = row.key \/ name \in row.parent
               \/ \E row \in Range(files.stop_times) : name = row.stop
               \/ \E row \in Range(files.transfers) : name \in {row.from, row.to}
<1> DEFINE keys == { row.key : row \in Range(files.stops) }
           parents == UNION { row.parent : row \in Range(files.stops) }
           stops == { row.stop : row \in Range(files.stop_times) }
           ends == UNION { {row.from, row.to} : row \in Range(files.transfers) }
<1>1. /\ name \in keys <=> \E row \in Range(files.stops) : name = row.key
      /\ name \in parents <=> \E row \in Range(files.stops) : name \in row.parent
      /\ name \in stops <=> \E row \in Range(files.stop_times) : name = row.stop
      /\ name \in ends <=> \E row \in Range(files.transfers) : name \in {row.from, row.to}
  OBVIOUS
<1>2. Names(files) = keys \cup stops \cup parents \cup ends
  BY Zenon DEF Names
<1> HIDE DEF keys, parents, stops, ends
<1> QED
  BY <1>1, <1>2

\* A list is one of its own elements.
LEMMA ListOfItsRange ==
    ASSUME NEW S, NEW list \in Seq(S)
    PROVE  list \in Seq(Range(list))
<1>1. Len(list) \in Nat /\ DOMAIN list = 1 .. Len(list) /\ list = [ i \in 1 .. Len(list) |-> list[i] ]
  OBVIOUS
<1>2. \A i \in 1 .. Len(list) : list[i] \in Range(list)
  BY <1>1 DEF Range
<1> QED
  BY <1>1, <1>2, IsASeq

LEMMA TableRows ==
    ASSUME NEW rows, NEW columns, IsTable(rows, columns)
    PROVE  /\ Len(rows) \in Nat /\ DOMAIN rows = 1 .. Len(rows)
           /\ \A i \in DOMAIN rows : rows[i] \in Range(rows) /\ columns \subseteq DOMAIN rows[i]
  BY DEF IsTable, Range

\* Every key that names a stop has an id.
LEMMA StopsHaveIDs ==
    ASSUME FeedAssumption, NEW files \in Feeds
    PROVE  StopIDs(files) \in Seq(Names(files)) /\ Names(files) \subseteq Range(StopIDs(files))
<1> DEFINE names == Names(files)
           rows == [ i \in DOMAIN files.stops |->
                       << files.stops[i].key >> \o SetToSeq(files.stops[i].parent) ]
           stops == [ i \in DOMAIN files.stop_times |-> files.stop_times[i].stop ]
           ends == [ i \in DOMAIN files.transfers |->
                       << files.transfers[i].from, files.transfers[i].to >> ]
           read == Learn(<< >>, FlattenSeq(rows))
           used == Learn(read, stops)
<1>1. StopIDs(files) = Learn(used, FlattenSeq(ends))
  BY Zenon DEF StopIDs, Column
<1>2. /\ Len(files.stops) \in Nat /\ DOMAIN files.stops = 1 .. Len(files.stops)
      /\ Len(files.stop_times) \in Nat /\ DOMAIN files.stop_times = 1 .. Len(files.stop_times)
      /\ Len(files.transfers) \in Nat /\ DOMAIN files.transfers = 1 .. Len(files.transfers)
  BY TableRows DEF FeedAssumption
<1>3. ASSUME NEW i \in DOMAIN files.stops
      PROVE  /\ rows[i] \in Seq(names)
             /\ Range(rows[i]) = {files.stops[i].key} \cup files.stops[i].parent
  <2> DEFINE parent == files.stops[i].parent
  <2>1. files.stops[i] \in Range(files.stops)
    BY DEF Range
  <2>2. IsFiniteSet(parent)
    BY <2>1 DEF FeedAssumption
  <2>3. files.stops[i].key \in names /\ parent \subseteq names
    BY <2>1, NamesAre
  <2> HIDE DEF parent, names
  <2>4. SetToSeq(parent) \in Seq(parent) /\ Range(SetToSeq(parent)) = parent
    BY <2>2, SetToSeqFacts
  <2>5. SetToSeq(parent) \in Seq(names) /\ << files.stops[i].key >> \in Seq(names)
    BY <2>3, <2>4
  <2>6. Range(<< files.stops[i].key >>) = {files.stops[i].key}
    BY DEF Range
  <2>7. << files.stops[i].key >> \o SetToSeq(parent) \in Seq(names)
    BY <2>5
  <2>8. rows[i] = << files.stops[i].key >> \o SetToSeq(parent)
    BY DEF parent
  <2> HIDE DEF rows
  <2> QED
    <3> DEFINE one == << files.stops[i].key >>
    <3>1. one \in Seq(names) /\ Range(one) = {files.stops[i].key}
      BY <2>5, <2>6
    <3> HIDE DEF one
    <3>2. Range(one \o SetToSeq(parent)) = Range(one) \cup Range(SetToSeq(parent))
      BY <2>5, <3>1, RangeOfBoth
    <3>3. Range(one \o SetToSeq(parent)) = {files.stops[i].key} \cup parent
      BY <2>4, <3>1, <3>2
    <3> QED
      BY <2>7, <2>8, <3>3, Zenon DEF parent, one
<1>4. rows \in Seq(Seq(names)) /\ ends \in Seq(Seq(names)) /\ stops \in Seq(names)
  <2>1. \A i \in DOMAIN files.stop_times : files.stop_times[i].stop \in names
    BY NamesAre DEF Range
  <2>2. \A i \in DOMAIN files.transfers :
           files.transfers[i].from \in names /\ files.transfers[i].to \in names
    BY NamesAre DEF Range
  <2> HIDE DEF names
  <2>3. \A i \in DOMAIN files.transfers :
           << files.transfers[i].from, files.transfers[i].to >> \in Seq(names)
    BY <2>2
  <2>4. rows \in Seq(Seq(names))
    <3>1. DOMAIN rows = 1 .. Len(files.stops) /\ rows = [ i \in 1 .. Len(files.stops) |-> rows[i] ]
      BY <1>2
    <3> HIDE DEF rows
    <3> QED
      BY <1>2, <1>3, <3>1, IsASeq
  <2> QED
    BY <1>2, <2>1, <2>3, <2>4, IsASeq
<1>5. /\ FlattenSeq(rows) \in Seq(names)
      /\ Range(FlattenSeq(rows)) = UNION { Range(rows[i]) : i \in DOMAIN rows }
      /\ FlattenSeq(ends) \in Seq(names)
      /\ Range(FlattenSeq(ends)) = UNION { Range(ends[i]) : i \in DOMAIN ends }
  <2> HIDE DEF rows, ends, names
  <2> QED
    BY <1>4, FlattenFacts
<1>6. /\ read \in Seq(names) /\ Range(FlattenSeq(rows)) \subseteq Range(read)
      /\ used \in Seq(names) /\ Range(read) \subseteq Range(used) /\ Range(stops) \subseteq Range(used)
      /\ StopIDs(files) \in Seq(names) /\ Range(used) \subseteq Range(StopIDs(files))
      /\ Range(FlattenSeq(ends)) \subseteq Range(StopIDs(files))
  <2> HIDE DEF rows, ends, names, stops
  <2>1. read \in Seq(names) /\ Range(FlattenSeq(rows)) \subseteq Range(read)
    <3>1. << >> \in Seq(names)
      OBVIOUS
    <3> QED
      BY <1>5, <3>1, LearnFacts
  <2> HIDE DEF read
  <2>2. used \in Seq(names) /\ Range(read) \subseteq Range(used) /\ Range(stops) \subseteq Range(used)
    BY <1>4, <2>1, LearnFacts
  <2> HIDE DEF used
  <2> QED
    BY <1>1, <1>5, <2>1, <2>2, LearnFacts
<1>7. ASSUME NEW name \in names
      PROVE  name \in Range(StopIDs(files))
  <2>1. CASE \E row \in Range(files.stops) : name = row.key \/ name \in row.parent
    <3>1. PICK i \in DOMAIN files.stops : name = files.stops[i].key \/ name \in files.stops[i].parent
      BY <2>1 DEF Range
    <3>2. name \in Range(rows[i]) /\ i \in DOMAIN rows
      BY <1>3, <3>1
    <3> HIDE DEF rows, ends, names, stops, read, used
    <3>3. name \in Range(FlattenSeq(rows))
      BY <1>5, <3>2
    <3> QED
      BY <1>6, <3>3
  <2>2. CASE \E row \in Range(files.stop_times) : name = row.stop
    <3>1. name \in Range(stops)
      BY <2>2 DEF Range
    <3> HIDE DEF rows, ends, names, stops, read, used
    <3> QED
      BY <1>6, <3>1
  <2>3. CASE \E row \in Range(files.transfers) : name \in {row.from, row.to}
    <3>1. PICK i \in DOMAIN files.transfers : name \in {files.transfers[i].from, files.transfers[i].to}
      BY <2>3 DEF Range
    <3>2. name \in Range(ends[i]) /\ i \in DOMAIN ends
      <4>1. ends[i] = << files.transfers[i].from, files.transfers[i].to >> /\ i \in DOMAIN ends
        OBVIOUS
      <4>2. Range(<< files.transfers[i].from, files.transfers[i].to >>)
            = {files.transfers[i].from, files.transfers[i].to}
        BY DEF Range
      <4> HIDE DEF ends
      <4> QED
        BY <3>1, <4>1, <4>2
    <3> HIDE DEF rows, ends, names, stops, read, used
    <3>3. name \in Range(FlattenSeq(ends))
      BY <1>5, <3>2
    <3> QED
      BY <1>6, <3>3
  <2> QED
    BY <2>1, <2>2, <2>3, NamesAre
<1> QED
  BY <1>6, <1>7

\* Every trip of a stop time and every trip listed has an id.
LEMMA TripsHaveIDs ==
    ASSUME FeedAssumption, NEW files \in Feeds
    PROVE  /\ TripIDs(files) \in Seq({ row.key : row \in Range(files.trips) })
           /\ { row.key : row \in Range(files.trips) } = Range(TripIDs(files))
<1> DEFINE names == { row.key : row \in Range(files.trips) }
           driven == [ i \in DOMAIN files.stop_times |-> files.stop_times[i].trip ]
           listed == [ i \in DOMAIN files.trips |-> files.trips[i].key ]
<1>1. TripIDs(files) = Learn(Learn(<< >>, driven), listed)
  BY Zenon DEF TripIDs, Column
<1>2. /\ Len(files.stop_times) \in Nat /\ DOMAIN files.stop_times = 1 .. Len(files.stop_times)
      /\ Len(files.trips) \in Nat /\ DOMAIN files.trips = 1 .. Len(files.trips)
  BY TableRows DEF FeedAssumption
<1>3. \A i \in DOMAIN files.stop_times : files.stop_times[i].trip \in names
  BY DEF FeedAssumption, Range
<1>4. (\A i \in DOMAIN files.trips : files.trips[i].key \in names) /\ names = Range(listed)
  BY DEF Range
<1> HIDE DEF names
<1>5. driven \in Seq(names) /\ listed \in Seq(names) /\ << >> \in Seq(names)
  <2>1. driven \in Seq(names)
    BY <1>2, <1>3, IsASeq
  <2>2. listed \in Seq(names)
    BY <1>2, <1>4, IsASeq
  <2> QED
    BY <2>1, <2>2
<1> HIDE DEF driven, listed
<1>6. Learn(<< >>, driven) \in Seq(names)
  BY <1>5, LearnFacts
<1>7. TripIDs(files) \in Seq(names) /\ Range(listed) \subseteq Range(TripIDs(files))
  BY <1>1, <1>5, <1>6, LearnFacts
<1>8. Range(TripIDs(files)) \subseteq names
  BY <1>7 DEF Range
<1> QED
  BY <1>4, <1>7, <1>8 DEF names

-----------------------------------------------------------------------------
(* What readCSV returns                                                     *)

\* what becomes of the rows of three files
ReadStop(files, row) ==
    [ id |-> GetID(StopIDs(files), row.key), name |-> StringID(Strings(files), row.name),
      location |-> row.location, parent |-> OptionalID(StopIDs(files), row.parent) ]

ReadTime(files, row) ==
    [row EXCEPT !.trip = GetID(TripIDs(files), @), !.stop = GetID(StopIDs(files), @)]

ReadTransfer(files, row) ==
    [row EXCEPT !.from = GetID(StopIDs(files), @), !.to = GetID(StopIDs(files), @)]

ReadTrip(files, row) ==
    [ id |-> GetID(TripIDs(files), row.key), route |-> GetID(RouteIDs(files), row.route),
      shape |-> OptionalID(ShapeIDs(files), row.shape) ]

Parts == {"dictionary", "routes", "stops", "stop_times", "trips", "shapes", "transfers"}

\* Sorting touches each part for itself.
LEMMA OrderedParts ==
    ASSUME NEW data, DOMAIN data = Parts
    PROVE  /\ DOMAIN EnsureOrdered(data) = Parts
           /\ EnsureOrdered(data).stops
              = Sorted(data.stops, [ i \in DOMAIN data.stops |-> data.stops[i].id ])
           /\ EnsureOrdered(data).trips
              = Sorted(data.trips, [ i \in DOMAIN data.trips |-> data.trips[i].id ])
           /\ EnsureOrdered(data).stop_times = data.stop_times
           /\ EnsureOrdered(data).transfers = data.transfers
  BY DEF EnsureOrdered, StableSort, Parts

LEMMA RowsRead ==
    ASSUME NEW files
    PROVE  /\ DOMAIN ReadRows(files) = Parts
           /\ ReadRows(files).stops = [ i \in DOMAIN files.stops |-> ReadStop(files, files.stops[i]) ]
           /\ ReadRows(files).stop_times
              = [ i \in DOMAIN files.stop_times |-> ReadTime(files, files.stop_times[i]) ]
           /\ ReadRows(files).transfers
              = [ i \in DOMAIN files.transfers |-> ReadTransfer(files, files.transfers[i]) ]
           /\ ReadRows(files).trips = [ i \in DOMAIN files.trips |-> ReadTrip(files, files.trips[i]) ]
  BY DEF ReadRows, Column, ReadStop, ReadTime, ReadTransfer, ReadTrip, Parts

\* from which row a stop and a trip come
StopsFrom(files, data, from) ==
    \A i \in DOMAIN files.stops : data.stops[i] = ReadStop(files, files.stops[from[i]])

TripsFrom(files, data, from) ==
    \A i \in DOMAIN files.trips : data.trips[i] = ReadTrip(files, files.trips[from[i]])

\* The stops and the trips are those of the feed in another order.
LEMMA CSVFacts ==
    ASSUME FeedAssumption, NEW files \in Feeds, NEW data, data = EnsureOrdered(ReadRows(files))
    PROVE  /\ DOMAIN data = Parts
           /\ data.stop_times
              = [ i \in DOMAIN files.stop_times |-> ReadTime(files, files.stop_times[i]) ]
           /\ data.transfers
              = [ i \in DOMAIN files.transfers |-> ReadTransfer(files, files.transfers[i]) ]
           /\ data.stops \in Seq(Range(data.stops)) /\ DOMAIN data.stops = DOMAIN files.stops
           /\ \E from \in Bijection(DOMAIN files.stops, DOMAIN files.stops) : StopsFrom(files, data, from)
           /\ data.trips \in Seq(Range(data.trips)) /\ DOMAIN data.trips = DOMAIN files.trips
           /\ \E from \in Bijection(DOMAIN files.trips, DOMAIN files.trips) : TripsFrom(files, data, from)
<1> DEFINE rows == ReadRows(files)
           stops == [ i \in DOMAIN files.stops |-> ReadStop(files, files.stops[i]) ]
           trips == [ i \in DOMAIN files.trips |-> ReadTrip(files, files.trips[i]) ]
<1>1. /\ DOMAIN rows = Parts /\ rows.stops = stops /\ rows.trips = trips
      /\ rows.stop_times = [ i \in DOMAIN files.stop_times |-> ReadTime(files, files.stop_times[i]) ]
      /\ rows.transfers
         = [ i \in DOMAIN files.transfers |-> ReadTransfer(files, files.transfers[i]) ]
  BY RowsRead
<1> HIDE DEF rows
<1>2. /\ DOMAIN data = Parts
      /\ data.stops = Sorted(stops, [ i \in DOMAIN stops |-> stops[i].id ])
      /\ data.trips = Sorted(trips, [ i \in DOMAIN trips |-> trips[i].id ])
      /\ data.stop_times = rows.stop_times /\ data.transfers = rows.transfers
  <2> HIDE DEF stops, trips
  <2>1. /\ DOMAIN data = Parts
        /\ data.stops = Sorted(rows.stops, [ i \in DOMAIN rows.stops |-> rows.stops[i].id ])
        /\ data.trips = Sorted(rows.trips, [ i \in DOMAIN rows.trips |-> rows.trips[i].id ])
        /\ data.stop_times = rows.stop_times /\ data.transfers = rows.transfers
    BY <1>1, OrderedParts DEF rows
  <2> QED
    BY <1>1, <2>1
<1>3. /\ Len(files.stops) \in Nat /\ DOMAIN files.stops = 1 .. Len(files.stops)
      /\ Len(files.trips) \in Nat /\ DOMAIN files.trips = 1 .. Len(files.trips)
  BY TableRows DEF FeedAssumption
<1>4. /\ data.stops \in Seq(Range(stops)) /\ DOMAIN data.stops = DOMAIN files.stops
      /\ \E from \in Bijection(DOMAIN files.stops, DOMAIN files.stops) :
            \A i \in DOMAIN files.stops : data.stops[i] = stops[from[i]]
  <2>1. stops \in Seq(Range(stops)) /\ DOMAIN stops = DOMAIN files.stops /\ Len(stops) = Len(files.stops)
    <3>1. DOMAIN stops = 1 .. Len(files.stops)
          /\ stops = [ i \in 1 .. Len(files.stops) |-> stops[i] ]
      BY <1>3
    <3>2. \A i \in 1 .. Len(files.stops) : stops[i] \in Range(stops)
      BY <3>1 DEF Range
    <3> HIDE DEF stops
    <3> QED
      BY <1>3, <3>1, <3>2, IsASeq
  <2>2. StopIDs(files) \in Seq(Names(files))
    BY StopsHaveIDs
  <2>3. [ i \in DOMAIN stops |-> stops[i].id ] \in [DOMAIN stops -> Int]
    <3>1. \A i \in DOMAIN files.stops : stops[i].id = GetID(StopIDs(files), files.stops[i].key)
      BY DEF ReadStop
    <3>2. \A key : GetID(StopIDs(files), key) \in Nat
      BY <2>2, GetIDFacts
    <3> HIDE DEF stops
    <3>3. \A i \in DOMAIN files.stops : stops[i].id \in Nat
      BY <3>1, <3>2
    <3> QED
      BY <2>1, <3>3
  <2> HIDE DEF stops
  <2> DEFINE keys == [ i \in DOMAIN stops |-> stops[i].id ]
  <2> HIDE DEF keys
  <2>4. /\ Sorted(stops, keys) \in Seq(Range(stops))
        /\ Len(Sorted(stops, keys)) = Len(stops)
        /\ \E from \in Bijection(DOMAIN stops, DOMAIN stops) :
              \A k \in DOMAIN stops : Sorted(stops, keys)[k] = stops[from[k]]
    BY <2>1, <2>3, SortedFacts DEF keys
  <2>5. data.stops = Sorted(stops, keys)
    BY <1>2 DEF keys
  <2> QED
    BY <1>3, <2>1, <2>4, <2>5
<1>5. /\ data.trips \in Seq(Range(trips)) /\ DOMAIN data.trips = DOMAIN files.trips
      /\ \E from \in Bijection(DOMAIN files.trips, DOMAIN files.trips) :
            \A i \in DOMAIN files.trips : data.trips[i] = trips[from[i]]
  <2>1. trips \in Seq(Range(trips)) /\ DOMAIN trips = DOMAIN files.trips /\ Len(trips) = Len(files.trips)
    <3>1. DOMAIN trips = 1 .. Len(files.trips)
          /\ trips = [ i \in 1 .. Len(files.trips) |-> trips[i] ]
      BY <1>3
    <3>2. \A i \in 1 .. Len(files.trips) : trips[i] \in Range(trips)
      BY <3>1 DEF Range
    <3> HIDE DEF trips
    <3> QED
      BY <1>3, <3>1, <3>2, IsASeq
  <2>2. PICK names : TripIDs(files) \in Seq(names)
    BY TripsHaveIDs
  <2>3. [ i \in DOMAIN trips |-> trips[i].id ] \in [DOMAIN trips -> Int]
    <3>1. \A i \in DOMAIN files.trips : trips[i].id = GetID(TripIDs(files), files.trips[i].key)
      BY DEF ReadTrip
    <3>2. \A i \in DOMAIN files.trips : trips[i].id \in Nat
      <4>1. \A key : GetID(TripIDs(files), key) \in Nat
        BY <2>2, GetIDFacts
      <4> QED
        BY <3>1, <4>1
    <3> HIDE DEF trips
    <3> QED
      BY <2>1, <3>2
  <2> HIDE DEF trips
  <2> DEFINE keys == [ i \in DOMAIN trips |-> trips[i].id ]
  <2> HIDE DEF keys
  <2>4. /\ Sorted(trips, keys) \in Seq(Range(trips))
        /\ Len(Sorted(trips, keys)) = Len(trips)
        /\ \E from \in Bijection(DOMAIN trips, DOMAIN trips) :
              \A k \in DOMAIN trips : Sorted(trips, keys)[k] = trips[from[k]]
    BY <2>1, <2>3, SortedFacts DEF keys
  <2>5. data.trips = Sorted(trips, keys)
    BY <1>2 DEF keys
  <2> QED
    BY <1>3, <2>1, <2>4, <2>5
<1>6. data.stops \in Seq(Range(data.stops)) /\ data.trips \in Seq(Range(data.trips))
  BY <1>3, <1>4, <1>5, ListOfItsRange
<1>7. \A i \in DOMAIN files.stops : stops[i] = ReadStop(files, files.stops[i])
  OBVIOUS
<1>8. \A i \in DOMAIN files.trips : trips[i] = ReadTrip(files, files.trips[i])
  OBVIOUS
<1> HIDE DEF stops, trips
<1>9. \E from \in Bijection(DOMAIN files.stops, DOMAIN files.stops) :
         \A i \in DOMAIN files.stops : data.stops[i] = ReadStop(files, files.stops[from[i]])
  BY <1>4, <1>7 DEF Bijection, Injection
<1>10. \E from \in Bijection(DOMAIN files.trips, DOMAIN files.trips) :
         \A i \in DOMAIN files.trips : data.trips[i] = ReadTrip(files, files.trips[from[i]])
  BY <1>5, <1>8 DEF Bijection, Injection
<1> QED
  BY <1>1, <1>2, <1>4, <1>5, <1>6, <1>9, <1>10 DEF StopsFrom, TripsFrom

-----------------------------------------------------------------------------
(* Which stops are kept, and their new ids                                  *)

LEMMA RowsDiffer ==
    ASSUME FeedAssumption, NEW files \in Feeds,
           NEW one \in Range(files.stops), NEW other \in Range(files.stops),
           one.key = other.key \/ one.location = other.location
    PROVE  one = other
<1>1. PICK i \in DOMAIN files.stops : one = files.stops[i]
  BY DEF Range
<1>2. PICK k \in DOMAIN files.stops : other = files.stops[k]
  BY DEF Range
<1>3. i = k
  BY <1>1, <1>2 DEF FeedAssumption
<1> QED
  BY <1>1, <1>2, <1>3

\* There is a stop for every row, and one only.
LEMMA ListedFacts ==
    ASSUME FeedAssumption, NEW files \in Feeds, NEW data, data = EnsureOrdered(ReadRows(files))
    PROVE  /\ \A i \in DOMAIN data.stops :
                 \E row \in Range(files.stops) : data.stops[i] = ReadStop(files, row)
           /\ \A row \in Range(files.stops) :
                 \E i \in DOMAIN data.stops : data.stops[i] = ReadStop(files, row)
           /\ \A i, k \in DOMAIN data.stops : data.stops[i].id = data.stops[k].id => i = k
<1> DEFINE rows == DOMAIN files.stops
<1>1. PICK from \in Bijection(rows, rows) :
            \A i \in rows : data.stops[i] = ReadStop(files, files.stops[from[i]])
  <2>1. \E from \in Bijection(DOMAIN files.stops, DOMAIN files.stops) : StopsFrom(files, data, from)
    BY CSVFacts
  <2> QED
    BY <2>1 DEF StopsFrom
<1>2. DOMAIN data.stops = rows
  BY CSVFacts
<1>3. /\ from \in [rows -> rows] /\ \A i, k \in rows : from[i] = from[k] => i = k
      /\ \A k \in rows : \E i \in rows : from[i] = k
  BY <1>1 DEF Bijection, Injection, Surjection, IsInjective
<1>4. \A i \in rows : files.stops[i] \in Range(files.stops)
  BY DEF Range
<1>5. ASSUME NEW row \in Range(files.stops)
      PROVE  \E i \in rows : data.stops[i] = ReadStop(files, row)
  <2>1. PICK k \in rows : row = files.stops[k]
    BY DEF Range
  <2> QED
    BY <1>1, <1>3, <2>1
<1>6. ASSUME NEW i \in rows, NEW k \in rows, data.stops[i].id = data.stops[k].id
      PROVE  i = k
  <2> DEFINE one == files.stops[from[i]]
             other == files.stops[from[k]]
  <2>1. data.stops[i].id = GetID(StopIDs(files), one.key)
        /\ data.stops[k].id = GetID(StopIDs(files), other.key)
    <3>1. data.stops[i] = ReadStop(files, one) /\ data.stops[k] = ReadStop(files, other)
      BY <1>1
    <3> HIDE DEF one, other
    <3> QED
      BY <3>1 DEF ReadStop
  <2>2. one \in Range(files.stops) /\ other \in Range(files.stops)
    BY <1>3, <1>4
  <2>3. one.key \in Names(files) /\ other.key \in Names(files)
    BY <2>2, NamesAre
  <2>4. one.key = other.key
    <3> HIDE DEF one, other
    <3> QED
      BY <1>6, <2>1, <2>3, StopsHaveIDs, IDsDiffer
  <2>5. from[i] = from[k]
    BY <1>3, <2>4 DEF FeedAssumption
  <2> QED
    BY <1>3, <2>5
<1> QED
  BY <1>1, <1>2, <1>3, <1>4, <1>5, <1>6

Places(data) == { i \in DOMAIN data.stops : data.stops[i].id \in ReachableStops(data) }
Kept(data) == Selected(data.stops, Places(data))

LEMMA KeptFacts ==
    ASSUME FeedAssumption, NEW files \in Feeds, NEW data, data = EnsureOrdered(ReadRows(files))
    PROVE  /\ Kept(data) \in Seq(Range(data.stops))
           /\ \A i \in DOMAIN Kept(data) :
                 \E row \in Range(files.stops) :
                    /\ Kept(data)[i] = ReadStop(files, row)
                    /\ GetID(StopIDs(files), row.key) \in ReachableStops(data)
           /\ \A row \in Range(files.stops) :
                 GetID(StopIDs(files), row.key) \in ReachableStops(data)
                 => \E i \in DOMAIN Kept(data) : Kept(data)[i] = ReadStop(files, row)
           /\ \A i, k \in DOMAIN Kept(data) : Kept(data)[i].id = Kept(data)[k].id => i = k
<1> DEFINE places == Places(data)
           size == Cardinality(places)
           kept == Kept(data)
<1>1. data.stops \in Seq(Range(data.stops))
  BY CSVFacts
<1>2. /\ \A i \in DOMAIN data.stops :
            \E row \in Range(files.stops) : data.stops[i] = ReadStop(files, row)
      /\ \A row \in Range(files.stops) :
            \E i \in DOMAIN data.stops : data.stops[i] = ReadStop(files, row)
      /\ \A i, k \in DOMAIN data.stops : data.stops[i].id = data.stops[k].id => i = k
  BY ListedFacts
<1>3. places \in SUBSET DOMAIN data.stops
      /\ \A i \in DOMAIN data.stops : i \in places <=> data.stops[i].id \in ReachableStops(data)
  BY DEF Places
<1> HIDE DEF places
<1>4. /\ size \in Nat /\ kept \in Seq(Range(data.stops)) /\ Len(kept) = size
      /\ \A r \in DOMAIN kept : \E i \in places : kept[r] = data.stops[i]
      /\ \A i \in places : \E r \in DOMAIN kept : kept[r] = data.stops[i]
      /\ \E from \in Bijection(1 .. size, places) : \A r \in 1 .. size : kept[r] = data.stops[from[r]]
  <2>1. /\ Cardinality(places) \in Nat /\ Selected(data.stops, places) \in Seq(Range(data.stops))
        /\ Len(Selected(data.stops, places)) = Cardinality(places)
        /\ \A r \in DOMAIN Selected(data.stops, places) :
              \E i \in places : Selected(data.stops, places)[r] = data.stops[i]
        /\ \A i \in places : \E r \in DOMAIN Selected(data.stops, places) :
              Selected(data.stops, places)[r] = data.stops[i]
    BY <1>1, <1>3, SelectedFacts
  <2>2. \E from \in Bijection(1 .. Cardinality(places), places) :
           \A r \in 1 .. Cardinality(places) : Selected(data.stops, places)[r] = data.stops[from[r]]
    BY <1>1, <1>3, SelectedFacts, Zenon
  <2>3. kept = Selected(data.stops, places)
    BY DEF Kept, places
  <2> HIDE DEF kept
  <2> QED
    BY <2>1, <2>2, <2>3
<1>5. PICK from \in Bijection(1 .. size, places) : \A r \in 1 .. size : kept[r] = data.stops[from[r]]
  BY <1>4
<1> HIDE DEF size, kept
<1>6. from \in [1 .. size -> places] /\ \A i, k \in 1 .. size : from[i] = from[k] => i = k
  BY <1>5 DEF Bijection, Injection, IsInjective
<1>7. DOMAIN kept = 1 .. size
  BY <1>4
<1>8. \A i, k \in DOMAIN kept : kept[i].id = kept[k].id => i = k
  BY <1>2, <1>3, <1>5, <1>6, <1>7
<1>9. \A row : ReadStop(files, row).id = GetID(StopIDs(files), row.key)
  BY DEF ReadStop
<1>10. \A i \in DOMAIN kept :
          \E row \in Range(files.stops) :
             /\ kept[i] = ReadStop(files, row)
             /\ GetID(StopIDs(files), row.key) \in ReachableStops(data)
  BY <1>2, <1>3, <1>4, <1>9
<1>11. \A row \in Range(files.stops) :
          GetID(StopIDs(files), row.key) \in ReachableStops(data)
          => \E i \in DOMAIN kept : kept[i] = ReadStop(files, row)
  BY <1>2, <1>3, <1>4, <1>9
<1> QED
  BY <1>4, <1>8, <1>10, <1>11 DEF kept

\* The new id of a stop is its place.
LEMMA RemapFacts ==
    ASSUME NEW S, NEW stops \in Seq(S),
           \A i, k \in DOMAIN stops : stops[i].id = stops[k].id => i = k
    PROVE  /\ DOMAIN Remap(stops) = { stops[i].id : i \in DOMAIN stops }
           /\ \A i \in DOMAIN stops : Remap(stops)[stops[i].id] = i - 1
<1>1. Len(stops) \in Nat /\ DOMAIN stops = 1 .. Len(stops)
  OBVIOUS
<1>2. { stop.id : stop \in Range(stops) } = { stops[i].id : i \in DOMAIN stops }
  BY DEF Range
<1>3. DOMAIN Remap(stops) = { stop.id : stop \in Range(stops) }
  BY DEF Remap
<1>4. ASSUME NEW i \in DOMAIN stops
      PROVE  Remap(stops)[stops[i].id] = i - 1
  <2> DEFINE id == stops[i].id
             matches == { k \in DOMAIN stops : stops[k].id = id }
  <2>1. id \in { stop.id : stop \in Range(stops) }
    BY <1>2
  <2>2. Remap(stops)[id] = (IF matches = {} THEN Len(stops) + 1
                            ELSE CHOOSE k \in matches : \A j \in matches : k <= j) - 1
    BY <2>1, Zenon DEF Remap, IndexOf
  <2>3. matches = {i}
    OBVIOUS
  <2>4. i <= i
    BY <1>1
  <2>5. (CHOOSE k \in matches : \A j \in matches : k <= j) = i
    BY <2>3, <2>4
  <2> HIDE DEF id, matches
  <2>6. Remap(stops)[id] = i - 1
    BY <2>2, <2>3, <2>5
  <2> QED
    BY <2>6 DEF id
<1> QED
  BY <1>2, <1>3, <1>4

LEMMA ServedFacts ==
    ASSUME FeedAssumption, NEW files \in Feeds, NEW data, data = EnsureOrdered(ReadRows(files)), NEW id
    PROVE  id \in Served(data)
           <=> \/ \E row \in Range(files.stop_times) : id = GetID(StopIDs(files), row.stop)
               \/ \E row \in Range(files.transfers) :
                     \/ id = GetID(StopIDs(files), row.from)
                     \/ id = GetID(StopIDs(files), row.to)
<1>1. /\ data.stop_times = [ i \in DOMAIN files.stop_times |-> ReadTime(files, files.stop_times[i]) ]
      /\ data.transfers = [ i \in DOMAIN files.transfers |-> ReadTransfer(files, files.transfers[i]) ]
  BY CSVFacts
<1>2. \A row \in Range(files.stop_times) :
         ReadTime(files, row).stop = GetID(StopIDs(files), row.stop)
  BY DEF ReadTime, FeedAssumption, IsTable
<1>3. \A row \in Range(files.transfers) :
         /\ ReadTransfer(files, row).from = GetID(StopIDs(files), row.from)
         /\ ReadTransfer(files, row).to = GetID(StopIDs(files), row.to)
  BY DEF ReadTransfer, FeedAssumption, IsTable
<1>4. /\ \A row : row \in Range(data.stop_times)
                  <=> \E other \in Range(files.stop_times) : row = ReadTime(files, other)
      /\ \A row : row \in Range(data.transfers)
                  <=> \E other \in Range(files.transfers) : row = ReadTransfer(files, other)
  <2> HIDE DEF ReadTime, ReadTransfer
  <2> QED
    BY <1>1 DEF Range
<1> DEFINE stops == { row.stop : row \in Range(data.stop_times) }
           ends == UNION { {row.from, row.to} : row \in Range(data.transfers) }
<1>5. id \in stops <=> \E row \in Range(data.stop_times) : id = row.stop
  OBVIOUS
<1>6. id \in ends <=> \E row \in Range(data.transfers) : id \in {row.from, row.to}
  OBVIOUS
<1>7. Served(data) = stops \cup ends
  BY DEF Served
<1> HIDE DEF stops, ends
<1>8. id \in stops <=> \E row \in Range(files.stop_times) : id = GetID(StopIDs(files), row.stop)
  BY <1>2, <1>4, <1>5
<1>9. id \in ends <=> \E row \in Range(files.transfers) :
                         \/ id = GetID(StopIDs(files), row.from)
                         \/ id = GetID(StopIDs(files), row.to)
  BY <1>3, <1>4, <1>6
<1> QED
  BY <1>7, <1>8, <1>9

\* What is reachable is served or the station of another stop.
LEMMA ReachableFacts ==
    ASSUME FeedAssumption, NEW files \in Feeds, NEW data, data = EnsureOrdered(ReadRows(files)), NEW id
    PROVE  id \in ReachableStops(data)
           <=> \/ id \in Served(data)
               \/ \E row \in Range(files.stops) : \E key \in row.parent :
                     /\ id = GetID(StopIDs(files), key)
                     /\ id # GetID(StopIDs(files), row.key)
<1> DEFINE parents == UNION { stop.parent \ {stop.id} : stop \in Range(data.stops) }
<1>1. id \in parents <=> \E stop \in Range(data.stops) : id \in stop.parent \ {stop.id}
  OBVIOUS
<1>2. ReachableStops(data) = Served(data) \cup parents
  BY DEF ReachableStops
<1> HIDE DEF parents
<1>3. \A stop : stop \in Range(data.stops)
                <=> \E row \in Range(files.stops) : stop = ReadStop(files, row)
  BY ListedFacts DEF Range
<1>4. \A row : /\ ReadStop(files, row).id = GetID(StopIDs(files), row.key)
               /\ ReadStop(files, row).parent = OptionalID(StopIDs(files), row.parent)
  BY DEF ReadStop
<1>5. \A keys : id \in OptionalID(StopIDs(files), keys)
                <=> \E key \in keys : id = GetID(StopIDs(files), key)
  BY DEF OptionalID
<1>6. id \in parents <=> \E row \in Range(files.stops) :
                            /\ id \in OptionalID(StopIDs(files), row.parent)
                            /\ id # GetID(StopIDs(files), row.key)
  BY <1>1, <1>3, <1>4
<1> QED
  BY <1>2, <1>5, <1>6

\* nobody needs the stop of the row
Unused(files, row) ==
    /\ \A time \in Range(files.stop_times) : time.stop # row.key
    /\ \A transfer \in Range(files.transfers) : row.key \notin {transfer.from, transfer.to}
    /\ \A other \in Range(files.stops) : other # row => row.key \notin other.parent

\* A stop is reachable exactly if it is not unused.
LEMMA UnusedFacts ==
    ASSUME FeedAssumption, NEW files \in Feeds, NEW data, data = EnsureOrdered(ReadRows(files)),
           NEW row \in Range(files.stops)
    PROVE  GetID(StopIDs(files), row.key) \in ReachableStops(data) <=> ~ Unused(files, row)
<1> DEFINE Num(key) == GetID(StopIDs(files), key)
<1>1. \A one, other \in Names(files) : Num(one) = Num(other) => one = other
  BY StopsHaveIDs, IDsDiffer
<1>2. /\ \A other \in Range(files.stops) : other.key \in Names(files) /\ other.parent \subseteq Names(files)
      /\ \A time \in Range(files.stop_times) : time.stop \in Names(files)
      /\ \A end \in Range(files.transfers) : end.from \in Names(files) /\ end.to \in Names(files)
  BY NamesAre
<1>3. Num(row.key) \in Served(data)
      <=> \/ \E time \in Range(files.stop_times) : Num(row.key) = Num(time.stop)
          \/ \E end \in Range(files.transfers) : Num(row.key) = Num(end.from) \/ Num(row.key) = Num(end.to)
  BY ServedFacts
<1>4. Num(row.key) \in ReachableStops(data)
      <=> \/ Num(row.key) \in Served(data)
          \/ \E other \in Range(files.stops) : \E key \in other.parent :
                Num(row.key) = Num(key) /\ Num(row.key) # Num(other.key)
  BY ReachableFacts
<1> HIDE DEF Num
<1>5. Num(row.key) \in Served(data)
      <=> \/ \E time \in Range(files.stop_times) : row.key = time.stop
          \/ \E end \in Range(files.transfers) : row.key \in {end.from, end.to}
  BY <1>1, <1>2, <1>3
<1>6. (\E other \in Range(files.stops) : \E key \in other.parent :
          Num(row.key) = Num(key) /\ Num(row.key) # Num(other.key))
      <=> \E other \in Range(files.stops) : other # row /\ row.key \in other.parent
  <2>1. \A other \in Range(files.stops) : Num(row.key) # Num(other.key) <=> other # row
    BY <1>1, <1>2, RowsDiffer
  <2> QED
    BY <1>1, <1>2, <2>1
<1> QED
  BY <1>4, <1>5, <1>6 DEF Num, Unused

\* The new id of a name is the place of the stop that has it.
LEMMA PlaceOfName ==
    ASSUME FeedAssumption, NEW files \in Feeds, NEW data, data = EnsureOrdered(ReadRows(files)),
           NEW name \in Names(files),
           GetID(StopIDs(files), name) \in DOMAIN Remap(Kept(data))
    PROVE  \E i \in DOMAIN Kept(data), row \in Range(files.stops) :
              /\ row.key = name
              /\ Kept(data)[i] = ReadStop(files, row)
              /\ Remap(Kept(data))[GetID(StopIDs(files), name)] = i - 1
<1> DEFINE kept == Kept(data)
<1>1. /\ kept \in Seq(Range(data.stops))
      /\ \A i, k \in DOMAIN kept : kept[i].id = kept[k].id => i = k
      /\ \A i \in DOMAIN kept : \E row \in Range(files.stops) : kept[i] = ReadStop(files, row)
  BY KeptFacts
<1> HIDE DEF kept
<1>2. /\ DOMAIN Remap(kept) = { kept[i].id : i \in DOMAIN kept }
      /\ \A i \in DOMAIN kept : Remap(kept)[kept[i].id] = i - 1
  BY <1>1, RemapFacts
<1>3. PICK i \in DOMAIN kept : GetID(StopIDs(files), name) = kept[i].id
  BY <1>2 DEF kept
<1>4. PICK row \in Range(files.stops) : kept[i] = ReadStop(files, row)
  BY <1>1
<1>5. kept[i].id = GetID(StopIDs(files), row.key)
  BY <1>4 DEF ReadStop
<1>6. row.key = name
  BY <1>3, <1>5, NamesAre, StopsHaveIDs, IDsDiffer
<1> QED
  BY <1>2, <1>3, <1>4, <1>6 DEF kept

\* what loading looks up among the new ids
Used(data) == Served(data) \cup UNION { stop.parent : stop \in Range(Kept(data)) }

LEMMA UsedFacts ==
    ASSUME FeedAssumption, NEW files \in Feeds, NEW data, data = EnsureOrdered(ReadRows(files))
    PROVE  /\ \A row \in Range(files.stop_times) : GetID(StopIDs(files), row.stop) \in Used(data)
           /\ \A row \in Range(files.transfers) :
                 /\ GetID(StopIDs(files), row.from) \in Used(data)
                 /\ GetID(StopIDs(files), row.to) \in Used(data)
           /\ \A i \in DOMAIN Kept(data) : Kept(data)[i].parent \subseteq Used(data)
<1> DEFINE parents == UNION { stop.parent : stop \in Range(Kept(data)) }
<1>1. \A id : id \in parents <=> \E i \in DOMAIN Kept(data) : id \in Kept(data)[i].parent
  BY DEF Range
<1>2. Used(data) = Served(data) \cup parents
  BY DEF Used
<1> HIDE DEF parents
<1>3. \A row \in Range(files.stop_times) : GetID(StopIDs(files), row.stop) \in Served(data)
  BY ServedFacts
<1>4. \A row \in Range(files.transfers) :
         /\ GetID(StopIDs(files), row.from) \in Served(data)
         /\ GetID(StopIDs(files), row.to) \in Served(data)
  BY ServedFacts
<1> QED
  BY <1>1, <1>2, <1>3, <1>4

\* If every name is that of a stop, what is used is kept.
LEMMA UsedIsKept ==
    ASSUME FeedAssumption, NEW files \in Feeds, NEW data, data = EnsureOrdered(ReadRows(files)),
           \A name \in Names(files) : \E row \in Range(files.stops) : row.key = name
    PROVE  Used(data) \subseteq DOMAIN Remap(Kept(data))
<1> DEFINE kept == Kept(data)
           Num(key) == GetID(StopIDs(files), key)
           parents == UNION { stop.parent : stop \in Range(kept) }
<1>1. /\ kept \in Seq(Range(data.stops))
      /\ \A i, k \in DOMAIN kept : kept[i].id = kept[k].id => i = k
      /\ \A i \in DOMAIN kept : \E row \in Range(files.stops) : kept[i] = ReadStop(files, row)
      /\ \A row \in Range(files.stops) :
            Num(row.key) \in ReachableStops(data) => \E i \in DOMAIN kept : kept[i] = ReadStop(files, row)
  BY KeptFacts
<1>2. DOMAIN Remap(kept) = { kept[i].id : i \in DOMAIN kept }
  <2> HIDE DEF kept
  <2>1. DOMAIN Remap(kept) = { row.id : row \in Range(kept) }
    BY DEF Remap
  <2>2. \A id : (\E row \in Range(kept) : id = row.id) <=> \E i \in DOMAIN kept : id = kept[i].id
    BY DEF Range
  <2> QED
    BY <2>1, <2>2
<1>3. \A row : ReadStop(files, row).id = Num(row.key)
  BY DEF ReadStop
<1>4. ASSUME NEW row \in Range(files.stops), Num(row.key) \in ReachableStops(data)
      PROVE  Num(row.key) \in DOMAIN Remap(kept)
  <2> HIDE DEF kept, Num
  <2> QED
    BY <1>1, <1>2, <1>3, <1>4
<1>5. ASSUME NEW id \in Served(data)
      PROVE  id \in DOMAIN Remap(kept)
  <2>1. PICK name \in Names(files) : id = Num(name)
    BY ServedFacts, NamesAre
  <2>2. PICK row \in Range(files.stops) : row.key = name
    OBVIOUS
  <2>3. id \in ReachableStops(data)
    BY ReachableFacts
  <2> QED
    BY <1>4, <2>1, <2>2, <2>3
<1>6. ASSUME NEW id \in parents
      PROVE  id \in DOMAIN Remap(kept)
  <2>1. PICK i \in DOMAIN kept : id \in kept[i].parent
    BY DEF Range
  <2>2. PICK row \in Range(files.stops) : kept[i] = ReadStop(files, row)
    BY <1>1, <2>1
  <2>3. PICK key \in row.parent : id = Num(key)
    BY <2>1, <2>2 DEF ReadStop, OptionalID
  <2>4. CASE id = Num(row.key)
    BY <1>2, <1>3, <2>1, <2>2, <2>4
  <2>5. CASE id # Num(row.key)
    <3>1. id \in ReachableStops(data)
      BY <2>3, <2>5, ReachableFacts
    <3>2. PICK other \in Range(files.stops) : other.key = key
      BY NamesAre
    <3> QED
      BY <1>4, <2>3, <3>1, <3>2
  <2> QED
    BY <2>4, <2>5
<1>7. Used(data) = Served(data) \cup parents
  BY DEF Used
<1> HIDE DEF parents, kept
<1> QED
  BY <1>5, <1>6, <1>7 DEF kept

\* what becomes of a kept stop
Renumbered(data, i) ==
    [ Kept(data)[i] EXCEPT !.id = Remap(Kept(data))[@],
                           !.parent = { Remap(Kept(data))[id] : id \in @ } ]

LEMMA SingleOrNone ==
    ASSUME NEW S, IsFiniteSet(S), Cardinality(S) <= 1
    PROVE  S = {} \/ \E x \in S : S = {x}
<1>1. Cardinality(S) \in Nat
  BY FS_CardinalityType
<1>2. Cardinality(S) = 0 \/ Cardinality(S) = 1
  BY <1>1
<1>3. CASE Cardinality(S) = 0
  BY <1>3, FS_EmptySet
<1>4. CASE Cardinality(S) = 1
  <2>1. PICK x : S = {x}
    BY <1>4, FS_Singleton
  <2> QED
    BY <2>1
<1> QED
  BY <1>2, <1>3, <1>4

\* the stop, at a place among those that are kept, is that of the row
Stems(files, data, stop, i, row) ==
    /\ GetID(StopIDs(files), row.key) \in ReachableStops(data)
    /\ DOMAIN stop = {"id", "name", "location", "parent"}
    /\ stop.id = i - 1
    /\ stop.location = row.location
    /\ Kept(data)[i].location = row.location
    /\ \/ row.parent = {} /\ stop.parent = {}
       \/ \E k \in DOMAIN Kept(data), other \in Range(files.stops) :
             /\ row.parent = {other.key} /\ stop.parent = {k - 1}
             /\ Kept(data)[k].location = other.location

\* A kept stop is told by its place, and so is its station.
LEMMA RenumberedFacts ==
    ASSUME FeedAssumption, NEW files \in Feeds, NEW data, data = EnsureOrdered(ReadRows(files)),
           Used(data) \subseteq DOMAIN Remap(Kept(data)), NEW i \in DOMAIN Kept(data)
    PROVE  \E row \in Range(files.stops) : Stems(files, data, Renumbered(data, i), i, row)
<1> DEFINE kept == Kept(data)
           mapping == Remap(kept)
           stop == Renumbered(data, i)
<1>1. /\ kept \in Seq(Range(data.stops))
      /\ \A j, k \in DOMAIN kept : kept[j].id = kept[k].id => j = k
      /\ \A k \in DOMAIN kept : \E row \in Range(files.stops) :
            kept[k] = ReadStop(files, row) /\ GetID(StopIDs(files), row.key) \in ReachableStops(data)
  BY KeptFacts
<1>2. \A k \in DOMAIN kept : mapping[kept[k].id] = k - 1
  <2>1. kept \in Seq(Range(data.stops))
        /\ \A j, k \in DOMAIN kept : kept[j].id = kept[k].id => j = k
    BY <1>1
  <2> HIDE DEF kept
  <2> QED
    BY <2>1, RemapFacts
<1>3. PICK row \in Range(files.stops) :
            kept[i] = ReadStop(files, row) /\ GetID(StopIDs(files), row.key) \in ReachableStops(data)
  BY <1>1
<1>4. /\ DOMAIN kept[i] = {"id", "name", "location", "parent"}
      /\ kept[i].location = row.location
      /\ kept[i].parent = OptionalID(StopIDs(files), row.parent)
  BY <1>3 DEF ReadStop
<1>5. /\ DOMAIN stop = {"id", "name", "location", "parent"}
      /\ stop.id = mapping[kept[i].id] /\ stop.location = kept[i].location
      /\ stop.parent = { mapping[id] : id \in kept[i].parent }
  <2> HIDE DEF mapping
  <2> QED
    BY <1>4 DEF Renumbered, mapping
<1> HIDE DEF kept, mapping, stop
<1>6. stop.id = i - 1
  BY <1>2, <1>5 DEF kept
<1>7. row.parent = {} \/ \E key \in row.parent : row.parent = {key}
  BY SingleOrNone DEF FeedAssumption
<1>8. CASE row.parent = {}
  <2>1. stop.parent = {}
    BY <1>4, <1>5, <1>8 DEF OptionalID
  <2> QED
    BY <1>3, <1>4, <1>5, <1>6, <1>8, <2>1 DEF kept, stop, Stems
<1>9. CASE row.parent # {}
  <2>1. PICK key \in row.parent : row.parent = {key}
    BY <1>7, <1>9
  <2> DEFINE id == GetID(StopIDs(files), key)
  <2>2. kept[i].parent = {id}
    BY <1>4, <2>1 DEF OptionalID
  <2>3. id \in DOMAIN mapping
    BY <2>2, UsedFacts DEF kept, mapping
  <2>4. key \in Names(files)
    BY <2>1, NamesAre
  <2>5. PICK k \in DOMAIN kept, other \in Range(files.stops) :
              other.key = key /\ kept[k] = ReadStop(files, other) /\ mapping[id] = k - 1
    BY <2>3, <2>4, PlaceOfName DEF kept, mapping
  <2>6. stop.parent = {k - 1} /\ kept[k].location = other.location
    BY <1>5, <2>2, <2>5 DEF ReadStop
  <2> HIDE DEF id
  <2>7. /\ row.parent = {other.key} /\ stop.parent = {k - 1}
        /\ kept[k].location = other.location
    BY <2>1, <2>5, <2>6
  <2>8. \E j \in DOMAIN kept, one \in Range(files.stops) :
           /\ row.parent = {one.key} /\ stop.parent = {j - 1}
           /\ kept[j].location = one.location
    BY <2>7
  <2>9. /\ GetID(StopIDs(files), row.key) \in ReachableStops(data)
        /\ DOMAIN stop = {"id", "name", "location", "parent"}
        /\ stop.id = i - 1 /\ stop.location = row.location /\ kept[i].location = row.location
    BY <1>3, <1>4, <1>5, <1>6
  <2>10. Stems(files, data, stop, i, row)
    BY <2>8, <2>9 DEF kept, Stems
  <2> QED
    BY <2>10 DEF stop
<1> QED
  BY <1>8, <1>9

-----------------------------------------------------------------------------
(* The inductive invariant                                                  *)

\* the stops of the dataset are such with their place for an id, each from a row
Numbered(stops) ==
    /\ stops \in Seq(Range(stops))
    /\ \A i \in DOMAIN stops :
          /\ {"id", "name", "location", "parent"} \subseteq DOMAIN stops[i]
          /\ stops[i].id = i - 1
          /\ \E row \in Range(feed.stops) : stops[i].location = row.location
          /\ \/ stops[i].parent = {}
             \/ \E k \in DOMAIN stops : stops[i].parent = {k - 1}

\* A station that was found is a stop of an earlier bucket, as its stop is, and has no
\* station itself. A station of the feed is still the one of the feed.
Stationed(stops) ==
    \A row \in Range(feed.stops) : \A i \in DOMAIN stops :
        stops[i].location = row.location =>
            IF row.parent = {}
            THEN \A id \in stops[i].parent :
                    LET station == stops[id + 1]
                    IN  /\ id # i - 1 /\ station.parent = {}
                        /\ Distance(station.location, stops[i].location) <= Proximity
                        /\ station.name % bucket_count = stops[i].name % bucket_count
                        /\ stops[i].name % bucket_count \in 0 .. bucket - 1
            ELSE /\ stops[i].parent # {}
                 /\ \A key \in row.parent, id \in stops[i].parent : Denotes(id, key)

\* what a stage of loading leaves behind
StageOK ==
    CASE loading = "csv" -> bucket = 0 /\ base_data.stops = << >>
      [] loading \in {"filter", "crashed"} ->
            bucket = 0 /\ base_data = EnsureOrdered(ReadRows(feed)) /\ id_hash = TripIDs(feed)
      [] OTHER -> Numbered(base_data.stops) /\ Stationed(base_data.stops)

BucketOK ==
    /\ bucket \in 0 .. bucket_count
    /\ loading = "connect" => bucket < bucket_count

ServicesOK ==
    /\ calls \in Seq(Services)
    /\ \A name \in Services : service[name] = {} \/ \E value \in service[name] : service[name] = {value}
    /\ DOMAIN service = Services
    /\ loading # "loaded" => calls = << >>

MasterInv ==
    /\ feed \in Feeds /\ bucket_count \in BucketCounts
    /\ loading \in {"csv", "filter", "connect", "loaded", "crashed", "exited"}
    /\ DOMAIN base_data = Parts
    /\ BucketOK /\ StageOK /\ ServicesOK
    /\ OnlyUnusedStopsGo

-----------------------------------------------------------------------------
(* Loading                                                                  *)

LEMMA InitOK ==
    ASSUME FeedAssumption, BucketAssumption, Init
    PROVE  MasterInv
<1>1. /\ feed \in Feeds /\ bucket_count \in BucketCounts /\ loading = "csv" /\ bucket = 0
      /\ DOMAIN base_data = Parts /\ base_data.stops = << >>
  BY DEF Init, DatasetInit, Parts
<1>2. bucket_count \in Nat \ {0}
  BY <1>1 DEF BucketAssumption
<1>3. BucketOK
  BY <1>1, <1>2 DEF BucketOK
<1>4. ServicesOK
  <2>1. service = [ name \in Services |-> {} ] /\ calls = << >>
    BY DEF Init
  <2> QED
    BY <2>1 DEF ServicesOK
<1>5. OnlyUnusedStopsGo
  BY <1>1 DEF OnlyUnusedStopsGo, Filtered
<1> QED
  BY <1>1, <1>3, <1>4, <1>5 DEF MasterInv, StageOK

LEMMA ReadCSVKeeps ==
    ASSUME FeedAssumption, BucketAssumption, MasterInv, ReadCSV, UNCHANGED << service, calls >>
    PROVE  MasterInv'
<1>1. /\ loading = "csv" /\ loading' = "filter" /\ base_data' = EnsureOrdered(ReadRows(feed))
      /\ id_hash' = TripIDs(feed) /\ UNCHANGED << feed, bucket_count, bucket, service, calls >>
  BY DEF ReadCSV
<1>2. feed \in Feeds /\ bucket = 0 /\ BucketOK /\ ServicesOK /\ bucket_count \in BucketCounts
  BY <1>1 DEF MasterInv, StageOK
<1>3. DOMAIN base_data' = Parts
  BY <1>1, <1>2, CSVFacts
<1>4. BucketOK' /\ ServicesOK'
  BY <1>1, <1>2 DEF BucketOK, ServicesOK
<1>5. StageOK'
  BY <1>1, <1>2 DEF StageOK
<1>6. OnlyUnusedStopsGo'
  BY <1>1 DEF OnlyUnusedStopsGo, Filtered
<1> QED
  BY <1>1, <1>2, <1>3, <1>4, <1>5, <1>6 DEF MasterInv

RenumberedStops(data) == [ i \in DOMAIN Kept(data) |-> Renumbered(data, i) ]

\* the outcome of filtering when every id that is looked up is there
FilteredData(data) ==
    [ data EXCEPT
         !.stops = RenumberedStops(data),
         !.stop_times = [ i \in DOMAIN data.stop_times |->
            [data.stop_times[i] EXCEPT !.stop = Remap(Kept(data))[@]] ],
         !.transfers = [ i \in DOMAIN data.transfers |->
            [data.transfers[i] EXCEPT !.from = Remap(Kept(data))[@], !.to = Remap(Kept(data))[@]] ] ]

LEMMA FilterDoes ==
    ASSUME FilterUnreachableStops
    PROVE  /\ loading = "filter" /\ UNCHANGED << feed, bucket_count, bucket, id_hash >>
           /\ \/ /\ Used(base_data) \subseteq DOMAIN Remap(Kept(base_data))
                 /\ base_data' = FilteredData(base_data) /\ loading' = "connect"
              \/ /\ ~ Used(base_data) \subseteq DOMAIN Remap(Kept(base_data))
                 /\ base_data' = base_data /\ loading' = "crashed"
<1>1. /\ loading = "filter" /\ UNCHANGED << feed, bucket_count, bucket, id_hash >>
  BY DEF FilterUnreachableStops
<1>2. \/ /\ Used(base_data) \subseteq DOMAIN Remap(Kept(base_data))
         /\ base_data' = FilteredData(base_data) /\ loading' = "connect"
      \/ /\ ~ Used(base_data) \subseteq DOMAIN Remap(Kept(base_data))
         /\ base_data' = base_data /\ loading' = "crashed"
  <2> DEFINE kept == Selected(base_data.stops, { i \in DOMAIN base_data.stops :
                                  base_data.stops[i].id \in ReachableStops(base_data) })
             mapping == Remap(kept)
             used == Served(base_data) \cup UNION { stop.parent : stop \in Range(kept) }
             filtered == [ base_data EXCEPT
                     !.stops = Column(kept, LAMBDA stop :
                         [ stop EXCEPT !.id = mapping[@], !.parent = { mapping[id] : id \in @ } ]),
                     !.stop_times = Column(@, LAMBDA row : [row EXCEPT !.stop = mapping[@]]),
                     !.transfers = Column(@, LAMBDA row :
                         [row EXCEPT !.from = mapping[@], !.to = mapping[@]]) ]
  <2>1. \/ used \subseteq DOMAIN mapping /\ base_data' = filtered /\ loading' = "connect"
        \/ ~ used \subseteq DOMAIN mapping /\ base_data' = base_data /\ loading' = "crashed"
    BY Zenon DEF FilterUnreachableStops
  <2>2. kept = Kept(base_data)
    BY Zenon DEF Kept, Places
  <2>3. used = Used(base_data)
    BY <2>2, Zenon DEF Used
  <2>4. filtered = FilteredData(base_data)
    <3> DEFINE times == Column(base_data.stop_times, LAMBDA row : [row EXCEPT !.stop = mapping[@]])
               transfers == Column(base_data.transfers, LAMBDA row :
                              [row EXCEPT !.from = mapping[@], !.to = mapping[@]])
               stops == Column(kept, LAMBDA stop :
                         [ stop EXCEPT !.id = mapping[@], !.parent = { mapping[id] : id \in @ } ])
    <3>1. filtered = [ base_data EXCEPT !.stops = stops, !.stop_times = times, !.transfers = transfers ]
      BY Zenon
    <3>2. stops = RenumberedStops(base_data)
      BY <2>2, Zenon DEF Renumbered, RenumberedStops, Column
    <3>3. times = [ i \in DOMAIN base_data.stop_times |->
             [base_data.stop_times[i] EXCEPT !.stop = Remap(Kept(base_data))[@]] ]
      BY <2>2, Zenon DEF Column
    <3>4. transfers = [ i \in DOMAIN base_data.transfers |->
             [base_data.transfers[i] EXCEPT !.from = Remap(Kept(base_data))[@],
                                            !.to = Remap(Kept(base_data))[@]] ]
      BY <2>2, Zenon DEF Column
    <3> HIDE DEF stops, times, transfers, filtered
    <3> QED
      BY <3>1, <3>2, <3>3, <3>4, Zenon DEF FilteredData
  <2> HIDE DEF filtered, used, kept
  <2> QED
    BY <2>1, <2>2, <2>3, <2>4
<1> QED
  BY <1>1, <1>2

LEMMA FilteredFacts ==
    ASSUME NEW data, DOMAIN data = Parts
    PROVE  /\ DOMAIN FilteredData(data) = Parts
           /\ FilteredData(data).stops = RenumberedStops(data)
           /\ FilteredData(data).stop_times
              = [ i \in DOMAIN data.stop_times |->
                    [data.stop_times[i] EXCEPT !.stop = Remap(Kept(data))[@]] ]
           /\ FilteredData(data).transfers
              = [ i \in DOMAIN data.transfers |->
                    [data.transfers[i] EXCEPT !.from = Remap(Kept(data))[@],
                                              !.to = Remap(Kept(data))[@]] ]
           /\ FilteredData(data).trips = data.trips
<1> DEFINE stops == RenumberedStops(data)
           times == [ i \in DOMAIN data.stop_times |->
                        [data.stop_times[i] EXCEPT !.stop = Remap(Kept(data))[@]] ]
           transfers == [ i \in DOMAIN data.transfers |->
                            [data.transfers[i] EXCEPT !.from = Remap(Kept(data))[@],
                                                      !.to = Remap(Kept(data))[@]] ]
<1>1. FilteredData(data)
      = [data EXCEPT !.stops = stops, !.stop_times = times, !.transfers = transfers]
  BY Zenon DEF FilteredData
<1> HIDE DEF stops, times, transfers
<1>2. /\ DOMAIN FilteredData(data) = Parts /\ FilteredData(data).stops = stops
      /\ FilteredData(data).stop_times = times /\ FilteredData(data).transfers = transfers
      /\ FilteredData(data).trips = data.trips
  BY <1>1 DEF Parts
<1> QED
  BY <1>2 DEF stops, times, transfers

\* the key of a row leads to the row
LEMMA FeedStopOf ==
    ASSUME FeedAssumption, feed \in Feeds, NEW row \in Range(feed.stops)
    PROVE  FeedStop(row.key) = row
<1>1. \A other \in Range(feed.stops) : other.key = row.key => other = row
  BY RowsDiffer
<1> QED
  BY <1>1 DEF FeedStop

LEMMA FilteredStops ==
    ASSUME FeedAssumption, BucketAssumption, MasterInv, FilterUnreachableStops, UNCHANGED << service, calls >>,
           loading' = "connect"
    PROVE  Numbered(base_data.stops)' /\ Stationed(base_data.stops)' /\ OnlyUnusedStopsGo'
<1> DEFINE kept == Kept(base_data)
           stops == base_data'.stops
<1>1. /\ loading = "filter" /\ UNCHANGED << feed, bucket_count, bucket, id_hash >>
      /\ Used(base_data) \subseteq DOMAIN Remap(Kept(base_data))
      /\ base_data' = FilteredData(base_data)
  BY FilterDoes
<1>2. /\ feed \in Feeds /\ DOMAIN base_data = Parts
      /\ base_data = EnsureOrdered(ReadRows(feed))
  BY <1>1 DEF MasterInv, StageOK
<1>3. stops = [ i \in DOMAIN kept |-> Renumbered(base_data, i) ]
  <2>1. FilteredData(base_data).stops = RenumberedStops(base_data)
    BY <1>2, FilteredFacts
  <2> QED
    BY <1>1, <2>1 DEF RenumberedStops
<1>4. /\ kept \in Seq(Range(base_data.stops))
      /\ \A row \in Range(feed.stops) :
            GetID(StopIDs(feed), row.key) \in ReachableStops(base_data)
            => \E i \in DOMAIN kept : kept[i] = ReadStop(feed, row)
  BY <1>2, KeptFacts
<1>5. \A i \in DOMAIN kept :
         \E row \in Range(feed.stops) : Stems(feed, base_data, stops[i], i, row)
  <2>1. \A i \in DOMAIN kept :
           \E row \in Range(feed.stops) : Stems(feed, base_data, Renumbered(base_data, i), i, row)
    BY <1>1, <1>2, RenumberedFacts
  <2> QED
    BY <1>3, <2>1
<1>6. /\ Len(kept) \in Nat /\ DOMAIN kept = 1 .. Len(kept) /\ DOMAIN stops = DOMAIN kept
      /\ stops = [ i \in 1 .. Len(kept) |-> stops[i] ]
  <2>1. Len(kept) \in Nat /\ DOMAIN kept = 1 .. Len(kept)
    BY <1>4
  <2> HIDE DEF kept
  <2> QED
    BY <1>3, <2>1
<1> HIDE DEF kept, stops
<1>7. stops \in Seq(Range(stops))
  <2>1. \A i \in 1 .. Len(kept) : stops[i] \in Range(stops)
    BY <1>6 DEF Range
  <2> QED
    BY <1>6, <2>1, IsASeq
<1>8. Numbered(base_data.stops)'
  <2>1. \A i \in DOMAIN stops :
          /\ {"id", "name", "location", "parent"} \subseteq DOMAIN stops[i]
          /\ stops[i].id = i - 1
          /\ \E row \in Range(feed.stops) : stops[i].location = row.location
          /\ \/ stops[i].parent = {}
             \/ \E k \in DOMAIN stops : stops[i].parent = {k - 1}
    BY <1>5, <1>6 DEF Stems, kept
  <2>2. UNCHANGED feed /\ base_data.stops' = stops
    BY <1>1 DEF stops
  <2> QED
    BY <1>7, <2>1, <2>2 DEF Numbered
<1>9. ASSUME NEW row \in Range(feed.stops), NEW i \in DOMAIN stops, stops[i].location = row.location
      PROVE  /\ GetID(StopIDs(feed), row.key) \in ReachableStops(base_data)
             /\ \/ row.parent = {} /\ stops[i].parent = {}
                \/ \E k \in DOMAIN kept, other \in Range(feed.stops) :
                      /\ row.parent = {other.key} /\ stops[i].parent = {k - 1}
                      /\ stops[k].location = other.location
  <2>1. PICK found \in Range(feed.stops) :
              /\ GetID(StopIDs(feed), found.key) \in ReachableStops(base_data)
              /\ stops[i].location = found.location
              /\ \/ found.parent = {} /\ stops[i].parent = {}
                 \/ \E k \in DOMAIN kept, other \in Range(feed.stops) :
                       /\ found.parent = {other.key} /\ stops[i].parent = {k - 1}
                       /\ kept[k].location = other.location
    <3>1. PICK from \in Range(feed.stops) : Stems(feed, base_data, stops[i], i, from)
      BY <1>5, <1>6
    <3> QED
      BY <3>1 DEF Stems, kept
  <2>2. found = row
    BY <1>2, <1>9, <2>1, RowsDiffer
  <2>3. \A k \in DOMAIN kept : stops[k].location = kept[k].location
    BY <1>5 DEF Stems, kept
  <2> QED
    BY <2>1, <2>2, <2>3
<1>10. Stationed(base_data.stops)'
  <2> SUFFICES ASSUME NEW row \in Range(feed.stops), NEW i \in DOMAIN stops,
                      stops[i].location = row.location
               PROVE  IF row.parent = {} THEN stops[i].parent = {}
                      ELSE /\ stops[i].parent # {}
                           /\ \A key \in row.parent, id \in stops[i].parent : Denotes(id, key)'
    <3>1. UNCHANGED feed /\ base_data.stops' = stops
      BY <1>1 DEF stops
    <3>2. Stationed(base_data.stops)' <=>
            \A row \in Range(feed.stops) : \A i \in DOMAIN stops :
              stops[i].location = row.location =>
                IF row.parent = {}
                THEN \A id \in stops[i].parent :
                        LET station == stops[id + 1]
                        IN  /\ id # i - 1 /\ station.parent = {}
                            /\ Distance(station.location, stops[i].location) <= Proximity
                            /\ station.name % bucket_count' = stops[i].name % bucket_count'
                            /\ stops[i].name % bucket_count' \in 0 .. bucket' - 1
                ELSE /\ stops[i].parent # {}
                     /\ \A key \in row.parent, id \in stops[i].parent : Denotes(id, key)'
      BY <3>1, Zenon DEF Stationed
    <3> QED
      BY <3>2
  <2>1. CASE row.parent = {}
    <3>1. \A other : {other} # {}
      OBVIOUS
    <3> QED
      BY <1>9, <2>1, <3>1
  <2>2. CASE row.parent # {}
    <3>1. PICK k \in DOMAIN kept, other \in Range(feed.stops) :
                 /\ row.parent = {other.key} /\ stops[i].parent = {k - 1}
                 /\ stops[k].location = other.location
      BY <1>9, <2>2
    <3>2. k \in Nat /\ k - 1 + 1 = k
      BY <1>6
    <3>3. FeedStop(other.key) = other
      BY <1>2, FeedStopOf
    <3>4. FeedStop(other.key)' = FeedStop(other.key)
      BY <1>1 DEF FeedStop
    <3>5. Denotes(k - 1, other.key)'
      BY <1>6, <3>1, <3>2, <3>3, <3>4 DEF Denotes, stops
    <3> QED
      BY <2>2, <3>1, <3>5
  <2> QED
    BY <2>1, <2>2
<1>11. ASSUME NEW row \in Range(feed.stops)
       PROVE  (\E stop \in Range(stops) : stop.location = row.location) <=> ~ Unused(feed, row)
  <2>1. GetID(StopIDs(feed), row.key) \in ReachableStops(base_data) <=> ~ Unused(feed, row)
    BY <1>2, UnusedFacts
  <2>2. ASSUME NEW i \in DOMAIN kept, kept[i] = ReadStop(feed, row)
        PROVE  stops[i].location = row.location
    <3>1. kept[i].location = row.location
      BY <2>2 DEF ReadStop
    <3> QED
      BY <1>5, <3>1 DEF Stems, kept
  <2> QED
    BY <1>4, <1>6, <1>9, <2>1, <2>2 DEF Range
<1>12. OnlyUnusedStopsGo'
  BY <1>1, <1>11 DEF OnlyUnusedStopsGo, Unused, stops
<1> QED
  BY <1>8, <1>10, <1>12 DEF stops

LEMMA FilterKeeps ==
    ASSUME FeedAssumption, BucketAssumption, MasterInv, FilterUnreachableStops, UNCHANGED << service, calls >>
    PROVE  MasterInv'
<1>1. /\ loading = "filter" /\ UNCHANGED << feed, bucket_count, bucket, id_hash >>
      /\ \/ /\ Used(base_data) \subseteq DOMAIN Remap(Kept(base_data))
            /\ base_data' = FilteredData(base_data) /\ loading' = "connect"
         \/ base_data' = base_data /\ loading' = "crashed"
  BY FilterDoes
<1>2. /\ feed \in Feeds /\ bucket_count \in BucketCounts /\ bucket = 0 /\ DOMAIN base_data = Parts
      /\ base_data = EnsureOrdered(ReadRows(feed)) /\ id_hash = TripIDs(feed)
      /\ BucketOK /\ ServicesOK
  BY <1>1 DEF MasterInv, StageOK
<1>3. ServicesOK'
  BY <1>1, <1>2 DEF ServicesOK
<1>4. BucketOK'
  BY <1>1, <1>2 DEF BucketOK, BucketAssumption
<1>5. CASE loading' = "crashed"
  <2>1. base_data' = base_data
    BY <1>1, <1>5
  <2>2. StageOK'
    BY <1>1, <1>2, <1>5, <2>1 DEF StageOK
  <2>3. OnlyUnusedStopsGo'
    BY <1>5 DEF OnlyUnusedStopsGo, Filtered
  <2> QED
    BY <1>1, <1>2, <1>3, <1>4, <1>5, <2>1, <2>2, <2>3 DEF MasterInv
<1>6. CASE loading' = "connect"
  <2>1. Numbered(base_data.stops)' /\ Stationed(base_data.stops)' /\ OnlyUnusedStopsGo'
    BY <1>6, FilteredStops
  <2>2. base_data' = FilteredData(base_data)
    BY <1>1, <1>6
  <2>3. DOMAIN base_data' = Parts
    BY <1>2, <2>2, FilteredFacts
  <2>4. StageOK'
    BY <1>6, <2>1 DEF StageOK
  <2> QED
    BY <1>1, <1>2, <1>3, <1>4, <1>6, <2>1, <2>3, <2>4 DEF MasterInv
<1> QED
  BY <1>1, <1>5, <1>6

\* some stops among the members got another one for a station
Joined(stops, new, members) ==
    /\ new \in Seq(Range(new)) /\ DOMAIN new = DOMAIN stops
    /\ \A i \in DOMAIN stops :
          /\ DOMAIN new[i] = DOMAIN stops[i]
          /\ new[i].id = stops[i].id /\ new[i].name = stops[i].name
          /\ new[i].location = stops[i].location
          /\ \/ new[i] = stops[i]
             \/ \E k \in members :
                   /\ i \in members /\ i # k /\ new[i].parent = {k - 1}
                   /\ stops[i].parent = {} /\ new[k] = stops[k] /\ stops[k].parent = {}
                   /\ Distance(stops[k].location, stops[i].location) <= Proximity

LEMMA GroupFacts ==
    ASSUME NEW stops, Numbered(stops), NEW members \in SUBSET DOMAIN stops
    PROVE  Joined(stops, GroupClosePoints(stops, members), members)
<1> DEFINE new == GroupClosePoints(stops, members)
           reference == stops[Min(members)]
           close == \A i \in members : Distance(reference.location, stops[i].location) <= Proximity
           alone == \A i \in members : stops[i].parent = {}
           grouped == [ i \in DOMAIN stops |->
                          IF i \in members /\ stops[i].id # reference.id
                          THEN [stops[i] EXCEPT !.parent = {reference.id}]
                          ELSE stops[i] ]
<1>1. /\ stops \in Seq(Range(stops)) /\ Len(stops) \in Nat /\ DOMAIN stops = 1 .. Len(stops)
      /\ \A i \in DOMAIN stops : /\ {"id", "name", "location", "parent"} \subseteq DOMAIN stops[i]
                                 /\ stops[i].id = i - 1
  <2>1. stops \in Seq(Range(stops))
    BY DEF Numbered
  <2>2. \A i \in DOMAIN stops : /\ {"id", "name", "location", "parent"} \subseteq DOMAIN stops[i]
                                /\ stops[i].id = i - 1
    BY DEF Numbered
  <2> QED
    BY <2>1, <2>2
<1>2. new = IF Cardinality(members) > 1 /\ alone /\ close THEN grouped ELSE stops
  BY Zenon DEF GroupClosePoints
<1> HIDE DEF new
<1>3. CASE new = stops
  BY <1>1, <1>3 DEF Joined, new
<1>4. CASE new # stops
  <2>1. new = grouped /\ alone /\ close /\ Cardinality(members) > 1
    BY <1>2, <1>4
  <2>2. members # {}
    <3>1. Cardinality({}) = 0
      BY FS_EmptySet
    <3> QED
      BY <2>1, <3>1
  <2>3. PICK k \in members : \A i \in members : k <= i
    <3>1. members \subseteq Nat
      BY <1>1
    <3> QED
      BY <2>2, <3>1, LeastOfNumbers
  <2>4. Min(members) \in members
    BY <2>3 DEF Min
  <2> DEFINE first == Min(members)
  <2>5. first \in DOMAIN stops /\ reference.id = first - 1 /\ first \in Int
    BY <1>1, <2>4
  <2>6. ASSUME NEW i \in DOMAIN stops
        PROVE  new[i] = IF i \in members /\ i # first
                        THEN [stops[i] EXCEPT !.parent = {first - 1}] ELSE stops[i]
    <3>1. stops[i].id # reference.id <=> i # first
      BY <1>1, <2>5
    <3> HIDE DEF first, reference
    <3> QED
      BY <2>1, <2>5, <3>1
  <2>7. ASSUME NEW i \in DOMAIN stops, i \in members, i # first
        PROVE  /\ DOMAIN new[i] = DOMAIN stops[i]
               /\ new[i].id = stops[i].id /\ new[i].name = stops[i].name
               /\ new[i].location = stops[i].location /\ new[i].parent = {first - 1}
               /\ stops[i].parent = {} /\ new[first] = stops[first] /\ stops[first].parent = {}
               /\ Distance(stops[first].location, stops[i].location) <= Proximity
    <3>1. new[i] = [stops[i] EXCEPT !.parent = {first - 1}] /\ new[first] = stops[first]
      BY <2>5, <2>6, <2>7
    <3>2. {"id", "name", "location", "parent"} \subseteq DOMAIN stops[i]
      BY <1>1
    <3>3. stops[i].parent = {} /\ stops[first].parent = {}
          /\ Distance(stops[first].location, stops[i].location) <= Proximity
      BY <2>1, <2>4, <2>7
    <3> HIDE DEF first
    <3> QED
      BY <3>1, <3>2, <3>3
  <2> HIDE DEF first, reference, grouped
  <2>8. \A i \in DOMAIN stops : ~ (i \in members /\ i # first) => new[i] = stops[i]
    BY <2>6
  <2>9. new \in Seq(Range(new)) /\ DOMAIN new = DOMAIN stops
    <3>1. DOMAIN new = 1 .. Len(stops) /\ new = [ i \in 1 .. Len(stops) |-> new[i] ]
      BY <1>1, <2>1 DEF grouped
    <3>2. \A i \in 1 .. Len(stops) : new[i] \in Range(new)
      BY <3>1 DEF Range
    <3>3. Len(stops) \in Nat
      BY <1>1
    <3>4. [ i \in 1 .. Len(stops) |-> new[i] ] \in Seq(Range(new))
      BY <3>2, <3>3, IsASeq
    <3> QED
      BY <1>1, <3>1, <3>4
  <2> QED
    BY <2>4, <2>7, <2>8, <2>9 DEF first, Joined, new
<1> QED
  BY <1>3, <1>4

LEMMA ConnectDoes ==
    ASSUME MasterInv, ConnectStopsIntoStations
    PROVE  /\ loading = "connect" /\ UNCHANGED << feed, bucket_count, id_hash >>
           /\ bucket' = bucket + 1
           /\ loading' = IF bucket + 1 = bucket_count THEN "loaded" ELSE "connect"
           /\ DOMAIN base_data' = Parts
           /\ base_data'.stops
              = GroupClosePoints(base_data.stops, InBucket(base_data.stops, bucket))
           /\ base_data'.stop_times = base_data.stop_times
           /\ base_data'.transfers = base_data.transfers
           /\ base_data'.trips = base_data.trips
<1>1. DOMAIN base_data = Parts
  BY DEF MasterInv
<1> DEFINE stops == GroupClosePoints(base_data.stops, InBucket(base_data.stops, bucket))
<1>2. /\ loading = "connect" /\ UNCHANGED << feed, bucket_count, id_hash >>
      /\ bucket' = bucket + 1
      /\ loading' = IF bucket' = bucket_count THEN "loaded" ELSE "connect"
      /\ base_data' = [base_data EXCEPT !.stops = stops]
  BY Zenon DEF ConnectStopsIntoStations
<1> HIDE DEF stops
<1>3. /\ DOMAIN base_data' = Parts /\ base_data'.stops = stops
      /\ base_data'.stop_times = base_data.stop_times
      /\ base_data'.transfers = base_data.transfers
      /\ base_data'.trips = base_data.trips
  BY <1>1, <1>2 DEF Parts
<1> QED
  BY <1>2, <1>3 DEF stops

LEMMA ConnectKeeps ==
    ASSUME FeedAssumption, BucketAssumption, MasterInv, ConnectStopsIntoStations,
           UNCHANGED << service, calls >>
    PROVE  MasterInv'
<1> DEFINE stops == base_data.stops
           new == base_data'.stops
           members == InBucket(stops, bucket)
<1>1. /\ loading = "connect" /\ UNCHANGED << feed, bucket_count, id_hash >>
      /\ bucket' = bucket + 1
      /\ loading' = IF bucket + 1 = bucket_count THEN "loaded" ELSE "connect"
      /\ DOMAIN base_data' = Parts /\ new = GroupClosePoints(stops, members)
  BY ConnectDoes
<1>2. /\ feed \in Feeds /\ bucket_count \in BucketCounts /\ BucketOK /\ ServicesOK
      /\ Numbered(stops) /\ Stationed(stops) /\ OnlyUnusedStopsGo
  BY <1>1 DEF MasterInv, StageOK
<1>3. bucket_count \in Nat /\ bucket \in 0 .. bucket_count - 1 /\ bucket \in Nat
  BY <1>1, <1>2 DEF BucketAssumption, BucketOK
<1>4. BucketOK'
  BY <1>1, <1>3 DEF BucketOK
<1>5. ServicesOK'
  BY <1>1, <1>2 DEF ServicesOK
<1>6. /\ members \in SUBSET DOMAIN stops
      /\ \A i \in DOMAIN stops : i \in members <=> stops[i].name % bucket_count = bucket
  BY DEF InBucket
<1>7. /\ new \in Seq(Range(new)) /\ DOMAIN new = DOMAIN stops
      /\ \A i \in DOMAIN stops :
            /\ DOMAIN new[i] = DOMAIN stops[i]
            /\ new[i].id = stops[i].id /\ new[i].name = stops[i].name
            /\ new[i].location = stops[i].location
            /\ \/ new[i] = stops[i]
               \/ \E k \in members :
                     /\ i \in members /\ i # k /\ new[i].parent = {k - 1}
                     /\ stops[i].parent = {} /\ new[k] = stops[k] /\ stops[k].parent = {}
                     /\ Distance(stops[k].location, stops[i].location) <= Proximity
  <2>1. Joined(stops, GroupClosePoints(stops, members), members)
    BY <1>2, <1>6, GroupFacts
  <2> HIDE DEF stops, new, members
  <2> QED
    BY <1>1, <2>1 DEF Joined
<1>8. Len(stops) \in Nat /\ DOMAIN stops = 1 .. Len(stops)
  BY <1>2 DEF Numbered
<1>9. base_data'.stops = new /\ base_data.stops' = new
  OBVIOUS
<1> HIDE DEF stops, new, members
<1>10. Numbered(base_data.stops)'
  <2>1. \A i \in DOMAIN new :
          /\ {"id", "name", "location", "parent"} \subseteq DOMAIN new[i]
          /\ new[i].id = i - 1
          /\ \E row \in Range(feed.stops) : new[i].location = row.location
          /\ \/ new[i].parent = {}
             \/ \E k \in DOMAIN new : new[i].parent = {k - 1}
    <3> SUFFICES ASSUME NEW i \in DOMAIN stops
                 PROVE  /\ {"id", "name", "location", "parent"} \subseteq DOMAIN new[i]
                        /\ new[i].id = i - 1
                        /\ \E row \in Range(feed.stops) : new[i].location = row.location
                        /\ \/ new[i].parent = {}
                           \/ \E k \in DOMAIN stops : new[i].parent = {k - 1}
      BY <1>7
    <3>1. /\ {"id", "name", "location", "parent"} \subseteq DOMAIN stops[i]
          /\ stops[i].id = i - 1
          /\ \E row \in Range(feed.stops) : stops[i].location = row.location
          /\ \/ stops[i].parent = {}
             \/ \E k \in DOMAIN stops : stops[i].parent = {k - 1}
      BY <1>2 DEF Numbered
    <3>2. new[i].parent = stops[i].parent \/ \E k \in DOMAIN stops : new[i].parent = {k - 1}
      BY <1>6, <1>7
    <3>3. /\ DOMAIN new[i] = DOMAIN stops[i]
          /\ new[i].id = stops[i].id /\ new[i].location = stops[i].location
      BY <1>7
    <3> QED
      BY <3>1, <3>2, <3>3
  <2> QED
    BY <1>1, <1>7, <1>9, <2>1 DEF Numbered
<1>11. ASSUME NEW key
       PROVE  \A id : Denotes(id, key) => Denotes(id, key)'
  <2>1. FeedStop(key)' = FeedStop(key)
    BY <1>1 DEF FeedStop
  <2> QED
    BY <1>7, <1>9, <2>1 DEF Denotes, stops
<1>12. ASSUME NEW row \in Range(feed.stops), NEW i \in DOMAIN stops, stops[i].location = row.location,
              row.parent = {}, NEW id \in new[i].parent
       PROVE  /\ id # i - 1 /\ new[id + 1].parent = {}
              /\ Distance(new[id + 1].location, new[i].location) <= Proximity
              /\ new[id + 1].name % bucket_count = new[i].name % bucket_count
              /\ new[i].name % bucket_count \in 0 .. bucket
  <2>1. CASE new[i] = stops[i]
    <3>1. /\ id # i - 1 /\ stops[id + 1].parent = {}
          /\ Distance(stops[id + 1].location, stops[i].location) <= Proximity
          /\ stops[id + 1].name % bucket_count = stops[i].name % bucket_count
          /\ stops[i].name % bucket_count \in 0 .. bucket - 1
      BY <1>2, <1>12, <2>1 DEF Stationed
    <3>2. id + 1 \in DOMAIN stops
      <4>1. PICK k \in DOMAIN stops : stops[i].parent = {k - 1}
        BY <1>2, <2>1 DEF Numbered
      <4> QED
        BY <1>8, <2>1, <4>1
    <3>3. id + 1 \notin members
      BY <1>3, <1>6, <3>1, <3>2
    <3>4. new[id + 1] = stops[id + 1]
      BY <1>7, <3>2, <3>3
    <3>5. stops[i].name % bucket_count \in 0 .. bucket
      BY <1>3, <3>1
    <3> QED
      BY <2>1, <3>1, <3>4, <3>5
  <2>2. CASE new[i] # stops[i]
    <3>1. PICK k \in members :
             /\ i \in members /\ i # k /\ new[i].parent = {k - 1}
             /\ stops[i].parent = {} /\ new[k] = stops[k] /\ stops[k].parent = {}
             /\ Distance(stops[k].location, stops[i].location) <= Proximity
      BY <1>7, <2>2
    <3>2. k \in Nat /\ i \in Nat /\ id + 1 = k /\ id # i - 1 /\ k \in DOMAIN stops
      BY <1>6, <1>8, <3>1
    <3>3. stops[i].name % bucket_count = bucket /\ stops[k].name % bucket_count = bucket
      BY <1>6, <3>1, <3>2
    <3>4. new[i].name = stops[i].name /\ new[i].location = stops[i].location
      BY <1>7
    <3> QED
      BY <1>3, <3>1, <3>2, <3>3, <3>4
  <2> QED
    BY <2>1, <2>2
<1>13. ASSUME NEW row \in Range(feed.stops), NEW i \in DOMAIN stops, stops[i].location = row.location,
              row.parent # {}
       PROVE  /\ new[i].parent # {}
              /\ \A key \in row.parent, id \in new[i].parent : Denotes(id, key)'
  <2>1. /\ stops[i].parent # {}
        /\ \A key \in row.parent, id \in stops[i].parent : Denotes(id, key)
    BY <1>2, <1>13 DEF Stationed, stops
  <2>2. new[i] = stops[i]
    BY <1>7, <2>1
  <2> QED
    BY <1>11, <2>1, <2>2
<1>14. Stationed(base_data.stops)'
  <2>1. UNCHANGED << feed, bucket_count >> /\ bucket' - 1 = bucket /\ DOMAIN new = DOMAIN stops
        /\ \A i \in DOMAIN stops : new[i].location = stops[i].location
    BY <1>1, <1>3, <1>7
  <2>2. \A row \in Range(feed.stops) : \A i \in DOMAIN new :
          new[i].location = row.location =>
            IF row.parent = {}
            THEN \A id \in new[i].parent :
                    LET station == new[id + 1]
                    IN  /\ id # i - 1 /\ station.parent = {}
                        /\ Distance(station.location, new[i].location) <= Proximity
                        /\ station.name % bucket_count = new[i].name % bucket_count
                        /\ new[i].name % bucket_count \in 0 .. bucket
            ELSE /\ new[i].parent # {}
                 /\ \A key \in row.parent, id \in new[i].parent : Denotes(id, key)'
    BY <1>12, <1>13, <2>1
  <2> QED
    BY <1>9, <2>1, <2>2 DEF Stationed
<1>15. OnlyUnusedStopsGo'
  <2>1. \A row : (\E stop \in Range(new) : stop.location = row.location)
                 <=> \E stop \in Range(stops) : stop.location = row.location
    BY <1>7 DEF Range
  <2> QED
    BY <1>1, <1>2, <1>9, <2>1 DEF OnlyUnusedStopsGo, Filtered, stops
<1>16. StageOK'
  BY <1>1, <1>10, <1>14 DEF StageOK
<1>17. loading' \in {"connect", "loaded"}
  BY <1>1
<1> QED
  BY <1>1, <1>2, <1>4, <1>5, <1>15, <1>16, <1>17 DEF MasterInv

-----------------------------------------------------------------------------
(* The accessors                                                            *)

\* Whoever leaves the stops alone, leaves all alone that is said of them.
LEMMA StopsStay ==
    ASSUME MasterInv, loading = "loaded", loading' \in {"loaded", "exited"},
           UNCHANGED << feed, bucket_count, bucket >>,
           DOMAIN base_data' = Parts, base_data'.stops = base_data.stops, ServicesOK'
    PROVE  MasterInv'
<1>1. /\ feed \in Feeds /\ bucket_count \in BucketCounts /\ BucketOK
      /\ Numbered(base_data.stops) /\ Stationed(base_data.stops) /\ OnlyUnusedStopsGo
  BY DEF MasterInv, StageOK
<1>2. base_data.stops' = base_data.stops
  OBVIOUS
<1>3. BucketOK'
  BY <1>1 DEF BucketOK
<1>4. Numbered(base_data.stops)'
  BY <1>1, <1>2 DEF Numbered
<1>5. \A key, id : Denotes(id, key)' <=> Denotes(id, key)
  BY <1>2 DEF Denotes, FeedStop
<1>6. Stationed(base_data.stops)'
  BY <1>1, <1>2, <1>5 DEF Stationed
<1>7. OnlyUnusedStopsGo'
  BY <1>1, <1>2 DEF OnlyUnusedStopsGo, Filtered
<1>8. StageOK'
  BY <1>4, <1>6 DEF StageOK
<1> QED
  BY <1>1, <1>3, <1>7, <1>8 DEF MasterInv

LEMMA CallKeeps ==
    ASSUME MasterInv, NEW name \in Services, Call(name)
    PROVE  MasterInv'
<1>1. /\ loading = "loaded" /\ calls' = << name >> /\ UNCHANGED << dataset, service >>
  BY DEF Call
<1>2. ServicesOK /\ DOMAIN base_data = Parts
  BY DEF MasterInv
<1>3. ServicesOK'
  BY <1>1, <1>2 DEF ServicesOK, dataset
<1> QED
  BY <1>1, <1>2, <1>3, StopsStay DEF dataset

LEMMA AskKeeps ==
    ASSUME MasterInv, NEW name \in Services, Ask(name)
    PROVE  MasterInv'
<1>1. /\ calls # << >> /\ UNCHANGED << dataset, service >>
      /\ \E need \in Missing(name) : calls' = Append(calls, need)
  BY DEF Ask, Executing
<1>2. ServicesOK /\ DOMAIN base_data = Parts
  BY DEF MasterInv
<1>3. loading = "loaded"
  BY <1>1, <1>2 DEF ServicesOK
<1>4. Missing(name) \subseteq Services
  <2>1. Needs[name] \subseteq Services
    BY DEF Needs, Services
  <2> QED
    BY <2>1 DEF Missing
<1>5. ServicesOK'
  BY <1>1, <1>2, <1>3, <1>4 DEF ServicesOK, dataset
<1> QED
  BY <1>1, <1>2, <1>3, <1>5, StopsStay DEF dataset

LEMMA ReturnKeeps ==
    ASSUME MasterInv, NEW name \in Services, Return(name)
    PROVE  MasterInv'
<1>1. /\ calls # << >> /\ UNCHANGED << dataset, service >> /\ calls' = Front(calls)
  BY DEF Return, Executing
<1>2. ServicesOK /\ DOMAIN base_data = Parts
  BY DEF MasterInv
<1>3. loading = "loaded" /\ calls \in Seq(Services)
  BY <1>1, <1>2 DEF ServicesOK
<1>4. Front(calls) \in Seq(Services)
  BY <1>1, <1>3 DEF Front
<1>5. ServicesOK'
  BY <1>1, <1>2, <1>3, <1>4 DEF ServicesOK, dataset
<1> QED
  BY <1>1, <1>2, <1>3, <1>5, StopsStay DEF dataset

\* What timetable() leaves behind, of what it took and made.
Finished(input, value, produced) ==
    \/ /\ ~ NoTransfers(value)
       /\ service' = [service EXCEPT !.timetable = { [table |-> value] },
                                     !.trip_offsets_by_line = { produced.trip_offsets }]
       /\ base_data' =
            [base_data EXCEPT
               !.stop_times = FlattenSeq(Column(input.trips,
                                                LAMBDA trip : InterpolateTimes(trip.times))),
               !.transfers = produced.transfers]
       /\ UNCHANGED << loading, calls >>
    \/ /\ NoTransfers(value)
       /\ loading' = "exited"
       /\ calls' = << >>
       /\ UNCHANGED << service, base_data >>

LEMMA BuildTimeTableKeeps ==
    ASSUME MasterInv, BuildTimeTable
    PROVE  MasterInv'
<1>1. ServicesOK /\ DOMAIN base_data = Parts
  BY DEF MasterInv
<1>2. calls # << >> /\ UNCHANGED << feed, bucket_count, bucket, id_hash >>
  BY DEF BuildTimeTable, Executing
<1>3. loading = "loaded"
  BY <1>1, <1>2 DEF ServicesOK
<1>4. \/ \E table, offsets, times, transfers :
            /\ service' = [service EXCEPT !.timetable = {table}, !.trip_offsets_by_line = {offsets}]
            /\ base_data' = [base_data EXCEPT !.stop_times = times, !.transfers = transfers]
            /\ UNCHANGED << loading, calls >>
      \/ loading' = "exited" /\ calls' = << >> /\ UNCHANGED << service, base_data >>
  <2>1. PICK input \in { Input(base_data) } :
          \E value \in { TimeTable(input) }, produced \in { ProduceLines(input) } :
             Finished(input, value, produced)
    BY Zenon DEF BuildTimeTable, Finished
  <2>2. PICK value \in { TimeTable(input) }, produced \in { ProduceLines(input) } :
          Finished(input, value, produced)
    BY <2>1
  <2>3. CASE ~ NoTransfers(value)
    <3> DEFINE held == [table |-> value]
               times == FlattenSeq(Column(input.trips, LAMBDA trip : InterpolateTimes(trip.times)))
               offsets == produced.trip_offsets
               transfers == produced.transfers
    <3>1. /\ service' = [service EXCEPT !.timetable = {held}, !.trip_offsets_by_line = {offsets}]
          /\ base_data' = [base_data EXCEPT !.stop_times = times, !.transfers = transfers]
          /\ UNCHANGED << loading, calls >>
      BY <2>2, <2>3 DEF Finished
    <3> HIDE DEF held, times, offsets, transfers
    <3> QED
      BY <3>1
  <2>4. CASE NoTransfers(value)
    BY <2>2, <2>4, Zenon DEF Finished
  <2> QED
    BY <2>3, <2>4
<1>5. CASE loading' = "exited" /\ calls' = << >> /\ UNCHANGED << service, base_data >>
  <2>1. ServicesOK'
    BY <1>1, <1>5 DEF ServicesOK
  <2> QED
    BY <1>1, <1>2, <1>3, <1>5, <2>1, StopsStay
<1>6. ASSUME NEW table, NEW offsets, NEW times, NEW transfers,
             service' = [service EXCEPT !.timetable = {table}, !.trip_offsets_by_line = {offsets}],
             base_data' = [base_data EXCEPT !.stop_times = times, !.transfers = transfers],
             UNCHANGED << loading, calls >>
      PROVE  MasterInv'
  <2>1. DOMAIN base_data' = Parts /\ base_data'.stops = base_data.stops
    BY <1>1, <1>6 DEF Parts
  <2>2. /\ DOMAIN service' = Services
        /\ \A name \in Services : service'[name] = {} \/ \E value \in service'[name] : service'[name] = {value}
    <3>1. DOMAIN service = Services
          /\ \A name \in Services : service[name] = {} \/ \E value \in service[name] : service[name] = {value}
      BY <1>1 DEF ServicesOK
    <3>2. \A name \in Services : \/ service'[name] = service[name] \/ service'[name] = {table}
                                 \/ service'[name] = {offsets}
      BY <1>6, <3>1
    <3> QED
      BY <1>6, <3>1, <3>2
  <2>3. ServicesOK'
    BY <1>1, <1>3, <1>6, <2>2 DEF ServicesOK
  <2> QED
    BY <1>2, <1>3, <1>6, <2>1, <2>3, StopsStay
<1> QED
  BY <1>4, <1>5, <1>6

LEMMA BuildKeeps ==
    ASSUME MasterInv, NEW name \in Services, Build(name)
    PROVE  MasterInv'
<1>1. ServicesOK /\ DOMAIN base_data = Parts
  BY DEF MasterInv
<1>2. calls # << >> /\ UNCHANGED << feed, bucket_count, loading, bucket, id_hash, calls >>
  BY DEF Build, Executing
<1>3. loading = "loaded"
  BY <1>1, <1>2 DEF ServicesOK
<1>4. (\E value : service' = [service EXCEPT ![name] = {value}]) /\ base_data' = Taken(name, base_data)
  BY Zenon DEF Build
<1>5. DOMAIN base_data' = Parts /\ base_data'.stops = base_data.stops
  BY <1>1, <1>4 DEF Taken, Parts
<1>6. PICK value : service' = [service EXCEPT ![name] = {value}]
  BY <1>4
<1>7. /\ DOMAIN service' = Services
      /\ \A other \in Services :
            service'[other] = {} \/ \E held \in service'[other] : service'[other] = {held}
  <2>1. DOMAIN service = Services
        /\ \A other \in Services :
              service[other] = {} \/ \E held \in service[other] : service[other] = {held}
    BY <1>1 DEF ServicesOK
  <2>2. \A other \in Services : service'[other] = service[other] \/ service'[other] = {value}
    BY <1>6, <2>1
  <2> QED
    BY <1>6, <2>1, <2>2
<1>8. ServicesOK'
  BY <1>1, <1>2, <1>3, <1>7 DEF ServicesOK
<1> QED
  BY <1>2, <1>3, <1>5, <1>8, StopsStay

\* Nothing changes, or the program is gone.
LEMMA StutterKeeps ==
    ASSUME MasterInv, UNCHANGED vars
    PROVE  MasterInv'
<1>1. UNCHANGED << feed, bucket_count, loading, bucket, id_hash, base_data, service, calls >>
  BY DEF vars, dataset
<1>2. BucketOK' /\ ServicesOK'
  BY <1>1 DEF MasterInv, BucketOK, ServicesOK
<1>3. OnlyUnusedStopsGo'
  BY <1>1 DEF MasterInv, OnlyUnusedStopsGo, Filtered
<1>4. StageOK'
  <2>1. \A id, key : Denotes(id, key)' <=> Denotes(id, key)
    BY <1>1 DEF Denotes, FeedStop
  <2>2. Numbered(base_data.stops)' <=> Numbered(base_data.stops)
    BY <1>1 DEF Numbered
  <2>3. Stationed(base_data.stops)' <=> Stationed(base_data.stops)
    BY <1>1, <2>1 DEF Stationed
  <2>4. StageOK
    BY DEF MasterInv
  <2> QED
    BY <1>1, <2>2, <2>3, <2>4 DEF StageOK
<1> QED
  BY <1>1, <1>2, <1>3, <1>4 DEF MasterInv

LEMMA MasterKeeps ==
    ASSUME FeedAssumption, BucketAssumption, MasterInv, [Next]_vars
    PROVE  MasterInv'
<1>1. CASE LoadBaseData
  <2>1. UNCHANGED << service, calls >> /\ (ReadCSV \/ FilterUnreachableStops \/ ConnectStopsIntoStations)
    BY <1>1 DEF LoadBaseData, Load
  <2> QED
    BY <2>1, ReadCSVKeeps, FilterKeeps, ConnectKeeps
<1>2. CASE BuildTimeTable
  BY <1>2, BuildTimeTableKeeps
<1>3. ASSUME NEW name \in Services, Ask(name)
      PROVE  MasterInv'
  BY <1>3, AskKeeps
<1>4. ASSUME NEW name \in Services, Build(name)
      PROVE  MasterInv'
  BY <1>4, BuildKeeps
<1>5. ASSUME NEW name \in Services, Return(name)
      PROVE  MasterInv'
  BY <1>5, ReturnKeeps
<1>6. ASSUME NEW name \in Services, Call(name)
      PROVE  MasterInv'
  BY <1>6, CallKeeps
<1>7. CASE UNCHANGED vars
  BY <1>7, StutterKeeps
<1> QED
  BY <1>1, <1>2, <1>3, <1>4, <1>5, <1>6, <1>7 DEF Next, Access, Exited

\* What the services rely on holds from loading on.
THEOREM MasterInvariant == Spec => []MasterInv
<1>1. Init => MasterInv
  BY InitOK, DatasetAssumption
<1>2. MasterInv /\ [Next]_vars => MasterInv'
  BY MasterKeeps, DatasetAssumption
<1> QED
  BY <1>1, <1>2, PTL DEF Spec

-----------------------------------------------------------------------------
(* The properties                                                           *)

\* The ids and the stations of the stops are numbers in every stage of loading, and no stop
\* has two stations.
LEMMA StopsTyped ==
    ASSUME FeedAssumption, MasterInv, NEW stop \in Range(base_data.stops)
    PROVE  stop.id \in Nat /\ stop.parent \subseteq Nat /\ Cardinality(stop.parent) <= 1
<1>1. PICK i \in DOMAIN base_data.stops : stop = base_data.stops[i]
  BY DEF Range
<1>2. (stop.parent = {} \/ \E n : stop.parent = {n}) => Cardinality(stop.parent) <= 1
  <2>1. CASE stop.parent = {}
    BY <2>1, FS_EmptySet
  <2>2. ASSUME NEW n, stop.parent = {n}
        PROVE  Cardinality(stop.parent) <= 1
    <3>1. Cardinality({n}) = 1
      BY FS_Singleton
    <3> QED
      BY <2>2, <3>1
  <2> QED
    BY <2>1, <2>2
<1>3. CASE loading = "csv"
  BY <1>1, <1>3 DEF MasterInv, StageOK
<1>4. CASE loading \in {"filter", "crashed"}
  <2>1. base_data = EnsureOrdered(ReadRows(feed)) /\ feed \in Feeds
    BY <1>4 DEF MasterInv, StageOK
  <2>2. PICK row \in Range(feed.stops) : stop = ReadStop(feed, row)
    BY <1>1, <2>1, ListedFacts
  <2>3. \A key : GetID(StopIDs(feed), key) \in Nat
    BY <2>1, StopsHaveIDs, GetIDFacts
  <2>4. row.parent = {} \/ \E key \in row.parent : row.parent = {key}
    BY <2>1, SingleOrNone DEF FeedAssumption
  <2>5. stop.id = GetID(StopIDs(feed), row.key)
        /\ stop.parent = { GetID(StopIDs(feed), key) : key \in row.parent }
    BY <2>2 DEF ReadStop, OptionalID
  <2>6. stop.parent = {} \/ \E n : stop.parent = {n}
    BY <2>4, <2>5
  <2>7. stop.id \in Nat /\ stop.parent \subseteq Nat
    BY <2>3, <2>5
  <2> QED
    BY <1>2, <2>6, <2>7
<1>5. CASE loading \in {"connect", "loaded", "exited"}
  <2>1. Numbered(base_data.stops)
    BY <1>5 DEF MasterInv, StageOK
  <2>2. /\ base_data.stops \in Seq(Range(base_data.stops)) /\ stop.id = i - 1
        /\ stop.parent = {} \/ \E k \in DOMAIN base_data.stops : stop.parent = {k - 1}
    BY <1>1, <2>1 DEF Numbered
  <2>3. \A k \in DOMAIN base_data.stops : k - 1 \in Nat
    BY <2>2
  <2> QED
    BY <1>1, <1>2, <2>2, <2>3
<1> QED
  BY <1>3, <1>4, <1>5 DEF MasterInv

\* Type correctness of the master: its stage of loading, the bucket it looks at, the accessors
\* that run, one value at most for a service, and numbers for the stops.
THEOREM TypeCorrect == Spec => []TypeOK
<1>1. MasterInv => TypeOK
  <2> SUFFICES ASSUME MasterInv
               PROVE  TypeOK
    OBVIOUS
  <2>1. \A name \in Services : Cardinality(service[name]) <= 1
    <3>1. \A name \in Services :
             service[name] = {} \/ \E value \in service[name] : service[name] = {value}
      BY DEF MasterInv, ServicesOK
    <3>2. Cardinality({}) = 0
      BY FS_EmptySet
    <3>3. \A value : Cardinality({value}) = 1
      BY FS_Singleton
    <3> QED
      BY <3>1, <3>2, <3>3
  <2>2. \A stop \in Range(base_data.stops) :
           stop.id \in Nat /\ stop.parent \subseteq Nat /\ Cardinality(stop.parent) <= 1
    BY StopsTyped, DatasetAssumption
  <2>3. /\ loading \in {"csv", "filter", "connect", "loaded", "crashed", "exited"}
        /\ bucket \in 0 .. bucket_count /\ calls \in Seq(Services)
    BY DEF MasterInv, BucketOK, ServicesOK
  <2> QED
    BY <2>1, <2>2, <2>3 DEF TypeOK
<1> QED
  BY <1>1, MasterInvariant, PTL

\* filter_unreachable_stops drops exactly the stops nothing names.
THEOREM UnusedStopsGo == Spec => []OnlyUnusedStopsGo
<1>1. MasterInv => OnlyUnusedStopsGo
  BY DEF MasterInv
<1> QED
  BY <1>1, MasterInvariant, PTL

\* connect_stops_into_stations gives a stop without a station at most one that is close and
\* has none itself, in whatever order the buckets come, and leaves the stations of the feed.
THEOREM StationsAreClose == Spec => []StationsClose
<1>1. MasterInv => StationsClose
  <2> SUFFICES ASSUME MasterInv, Filtered,
                      NEW row \in Range(feed.stops), NEW stop \in Range(base_data.stops),
                      stop.location = row.location
               PROVE  IF row.parent = {}
                      THEN \A id \in stop.parent :
                              LET station == base_data.stops[id + 1]
                              IN  /\ id # stop.id /\ station.parent = {}
                                  /\ Distance(station.location, stop.location) <= Proximity
                      ELSE /\ stop.parent # {}
                           /\ \A key \in row.parent, id \in stop.parent : Denotes(id, key)
    BY DEF StationsClose
  <2>1. PICK i \in DOMAIN base_data.stops : stop = base_data.stops[i]
    BY DEF Range
  <2>2. Numbered(base_data.stops) /\ Stationed(base_data.stops)
    BY DEF MasterInv, StageOK, Filtered
  <2>3. stop.id = i - 1
    BY <2>1, <2>2 DEF Numbered
  <2> QED
    BY <2>1, <2>2, <2>3 DEF Stationed
<1> QED
  BY <1>1, MasterInvariant, PTL

\* What the timetable is made of: the parts of the dataset its factory gets.
LEMMA InputOf ==
    ASSUME NEW one, NEW other,
           one.stops = other.stops, one.stop_times = other.stop_times,
           one.trips = other.trips, one.transfers = other.transfers
    PROVE  Input(one) = Input(other)
<1>1. \A id : RouteOfTrip(one, id) = RouteOfTrip(other, id)
  BY DEF RouteOfTrip
<1>2. SortedTimes(one) = SortedTimes(other)
  BY <1>1, Zenon DEF SortedTimes, StableSort
<1>3. Rides(one) = Rides(other)
  BY <1>1, <1>2, Zenon DEF Rides
<1> QED
  BY <1>3, Zenon DEF Input

\* Building one service changes nothing another one will be built from: whoever takes from
\* the base data or changes it is the only one to read what it touches.
THEOREM OrderMakesNoDifference == Spec => OrderIrrelevant
<1> DEFINE Same == loading = "loaded" /\ base_data' # base_data =>
                     \A name \in Services, after \in {base_data'} :
                        service'[name] = {} => Sources(name, after) = Sources(name, base_data)
<1>1. ASSUME MasterInv, [Next]_vars
      PROVE  Same
  <2> SUFFICES ASSUME loading = "loaded", base_data' # base_data, NEW name \in Services,
                      service'[name] = {}
               PROVE  Sources(name, base_data') = Sources(name, base_data)
    OBVIOUS
  <2>1. DOMAIN service = Services /\ DOMAIN base_data = Parts
    BY <1>1 DEF MasterInv, ServicesOK
  <2>2. CASE BuildTimeTable
    <3>1. PICK input \in { Input(base_data) } :
            \E value \in { TimeTable(input) }, produced \in { ProduceLines(input) } :
               Finished(input, value, produced)
      BY <2>2, Zenon DEF BuildTimeTable, Finished
    <3>2. PICK value \in { TimeTable(input) }, produced \in { ProduceLines(input) } :
            Finished(input, value, produced)
      BY <3>1
    <3> DEFINE held == [table |-> value]
               times == FlattenSeq(Column(input.trips, LAMBDA trip : InterpolateTimes(trip.times)))
               offsets == produced.trip_offsets
               transfers == produced.transfers
    <3>3. /\ service' = [service EXCEPT !.timetable = {held}, !.trip_offsets_by_line = {offsets}]
          /\ base_data' = [base_data EXCEPT !.stop_times = times, !.transfers = transfers]
      BY <3>2 DEF Finished
    <3> HIDE DEF held, times, offsets, transfers
    <3>4. name # "timetable"
      <4>1. "timetable" \in Services /\ "trip_offsets_by_line" \in Services
        BY DEF Services, Needs
      <4> QED
        BY <2>1, <3>3, <4>1
    <3>5. /\ base_data'.stops = base_data.stops /\ base_data'.trips = base_data.trips
          /\ base_data'.shapes = base_data.shapes /\ base_data'.routes = base_data.routes
          /\ base_data'.dictionary = base_data.dictionary
      BY <2>1, <3>3 DEF Parts
    <3> QED
      BY <3>4, <3>5, Zenon DEF Sources
  <2>3. ASSUME NEW built \in Services, Build(built)
        PROVE  Sources(name, base_data') = Sources(name, base_data)
    <3>1. (\E value : service' = [service EXCEPT ![built] = {value}]) /\ base_data' = Taken(built, base_data)
      BY <2>3, Zenon DEF Build
    <3>2. name # built
      BY <2>1, <3>1
    <3>3. CASE built = "dictionary"
      <4>1. /\ base_data'.stops = base_data.stops /\ base_data'.trips = base_data.trips
            /\ base_data'.shapes = base_data.shapes /\ base_data'.routes = base_data.routes
            /\ base_data'.stop_times = base_data.stop_times
            /\ base_data'.transfers = base_data.transfers
        BY <2>1, <3>1, <3>3 DEF Parts, Taken
      <4>2. Input(base_data') = Input(base_data)
        BY <4>1, InputOf
      <4> QED
        BY <3>2, <3>3, <4>1, <4>2, Zenon DEF Sources
    <3>4. CASE built = "segment_table"
      <4>1. /\ base_data'.stops = base_data.stops /\ base_data'.trips = base_data.trips
            /\ base_data'.dictionary = base_data.dictionary /\ base_data'.routes = base_data.routes
            /\ base_data'.stop_times = base_data.stop_times
            /\ base_data'.transfers = base_data.transfers
        BY <2>1, <3>1, <3>4 DEF Parts, Taken
      <4>2. Input(base_data') = Input(base_data)
        BY <4>1, InputOf
      <4> QED
        BY <3>2, <3>4, <4>1, <4>2, Zenon DEF Sources
    <3>5. CASE built \notin {"dictionary", "segment_table"}
      BY <3>1, <3>5 DEF Taken
    <3> QED
      BY <3>3, <3>4, <3>5
  <2>4. CASE LoadBaseData
    BY <2>4 DEF LoadBaseData, Load, ReadCSV, FilterUnreachableStops, ConnectStopsIntoStations
  <2>5. CASE UNCHANGED base_data
    BY <2>5
  <2> QED
    BY <1>1, <2>2, <2>3, <2>4, <2>5
       DEF Next, Access, Ask, Return, Call, Exited, vars, dataset
<1>2. MasterInv /\ [Next]_vars => [Same]_vars
  BY <1>1
<1> QED
  BY <1>2, MasterInvariant, PTL DEF Spec, OrderIrrelevant

-----------------------------------------------------------------------------
(* References: every id in the dataset is the one of a name in the feed     *)

\* A trip has the id of its key and the id of its route.
LEMMA RoutesHaveIDs ==
    ASSUME FeedAssumption, NEW files \in Feeds
    PROVE  \A key : GetID(RouteIDs(files), key) \in Nat
<1> DEFINE names == { row.key : row \in Range(files.routes) }
           keys == [ i \in DOMAIN files.routes |-> files.routes[i].key ]
<1>1. RouteIDs(files) = Learn(<< >>, keys)
  BY Zenon DEF RouteIDs, Column
<1>2. Len(files.routes) \in Nat /\ DOMAIN files.routes = 1 .. Len(files.routes)
      /\ \A i \in DOMAIN files.routes : files.routes[i].key \in names
  BY TableRows DEF FeedAssumption, Range
<1> HIDE DEF names
<1>3. keys \in Seq(names) /\ << >> \in Seq(names)
  BY <1>2, IsASeq
<1> HIDE DEF keys
<1>4. RouteIDs(files) \in Seq(names)
  BY <1>1, <1>3, LearnFacts
<1> QED
  BY <1>4, GetIDFacts

\* The stop times of the dataset are those of the feed, with ids for names.
TimesOK(times, trips) ==
    /\ times \in Seq(Range(times)) /\ Len(times) = Len(feed.stop_times)
    /\ \A i \in DOMAIN times :
          /\ {"trip", "sequence", "stop"} \subseteq DOMAIN times[i]
          /\ times[i].sequence \in Int /\ times[i].trip \in Nat
          /\ \E trip \in Range(trips) : trip.id = times[i].trip
    /\ \A row \in Range(feed.stop_times) :
          \E i \in DOMAIN times :
             /\ id_hash[times[i].trip + 1] = row.trip /\ times[i].sequence = row.sequence
             /\ Denotes(times[i].stop, row.stop)

\* The transfers of the feed come first, with ids for names.
TransfersOK(transfers) ==
    /\ transfers \in Seq(Range(transfers))
    /\ \A i \in DOMAIN feed.transfers :
          /\ i \in DOMAIN transfers
          /\ Denotes(transfers[i].from, feed.transfers[i].from)
          /\ Denotes(transfers[i].to, feed.transfers[i].to)

TripsOK(trips) == \A trip \in Range(trips) : trip.id \in Nat /\ trip.route \in Nat

RefsInv ==
    /\ loading = "crashed" => ~ Complete
    /\ Filtered => /\ TimesOK(base_data.stop_times, base_data.trips)
                   /\ TransfersOK(base_data.transfers)
                   /\ TripsOK(base_data.trips)

\* Wherever the feed names a stop that is kept, the dataset has its place in the list.
LEMMA NameDenotes ==
    ASSUME FeedAssumption, MasterInv, loading = "filter", feed' = feed,
           Used(base_data) \subseteq DOMAIN Remap(Kept(base_data)),
           base_data' = FilteredData(base_data),
           NEW name \in Names(feed), GetID(StopIDs(feed), name) \in Used(base_data),
           NEW id, id = Remap(Kept(base_data))[GetID(StopIDs(feed), name)]
    PROVE  Denotes(id, name)'
<1>1. feed \in Feeds /\ base_data = EnsureOrdered(ReadRows(feed)) /\ DOMAIN base_data = Parts
  BY DEF MasterInv, StageOK
<1> DEFINE data == base_data
<1>2. PICK i \in DOMAIN Kept(data), row \in Range(feed.stops) :
         row.key = name /\ Kept(data)[i] = ReadStop(feed, row) /\ id = i - 1
  BY <1>1, PlaceOfName
<1>3. base_data'.stops = RenumberedStops(data)
  BY <1>1, FilteredFacts
<1>4. Kept(data) \in Seq(Range(data.stops))
  BY <1>1, KeptFacts
<1>5. i \in Nat /\ i - 1 + 1 = i
  BY <1>4
<1>6. /\ DOMAIN RenumberedStops(data) = DOMAIN Kept(data)
      /\ RenumberedStops(data)[i] = Renumbered(data, i)
  BY <1>2 DEF RenumberedStops
<1>7. Renumbered(data, i).location = row.location
  BY <1>2 DEF Renumbered, ReadStop
<1>8. FeedStop(name) = row
  BY <1>1, <1>2, FeedStopOf
<1>9. FeedStop(name)' = row
  BY <1>8 DEF FeedStop
<1>10. \A n : n + 1 \in DOMAIN base_data'.stops /\ base_data'.stops[n + 1].location = row.location
               => Denotes(n, name)'
  BY <1>9 DEF Denotes
<1>11. id + 1 \in DOMAIN base_data'.stops /\ base_data'.stops[id + 1].location = row.location
  BY <1>2, <1>3, <1>5, <1>6, <1>7
<1> QED
  BY <1>10, <1>11

\* When every name has a row, every id that is looked up is there.
LEMMA CompleteIsKept ==
    ASSUME FeedAssumption, feed \in Feeds, Complete,
           NEW data, data = EnsureOrdered(ReadRows(feed))
    PROVE  Used(data) \subseteq DOMAIN Remap(Kept(data))
<1>1. \A name \in Names(feed) : \E row \in Range(feed.stops) : row.key = name
  BY NamesAre DEF Complete
<1> QED
  BY <1>1, UsedIsKept

LEMMA TimesFiltered ==
    ASSUME FeedAssumption, MasterInv, loading = "filter", feed' = feed, id_hash' = id_hash,
           Used(base_data) \subseteq DOMAIN Remap(Kept(base_data)),
           base_data' = FilteredData(base_data)
    PROVE  TimesOK(base_data.stop_times, base_data.trips)'
<1>1. /\ feed \in Feeds /\ base_data = EnsureOrdered(ReadRows(feed)) /\ DOMAIN base_data = Parts
      /\ id_hash = TripIDs(feed)
  BY DEF MasterInv, StageOK
<1> DEFINE data == base_data
           stop_times == feed.stop_times
           new == base_data'.stop_times
           PlaceOf(name) == Remap(Kept(data))[GetID(StopIDs(feed), name)]
           Now(id, name) == /\ id + 1 \in DOMAIN base_data'.stops
                            /\ base_data'.stops[id + 1].location = FeedStop(name).location
<1>2. /\ data.stop_times = [ i \in DOMAIN stop_times |-> ReadTime(feed, stop_times[i]) ]
      /\ new = [ i \in DOMAIN data.stop_times |->
                   [data.stop_times[i] EXCEPT !.stop = Remap(Kept(data))[@]] ]
      /\ base_data'.trips = data.trips
  <2>1. data.stop_times = [ i \in DOMAIN stop_times |-> ReadTime(feed, stop_times[i]) ]
    BY <1>1, CSVFacts
  <2>2. /\ FilteredData(data).stop_times = [ i \in DOMAIN data.stop_times |->
                   [data.stop_times[i] EXCEPT !.stop = Remap(Kept(data))[@]] ]
        /\ FilteredData(data).trips = data.trips
    <3>1. DOMAIN data = Parts
      BY <1>1
    <3> QED
      BY <3>1, FilteredFacts
  <2> QED
    BY <2>1, <2>2
<1>3. /\ Len(stop_times) \in Nat /\ DOMAIN stop_times = 1 .. Len(stop_times)
      /\ \A i \in DOMAIN stop_times :
            /\ stop_times[i] \in Range(stop_times)
            /\ {"trip", "sequence", "stop"} \subseteq DOMAIN stop_times[i]
  BY <1>1, TableRows DEF FeedAssumption
<1>4. DOMAIN new = DOMAIN stop_times
  BY <1>2
<1>5. ASSUME NEW i \in DOMAIN stop_times
      PROVE  /\ {"trip", "sequence", "stop"} \subseteq DOMAIN new[i]
             /\ new[i].trip = GetID(TripIDs(feed), stop_times[i].trip)
             /\ new[i].sequence = stop_times[i].sequence
             /\ new[i].stop = PlaceOf(stop_times[i].stop)
  <2> DEFINE read == data.stop_times[i]
  <2>1. new[i] = [read EXCEPT !.stop = Remap(Kept(data))[@]]
    BY <1>2, <1>4
  <2>2. read = ReadTime(feed, stop_times[i])
    BY <1>2
  <2>3. /\ DOMAIN read = DOMAIN stop_times[i]
        /\ read.trip = GetID(TripIDs(feed), stop_times[i].trip)
        /\ read.stop = GetID(StopIDs(feed), stop_times[i].stop)
        /\ read.sequence = stop_times[i].sequence
    BY <1>3, <2>2 DEF ReadTime
  <2> HIDE DEF read
  <2> QED
    BY <1>3, <2>1, <2>3
<1>6. new \in Seq(Range(new)) /\ Len(new) = Len(stop_times)
  <2>1. \A i \in 1 .. Len(stop_times) : new[i] \in Range(new)
    BY <1>3, <1>4 DEF Range
  <2>2. new = [ i \in 1 .. Len(stop_times) |-> new[i] ]
    BY <1>2, <1>3
  <2> HIDE DEF new
  <2>3. new \in Seq(Range(new))
    BY <1>3, <2>1, <2>2, IsASeq
  <2> QED
    BY <1>3, <1>4, <2>3
<1>7. ASSUME NEW i \in DOMAIN stop_times
      PROVE  /\ stop_times[i].sequence \in Int
             /\ new[i].trip \in Nat
             /\ id_hash[new[i].trip + 1] = stop_times[i].trip
             /\ \E trip \in Range(data.trips) : trip.id = new[i].trip
             /\ Now(new[i].stop, stop_times[i].stop)
  <2> DEFINE name == stop_times[i].trip
  <2>1. /\ stop_times[i] \in Range(stop_times) /\ stop_times[i].sequence \in Int
        /\ name \in { trip.key : trip \in Range(feed.trips) }
    BY <1>1, <1>3 DEF FeedAssumption
  <2>2. PICK row \in Range(feed.trips) : row.key = name
    BY <2>1
  <2>3. /\ GetID(TripIDs(feed), name) \in Nat
        /\ TripIDs(feed)[GetID(TripIDs(feed), name) + 1] = name
    BY <1>1, <2>1, TripsHaveIDs, GetIDFacts
  <2>4. \E trip \in Range(data.trips) : trip.id = GetID(TripIDs(feed), name)
    <3>1. PICK from \in Bijection(DOMAIN feed.trips, DOMAIN feed.trips) : TripsFrom(feed, data, from)
      BY <1>1, CSVFacts
    <3>2. PICK j \in DOMAIN feed.trips : row = feed.trips[j]
      BY <2>2 DEF Range
    <3>3. PICK k \in DOMAIN feed.trips : from[k] = j
      BY <3>1, <3>2 DEF Bijection, Surjection
    <3>4. data.trips[k] = ReadTrip(feed, row) /\ k \in DOMAIN data.trips
      BY <1>1, <3>1, <3>2, <3>3, CSVFacts DEF TripsFrom
    <3>5. data.trips[k].id = GetID(TripIDs(feed), name)
      BY <2>2, <3>4 DEF ReadTrip
    <3> QED
      BY <3>4, <3>5 DEF Range
  <2>5. stop_times[i].stop \in Names(feed)
        /\ GetID(StopIDs(feed), stop_times[i].stop) \in Used(data)
    BY <1>1, <2>1, NamesAre, UsedFacts
  <2>6. \A id : id = PlaceOf(stop_times[i].stop) => Now(id, stop_times[i].stop)
    <3>1. \A id : id = PlaceOf(stop_times[i].stop) => Denotes(id, stop_times[i].stop)'
      BY <2>5, NameDenotes
    <3> QED
      BY <3>1 DEF Denotes, FeedStop
  <2>7. new[i].stop = PlaceOf(stop_times[i].stop)
        /\ new[i].trip = GetID(TripIDs(feed), name)
    BY <1>5
  <2> HIDE DEF new, PlaceOf
  <2>8. Now(new[i].stop, stop_times[i].stop)
    BY <2>6, <2>7
  <2> QED
    BY <1>1, <2>1, <2>3, <2>4, <2>7, <2>8
<1> HIDE DEF new, Now
<1>8. ASSUME NEW row \in Range(stop_times)
      PROVE  \E i \in DOMAIN new : /\ id_hash[new[i].trip + 1] = row.trip
                                   /\ new[i].sequence = row.sequence
                                   /\ Now(new[i].stop, row.stop)
  <2>1. PICK i \in DOMAIN stop_times : row = stop_times[i]
    BY DEF Range
  <2> QED
    BY <1>4, <1>5, <1>7, <2>1
<1>9. \A i \in DOMAIN new :
          /\ {"trip", "sequence", "stop"} \subseteq DOMAIN new[i]
          /\ new[i].sequence \in Int /\ new[i].trip \in Nat
          /\ \E trip \in Range(data.trips) : trip.id = new[i].trip
  BY <1>4, <1>5, <1>7
<1>10. (\A row \in Range(feed.stop_times) :
           \E i \in DOMAIN base_data.stop_times :
              /\ id_hash[base_data.stop_times[i].trip + 1] = row.trip
              /\ base_data.stop_times[i].sequence = row.sequence
              /\ Denotes(base_data.stop_times[i].stop, row.stop))'
  BY <1>8 DEF Denotes, FeedStop, Now, new
<1>11. (/\ base_data.stop_times \in Seq(Range(base_data.stop_times))
        /\ Len(base_data.stop_times) = Len(feed.stop_times))'
  BY <1>6 DEF new
<1>12. (\A i \in DOMAIN base_data.stop_times :
           /\ {"trip", "sequence", "stop"} \subseteq DOMAIN base_data.stop_times[i]
           /\ base_data.stop_times[i].sequence \in Int /\ base_data.stop_times[i].trip \in Nat
           /\ \E trip \in Range(base_data.trips) : trip.id = base_data.stop_times[i].trip)'
  <2>1. base_data'.trips = data.trips
    BY <1>2
  <2>2. \A i \in DOMAIN new :
           /\ {"trip", "sequence", "stop"} \subseteq DOMAIN new[i]
           /\ new[i].sequence \in Int /\ new[i].trip \in Nat
           /\ \E trip \in Range(base_data'.trips) : trip.id = new[i].trip
    BY <1>9, <2>1
  <2> QED
    BY <2>2 DEF new
<1> QED
  BY <1>10, <1>11, <1>12 DEF TimesOK

LEMMA TransfersFiltered ==
    ASSUME FeedAssumption, MasterInv, loading = "filter", feed' = feed,
           Used(base_data) \subseteq DOMAIN Remap(Kept(base_data)),
           base_data' = FilteredData(base_data)
    PROVE  TransfersOK(base_data.transfers)'
<1>1. /\ feed \in Feeds /\ base_data = EnsureOrdered(ReadRows(feed)) /\ DOMAIN base_data = Parts
  BY DEF MasterInv, StageOK
<1> DEFINE data == base_data
           transfers == feed.transfers
           new == base_data'.transfers
           PlaceOf(name) == Remap(Kept(data))[GetID(StopIDs(feed), name)]
           Now(id, name) == /\ id + 1 \in DOMAIN base_data'.stops
                            /\ base_data'.stops[id + 1].location = FeedStop(name).location
<1>2. /\ data.transfers = [ i \in DOMAIN transfers |-> ReadTransfer(feed, transfers[i]) ]
      /\ new = [ i \in DOMAIN data.transfers |->
                   [data.transfers[i] EXCEPT !.from = Remap(Kept(data))[@], !.to = Remap(Kept(data))[@]] ]
  <2>1. data.transfers = [ i \in DOMAIN transfers |-> ReadTransfer(feed, transfers[i]) ]
    BY <1>1, CSVFacts
  <2>2. FilteredData(data).transfers = [ i \in DOMAIN data.transfers |->
                   [data.transfers[i] EXCEPT !.from = Remap(Kept(data))[@],
                                             !.to = Remap(Kept(data))[@]] ]
    <3>1. DOMAIN data = Parts
      BY <1>1
    <3> QED
      BY <3>1, FilteredFacts
  <2> QED
    BY <2>1, <2>2
<1>3. /\ Len(transfers) \in Nat /\ DOMAIN transfers = 1 .. Len(transfers)
      /\ \A i \in DOMAIN transfers :
            transfers[i] \in Range(transfers) /\ {"from", "to"} \subseteq DOMAIN transfers[i]
  BY <1>1, TableRows DEF FeedAssumption
<1>4. DOMAIN new = DOMAIN transfers
  BY <1>2
<1>5. ASSUME NEW i \in DOMAIN transfers
      PROVE  new[i].from = PlaceOf(transfers[i].from) /\ new[i].to = PlaceOf(transfers[i].to)
  <2> DEFINE read == data.transfers[i]
  <2>1. new[i] = [read EXCEPT !.from = Remap(Kept(data))[@], !.to = Remap(Kept(data))[@]]
    BY <1>2, <1>4
  <2>2. read = ReadTransfer(feed, transfers[i])
    BY <1>2
  <2>3. /\ DOMAIN read = DOMAIN transfers[i]
        /\ read.from = GetID(StopIDs(feed), transfers[i].from)
        /\ read.to = GetID(StopIDs(feed), transfers[i].to)
    BY <1>3, <2>2 DEF ReadTransfer
  <2> HIDE DEF read
  <2> QED
    BY <1>3, <2>1, <2>3
<1>6. new \in Seq(Range(new))
  <2>1. \A i \in 1 .. Len(transfers) : new[i] \in Range(new)
    BY <1>3, <1>4 DEF Range
  <2>2. new = [ i \in 1 .. Len(transfers) |-> new[i] ]
    BY <1>2, <1>3
  <2> HIDE DEF new
  <2> QED
    BY <1>3, <2>1, <2>2, IsASeq
<1>7. ASSUME NEW i \in DOMAIN transfers
      PROVE  Now(new[i].from, transfers[i].from) /\ Now(new[i].to, transfers[i].to)
  <2>1. /\ transfers[i].from \in Names(feed) /\ transfers[i].to \in Names(feed)
        /\ GetID(StopIDs(feed), transfers[i].from) \in Used(data)
        /\ GetID(StopIDs(feed), transfers[i].to) \in Used(data)
    BY <1>1, <1>3, NamesAre, UsedFacts
  <2>2. ASSUME NEW name \in {transfers[i].from, transfers[i].to}, NEW id, id = PlaceOf(name)
        PROVE  Now(id, name)
    <3>1. Denotes(id, name)'
      BY <2>1, <2>2, NameDenotes
    <3> QED
      BY <3>1 DEF Denotes, FeedStop
  <2> HIDE DEF new, PlaceOf, Now
  <2> QED
    BY <1>5, <2>2
<1>8. (\A i \in DOMAIN feed.transfers :
           /\ i \in DOMAIN base_data.transfers
           /\ Denotes(base_data.transfers[i].from, feed.transfers[i].from)
           /\ Denotes(base_data.transfers[i].to, feed.transfers[i].to))'
  BY <1>4, <1>7 DEF Denotes, FeedStop
<1>9. (base_data.transfers \in Seq(Range(base_data.transfers)))'
  BY <1>6
<1> QED
  BY <1>8, <1>9 DEF TransfersOK

LEMMA TripsRead ==
    ASSUME FeedAssumption, feed \in Feeds, NEW data, data = EnsureOrdered(ReadRows(feed))
    PROVE  TripsOK(data.trips)
<1>1. PICK from \in Bijection(DOMAIN feed.trips, DOMAIN feed.trips) : TripsFrom(feed, data, from)
  BY CSVFacts
<1>2. DOMAIN data.trips = DOMAIN feed.trips
  BY CSVFacts
<1>3. \A key : GetID(TripIDs(feed), key) \in Nat
  BY TripsHaveIDs, GetIDFacts
<1>4. \A key : GetID(RouteIDs(feed), key) \in Nat
  BY RoutesHaveIDs
<1>5. ASSUME NEW trip \in Range(data.trips)
      PROVE  trip.id \in Nat /\ trip.route \in Nat
  <2>1. PICK i \in DOMAIN feed.trips : trip = ReadTrip(feed, feed.trips[from[i]])
    BY <1>1, <1>2 DEF Range, TripsFrom
  <2> QED
    BY <1>3, <1>4, <2>1 DEF ReadTrip
<1> QED
  BY <1>5 DEF TripsOK

\* What no step touches stays right, as long as every stop stays where it is.
LEMMA RefsStay ==
    ASSUME RefsInv, Filtered, UNCHANGED << feed, id_hash >>,
           loading' \in {"connect", "loaded", "exited"},
           DOMAIN base_data'.stops = DOMAIN base_data.stops,
           \A i \in DOMAIN base_data.stops : base_data'.stops[i].location = base_data.stops[i].location,
           base_data'.trips = base_data.trips,
           NEW times, base_data'.stop_times = times, TimesOK(times, base_data.trips),
           NEW transfers, base_data'.transfers = transfers, TransfersOK(transfers)
    PROVE  RefsInv'
<1>1. \A id, key : Denotes(id, key)' <=> Denotes(id, key)
  BY DEF Denotes, FeedStop
<1>2. TripsOK(base_data.trips)'
  BY DEF RefsInv, TripsOK
<1>3. TimesOK(base_data.stop_times, base_data.trips)'
  <2>1. \A trips : TimesOK(times, trips)' <=> TimesOK(times, trips)
    BY <1>1 DEF TimesOK
  <2> QED
    BY <2>1 DEF TimesOK
<1>4. TransfersOK(base_data.transfers)'
  BY <1>1 DEF TransfersOK
<1> QED
  BY <1>2, <1>3, <1>4 DEF RefsInv, Filtered

LEMMA LoadKeepsRefs ==
    ASSUME FeedAssumption, BucketAssumption, MasterInv, RefsInv, LoadBaseData
    PROVE  RefsInv'
<1>1. CASE ReadCSV
  BY <1>1 DEF ReadCSV, RefsInv, Filtered
<1>2. CASE FilterUnreachableStops
  <2>1. /\ loading = "filter" /\ UNCHANGED << feed, bucket_count, bucket, id_hash >>
        /\ \/ /\ Used(base_data) \subseteq DOMAIN Remap(Kept(base_data))
              /\ base_data' = FilteredData(base_data) /\ loading' = "connect"
           \/ /\ ~ Used(base_data) \subseteq DOMAIN Remap(Kept(base_data))
              /\ base_data' = base_data /\ loading' = "crashed"
    BY <1>2, FilterDoes
  <2>2. feed \in Feeds /\ base_data = EnsureOrdered(ReadRows(feed)) /\ DOMAIN base_data = Parts
    BY <2>1 DEF MasterInv, StageOK
  <2>3. CASE loading' = "crashed"
    <3>1. ~ Complete
      BY <2>1, <2>2, <2>3, CompleteIsKept
    <3>2. ~ Complete'
      BY <2>1, <3>1 DEF Complete
    <3> QED
      BY <2>3, <3>2 DEF RefsInv, Filtered
  <2>4. CASE loading' = "connect"
    <3>1. Used(base_data) \subseteq DOMAIN Remap(Kept(base_data)) /\ base_data' = FilteredData(base_data)
      BY <2>1, <2>4
    <3>2. TimesOK(base_data.stop_times, base_data.trips)'
      BY <2>1, <3>1, TimesFiltered
    <3>3. TransfersOK(base_data.transfers)'
      BY <2>1, <3>1, TransfersFiltered
    <3>4. TripsOK(base_data.trips)'
      <4>1. FilteredData(base_data).trips = base_data.trips
        <5>1. DOMAIN base_data = Parts
          BY <2>2
        <5> QED
          BY <5>1, FilteredFacts
      <4>2. TripsOK(base_data.trips)
        BY <2>2, TripsRead
      <4> QED
        BY <3>1, <4>1, <4>2 DEF TripsOK
    <3> QED
      BY <2>4, <3>2, <3>3, <3>4 DEF RefsInv, Filtered
  <2> QED
    BY <2>1, <2>3, <2>4
<1>3. CASE ConnectStopsIntoStations
  <2> DEFINE stops == base_data.stops
             members == InBucket(stops, bucket)
             new == GroupClosePoints(stops, members)
  <2>1. /\ loading = "connect" /\ UNCHANGED << feed, bucket_count, id_hash >>
        /\ loading' \in {"connect", "loaded"}
        /\ base_data'.stops = new
        /\ base_data'.stop_times = base_data.stop_times
        /\ base_data'.transfers = base_data.transfers
        /\ base_data'.trips = base_data.trips
    BY <1>3, ConnectDoes
  <2>2. Numbered(stops)
    BY <2>1 DEF MasterInv, StageOK
  <2>3. members \in SUBSET DOMAIN stops
    BY DEF InBucket
  <2>4. Joined(stops, new, members)
    <3> HIDE DEF members, stops
    <3> QED
      BY <2>2, <2>3, GroupFacts
  <2> HIDE DEF new, members
  <2>5. DOMAIN base_data'.stops = DOMAIN base_data.stops
        /\ \A i \in DOMAIN base_data.stops : base_data'.stops[i].location = base_data.stops[i].location
    BY <2>1, <2>4 DEF Joined
  <2>6. /\ Filtered /\ TimesOK(base_data.stop_times, base_data.trips)
        /\ TransfersOK(base_data.transfers)
    BY <2>1 DEF RefsInv, Filtered
  <2> QED
    BY <2>1, <2>5, <2>6, RefsStay
<1> QED
  BY <1>1, <1>2, <1>3 DEF LoadBaseData, Load

LEMMA AccessKeepsRefs ==
    ASSUME RefsInv, loading = "loaded", loading' \in {"loaded", "exited"},
           UNCHANGED << feed, id_hash >>, base_data'.stops = base_data.stops,
           base_data'.trips = base_data.trips, base_data'.stop_times = base_data.stop_times,
           base_data'.transfers = base_data.transfers
    PROVE  RefsInv'
<1>1. /\ Filtered /\ TimesOK(base_data.stop_times, base_data.trips) /\ TransfersOK(base_data.transfers)
  BY DEF RefsInv, Filtered
<1> QED
  BY <1>1, RefsStay

LEMMA BuildKeepsRefs ==
    ASSUME MasterInv, RefsInv, NEW name \in Services, Build(name)
    PROVE  RefsInv'
<1>1. ServicesOK /\ DOMAIN base_data = Parts
  BY DEF MasterInv
<1>2. calls # << >> /\ UNCHANGED << feed, loading, id_hash >>
  BY DEF Build, Executing
<1>3. loading = "loaded"
  BY <1>1, <1>2 DEF ServicesOK
<1>4. base_data' = Taken(name, base_data)
  BY DEF Build
<1>5. /\ base_data'.stops = base_data.stops /\ base_data'.trips = base_data.trips
      /\ base_data'.stop_times = base_data.stop_times /\ base_data'.transfers = base_data.transfers
  BY <1>1, <1>4 DEF Taken, Parts
<1> QED
  BY <1>2, <1>3, <1>5, AccessKeepsRefs

-----------------------------------------------------------------------------
(* Lists that grow at their end                                             *)

IsList(list) == list \in Seq(Range(list))

\* A list goes on where another one ends.
Extends(list, base) ==
    IsList(list) /\ \A i \in DOMAIN base : i \in DOMAIN list /\ list[i] = base[i]

LEMMA ListMade ==
    ASSUME NEW n \in Nat, NEW list, DOMAIN list = 1 .. n, list = [ i \in 1 .. n |-> list[i] ]
    PROVE  IsList(list) /\ Len(list) = n
<1>1. \A i \in 1 .. n : list[i] \in Range(list)
  BY DEF Range
<1>2. list \in Seq(Range(list))
  BY <1>1, IsASeq
<1> QED
  BY <1>2 DEF IsList

LEMMA ListOf ==
    ASSUME NEW list, IsList(list)
    PROVE  /\ Len(list) \in Nat /\ DOMAIN list = 1 .. Len(list)
           /\ \A i \in DOMAIN list : list[i] \in Range(list)
           /\ list = [ i \in 1 .. Len(list) |-> list[i] ]
  BY DEF IsList

LEMMA Appended ==
    ASSUME NEW list, IsList(list), NEW x
    PROVE  IsList(Append(list, x))
<1> DEFINE S == Range(list) \cup {x}
<1>1. list \in Seq(S)
  <2>1. \A i \in 1 .. Len(list) : list[i] \in S
    BY ListOf
  <2> QED
    BY <2>1, ListOf, IsASeq
<1>2. x \in S
  OBVIOUS
<1> HIDE DEF S
<1>3. Append(list, x) \in Seq(S)
  BY <1>1, <1>2
<1> QED
  BY <1>3, ListOfItsRange DEF IsList

LEMMA Concatenated ==
    ASSUME NEW list, IsList(list), NEW other, IsList(other)
    PROVE  IsList(list \o other) /\ Extends(list \o other, list)
<1> DEFINE S == Range(list) \cup Range(other)
<1>1. list \in Seq(S) /\ other \in Seq(S)
  <2>1. (\A i \in 1 .. Len(list) : list[i] \in S) /\ \A i \in 1 .. Len(other) : other[i] \in S
    BY ListOf
  <2> QED
    BY <2>1, ListOf, IsASeq
<1> HIDE DEF S
<1>2. list \o other \in Seq(S)
  BY <1>1
<1>3. IsList(list \o other)
  BY <1>2, ListOfItsRange DEF IsList
<1>4. \A i \in DOMAIN list : i \in DOMAIN (list \o other) /\ (list \o other)[i] = list[i]
  BY <1>1
<1> QED
  BY <1>3, <1>4 DEF Extends

LEMMA ButItsLast ==
    ASSUME NEW list, IsList(list), list # << >>
    PROVE  IsList(Front(list))
<1>1. list \in Seq(Range(list)) /\ Len(list) \in Nat /\ Len(list) # 0
  BY DEF IsList
<1>2. Front(list) \in Seq(Range(list))
  BY <1>1 DEF Front
<1> QED
  BY <1>2, ListOfItsRange DEF IsList

-----------------------------------------------------------------------------
(* The transfers of the feed stay the first                                 *)

\* Segments folds this
CutNext(context, segments, time) ==
    IF segments = << >> \/ \E i \in DOMAIN Last(segments) : Last(segments)[i].stop = time.stop
    THEN Append(segments, << time >>)
    ELSE Append(Front(segments), Append(Last(segments), time))

SomeList(context, k, list) == IsList(list)

Cutting == INSTANCE Folding WITH Step <- CutNext, Keeps <- SomeList

LEMMA SegmentsAreList ==
    ASSUME NEW n \in Nat, NEW times, DOMAIN times = 1 .. n
    PROVE  IsList(Segments(times))
<1>1. Segments(times) = Cutting!Fold(0, << >>, times)
  BY Zenon DEF Segments, FoldLeft, MapThenFoldSet, Max, Cutting!Fold, Cutting!Latest, CutNext
<1>2. SomeList(0, 0, << >>)
  BY DEF SomeList, IsList
<1>3. ASSUME NEW k \in 1 .. n, NEW list, SomeList(0, k - 1, list)
      PROVE  SomeList(0, k, CutNext(0, list, times[k]))
  BY <1>3, Appended, ButItsLast DEF SomeList, CutNext
<1>4. SomeList(0, n, Cutting!Fold(0, << >>, times))
  BY <1>2, <1>3, Cutting!FoldKeeps
<1> QED
  BY <1>1, <1>4 DEF SomeList

\* what the factory works on
Partial == {"lines", "trip_offsets", "transfers"}

\* AddSegments folds this, given the trip and the transfers there were
InsertNext(context, partial, segment) == AddSegment(partial, segment, context.trip_id)

Inserted(context, k, partial) ==
    DOMAIN partial = Partial /\ partial.transfers = context.transfers

Inserting == INSTANCE Folding WITH Step <- InsertNext, Keeps <- Inserted

LEMMA SegmentsKeepTransfers ==
    ASSUME NEW state, DOMAIN state = Partial, IsList(state.transfers),
           NEW segments, IsList(segments), NEW trip_id
    PROVE  /\ DOMAIN AddSegments(state, segments, trip_id) = Partial
           /\ Extends(AddSegments(state, segments, trip_id).transfers, state.transfers)
<1> DEFINE context == [trip_id |-> trip_id, transfers |-> state.transfers]
           folded == FoldLeft(LAMBDA partial, segment : AddSegment(partial, segment, trip_id),
                              state, segments)
           onward == OnRouteTransfers(segments)
<1>1. Len(segments) \in Nat /\ DOMAIN segments = 1 .. Len(segments)
  BY ListOf
<1>2. folded = Inserting!Fold(context, state, segments)
  BY Zenon DEF FoldLeft, MapThenFoldSet, Max, Inserting!Fold, Inserting!Latest, InsertNext
<1>3. Inserted(context, 0, state)
  BY DEF Inserted
<1>4. ASSUME NEW k \in 1 .. Len(segments), NEW partial, Inserted(context, k - 1, partial)
      PROVE  Inserted(context, k, InsertNext(context, partial, segments[k]))
  BY <1>4 DEF Inserted, InsertNext, AddSegment, Partial
<1> HIDE DEF context
<1>5. Inserted(context, Len(segments), folded)
  <2>1. Inserted(context, Len(segments), Inserting!Fold(context, state, segments))
    BY <1>1, <1>3, <1>4, Inserting!FoldKeeps
  <2> QED
    BY <1>2, <2>1
<1>6. IsList(onward)
  <2>1. CASE Len(segments) = 0
    <3>1. onward = << >>
      BY <2>1 DEF OnRouteTransfers
    <3> QED
      BY <3>1 DEF IsList
  <2>2. CASE Len(segments) # 0
    <3>1. Len(segments) - 1 \in Nat
      BY <1>1, <2>2
    <3>2. DOMAIN onward = 1 .. Len(segments) - 1
          /\ onward = [ i \in 1 .. Len(segments) - 1 |-> onward[i] ]
      BY DEF OnRouteTransfers
    <3> HIDE DEF onward
    <3> QED
      BY <3>1, <3>2, ListMade
  <2> QED
    BY <2>1, <2>2
<1>7. AddSegments(state, segments, trip_id) = [folded EXCEPT !.transfers = @ \o onward]
  BY Zenon DEF AddSegments
<1> HIDE DEF folded, onward
<1>8. folded.transfers = state.transfers /\ DOMAIN folded = Partial
  BY <1>5 DEF Inserted, context
<1>9. AddSegments(state, segments, trip_id).transfers = state.transfers \o onward
      /\ DOMAIN AddSegments(state, segments, trip_id) = Partial
  BY <1>7, <1>8 DEF Partial
<1> QED
  BY <1>6, <1>9, Concatenated

LEMMA ExtendedAgain ==
    ASSUME NEW list, NEW middle, NEW base, Extends(list, middle), Extends(middle, base)
    PROVE  Extends(list, base)
  BY DEF Extends

\* Produce folds this
TripNext(context, state, trip) == AddTrip(state, trip)

Grown(context, k, state) ==
    DOMAIN state = Partial /\ Extends(state.transfers, context.transfers)

Driving == INSTANCE Folding WITH Step <- TripNext, Keeps <- Grown

LEMMA TripsKeepTransfers ==
    ASSUME NEW n \in Nat, NEW trips, DOMAIN trips = 1 .. n,
           \A i \in 1 .. n : IsList(trips[i].times),
           NEW transfers, IsList(transfers), NEW trip_offsets
    PROVE  /\ DOMAIN Produce(trips, transfers, trip_offsets) = Partial
           /\ Extends(Produce(trips, transfers, trip_offsets).transfers, transfers)
<1> DEFINE context == [transfers |-> transfers]
           base == [lines |-> << >>, trip_offsets |-> trip_offsets, transfers |-> transfers]
           folded == FoldLeft(AddTrip, base, trips)
<1>1. folded = Driving!Fold(context, base, trips)
  BY Zenon DEF FoldLeft, MapThenFoldSet, Max, Driving!Fold, Driving!Latest, TripNext
<1>2. Grown(context, 0, base)
  BY DEF Grown, Partial, Extends
<1>3. ASSUME NEW k \in 1 .. n, NEW state, Grown(context, k - 1, state)
      PROVE  Grown(context, k, TripNext(context, state, trips[k]))
  <2> DEFINE times == InterpolateTimes(trips[k].times)
             segments == Segments(times)
             after == AddSegments(state, segments, trips[k].id)
  <2>1. IsList(segments)
    <3>1. DOMAIN times = DOMAIN trips[k].times
      BY DEF InterpolateTimes
    <3>2. DOMAIN times = 1 .. Len(trips[k].times) /\ Len(trips[k].times) \in Nat
      BY <3>1, ListOf
    <3> HIDE DEF times
    <3> QED
      BY <3>2, SegmentsAreList
  <2>2. DOMAIN state = Partial /\ Extends(state.transfers, transfers)
    BY <1>3 DEF Grown
  <2> HIDE DEF segments
  <2>3. DOMAIN after = Partial /\ Extends(after.transfers, state.transfers)
    BY <2>1, <2>2, SegmentsKeepTransfers DEF Extends
  <2>4. TripNext(context, state, trips[k]) = after
    BY DEF TripNext, AddTrip, segments
  <2> HIDE DEF after
  <2>5. Extends(after.transfers, transfers)
    BY <2>2, <2>3, ExtendedAgain
  <2> QED
    BY <2>3, <2>4, <2>5 DEF Grown
<1> HIDE DEF context
<1>4. Grown(context, n, folded)
  <2>1. Grown(context, n, Driving!Fold(context, base, trips))
    <3> HIDE DEF base
    <3> QED
      BY <1>2, <1>3, Driving!FoldKeeps
  <2> QED
    BY <1>1, <2>1
<1>5. Produce(trips, transfers, trip_offsets)
      = [folded EXCEPT !.lines = [ i \in DOMAIN @ |-> FinishLine(@[i]) ]]
  BY Zenon DEF Produce
<1> HIDE DEF folded
<1>6. DOMAIN folded = Partial /\ Extends(folded.transfers, transfers)
  BY <1>4 DEF Grown, context
<1>7. /\ DOMAIN Produce(trips, transfers, trip_offsets) = DOMAIN folded
      /\ Produce(trips, transfers, trip_offsets).transfers = folded.transfers
  BY <1>5, <1>6 DEF Partial
<1> QED
  BY <1>6, <1>7

\* ProduceLines folds this, given the dataset
TripsInOrder(input) == Sorted(input.trips, [ i \in DOMAIN input.trips |-> input.trips[i].id ])

RouteNext(input, state, route) ==
    [ Produce(Selected(TripsInOrder(input),
                       { i \in DOMAIN TripsInOrder(input) : TripsInOrder(input)[i].route = route }),
              state.transfers, state.trip_offsets)
      EXCEPT !.lines = state.lines \o @ ]

Routing == INSTANCE Folding WITH Step <- RouteNext, Keeps <- Grown

\* The rides as the factory takes them.
Rideable(rides) ==
    /\ IsList(rides)
    /\ \A i \in DOMAIN rides :
          rides[i].id \in Nat /\ rides[i].route \in Nat /\ IsList(rides[i].times)

LEMMA RoutesKeepTransfers ==
    ASSUME NEW input, Rideable(input.trips), IsList(input.transfers)
    PROVE  Extends(ProduceLines(input).transfers, input.transfers)
<1> DEFINE keys == [ i \in DOMAIN input.trips |-> input.trips[i].id ]
           trips == TripsInOrder(input)
           names == { trips[i].route : i \in DOMAIN trips }
           listed == SetToSeq(names)
           places == [ i \in DOMAIN listed |-> listed[i] ]
           routes == Sorted(listed, places)
           base == [lines |-> << >>, trip_offsets |-> << >>, transfers |-> input.transfers]
<1>1. ProduceLines(input) = Routing!Fold(input, base, routes)
  BY Zenon DEF ProduceLines, StableSort, FoldLeft, MapThenFoldSet, Max, Routing!Fold, Routing!Latest,
               RouteNext, TripsInOrder
<1>2. input.trips \in Seq(Range(input.trips)) /\ keys \in [DOMAIN input.trips -> Int]
  BY DEF Rideable, IsList
<1>3. trips \in Seq(Range(input.trips))
  <2> HIDE DEF keys
  <2>1. Sorted(input.trips, keys) \in Seq(Range(input.trips))
    BY <1>2, SortedFacts
  <2> QED
    BY <2>1 DEF TripsInOrder, keys
<1>4. \A trip \in Range(input.trips) : trip.route \in Nat /\ IsList(trip.times)
  BY DEF Rideable, Range
<1> HIDE DEF trips
<1>5. names \subseteq Nat /\ IsFiniteSet(names)
  <2>1. Len(trips) \in Nat /\ DOMAIN trips = 1 .. Len(trips)
    BY <1>3
  <2>2. IsFiniteSet(DOMAIN trips)
    BY <2>1, FS_Interval
  <2>3. IsFiniteSet(names)
    <3> DEFINE to == [ i \in DOMAIN trips |-> trips[i].route ]
    <3>1. to \in Surjection(DOMAIN trips, names)
      BY DEF Surjection
    <3> HIDE DEF to, names
    <3> QED
      BY <2>2, <3>1, FS_Surjection
  <2> QED
    BY <1>3, <1>4, <2>3
<1> HIDE DEF names
<1>6. listed \in Seq(names) /\ places \in [DOMAIN listed -> Int]
  <2>1. listed \in Seq(names)
    BY <1>5, SetToSeqFacts
  <2> HIDE DEF listed
  <2>2. \A i \in DOMAIN listed : listed[i] \in names
    BY <2>1
  <2>3. \A name \in names : name \in Int
    BY <1>5
  <2>4. places \in [DOMAIN listed -> Int]
    BY <2>2, <2>3
  <2> QED
    BY <2>1, <2>4
<1> HIDE DEF listed, places
<1>7. routes \in Seq(names)
  BY <1>6, SortedFacts
<1> HIDE DEF routes
<1>8. Len(routes) \in Nat /\ DOMAIN routes = 1 .. Len(routes)
  BY <1>7
<1>9. Grown(input, 0, base)
  BY DEF Grown, Partial, Extends
<1>10. ASSUME NEW k \in 1 .. Len(routes), NEW state, Grown(input, k - 1, state)
       PROVE  Grown(input, k, RouteNext(input, state, routes[k]))
  <2> DEFINE here == { i \in DOMAIN trips : trips[i].route = routes[k] }
             chosen == Selected(trips, here)
             made == Produce(chosen, state.transfers, state.trip_offsets)
  <2>1. here \in SUBSET DOMAIN trips
    OBVIOUS
  <2>2. RouteNext(input, state, routes[k]) = [made EXCEPT !.lines = state.lines \o @]
    BY Zenon DEF RouteNext, trips
  <2> HIDE DEF here
  <2>3. chosen \in Seq(Range(input.trips))
    BY <1>3, <2>1, SelectedFacts
  <2> HIDE DEF chosen
  <2>4. /\ Len(chosen) \in Nat /\ DOMAIN chosen = 1 .. Len(chosen)
        /\ \A i \in 1 .. Len(chosen) : IsList(chosen[i].times)
    BY <1>4, <2>3
  <2>5. DOMAIN state = Partial /\ Extends(state.transfers, input.transfers)
    BY <1>10 DEF Grown
  <2>6. DOMAIN made = Partial /\ Extends(made.transfers, state.transfers)
    BY <2>4, <2>5, TripsKeepTransfers DEF Extends
  <2>7. Extends(made.transfers, input.transfers)
    BY <2>5, <2>6, ExtendedAgain
  <2> HIDE DEF made
  <2>8. /\ DOMAIN RouteNext(input, state, routes[k]) = Partial
        /\ RouteNext(input, state, routes[k]).transfers = made.transfers
    BY <2>2, <2>6 DEF Partial
  <2> QED
    BY <2>7, <2>8 DEF Grown
<1> HIDE DEF base
<1>11. Grown(input, Len(routes), ProduceLines(input))
  <2>1. Grown(input, Len(routes), Routing!Fold(input, base, routes))
    BY <1>8, <1>9, <1>10, Routing!FoldKeeps
  <2> QED
    BY <1>1, <2>1
<1> QED
  BY <1>11 DEF Grown

-----------------------------------------------------------------------------
(* The stop times the timetable leaves behind                               *)

\* A list in another order.
Resorted(new, list) == IsList(new) /\ Len(new) = Len(list) /\ Range(new) = Range(list)

LEMMA SortedIsResorted ==
    ASSUME NEW list, IsList(list), NEW keys \in [DOMAIN list -> Int]
    PROVE  Resorted(Sorted(list, keys), list)
<1> DEFINE new == Sorted(list, keys)
<1>1. list \in Seq(Range(list))
  BY DEF IsList
<1>2. new \in Seq(Range(list)) /\ Len(new) = Len(list)
  BY <1>1, SortedFacts
<1>3. PICK from \in Bijection(DOMAIN list, DOMAIN list) :
        \A k \in DOMAIN list : new[k] = list[from[k]]
  BY <1>1, SortedFacts
<1> HIDE DEF new
<1>4. DOMAIN new = DOMAIN list
  BY <1>1, <1>2
<1>5. ASSUME NEW x \in Range(list)
      PROVE  x \in Range(new)
  <2>1. PICK j \in DOMAIN list : x = list[j]
    BY DEF Range
  <2>2. PICK k \in DOMAIN list : from[k] = j
    BY <1>3, <2>1 DEF Bijection, Surjection
  <2> QED
    BY <1>3, <1>4, <2>1, <2>2 DEF Range
<1>6. Range(new) \subseteq Range(list)
  BY <1>2 DEF Range
<1>7. IsList(new)
  BY <1>2, ListOfItsRange DEF IsList
<1> QED
  BY <1>2, <1>5, <1>6, <1>7 DEF Resorted, new

\* What a timetable can be built from.
Buildable(data) ==
    /\ IsList(data.stop_times)
    /\ \A time \in Range(data.stop_times) :
          /\ {"trip", "sequence", "stop"} \subseteq DOMAIN time
          /\ time.sequence \in Int /\ time.trip \in Nat
          /\ \E trip \in Range(data.trips) : trip.id = time.trip
    /\ TripsOK(data.trips)

LEMMA RouteIsNumber ==
    ASSUME NEW data, Buildable(data), NEW time \in Range(data.stop_times)
    PROVE  RouteOfTrip(data, time.trip) \in Nat
<1>1. \E trip \in Range(data.trips) : trip.id = time.trip
  BY DEF Buildable
<1>2. (CHOOSE trip \in Range(data.trips) : trip.id = time.trip) \in Range(data.trips)
  BY <1>1
<1> QED
  BY <1>2 DEF Buildable, TripsOK, RouteOfTrip

LEMMA TimesSorted ==
    ASSUME NEW data, Buildable(data)
    PROVE  Resorted(SortedTimes(data), data.stop_times)
<1> DEFINE rows == data.stop_times
           first == [ i \in DOMAIN rows |-> rows[i].sequence ]
           one == Sorted(rows, first)
           second == [ i \in DOMAIN one |-> one[i].trip ]
           two == Sorted(one, second)
           third == [ i \in DOMAIN two |-> RouteOfTrip(data, two[i].trip) ]
           three == Sorted(two, third)
<1>1. SortedTimes(data) = three
  BY Zenon DEF SortedTimes, StableSort
<1>2. IsList(rows) /\ \A time \in Range(rows) : /\ time.sequence \in Int /\ time.trip \in Int
                                                /\ RouteOfTrip(data, time.trip) \in Int
  BY RouteIsNumber DEF Buildable
<1>3. \A list : \A i \in DOMAIN list : list[i] \in Range(list)
  BY DEF Range
<1> HIDE DEF rows
<1>4. first \in [DOMAIN rows -> Int]
  BY <1>2, <1>3
<1> HIDE DEF first
<1>5. Resorted(one, rows)
  BY <1>2, <1>4, SortedIsResorted
<1> HIDE DEF one
<1>6. second \in [DOMAIN one -> Int]
  <2>1. \A i \in DOMAIN one : one[i] \in Range(rows)
    BY <1>3, <1>5 DEF Resorted
  <2> QED
    BY <1>2, <2>1
<1> HIDE DEF second
<1>7. Resorted(two, one)
  BY <1>5, <1>6, SortedIsResorted DEF Resorted
<1> HIDE DEF two
<1>8. third \in [DOMAIN two -> Int]
  <2>1. \A i \in DOMAIN two : two[i] \in Range(rows)
    BY <1>3, <1>5, <1>7 DEF Resorted
  <2> QED
    BY <1>2, <2>1
<1> HIDE DEF third
<1>9. Resorted(three, two)
  BY <1>7, <1>8, SortedIsResorted DEF Resorted
<1> HIDE DEF three
<1>10. Resorted(three, rows)
  BY <1>5, <1>7, <1>9 DEF Resorted
<1> QED
  BY <1>1, <1>10 DEF rows

\* Rides folds this, given the stop times
RideNext(times, seen, row) == IF Contains(seen, row.trip) THEN seen ELSE Append(seen, row.trip)

Seen(times, k, seen) ==
    /\ seen \in Seq({ times[i].trip : i \in DOMAIN times })
    /\ \A i \in 1 .. k : times[i].trip \in Range(seen)
    /\ \A i, j \in DOMAIN seen : seen[i] = seen[j] => i = j

Riding == INSTANCE Folding WITH Step <- RideNext, Keeps <- Seen

TripsOfTimes(times) ==
    FoldLeft(LAMBDA seen, row : IF Contains(seen, row.trip) THEN seen ELSE Append(seen, row.trip),
             << >>, times)

\* Every trip that has a stop time is seen, once.
LEMMA TripsSeen ==
    ASSUME NEW times, IsList(times)
    PROVE  Seen(times, Len(times), TripsOfTimes(times))
<1> DEFINE names == { times[i].trip : i \in DOMAIN times }
<1>1. Len(times) \in Nat /\ DOMAIN times = 1 .. Len(times)
  BY ListOf
<1>2. TripsOfTimes(times) = Riding!Fold(times, << >>, times)
  BY Zenon DEF TripsOfTimes, FoldLeft, MapThenFoldSet, Max, Riding!Fold, Riding!Latest, RideNext
<1>3. Seen(times, 0, << >>)
  BY DEF Seen
<1>4. ASSUME NEW k \in 1 .. Len(times), NEW seen, Seen(times, k - 1, seen)
      PROVE  Seen(times, k, RideNext(times, seen, times[k]))
  <2> DEFINE trip == times[k].trip
  <2>1. /\ seen \in Seq(names) /\ \A i \in 1 .. k - 1 : times[i].trip \in Range(seen)
        /\ \A i, j \in DOMAIN seen : seen[i] = seen[j] => i = j
    BY <1>4 DEF Seen
  <2>2. trip \in names
    BY <1>1
  <2>3. \A other : trip \in Range(other) /\ Range(seen) \subseteq Range(other)
                   => \A i \in 1 .. k : times[i].trip \in Range(other)
    <3> SUFFICES ASSUME NEW other, trip \in Range(other), Range(seen) \subseteq Range(other),
                        NEW i \in 1 .. k
                 PROVE  times[i].trip \in Range(other)
      OBVIOUS
    <3>1. CASE i = k
      BY <3>1
    <3>2. CASE i # k
      <4>1. i \in 1 .. k - 1
        BY <1>1, <3>2
      <4> QED
        BY <2>1, <4>1
    <3> QED
      BY <3>1, <3>2
  <2> HIDE DEF names, trip
  <2>4. CASE Contains(seen, trip)
    <3>1. trip \in Range(seen)
      BY <2>4 DEF Contains, Range
    <3>2. RideNext(times, seen, times[k]) = seen
      BY <2>4 DEF RideNext, trip
    <3> QED
      BY <2>1, <2>3, <3>1, <3>2 DEF Seen, names
  <2>5. CASE ~ Contains(seen, trip)
    <3> DEFINE more == Append(seen, trip)
    <3>1. RideNext(times, seen, times[k]) = more
      BY <2>5 DEF RideNext, trip
    <3>2. /\ more \in Seq(names) /\ Len(seen) \in Nat /\ DOMAIN seen = 1 .. Len(seen)
          /\ DOMAIN more = 1 .. Len(seen) + 1
          /\ \A i \in 1 .. Len(seen) : more[i] = seen[i]
          /\ more[Len(seen) + 1] = trip
      BY <2>1, <2>2
    <3> HIDE DEF more
    <3>3. trip \in Range(more) /\ Range(seen) \subseteq Range(more)
      BY <3>2 DEF Range
    <3>4. \A i \in DOMAIN seen : seen[i] # trip
      BY <2>5 DEF Contains
    <3>5. \A i, j \in DOMAIN more : more[i] = more[j] => i = j
      <4> SUFFICES ASSUME NEW i \in DOMAIN more, NEW j \in DOMAIN more, more[i] = more[j]
                   PROVE  i = j
        OBVIOUS
      <4>1. (i \in DOMAIN seen \/ i = Len(seen) + 1) /\ (j \in DOMAIN seen \/ j = Len(seen) + 1)
        BY <3>2
      <4> QED
        BY <2>1, <3>2, <3>4, <4>1
    <3> QED
      BY <2>3, <3>1, <3>2, <3>3, <3>5 DEF Seen, names
  <2> QED
    BY <2>4, <2>5
<1>5. Seen(times, Len(times), Riding!Fold(times, << >>, times))
  BY <1>1, <1>3, <1>4, Riding!FoldKeeps
<1> QED
  BY <1>2, <1>5

\* the places of the stop times of a ride
PlacesOf(times, trip) == { k \in DOMAIN times : times[k].trip = trip }

LEMMA RidesAre ==
    ASSUME NEW data, Buildable(data)
    PROVE  LET times == SortedTimes(data)
               ids == TripsOfTimes(times)
           IN  /\ DOMAIN Rides(data) = DOMAIN ids
               /\ \A i \in DOMAIN ids :
                     /\ Rides(data)[i].id = ids[i] /\ Rides(data)[i].route \in Nat
                     /\ Rides(data)[i].times = Selected(times, PlacesOf(times, ids[i]))
               /\ Rideable(Rides(data))
<1> DEFINE times == SortedTimes(data)
           ids == TripsOfTimes(times)
           Ride(i) == [ id |-> ids[i], route |-> RouteOfTrip(data, ids[i]),
                        times |-> Selected(times, PlacesOf(times, ids[i])) ]
<1>1. Rides(data) = [ i \in DOMAIN ids |-> Ride(i) ]
  BY Zenon DEF Rides, TripsOfTimes, PlacesOf
<1>2. IsList(times) /\ Range(times) = Range(data.stop_times)
  BY TimesSorted DEF Resorted
<1>3. \A i \in DOMAIN times : times[i].trip \in Nat /\ RouteOfTrip(data, times[i].trip) \in Nat
  <2>1. \A i \in DOMAIN times : times[i] \in Range(data.stop_times)
    BY <1>2 DEF Range
  <2> QED
    BY <2>1, RouteIsNumber DEF Buildable
<1>4. Seen(times, Len(times), ids)
  BY <1>2, TripsSeen
<1> HIDE DEF times, ids
<1>5. /\ Len(ids) \in Nat /\ DOMAIN ids = 1 .. Len(ids)
      /\ \A i \in DOMAIN ids : \E k \in DOMAIN times : ids[i] = times[k].trip
  BY <1>4 DEF Seen
<1>6. ASSUME NEW i \in DOMAIN ids
      PROVE  /\ Rides(data)[i].id = ids[i] /\ Rides(data)[i].route \in Nat /\ ids[i] \in Nat
             /\ Rides(data)[i].times = Selected(times, PlacesOf(times, ids[i]))
             /\ IsList(Rides(data)[i].times)
  <2>1. Rides(data)[i] = Ride(i)
    BY <1>1
  <2>2. ids[i] \in Nat /\ RouteOfTrip(data, ids[i]) \in Nat
    BY <1>3, <1>5
  <2>3. IsList(Selected(times, PlacesOf(times, ids[i])))
    <3>1. times \in Seq(Range(times)) /\ PlacesOf(times, ids[i]) \in SUBSET DOMAIN times
      BY <1>2 DEF IsList, PlacesOf
    <3>2. Selected(times, PlacesOf(times, ids[i])) \in Seq(Range(times))
      BY <3>1, SelectedFacts
    <3> QED
      BY <3>2, ListOfItsRange DEF IsList
  <2> QED
    BY <2>1, <2>2, <2>3
<1>7. DOMAIN Rides(data) = DOMAIN ids /\ IsList(Rides(data))
  <2>1. DOMAIN Rides(data) = 1 .. Len(ids) /\ Rides(data) = [ i \in 1 .. Len(ids) |-> Rides(data)[i] ]
    BY <1>1, <1>5
  <2> QED
    BY <1>5, <2>1, ListMade
<1>8. Rideable(Rides(data))
  BY <1>6, <1>7 DEF Rideable
<1> QED
  BY <1>6, <1>7, <1>8 DEF times, ids

\* How many stop times have one of the first trips.
LEMMA PlacesAddUp ==
    ASSUME NEW times, IsList(times), NEW ids, Seen(times, Len(times), ids),
           NEW count \in [0 .. Len(ids) -> Nat], count[0] = 0,
           \A i \in 1 .. Len(ids) : count[i] = count[i - 1] + Cardinality(PlacesOf(times, ids[i]))
    PROVE  count[Len(ids)] = Len(times)
<1> DEFINE n == Len(ids)
           Covered(i) == { k \in DOMAIN times : \E j \in 1 .. i : times[k].trip = ids[j] }
           Bad == { i \in 0 .. n : Cardinality(Covered(i)) # count[i] }
<1>1. /\ n \in Nat /\ DOMAIN ids = 1 .. n
      /\ \A i, j \in 1 .. n : ids[i] = ids[j] => i = j
      /\ \A k \in 1 .. Len(times) : times[k].trip \in Range(ids)
  BY DEF Seen
<1>2. Len(times) \in Nat /\ DOMAIN times = 1 .. Len(times) /\ IsFiniteSet(DOMAIN times)
      /\ Cardinality(DOMAIN times) = Len(times)
  BY ListOf, FS_Interval
<1>3. Covered(n) = DOMAIN times
  <2>1. \A k \in DOMAIN times : \E j \in 1 .. n : times[k].trip = ids[j]
    BY <1>1, <1>2 DEF Range
  <2> QED
    BY <2>1
<1>4. Bad = {}
  <2> SUFFICES ASSUME Bad # {}
               PROVE  FALSE
    OBVIOUS
  <2>1. PICK m \in Bad : \A i \in Bad : m <= i
    <3>1. Bad \subseteq Nat
      BY <1>1
    <3> HIDE DEF Bad
    <3> QED
      BY <3>1, LeastOfNumbers
  <2>2. m \in 0 .. n /\ Cardinality(Covered(m)) # count[m]
    BY <2>1
  <2>3. m # 0
    <3>1. Covered(0) = {}
      OBVIOUS
    <3>2. Cardinality({}) = 0
      BY FS_EmptySet
    <3> QED
      BY <2>2, <3>1, <3>2
  <2>4. m \in 1 .. n /\ m - 1 \in 0 .. n /\ m - 1 \notin Bad
    <3>1. m \in 1 .. n /\ m - 1 \in 0 .. n /\ ~ (m <= m - 1)
      BY <1>1, <2>2, <2>3
    <3> HIDE DEF Bad
    <3> QED
      BY <2>1, <3>1
  <2>5. Cardinality(Covered(m - 1)) = count[m - 1]
    BY <2>4
  <2> DEFINE here == PlacesOf(times, ids[m])
             before == Covered(m - 1)
  <2>6. Covered(m) = before \cup here /\ before \cap here = {}
    <3>1. \A j : j \in 1 .. m <=> j \in 1 .. m - 1 \/ j = m
      BY <1>1, <2>4
    <3>2. \A j \in 1 .. m - 1 : j \in 1 .. n /\ j # m
      BY <1>1, <2>4
    <3>3. \A k \in DOMAIN times : k \in Covered(m) <=> k \in before \/ k \in here
      BY <3>1 DEF PlacesOf
    <3>4. \A k \in DOMAIN times : ~ (k \in before /\ k \in here)
      BY <1>1, <2>4, <3>2 DEF PlacesOf
    <3> QED
      BY <3>3, <3>4 DEF PlacesOf
  <2>7. IsFiniteSet(here) /\ IsFiniteSet(before)
    <3>1. here \subseteq DOMAIN times /\ before \subseteq DOMAIN times
      BY DEF PlacesOf
    <3> HIDE DEF here, before
    <3> QED
      BY <1>2, <3>1, FS_Subset
  <2> HIDE DEF here, before
  <2>8. Cardinality(before \cup here) = Cardinality(before) + Cardinality(here)
    <3>1. /\ Cardinality(before \cup here)
             = Cardinality(before) + Cardinality(here) - Cardinality(before \cap here)
          /\ Cardinality(before) \in Nat /\ Cardinality(here) \in Nat
      BY <2>7, FS_Union, FS_CardinalityType
    <3>2. Cardinality(before \cap here) = 0
      BY <2>6, FS_EmptySet
    <3> QED
      BY <3>1, <3>2
  <2>9. count[m] = count[m - 1] + Cardinality(here)
    BY <2>4 DEF here
  <2> QED
    BY <2>2, <2>5, <2>6, <2>8, <2>9 DEF before
<1>5. Cardinality(Covered(n)) = count[n]
  <2>1. n \in 0 .. n
    BY <1>1
  <2> QED
    BY <1>4, <2>1
<1> QED
  BY <1>2, <1>3, <1>5

\* what of a stop time no step touches
SameTime(new, old) ==
    /\ {"trip", "sequence", "stop"} \subseteq DOMAIN new
    /\ new.trip = old.trip /\ new.sequence = old.sequence /\ new.stop = old.stop

\* The stop times in another order, with other arrivals.
Rewritten(new, list) ==
    /\ IsList(new) /\ Len(new) = Len(list)
    /\ \A one \in Range(new) : \E old \in Range(list) : SameTime(one, old)
    /\ \A old \in Range(list) : \E one \in Range(new) : SameTime(one, old)

LEMMA TimesRewritten ==
    ASSUME NEW data, Buildable(data)
    PROVE  Rewritten(FlattenSeq(Column(Rides(data), LAMBDA trip : InterpolateTimes(trip.times))),
                     data.stop_times)
<1> DEFINE times == SortedTimes(data)
           ids == TripsOfTimes(times)
           rides == Rides(data)
           n == Len(ids)
           lists == [ i \in DOMAIN rides |-> InterpolateTimes(rides[i].times) ]
           S == UNION { Range(lists[i]) : i \in DOMAIN lists }
<1>1. Column(rides, LAMBDA trip : InterpolateTimes(trip.times)) = lists
  BY Zenon DEF Column
<1>2. IsList(times) /\ Len(times) = Len(data.stop_times) /\ Range(times) = Range(data.stop_times)
  BY TimesSorted DEF Resorted
<1>3. Seen(times, Len(times), ids)
  BY <1>2, TripsSeen
<1>4. /\ DOMAIN rides = DOMAIN ids
      /\ \A i \in DOMAIN ids : rides[i].times = Selected(times, PlacesOf(times, ids[i]))
  BY RidesAre
<1>5. \A time \in Range(times) : {"trip", "sequence", "stop"} \subseteq DOMAIN time
  BY <1>2 DEF Buildable
<1> HIDE DEF times, rides, ids
<1>6. n \in Nat /\ DOMAIN ids = 1 .. n /\ \A k \in DOMAIN times : times[k].trip \in Range(ids)
  <2>1. DOMAIN times = 1 .. Len(times)
    BY <1>2, ListOf
  <2> QED
    BY <1>3, <2>1 DEF Seen
<1>7. ASSUME NEW i \in DOMAIN ids
      PROVE  /\ IsList(lists[i]) /\ Len(lists[i]) = Cardinality(PlacesOf(times, ids[i]))
             /\ \A r \in DOMAIN lists[i] : \E time \in Range(times) : SameTime(lists[i][r], time)
             /\ \A k \in PlacesOf(times, ids[i]) :
                   \E r \in DOMAIN lists[i] : SameTime(lists[i][r], times[k])
  <2> DEFINE places == PlacesOf(times, ids[i])
             own == Selected(times, places)
             new == InterpolateTimes(own)
  <2>1. lists[i] = new
    BY <1>4
  <2>2. times \in Seq(Range(times)) /\ places \in SUBSET DOMAIN times
    BY <1>2 DEF IsList, PlacesOf
  <2> HIDE DEF places
  <2>3. /\ own \in Seq(Range(times)) /\ Len(own) = Cardinality(places)
        /\ \A k \in places : \E r \in DOMAIN own : own[r] = times[k]
    BY <2>2, SelectedFacts
  <2> HIDE DEF own
  <2>4. Len(own) \in Nat /\ DOMAIN own = 1 .. Len(own)
        /\ \A r \in DOMAIN own : own[r] \in Range(times)
    BY <2>3
  <2>5. DOMAIN new = 1 .. Len(own) /\ new = [ r \in 1 .. Len(own) |-> new[r] ]
    BY <2>4 DEF InterpolateTimes
  <2>6. ASSUME NEW r \in DOMAIN own
        PROVE  SameTime(new[r], own[r])
    <3>1. new[r] = own[r] \/ \E arrival : new[r] = [own[r] EXCEPT !.arrival = arrival]
      BY DEF InterpolateTimes
    <3>2. {"trip", "sequence", "stop"} \subseteq DOMAIN own[r]
      BY <1>5, <2>4
    <3>3. CASE new[r] = own[r]
      BY <3>2, <3>3 DEF SameTime
    <3>4. ASSUME NEW arrival, new[r] = [own[r] EXCEPT !.arrival = arrival]
          PROVE  SameTime(new[r], own[r])
      <4>1. /\ DOMAIN new[r] = DOMAIN own[r] /\ new[r].trip = own[r].trip
            /\ new[r].sequence = own[r].sequence /\ new[r].stop = own[r].stop
        BY <3>2, <3>4
      <4> QED
        BY <3>2, <4>1 DEF SameTime
    <3> QED
      BY <3>1, <3>3, <3>4
  <2> HIDE DEF new
  <2>7. IsList(new) /\ Len(new) = Len(own)
    BY <2>4, <2>5, ListMade
  <2>8. /\ \A r \in DOMAIN new : \E time \in Range(times) : SameTime(new[r], time)
        /\ \A k \in places : \E r \in DOMAIN new : SameTime(new[r], times[k])
    BY <2>3, <2>4, <2>5, <2>6
  <2> QED
    BY <2>1, <2>3, <2>7, <2>8 DEF places
<1>8. lists \in Seq(Seq(S))
  <2>1. DOMAIN lists = 1 .. n
    BY <1>4, <1>6
  <2>2. ASSUME NEW i \in 1 .. n
        PROVE  lists[i] \in Seq(S)
    <3> DEFINE list == lists[i]
    <3>1. IsList(list)
      BY <1>6, <1>7
    <3>2. \A r \in DOMAIN list : list[r] \in S
      BY <2>1 DEF Range
    <3> HIDE DEF list, S
    <3> QED
      <4>1. list \in Seq(S)
        BY <3>1, <3>2, ListOf, IsASeq
      <4> QED
        BY <4>1 DEF list
  <2>3. lists = [ i \in 1 .. n |-> lists[i] ]
    BY <2>1
  <2> HIDE DEF lists, S
  <2> QED
    BY <1>6, <2>2, <2>3, IsASeq
<1>9. DOMAIN lists = 1 .. n /\ Len(lists) = n
  <2>1. DOMAIN lists = 1 .. n
    BY <1>4, <1>6
  <2> HIDE DEF lists, S
  <2> QED
    BY <1>6, <1>8, <2>1
<1> DEFINE new == FlattenSeq(lists)
<1>10. new \in Seq(S) /\ Range(new) = UNION { Range(lists[i]) : i \in DOMAIN lists }
  <2> HIDE DEF lists, S
  <2> QED
    BY <1>8, FlattenFacts
<1>11. Len(new) = Len(times)
  <2> HIDE DEF S, lists, n
  <2>1. PICK flat \in [0 .. n -> Seq(S)] :
              /\ flat[0] = << >>
              /\ \A i \in 1 .. n : flat[i] = flat[i - 1] \o lists[i]
              /\ new = flat[n]
    <3>1. PICK flat \in [0 .. Len(lists) -> Seq(S)] :
                /\ flat[0] = << >>
                /\ \A i \in 1 .. Len(lists) : flat[i] = flat[i - 1] \o lists[i]
                /\ FlattenSeq(lists) = flat[Len(lists)]
      BY <1>8, FlattenSteps
    <3> QED
      BY <1>9, <3>1, Zenon
  <2> DEFINE count == [ i \in 0 .. n |-> Len(flat[i]) ]
  <2>2. count \in [0 .. n -> Nat] /\ count[0] = 0
    <3>1. \A i \in 0 .. n : Len(flat[i]) \in Nat
      BY <2>1
    <3>2. 0 \in 0 .. n
      BY <1>6
    <3> QED
      BY <2>1, <3>1, <3>2
  <2>3. ASSUME NEW i \in 1 .. n
        PROVE  count[i] = count[i - 1] + Cardinality(PlacesOf(times, ids[i]))
    <3>1. i - 1 \in 0 .. n /\ i \in 0 .. n
      BY <1>6
    <3>2. flat[i - 1] \in Seq(S) /\ lists[i] \in Seq(S)
      <4>1. flat[i - 1] \in Seq(S)
        BY <2>1, <3>1
      <4>2. lists[i] \in Seq(S)
        <5>1. i \in DOMAIN lists
          BY <1>9
        <5> QED
          BY <1>8, <5>1
      <4> QED
        BY <4>1, <4>2
    <3>3. Len(flat[i]) = Len(flat[i - 1]) + Len(lists[i])
      <4>1. flat[i] = flat[i - 1] \o lists[i]
        BY <2>1
      <4> QED
        BY <3>2, <4>1
    <3>4. Len(lists[i]) = Cardinality(PlacesOf(times, ids[i]))
      BY <1>6, <1>7
    <3> QED
      BY <3>1, <3>3, <3>4
  <2>4. count[n] = Len(new)
    BY <1>6, <2>1
  <2> HIDE DEF count, new
  <2>5. count[n] = Len(times)
    BY <1>2, <1>3, <2>2, <2>3, PlacesAddUp DEF n
  <2> QED
    BY <2>4, <2>5
<1> HIDE DEF new, S, lists
<1>12. ASSUME NEW one \in Range(new)
       PROVE  \E old \in Range(times) : SameTime(one, old)
  <2>1. PICK i \in DOMAIN lists : one \in Range(lists[i])
    BY <1>10
  <2>2. PICK r \in DOMAIN lists[i] : one = lists[i][r]
    BY <2>1 DEF Range
  <2> QED
    BY <1>6, <1>7, <1>9, <2>2
<1>13. ASSUME NEW old \in Range(times)
       PROVE  \E one \in Range(new) : SameTime(one, old)
  <2>1. PICK k \in DOMAIN times : old = times[k]
    BY DEF Range
  <2>2. PICK i \in DOMAIN ids : ids[i] = times[k].trip
    BY <1>6 DEF Range
  <2>3. k \in PlacesOf(times, ids[i])
    BY <2>2 DEF PlacesOf
  <2>4. PICK r \in DOMAIN lists[i] : SameTime(lists[i][r], old)
    BY <1>7, <2>1, <2>3
  <2>5. lists[i][r] \in Range(new)
    <3>1. lists[i][r] \in Range(lists[i])
      BY <2>4 DEF Range
    <3> QED
      BY <1>6, <1>9, <1>10, <3>1
  <2> QED
    BY <2>4, <2>5
<1>14. IsList(new)
  BY <1>10, ListOfItsRange DEF IsList
<1>15. Rewritten(new, data.stop_times)
  BY <1>2, <1>11, <1>12, <1>13, <1>14 DEF Rewritten
<1> QED
  BY <1>1, <1>15, Zenon DEF new, rides

\* Rewritten stop times are still those of the feed.
LEMMA RewrittenTimes ==
    ASSUME NEW old, NEW trips, TimesOK(old, trips), NEW new, Rewritten(new, old)
    PROVE  TimesOK(new, trips)
<1>1. new \in Seq(Range(new)) /\ Len(new) = Len(feed.stop_times)
  BY DEF Rewritten, TimesOK, IsList
<1>2. ASSUME NEW i \in DOMAIN new
      PROVE  /\ {"trip", "sequence", "stop"} \subseteq DOMAIN new[i]
             /\ new[i].sequence \in Int /\ new[i].trip \in Nat
             /\ \E trip \in Range(trips) : trip.id = new[i].trip
  <2>1. PICK k \in DOMAIN old : SameTime(new[i], old[k])
    BY DEF Rewritten, Range
  <2>2. /\ old[k].sequence \in Int /\ old[k].trip \in Nat
        /\ \E trip \in Range(trips) : trip.id = old[k].trip
    BY DEF TimesOK
  <2> QED
    BY <2>1, <2>2 DEF SameTime
<1>3. ASSUME NEW row \in Range(feed.stop_times)
      PROVE  \E i \in DOMAIN new :
                /\ id_hash[new[i].trip + 1] = row.trip /\ new[i].sequence = row.sequence
                /\ Denotes(new[i].stop, row.stop)
  <2>1. PICK k \in DOMAIN old :
           /\ id_hash[old[k].trip + 1] = row.trip /\ old[k].sequence = row.sequence
           /\ Denotes(old[k].stop, row.stop)
    BY DEF TimesOK
  <2>2. PICK i \in DOMAIN new : SameTime(new[i], old[k])
    BY DEF Rewritten, Range
  <2> QED
    BY <2>1, <2>2 DEF SameTime
<1> QED
  BY <1>1, <1>2, <1>3 DEF TimesOK

LEMMA ExtendedTransfers ==
    ASSUME NEW old, TransfersOK(old), NEW new, Extends(new, old)
    PROVE  TransfersOK(new)
  BY DEF TransfersOK, Extends, IsList

LEMMA BuildTimeTableKeepsRefs ==
    ASSUME MasterInv, RefsInv, BuildTimeTable
    PROVE  RefsInv'
<1>1. ServicesOK /\ DOMAIN base_data = Parts
  BY DEF MasterInv
<1>2. calls # << >> /\ UNCHANGED << feed, id_hash >>
  BY DEF BuildTimeTable, Executing
<1>3. loading = "loaded"
  BY <1>1, <1>2 DEF ServicesOK
<1>4. PICK input \in { Input(base_data) } :
        \E value \in { TimeTable(input) }, produced \in { ProduceLines(input) } :
           Finished(input, value, produced)
  BY Zenon DEF BuildTimeTable, Finished
<1>5. PICK value \in { TimeTable(input) }, produced \in { ProduceLines(input) } :
        Finished(input, value, produced)
  BY <1>4
<1>6. CASE NoTransfers(value)
  <2>1. loading' = "exited"
    BY <1>5, <1>6 DEF Finished
  <2> QED
    BY <2>1 DEF RefsInv, Filtered
<1>7. CASE ~ NoTransfers(value)
  <2> DEFINE held == [table |-> value]
             times == FlattenSeq(Column(input.trips, LAMBDA trip : InterpolateTimes(trip.times)))
             transfers == produced.transfers
  <2>1. base_data' = [base_data EXCEPT !.stop_times = times, !.transfers = transfers]
        /\ loading' = loading
    BY <1>5, <1>7 DEF Finished
  <2>2. /\ Filtered /\ TimesOK(base_data.stop_times, base_data.trips)
        /\ TransfersOK(base_data.transfers) /\ TripsOK(base_data.trips)
    BY <1>3 DEF RefsInv, Filtered
  <2>3. Buildable(base_data)
    <3>1. IsList(base_data.stop_times)
      BY <2>2 DEF TimesOK, IsList
    <3>2. \A time \in Range(base_data.stop_times) :
             /\ {"trip", "sequence", "stop"} \subseteq DOMAIN time
             /\ time.sequence \in Int /\ time.trip \in Nat
             /\ \E trip \in Range(base_data.trips) : trip.id = time.trip
      <4> SUFFICES ASSUME NEW time \in Range(base_data.stop_times)
                   PROVE  /\ {"trip", "sequence", "stop"} \subseteq DOMAIN time
                          /\ time.sequence \in Int /\ time.trip \in Nat
                          /\ \E trip \in Range(base_data.trips) : trip.id = time.trip
        OBVIOUS
      <4>1. PICK i \in DOMAIN base_data.stop_times : time = base_data.stop_times[i]
        BY DEF Range
      <4> QED
        BY <2>2, <4>1 DEF TimesOK
    <3> QED
      BY <2>2, <3>1, <3>2 DEF Buildable
  <2>4. input.trips = Rides(base_data) /\ input.transfers = base_data.transfers
    BY <1>4 DEF Input
  <2>5. Rewritten(times, base_data.stop_times)
    BY <2>3, <2>4, TimesRewritten, Zenon
  <2>6. Extends(transfers, base_data.transfers)
    <3>1. Rideable(input.trips)
      BY <2>3, <2>4, RidesAre
    <3>2. IsList(input.transfers)
      BY <2>2, <2>4 DEF TransfersOK, IsList
    <3>3. produced = ProduceLines(input)
      BY <1>5
    <3> QED
      BY <2>4, <3>1, <3>2, <3>3, RoutesKeepTransfers
  <2> HIDE DEF times, transfers, held
  <2>7. TimesOK(times, base_data.trips)
    BY <2>2, <2>5, RewrittenTimes
  <2>8. TransfersOK(transfers)
    BY <2>2, <2>6, ExtendedTransfers
  <2>9. /\ base_data'.stops = base_data.stops /\ base_data'.trips = base_data.trips
        /\ base_data'.stop_times = times /\ base_data'.transfers = transfers
    BY <1>1, <2>1 DEF Parts
  <2> QED
    BY <1>2, <1>3, <2>1, <2>2, <2>7, <2>8, <2>9, RefsStay
<1> QED
  BY <1>6, <1>7

LEMMA RefsKept ==
    ASSUME FeedAssumption, BucketAssumption, MasterInv, RefsInv, [Next]_vars
    PROVE  RefsInv'
<1>1. CASE LoadBaseData
  BY <1>1, LoadKeepsRefs
<1>2. CASE BuildTimeTable
  BY <1>2, BuildTimeTableKeepsRefs
<1>3. ASSUME NEW name \in Services, Build(name)
      PROVE  RefsInv'
  BY <1>3, BuildKeepsRefs
<1>4. CASE UNCHANGED dataset
  <2>1. UNCHANGED << feed, loading, id_hash, base_data >>
    BY <1>4 DEF dataset
  <2>2. CASE Filtered
    BY <2>1, <2>2, RefsStay DEF RefsInv, Filtered
  <2>3. CASE ~ Filtered
    <3>1. Complete' <=> Complete
      BY <2>1 DEF Complete
    <3> QED
      BY <2>1, <2>3, <3>1 DEF RefsInv, Filtered
  <2> QED
    BY <2>2, <2>3
<1> QED
  BY <1>1, <1>2, <1>3, <1>4 DEF Next, Access, Ask, Return, Call, Exited, vars

\* Wherever the feed names a stop, the dataset has the id of that stop, through all the steps
\* of loading and after the timetable has sorted the stop times and added transfers; loading
\* fails on nothing but a feed that names a stop it does not list.
THEOREM ReferencesAreKept == Spec => []ReferencesKept
<1>1. Init => RefsInv
  BY DEF Init, DatasetInit, RefsInv, Filtered
<1>2. MasterInv /\ RefsInv /\ [Next]_vars => RefsInv'
  BY RefsKept, DatasetAssumption
<1>3. MasterInv /\ RefsInv => ReferencesKept
  <2> SUFFICES ASSUME MasterInv, RefsInv
               PROVE  ReferencesKept
    OBVIOUS
  <2>1. Complete => loading # "crashed"
    BY DEF RefsInv
  <2>2. ASSUME Filtered
        PROVE  /\ \A i \in DOMAIN base_data.stops : base_data.stops[i].id = i - 1
               /\ \A row \in Range(feed.stop_times) :
                    \E time \in Range(base_data.stop_times) :
                       /\ id_hash[time.trip + 1] = row.trip /\ time.sequence = row.sequence
                       /\ Denotes(time.stop, row.stop)
               /\ Len(base_data.stop_times) = Len(feed.stop_times)
               /\ \A i \in DOMAIN feed.transfers :
                    /\ Denotes(base_data.transfers[i].from, feed.transfers[i].from)
                    /\ Denotes(base_data.transfers[i].to, feed.transfers[i].to)
    <3>1. Numbered(base_data.stops)
      BY <2>2 DEF MasterInv, StageOK, Filtered
    <3>2. TimesOK(base_data.stop_times, base_data.trips) /\ TransfersOK(base_data.transfers)
      BY <2>2 DEF RefsInv
    <3>3. \A row \in Range(feed.stop_times) :
             \E time \in Range(base_data.stop_times) :
                /\ id_hash[time.trip + 1] = row.trip /\ time.sequence = row.sequence
                /\ Denotes(time.stop, row.stop)
      BY <3>2 DEF TimesOK, Range
    <3>4. \A i \in DOMAIN base_data.stops : base_data.stops[i].id = i - 1
      BY <3>1 DEF Numbered
    <3> QED
      BY <3>2, <3>3, <3>4 DEF TimesOK, TransfersOK
  <2> QED
    BY <2>1, <2>2 DEF ReferencesKept
<1> QED
  BY <1>1, <1>2, <1>3, MasterInvariant, PTL DEF Spec
================================================================================
