------------------------------- MODULE KAryHeap -------------------------------
(***************************************************************************)
(* tool::container::KAryHeap: a priority queue that remembers the label of *)
(* every value it ever held.  A heap is a record                           *)
(*   queued   the values with a live handle into the priority queue        *)
(*   label    for every value reached so far its key and its meta data     *)
(* delete_min replaces the handle by a default constructed one and keeps   *)
(* the label, so a value stays reached after it left the queue.            *)
(***************************************************************************)
EXTENDS Integers

Empty == [queued |-> {}, label |-> [value \in {} |-> 0]]

\* mutant of Reached: the handle is asked instead of the index
ReachedByHandle(heap, value) == value \in heap.queued

Reached(heap, value) == value \in DOMAIN heap.label

Queued(heap, value) == value \in heap.queued

Key(heap, value) == heap.label[value].key

Data(heap, value) == heap.label[value].data

Relabel(heap, value, key, data) ==
    [ other \in DOMAIN heap.label \cup {value} |->
        IF other = value THEN [key |-> key, data |-> data] ELSE heap.label[other] ]

Insert(heap, value, key, data) ==
    [queued |-> heap.queued \cup {value}, label |-> Relabel(heap, value, key, data)]

\* mutant of DecreaseKey: the meta data stays what it was
DecreaseKeyOnly(heap, value, key, data) ==
    [queued |-> heap.queued, label |-> Relabel(heap, value, key, Data(heap, value))]

\* only for a value whose handle is live
DecreaseKey(heap, value, key, data) ==
    [queued |-> heap.queued, label |-> Relabel(heap, value, key, data)]

\* mutant of Minimum: the priority queue is ordered the other way around
Maximum(heap) ==
    { value \in heap.queued : \A other \in heap.queued : Key(heap, other) <= Key(heap, value) }

\* the entries are pairs (key, value), compared lexicographically
Minimum(heap) ==
    { value \in heap.queued :
        \A other \in heap.queued :
            \/ Key(heap, value) < Key(heap, other)
            \/ Key(heap, value) = Key(heap, other) /\ value <= other }

\* mutant of DeleteMin: the value is looked at and not popped
PeekMin(heap, value) == heap

DeleteMin(heap, value) ==
    [queued |-> heap.queued \ {value}, label |-> heap.label]
==============================================================================
