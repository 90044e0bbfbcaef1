-------------------------------- MODULE Heap --------------------------------
(***************************************************************************)
(* The array heap of main/heap.c, as the scheduler uses it: the largest    *)
(* element by cmp_fn is at index 1, and every element stores the index at  *)
(* which it is (index_offset), so that it can be removed from the middle.  *)
(* The caller holds a lock, so operations follow each other; a step is an  *)
(* iteration of one of the two loops, or what an operation does outside of *)
(* them.                                                                   *)
(***************************************************************************)
EXTENDS Integers, Sequences

CONSTANTS
    Elements,       \* what callers push, each at most once at a time
    key,            \* key[e]: the time of e; ties are possible
    InitLen,        \* (1 << init_height) - 1
    MaxLen          \* bound on the length of the array

ASSUME KeyAssumption == key \in [Elements -> Int]
ASSUME LenAssumption == InitLen \in Nat /\ MaxLen \in Nat

VARIABLES
    heap,           \* h->heap, up to cur_len, and the slot a removal gives up
    cur_len, avail_len,
    index,          \* index[e]: the __heap_index stored in e, stale outside of the heap
    pc,             \* the loop: "push" or "remove" (bubble_up, called by which), "heapify"
    at,             \* its variable i
    popped          \* history: the element the last pop returned, as a set

vars == <<heap, cur_len, avail_len, index, pc, at, popped>>

\* sched_time_cmp: positive when a is to come out before b.
cmp_fn(a, b) == key[b] - key[a]

left_node(i) == 2 * i
right_node(i) == 2 * i + 1
parent_node(i) == i \div 2

Init ==
    /\ heap = <<>> /\ cur_len = 0
    /\ avail_len = InitLen
    /\ index = [e \in Elements |-> 0]
    /\ pc = "idle" /\ at = 0
    /\ popped = {}

-----------------------------------------------------------------------------
(* The loops                                                               *)

heap_set(i, e) ==
    /\ heap' = [heap EXCEPT ![i] = e]
    /\ index' = [index EXCEPT ![e] = i]

\* Two calls of heap_set.
heap_swap(i, j) ==
    /\ heap' = [heap EXCEPT ![i] = heap[j], ![j] = heap[i]]
    /\ index' = [index EXCEPT ![heap[j]] = i, ![heap[i]] = j]

\* heap[at] comes out before its parent.
Above == at > 1 /\ cmp_fn(heap[parent_node(at)], heap[at]) < 0

bubble_up ==
    /\ pc \in {"push", "remove"}
    /\ Above
    /\ heap_swap(at, parent_node(at))
    /\ at' = parent_node(at)
    /\ UNCHANGED <<cur_len, avail_len, pc, popped>>

\* The end of a push; a removal goes on with max_heapify.
bubble_up_returns ==
    /\ pc \in {"push", "remove"}
    /\ ~Above
    /\ IF pc = "push" THEN pc' = "idle" /\ at' = 0 ELSE pc' = "heapify" /\ UNCHANGED at
    /\ UNCHANGED <<heap, cur_len, avail_len, index, popped>>

\* Mutant of Largest: the right child is compared with the parent instead of the larger.
Largest_right ==
    LET l == left_node(at)
        r == right_node(at)
        m == IF l <= cur_len /\ cmp_fn(heap[l], heap[at]) > 0 THEN l ELSE at
    IN  IF r <= cur_len /\ cmp_fn(heap[r], heap[at]) > 0 THEN r ELSE m

\* Which of heap[at] and its children comes out first.
Largest ==
    LET l == left_node(at)
        r == right_node(at)
        m == IF l <= cur_len /\ cmp_fn(heap[l], heap[at]) > 0 THEN l ELSE at
    IN  IF r <= cur_len /\ cmp_fn(heap[r], heap[m]) > 0 THEN r ELSE m

max_heapify ==
    /\ pc = "heapify"
    /\ Largest # at
    /\ heap_swap(at, Largest)
    /\ at' = Largest
    /\ UNCHANGED <<cur_len, avail_len, pc, popped>>

max_heapify_returns ==
    /\ pc = "heapify"
    /\ Largest = at
    /\ heap' = SubSeq(heap, 1, cur_len)
    /\ pc' = "idle" /\ at' = 0
    /\ UNCHANGED <<cur_len, avail_len, index, popped>>

-----------------------------------------------------------------------------
(* The operations                                                          *)

Members == {heap[i] : i \in 1 .. cur_len}

\* The array grows by a row.
grow_heap == avail_len' = avail_len * 2 + 1

ast_heap_push(e) ==
    LET n == cur_len + 1 IN
    /\ pc = "idle"
    /\ e \notin Members
    /\ n <= MaxLen
    /\ IF cur_len = avail_len THEN grow_heap ELSE UNCHANGED avail_len
    /\ cur_len' = n
    /\ heap' = Append(heap, e) /\ index' = [index EXCEPT ![e] = n]
    /\ pc' = "push" /\ at' = n
    /\ popped' = {}

\* grow_heap fails, and the element is not pushed.
heap_push_failed(e) ==
    /\ pc = "idle"
    /\ e \notin Members
    /\ cur_len = avail_len
    /\ UNCHANGED vars

\* Mutant of heap_remove: the element that fills the gap is not moved up.
heap_remove_down_only(i) ==
    /\ i \in 1 .. cur_len
    /\ heap_set(i, heap[cur_len])
    /\ cur_len' = cur_len - 1
    /\ pc' = "heapify" /\ at' = i

\* _ast_heap_remove: the last element fills the gap, and moves up or down.
heap_remove(i) ==
    /\ i \in 1 .. cur_len
    /\ heap_set(i, heap[cur_len])
    /\ cur_len' = cur_len - 1
    /\ pc' = "remove" /\ at' = i

\* The callers pass an element that is in the heap.
ast_heap_remove(e) ==
    /\ pc = "idle"
    /\ e \in Members
    /\ heap_remove(index[e])
    /\ popped' = {}
    /\ UNCHANGED avail_len

ast_heap_pop ==
    /\ pc = "idle"
    /\ cur_len > 0
    /\ heap_remove(1)
    /\ popped' = {heap[1]}
    /\ UNCHANGED avail_len

Loops == bubble_up \/ bubble_up_returns \/ max_heapify \/ max_heapify_returns

Next ==
    \/ \E e \in Elements : ast_heap_push(e) \/ heap_push_failed(e) \/ ast_heap_remove(e)
    \/ ast_heap_pop
    \/ Loops

Spec == Init /\ [][Next]_vars

-----------------------------------------------------------------------------
(* Properties                                                              *)

TypeOK ==
    /\ heap \in Seq(Elements)
    /\ cur_len \in Nat /\ avail_len \in Nat /\ cur_len <= avail_len
    /\ Len(heap) = IF pc \in {"remove", "heapify"} THEN cur_len + 1 ELSE cur_len
    /\ index \in [Elements -> Nat]
    /\ pc \in {"idle", "push", "remove", "heapify"}
    /\ at \in Nat /\ (pc # "idle" => at \in DOMAIN heap)
    /\ popped \subseteq Elements

\* ast_heap_verify: no element comes out before its parent.
HeapOrder ==
    \A i \in 2 .. cur_len : cmp_fn(heap[parent_node(i)], heap[i]) >= 0

\* The index stored in an element is where it is, which is all that
\* ast_heap_remove looks at: otherwise it removes another element.
IndexExact == \A i \in 1 .. cur_len : index[heap[i]] = i

\* Through any mix of pushes, with an array that is full and must grow, and
\* removals from the middle (_ast_heap_push, _ast_heap_remove) the array keeps
\* within its length, is a heap again when an operation returns, and agrees with
\* the stored indices all the time.
WellFormed == TypeOK /\ (pc = "idle" => HeapOrder) /\ IndexExact

\* The heap is a priority queue.
EarlierKey(a, b) == key[a] < key[b]
Queue == INSTANCE PriorityQueue WITH members <- Members, Precedes <- EarlierKey
IsPriorityQueue == Queue!Spec
=============================================================================
