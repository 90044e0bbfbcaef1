----------------------------- MODULE SchedClean -----------------------------
(***************************************************************************)
(* ast_sched_clean_by_callback (main/sched.c) on the scheduler's heap: it  *)
(* walks the array by index and removes the entries whose callback matches *)
(* while it goes.                                                          *)
(***************************************************************************)
EXTENDS Heap

CONSTANT Matching       \* the entries whose callback is the one to clean

VARIABLES
    walk,           \* the index i, 0 when the function is not called
    cleaned         \* has the last operation been a clean?

ast_sched_clean_by_callback ==
    /\ pc = "idle" /\ walk = 0
    /\ walk' = 1
    /\ UNCHANGED <<vars, cleaned>>

clean_skips ==
    /\ pc = "idle" /\ walk \in 1 .. cur_len
    /\ heap[walk] \notin Matching
    /\ walk' = walk + 1
    /\ UNCHANGED <<vars, cleaned>>

\* A matching entry is removed and the same index is looked at again.
clean_removes ==
    /\ walk \in 1 .. cur_len
    /\ heap[walk] \in Matching
    /\ ast_heap_remove(heap[walk])
    /\ UNCHANGED <<walk, cleaned>>

clean_returns ==
    /\ pc = "idle" /\ walk > cur_len
    /\ walk' = 0 /\ cleaned' = TRUE
    /\ UNCHANGED vars

\* The lock of the scheduler is held for the whole walk.
CleanNext ==
    \/ Loops /\ UNCHANGED <<walk, cleaned>>
    \/ walk = 0 /\ pc = "idle" /\ Next /\ cleaned' = FALSE /\ UNCHANGED walk
    \/ ast_sched_clean_by_callback \/ clean_skips \/ clean_removes \/ clean_returns

CleanInit == Init /\ walk = 0 /\ cleaned = FALSE

CleanSpec == CleanInit /\ [][CleanNext]_<<vars, walk, cleaned>>

\* "Clean all scheduled events with matching callback": none is left when it
\* returns.
CleansAll == cleaned => \A i \in 1 .. cur_len : heap[i] \notin Matching
=============================================================================
