------------------------------- MODULE MCHeap -------------------------------
(* Elements 1 to 6, the last two with the same key: three rows of the heap, *)
(* so that the last element can come out before the parent of the gap.      *)
EXTENDS Heap

MCElements == 1 .. 6
MCkey == [e \in MCElements |-> IF e = 6 THEN 5 ELSE e]
=============================================================================
