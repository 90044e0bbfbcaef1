---------------------------- MODULE MCSchedClean ----------------------------
(* Six entries with different times, the two of them that are due third and *)
(* fifth have the callback to clean.                                        *)
EXTENDS SchedClean

MCElements == 1 .. 6
MCkey == [e \in MCElements |-> e]
MCMatching == {3, 5}
=============================================================================
