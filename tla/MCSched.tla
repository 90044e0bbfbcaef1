------------------------------- MODULE MCSched -------------------------------
(***************************************************************************)
(* Two owners, two or three structs, entries due at once with a variable   *)
(* interval or after a millisecond with a fixed one.                       *)
(***************************************************************************)
EXTENDS Sched, TLC

CONSTANTS o1, o2, s1, s2, s3

MCOwners == {o1, o2}
MCStructs == {s1, s2, s3}
MCVariable == {<<0, TRUE>>}
MCFixed == {<<1, FALSE>>}
MCTwoStructs == {s1, s2}
MCSymmetry == Permutations(MCOwners)
=============================================================================
