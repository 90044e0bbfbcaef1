---------------------------- MODULE MCNamedLocks ----------------------------
(***************************************************************************)
(* Three threads, memory for three locks, two keys.                        *)
(***************************************************************************)
EXTENDS NamedLocks, TLC

CONSTANTS t1, t2, t3, p1, p2, p3, k1, k2

MCThreads == {t1, t2, t3}
MCPairs == {p1, p2, p3}
MCKeys == {k1, k2}
MCSymmetry == Permutations(MCThreads) \union Permutations(MCPairs) \union Permutations(MCKeys)
=============================================================================
