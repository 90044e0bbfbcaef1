------------------------------- MODULE MCStasis -------------------------------
(***************************************************************************)
(* Instances of Stasis for model checking.  MCStasis.cfg has three topics  *)
(* with two paths of forwards from ta to tc, two clients and a             *)
(* subscription to tc; MCStasisLive.cfg has one client, one forward, a     *)
(* subscription with a mailbox and a direct one.                           *)
(***************************************************************************)
EXTENDS Stasis, TLC

CONSTANTS s1, ta, tb, tc

Triangle == {<<ta, tb>>, <<tb, tc>>, <<ta, tc>>}
HomeC == [s \in Subs |-> tc]
Line == {<<ta, tb>>}
HomeLine == [s \in Subs |-> IF s = s1 THEN tb ELSE ta]

\* Clients are interchangeable in the run of the invariants.
ClientSymmetry == Permutations(Clients)
=============================================================================
