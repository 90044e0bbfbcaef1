------------------------------ MODULE MCTaskpool ------------------------------
(***************************************************************************)
(* A growing pool with a static worker, one that may shrink to nothing and *)
(* one of fixed size, with either selector.                                *)
(***************************************************************************)
EXTENDS Taskpool

CONSTANTS c1

Opt(min, initial, max, inc, seq, n) ==
    [min |-> min, initial |-> initial, max |-> max, inc |-> inc, threshold |-> 1,
     sequential |-> seq, pushes |-> n]

MCOptions ==
    {Opt(1, 0, 2, 2, FALSE, 2), Opt(0, 2, 2, 1, TRUE, 2), Opt(0, 0, 3, 2, TRUE, 2), Opt(2, 2, 2, 0, TRUE, 4)}
=============================================================================
