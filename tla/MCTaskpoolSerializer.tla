------------------------ MODULE MCTaskpoolSerializer ------------------------
(***************************************************************************)
(* Two threads outside of the pool and two pool threads, one task and      *)
(* one synchronous job.                                                    *)
(***************************************************************************)
EXTENDS TaskpoolSerializer, TLC

CONSTANTS c1, c2, p1, p2, t1, w1

MCClients == {c1, c2}
MCThreads == {p1, p2}
MCTasks == {t1}
MCJobs == {w1}
=============================================================================
