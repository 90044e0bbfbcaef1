--------------------------- MODULE MCTaskProcessor ---------------------------
(* Instances of TaskProcessor for TLC: two clients and the listener's own    *)
(* thread, enough for a push, a lookup and the last unreference to race.     *)
EXTENDS TaskProcessor

CONSTANTS c1, c2, t1, t2, t3

MCClients == {c1, c2}
MCTasks2 == {t1, t2}
MCTasks3 == {t1, t2, t3}
=============================================================================
