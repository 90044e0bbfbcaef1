----------------------- MODULE MCTaskProcessorAlerts -----------------------
(* Three taskprocessors, two of them in one subsystem and one in none.     *)
EXTENDS TaskProcessorAlerts

CONSTANTS t1, t2, t3, s1

MCTps == {t1, t2, t3}
MCSubsystems == {s1}
MCsubsystem == [t \in MCTps |-> IF t = t3 THEN NoSubsystem ELSE s1]
MCMarks == {-1, 0, 2, 3}
=============================================================================
