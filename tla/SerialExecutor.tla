--------------------------- MODULE SerialExecutor ---------------------------
(***************************************************************************)
(* What every taskprocessor promises its users, whatever thread runs it:   *)
(* work is accepted into a queue, is executed in the order in which it was *)
(* accepted, and each piece of work completes before the next one starts.  *)
(* include/asterisk/taskpool.h promises the same contract for a serializer *)
(* ("tasks execute serially") as for a default taskprocessor.              *)
(***************************************************************************)
EXTENDS Sequences

CONSTANTS
    Work,       \* everything that can be executed
    None        \* "nothing is being executed"

VARIABLES
    queue,      \* accepted and not yet started, oldest first
    running,    \* the work being executed, or None
    done        \* completed work, in order of completion

vars == <<queue, running, done>>

Init ==
    /\ queue = <<>>
    /\ running = None
    /\ done = <<>>

\* Work is accepted behind everything accepted before it.
Submit(w) ==
    /\ queue' = Append(queue, w)
    /\ UNCHANGED <<running, done>>

\* The oldest accepted work starts; nothing else may be running.
Begin ==
    /\ running = None
    /\ queue # <<>>
    /\ running' = Head(queue)
    /\ queue' = Tail(queue)
    /\ UNCHANGED done

\* Work may skip the queue only when it overtakes nothing.
Inline(w) ==
    /\ running = None
    /\ queue = <<>>
    /\ running' = w
    /\ UNCHANGED <<queue, done>>

Finish ==
    /\ running # None
    /\ done' = Append(done, running)
    /\ running' = None
    /\ UNCHANGED queue

\* The executor is destroyed; what it had accepted and not started is dropped.
Abandon ==
    /\ running = None
    /\ queue' = <<>>
    /\ UNCHANGED <<running, done>>

Next ==
    \/ \E w \in Work : Submit(w) \/ Inline(w)
    \/ Begin
    \/ Finish
    \/ Abandon

Spec == Init /\ [][Next]_vars
=============================================================================
