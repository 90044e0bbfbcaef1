---------------------------- MODULE TaskProcessor ----------------------------
(***************************************************************************)
(* One taskprocessor with the default listener (main/taskprocessor.c): a   *)
(* queue of tasks, a dedicated thread that sleeps on a semaphore and runs  *)
(* them, and the reference counting that shuts the thread down when the    *)
(* last user drops its reference.                                          *)
(*                                                                         *)
(* An actor is a client thread, or the listener's own thread while it runs *)
(* a task: a task may push to its own taskprocessor and may even drop the  *)
(* last reference to it.  A step is one critical section of the            *)
(* taskprocessor's lock (or of tps_singletons), or one call made outside   *)
(* of them; what happens between two steps of an actor is exactly what     *)
(* other threads can do between an unlock and the next lock.               *)
(***************************************************************************)
EXTENDS Naturals, Sequences, FiniteSets

CONSTANTS
    Clients,        \* threads that use the taskprocessor
    Poll,           \* the listener's thread
    Tasks,          \* tasks clients may push, each at most once
    Die,            \* the default_listener_die task
    None            \* no task

ASSUME ActorsAssumption ==
    /\ IsFiniteSet(Clients)
    /\ Poll \notin Clients
ASSUME TasksAssumption ==
    /\ Die \notin Tasks
    /\ None \notin Tasks \union {Die}

VARIABLES
    queue,          \* tps_queue
    running,        \* the task being executed: executing = (running # None)
    done,           \* history: tasks completed, in order
    submitted,      \* history: client tasks accepted by a push
    sem,            \* pvt->sem
    interrupted,    \* history: has a signal interrupted ast_sem_wait?
    dead,           \* pvt->dead
    pollpc,         \* where the listener's thread is
    apc,            \* where each actor is inside the API
    holders,        \* actors that own a client reference
    linked,         \* is it in tps_singletons (which owns a reference)?
    listenerRef,    \* the reference listener->tps
    shutdownRef,    \* the "tps-shutdown" reference
    freed           \* has tps_taskprocessor_dtor run?

work == <<queue, running, done, submitted>>
refs == <<holders, linked, listenerRef, shutdownRef, freed>>
vars == <<work, sem, interrupted, dead, pollpc, apc, refs>>

Actors == Clients \union {Poll}
Work == Tasks \union {Die}

\* Where an actor can be between two steps.
ApiStates == {"idle", "starting", "posting", "unlinked", "postingDie", "joining", "releasing"}
PollStates == {"unborn", "loop", "wait", "pop", "run", "exit", "done"}

Num(b) == IF b THEN 1 ELSE 0

\* ao2's reference count of the taskprocessor.
RefCount == Cardinality(holders) + Num(linked) + Num(listenerRef) + Num(shutdownRef)

\* __allocate_taskprocessor has linked it, its creator is about to start it.
Init ==
    /\ queue = <<>>
    /\ running = None
    /\ done = <<>>
    /\ submitted = {}
    /\ sem = 0
    /\ interrupted = FALSE
    /\ dead = FALSE
    /\ pollpc = "unborn"
    /\ \E c \in Clients :
        /\ holders = {c}
        /\ apc = [a \in Actors |-> IF a = c THEN "starting" ELSE "idle"]
    /\ linked = TRUE
    /\ listenerRef = TRUE
    /\ shutdownRef = FALSE
    /\ freed = FALSE

\* An actor outside of the API; the listener's thread acts only from a task.
CanCall(a) == apc[a] = "idle" /\ (a = Poll => pollpc = "run")

Goto(a, s) == apc' = [apc EXCEPT ![a] = s]

-----------------------------------------------------------------------------
(* Creation, lookup and pushing                                            *)

\* default_listener_start: the creator starts the thread after unlocking
\* tps_singletons, so others may already have found the taskprocessor.
default_listener_start(c) ==
    /\ apc[c] = "starting"
    /\ Goto(c, "idle")
    /\ pollpc' = "loop"
    /\ UNCHANGED <<interrupted, work, sem, dead, refs>>

\* ast_taskprocessor_get finds the linked taskprocessor.  Once it is unlinked
\* the same call creates a new one, which is another instance.
ast_taskprocessor_get(a) ==
    /\ CanCall(a)
    /\ linked
    /\ a \notin holders
    /\ holders' = holders \union {a}
    /\ UNCHANGED <<interrupted, work, sem, dead, pollpc, apc, linked, listenerRef, shutdownRef, freed>>

\* taskprocessor_push, up to the unlock.
taskprocessor_push(a, t) ==
    /\ CanCall(a)
    /\ a \in holders
    /\ t \notin submitted
    /\ queue' = Append(queue, t)
    /\ submitted' = submitted \union {t}
    /\ Goto(a, "posting")
    /\ UNCHANGED <<interrupted, running, done, sem, dead, pollpc, refs>>

\* Mutant: the pusher notifies the listener only when the queue was empty.
task_pushed_was_empty(a) ==
    /\ apc[a] = "posting"
    /\ Goto(a, "idle")
    /\ sem' = sem + (IF Len(queue) = 1 THEN 1 ELSE 0)
    /\ UNCHANGED <<interrupted, work, dead, pollpc, refs>>

\* default_task_pushed, called after the unlock.
default_task_pushed(a) ==
    /\ apc[a] = "posting"
    /\ Goto(a, "idle")
    /\ sem' = sem + 1
    /\ UNCHANGED <<interrupted, work, dead, pollpc, refs>>

-----------------------------------------------------------------------------
(* The last unreference shuts the listener down                            *)

\* Mutant: the references that are left are not counted.
unreference_uncounted(a) ==
    /\ CanCall(a)
    /\ a \in holders
    /\ holders' = holders \ {a}
    /\ linked' = FALSE
    /\ Goto(a, "unlinked")
    /\ UNCHANGED <<interrupted, work, sem, dead, pollpc, listenerRef, shutdownRef, freed>>

\* ast_taskprocessor_unreference, under the lock of tps_singletons: "if we're
\* down to 3 references" the caller unlinks and goes on to shut down.
ast_taskprocessor_unreference(a) ==
    /\ CanCall(a)
    /\ a \in holders
    /\ holders' = holders \ {a}
    /\ IF RefCount > 3
        THEN UNCHANGED <<linked, apc>>
        ELSE /\ linked' = FALSE
             /\ Goto(a, "unlinked")
    /\ UNCHANGED <<interrupted, work, sem, dead, pollpc, listenerRef, shutdownRef, freed>>

\* Mutant: the die task is put in front of the tasks still queued.
shutdown_at_head(a) ==
    /\ apc[a] = "unlinked"
    /\ shutdownRef' = TRUE
    /\ queue' = <<Die>> \o queue
    /\ Goto(a, "postingDie")
    /\ UNCHANGED <<interrupted, running, done, submitted, sem, dead, pollpc, holders, linked, listenerRef, freed>>

\* Mutant: no reference is held during shutdown.
shutdown_without_ref(a) ==
    /\ apc[a] = "unlinked"
    /\ queue' = Append(queue, Die)
    /\ Goto(a, "postingDie")
    /\ UNCHANGED <<interrupted, running, done, submitted, sem, dead, pollpc, refs>>

\* default_listener_shutdown pushes the die task behind everything queued.
default_listener_shutdown(a) ==
    /\ apc[a] = "unlinked"
    /\ shutdownRef' = TRUE
    /\ queue' = Append(queue, Die)
    /\ Goto(a, "postingDie")
    /\ UNCHANGED <<interrupted, running, done, submitted, sem, dead, pollpc, holders, linked, listenerRef, freed>>

\* The push of the die task failed: the caller sets pvt->dead itself.
shutdown_push_failed(a) ==
    /\ apc[a] = "unlinked"
    /\ shutdownRef' = TRUE
    /\ dead' = TRUE
    /\ Goto(a, IF a = Poll THEN "releasing" ELSE "joining")
    /\ UNCHANGED <<interrupted, work, sem, pollpc, holders, linked, listenerRef, freed>>

\* Mutant: the listener's own thread joins itself.
shutdown_posted_self_join(a) ==
    /\ apc[a] = "postingDie"
    /\ sem' = sem + 1
    /\ Goto(a, "joining")
    /\ UNCHANGED <<interrupted, work, dead, pollpc, refs>>

\* default_task_pushed for the die task, then pthread_detach by the listener's
\* own thread or pthread_join by any other.
shutdown_posted(a) ==
    /\ apc[a] = "postingDie"
    /\ sem' = sem + 1
    /\ Goto(a, IF a = Poll THEN "releasing" ELSE "joining")
    /\ UNCHANGED <<interrupted, work, dead, pollpc, refs>>

pthread_join(a) ==
    /\ apc[a] = "joining"
    /\ pollpc = "done"
    /\ Goto(a, "releasing")
    /\ UNCHANGED <<interrupted, work, sem, dead, pollpc, refs>>

\* tps_taskprocessor_dtor when the last reference goes: what is queued is lost.
tps_taskprocessor_dtor(isLast) ==
    /\ freed' = isLast
    /\ queue' = IF isLast THEN <<>> ELSE queue

\* listener_shutdown drops the listener's reference.
listener_shutdown(a) ==
    /\ apc[a] = "releasing"
    /\ listenerRef' = FALSE
    /\ tps_taskprocessor_dtor(RefCount = 1)
    /\ Goto(a, "idle")
    /\ UNCHANGED <<interrupted, running, done, submitted, sem, dead, pollpc, holders, linked, shutdownRef>>

-----------------------------------------------------------------------------
(* The listener's thread: default_tps_processing_function                  *)

\* The condition of the while loop.
poll_loop ==
    /\ pollpc = "loop"
    /\ pollpc' = IF dead THEN "exit" ELSE "wait"
    /\ UNCHANGED <<interrupted, work, sem, dead, apc, refs>>

\* The thread blocks until it can take a token.
ast_sem_wait ==
    /\ pollpc = "wait"
    /\ sem > 0
    /\ sem' = sem - 1
    /\ pollpc' = "pop"
    /\ UNCHANGED <<interrupted, work, dead, apc, refs>>

\* errno is EINTR: the loop goes on to execute although it took no token.
sem_wait_interrupted ==
    /\ pollpc = "wait"
    /\ interrupted' = TRUE
    /\ pollpc' = "pop"
    /\ UNCHANGED <<work, sem, dead, apc, refs>>

\* Mutant: the newest task is executed first.
execute_pop_newest ==
    /\ pollpc = "pop"
    /\ queue # <<>>
    /\ running' = queue[Len(queue)]
    /\ queue' = SubSeq(queue, 1, Len(queue) - 1)
    /\ pollpc' = "run"
    /\ UNCHANGED <<interrupted, done, submitted, sem, dead, apc, refs>>

\* ast_taskprocessor_execute, first critical section.
execute_pop ==
    /\ pollpc = "pop"
    /\ queue # <<>>
    /\ running' = Head(queue)
    /\ queue' = Tail(queue)
    /\ pollpc' = "run"
    /\ UNCHANGED <<interrupted, done, submitted, sem, dead, apc, refs>>

\* There was nothing to pop.
execute_empty ==
    /\ pollpc = "pop"
    /\ queue = <<>>
    /\ pollpc' = "loop"
    /\ UNCHANGED <<interrupted, work, sem, dead, apc, refs>>

\* The task has returned: ast_taskprocessor_execute, second critical section.
execute_end ==
    /\ pollpc = "run"
    /\ apc[Poll] = "idle"
    /\ done' = Append(done, running)
    /\ running' = None
    /\ dead' = (dead \/ running = Die)
    /\ pollpc' = "loop"
    /\ UNCHANGED <<interrupted, queue, submitted, sem, apc, refs>>

\* The thread checks the semaphore and drops the "tps-shutdown" reference.
poll_done ==
    /\ pollpc = "exit"
    /\ shutdownRef' = FALSE
    /\ tps_taskprocessor_dtor(RefCount = 1)
    /\ pollpc' = "done"
    /\ UNCHANGED <<interrupted, running, done, submitted, sem, dead, apc, holders, linked, listenerRef>>

-----------------------------------------------------------------------------
\* What a client or a task may choose to do.
Call(a) ==
    \/ ast_taskprocessor_get(a)
    \/ \E t \in Tasks : taskprocessor_push(a, t)
    \/ ast_taskprocessor_unreference(a)

\* What an actor inside the API goes on to do.
Continue(a) ==
    \/ default_listener_start(a)
    \/ default_task_pushed(a)
    \/ default_listener_shutdown(a)
    \/ shutdown_push_failed(a)
    \/ shutdown_posted(a)
    \/ pthread_join(a)
    \/ listener_shutdown(a)

PollStep ==
    \/ poll_loop \/ ast_sem_wait
    \/ execute_pop \/ execute_empty \/ execute_end
    \/ poll_done

Next == (\E a \in Actors : Call(a) \/ Continue(a)) \/ PollStep \/ sem_wait_interrupted

Spec == Init /\ [][Next]_vars

(***************************************************************************)
(* The OS schedules every thread, tasks return, and clients eventually drop *)
(* the references they own; nobody is obliged to push anything.             *)
(***************************************************************************)
Fairness ==
    /\ WF_vars(PollStep)
    /\ \A a \in Actors : WF_vars(Continue(a))
    /\ \A c \in Clients : WF_vars(ast_taskprocessor_unreference(c))

FairSpec == Spec /\ Fairness

-----------------------------------------------------------------------------
(* Properties                                                              *)

TypeOK ==
    /\ queue \in Seq(Work)
    /\ running \in Work \union {None}
    /\ done \in Seq(Work)
    /\ submitted \subseteq Tasks
    /\ sem \in Nat
    /\ interrupted \in BOOLEAN
    /\ dead \in BOOLEAN
    /\ pollpc \in PollStates
    /\ apc \in [Actors -> ApiStates]
    /\ holders \subseteq Actors
    /\ linked \in BOOLEAN
    /\ listenerRef \in BOOLEAN
    /\ shutdownRef \in BOOLEAN
    /\ freed \in BOOLEAN

Elems(s) == {s[i] : i \in DOMAIN s}

\* The die task could not be queued, so the thread is told to stop without it.
DieLost == dead /\ Die \notin Elems(done)

\* Actors about to post the semaphore.
Posting == {a \in Actors : apc[a] \in {"posting", "postingDie"}}

(***************************************************************************)
(* "No posting to a dead taskprocessor!": when the listener's thread leaves *)
(* its loop, nothing is queued and, unless a signal made it run ahead of    *)
(* its tokens, the semaphore is zero and nobody is still about to post it   *)
(* (the assertion at the end of default_tps_processing_function).  It takes *)
(* the whole protocol of counting references before pushing to make the die *)
(* task the last one.                                                       *)
(***************************************************************************)
NoPostToDead ==
    (pollpc \in {"exit", "done"} /\ ~DieLost) =>
        /\ queue = <<>>
        /\ ~interrupted => sem = 0 /\ Posting = {}

\* The thread leaves its loop only when every task accepted has been executed,
\* also when signals interrupt it: the destructor never throws away work.
NothingLost ==
    (pollpc \in {"exit", "done"} /\ ~DieLost) => submitted \subseteq Elems(done)

\* Nobody uses the taskprocessor once the destructor has run: no actor is
\* inside the API, no reference is left and the thread is gone.
NoUseAfterFree ==
    freed =>
        /\ holders = {} /\ ~linked
        /\ pollpc = "done"
        /\ \A a \in Actors : apc[a] = "idle"

\* A reference found in tps_singletons is to a taskprocessor that still runs:
\* its listener has not begun to shut down (the comment in
\* ast_taskprocessor_unreference that justifies holding the container's lock).
HeldIsAlive ==
    holders # {} =>
        /\ linked /\ listenerRef /\ ~shutdownRef
        /\ Die \notin Elems(queue) /\ running # Die /\ ~dead

\* Every step is one a serial executor allows: tasks run one at a time, in the
\* order in which they were pushed, the die task last.
Serial == INSTANCE SerialExecutor
IsSerialExecutor == Serial!Spec

\* A task that was accepted is executed (no push of it is ever forgotten by
\* the semaphore), unless the thread had to be stopped without its die task.
EveryTaskRuns ==
    \A t \in Tasks : (t \in submitted) ~> (t \in Elems(done) \/ DieLost)

\* Once the last reference is dropped the thread ends, whoever waits for it in
\* pthread_join returns and the taskprocessor is freed.
ShutdownCompletes == ~linked ~> (freed \/ DieLost)

\* "This will cause the thread to exit early": also a thread that is told to
\* stop because the die task could not be queued does end.
ShutdownAlwaysCompletes == ~linked ~> freed
=============================================================================
