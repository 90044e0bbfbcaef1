------------------------- MODULE TaskpoolSerializer -------------------------
(***************************************************************************)
(* One serializer of a taskpool (main/taskpool.c): a taskprocessor without *)
(* a thread of its own.  Whoever pushes to an empty serializer queues the  *)
(* pool task execute_tasks, which executes the serializer's tasks from one *)
(* of the pool's threads.  A pool thread may instead execute them itself   *)
(* while it waits for a task it pushed (push_wait), and a thread outside   *)
(* the pool may suspend and unsuspend the serializer.                      *)
(*                                                                         *)
(* Every pool thread has its own queue; which one a pool task is pushed to *)
(* is the selector's choice, left open here.  A step is a critical section *)
(* of the serializer's lock ("ser") or of the taskprocessor's lock, or a   *)
(* call made outside of them.  Allocation may fail, except for the empty   *)
(* task of push_wait: the code then returns with a queued task that points *)
(* into its dead stack frame.  Not modelled: a push_wait made from inside  *)
(* a task of this serializer, which just calls the new task.               *)
(***************************************************************************)
EXTENDS Naturals, Sequences

CONSTANTS
    Clients,        \* threads outside of the pool
    Threads,        \* threads of the pool
    Tasks,          \* tasks clients push, each at most once
    Jobs,           \* pool tasks that push_wait the task of the same name
    Execute,        \* the pool task execute_tasks
    Susp,           \* taskpool_serializer_suspend_task
    Empty,          \* taskpool_serializer_empty_task
    Fail,           \* "the sync_task failed"
    None,           \* no task, no thread
    MaxSuspends,    \* bound on the calls of suspend that take effect
    MayShutDown     \* may ast_taskpool_shutdown be called?

ASSUME WorkAssumption ==
    /\ None \notin Threads \union Tasks \union Jobs \union {Susp, Empty, Execute, Fail}
    /\ Fail \notin Tasks \union Jobs \union {Susp, Empty}
    /\ Susp \notin Tasks \union Jobs \union {Empty}
    /\ Empty \notin Tasks \union Jobs
    /\ Execute \notin Jobs
    /\ Clients \intersect Threads = {}
ASSUME BoundsAssumption == MaxSuspends \in Nat /\ MayShutDown \in BOOLEAN

VARIABLES
    queue,          \* the serializer's tps_queue
    executing,      \* the taskprocessor's executing bit
    running,        \* the task whose callback is running, or None
    done,           \* history: tasks completed, in order
    submitted,      \* tasks and jobs handed over so far
    lock,           \* owner of the lock of ser, or None
    suspended,      \* ser->suspended
    suspends,       \* number of suspend calls that took effect
    crossed,        \* history: did the suspension cross another execute_tasks?
    paused,         \* history: has a sync waiter been paused by a suspension?
    poolq,          \* poolq[p]: what is queued for pool thread p
    shutting_down,  \* pool->shutting_down
    refused,        \* history: did the last push of execute_tasks to the pool fail?
    tpc,            \* tpc[p]: where pool thread p is
    remaining,      \* remaining[p]: the loop counter of execute_tasks
    requeue,        \* requeue[p]: the local of the same name
    cpc,            \* cpc[c]: where client c is
    awaits          \* the sync_task a client or a pool thread waits for

tps == <<queue, executing, running, done>>
susp == <<suspended, suspends, crossed, paused>>
pool == <<poolq, shutting_down, refused>>
loop == <<remaining, requeue>>
vars == <<tps, submitted, lock, susp, pool, tpc, loop, cpc, awaits>>

Work == Tasks \union Jobs \union {Susp, Empty}
PoolWork == Jobs \union {Execute}
ThreadStates == {"idle", "lockE", "loopE", "runE", "endE",
                 "lockW", "direct", "pushW", "execW", "runW", "asleep", "woken"}
ClientStates == {"idle", "suspending", "notify"}

Init ==
    /\ queue = <<>> /\ executing = FALSE /\ running = None /\ done = <<>>
    /\ submitted = {}
    /\ lock = None
    /\ suspended = "UNSUSPENDED" /\ suspends = 0 /\ crossed = FALSE /\ paused = FALSE
    /\ poolq = [p \in Threads |-> <<>>] /\ shutting_down = FALSE /\ refused = FALSE
    /\ tpc = [p \in Threads |-> "idle"]
    /\ remaining = [p \in Threads |-> 0]
    /\ requeue = [p \in Threads |-> FALSE]
    /\ cpc = [c \in Clients |-> "idle"]
    /\ awaits = [a \in Clients \union Threads |-> None]

ThreadGoto(p, s) == tpc' = [tpc EXCEPT ![p] = s]
ClientGoto(c, s) == cpc' = [cpc EXCEPT ![c] = s]

\* A client outside of the API, and not blocked on a sync_task.
CanCall(c) == cpc[c] = "idle" /\ awaits[c] = None

\* __ast_taskpool_push: the selector picks a thread.  The push fails when the
\* pool is shutting down, when it has no thread to offer and when there is no
\* memory for the task; its callers then only drop their reference.
PoolPush(w) ==
    /\ \/ /\ ~shutting_down
          /\ \E p \in Threads : poolq' = [poolq EXCEPT ![p] = Append(@, w)]
          /\ refused' = (refused /\ w # Execute)
       \/ /\ UNCHANGED poolq
          /\ refused' = (refused \/ w = Execute)
    /\ UNCHANGED shutting_down

\* ast_taskprocessor_execute, first critical section.
Pop ==
    /\ queue # <<>>
    /\ running' = Head(queue)
    /\ queue' = Tail(queue)
    /\ executing' = TRUE
    /\ UNCHANGED done

\* The callback has returned, a sync_task having told its waiter so:
\* ast_taskprocessor_execute, second critical section.
Return ==
    /\ \A a \in Clients \union Threads : awaits[a] # running
    /\ done' = Append(done, running)
    /\ running' = None
    /\ executing' = FALSE
    /\ UNCHANGED queue

\* Each execute_tasks that is queued, taken or about to be queued.
Pooled == UNION {{<<p, i>> : i \in {j \in DOMAIN poolq[p] : poolq[p][j] = Execute}} : p \in Threads}
Taken == {<<p, 0>> : p \in {q \in Threads : \/ tpc[q] \in {"lockE", "loopE", "runE"}
                                            \/ tpc[q] = "endE" /\ requeue[q]}}
Coming == {<<c, 0>> : c \in {d \in Clients : cpc[d] = "notify"}}
Executors == Pooled \union Taken \union Coming

-----------------------------------------------------------------------------
(* Threads outside of the pool                                             *)

\* Mutant: a task that is being executed does not count.
PushFrom_executing_ignored(c, w) ==
    /\ queue' = Append(queue, w)
    /\ ClientGoto(c, IF queue = <<>> THEN "notify" ELSE "idle")
    /\ UNCHANGED <<executing, running, done>>

\* taskprocessor_push by client c: "the currently executing task counts as
\* still in queue".  A push that found the serializer empty must still queue
\* execute_tasks, after the unlock.
PushFrom(c, w) ==
    /\ queue' = Append(queue, w)
    /\ ClientGoto(c, IF ~executing /\ queue = <<>> THEN "notify" ELSE "idle")
    /\ UNCHANGED <<executing, running, done>>

\* An asynchronous push, or push_wait from outside of the pool (wait).
ast_taskprocessor_push(c, t, wait) ==
    /\ CanCall(c)
    /\ t \notin submitted
    /\ submitted' = submitted \union {t}
    /\ PushFrom(c, t)
    /\ awaits' = [awaits EXCEPT ![c] = IF wait THEN t ELSE None]
    /\ UNCHANGED <<lock, susp, pool, tpc, loop>>

\* serializer_task_pushed(was_empty = 1).
serializer_task_pushed(c) ==
    /\ cpc[c] = "notify"
    /\ PoolPush(Execute)
    /\ ClientGoto(c, "idle")
    /\ UNCHANGED <<tps, submitted, lock, susp, tpc, loop, awaits>>

\* A pool task is queued that will push_wait to the serializer.
push_job(c, w) ==
    /\ CanCall(c)
    /\ w \notin submitted
    /\ submitted' = submitted \union {w}
    /\ PoolPush(w)
    /\ UNCHANGED <<tps, lock, susp, tpc, loop, cpc, awaits>>

\* ast_taskpool_serializer_suspend, up to its push_wait.
serializer_suspend(c) ==
    /\ CanCall(c)
    /\ lock = None
    /\ suspended = "UNSUSPENDED"
    /\ suspends < MaxSuspends
    /\ suspended' = "SUSPENDING"
    /\ suspends' = suspends + 1
    /\ ClientGoto(c, "suspending")
    /\ UNCHANGED <<tps, submitted, lock, crossed, paused, pool, tpc, loop, awaits>>

\* ... and the push of the checkpoint.
push_suspend_task(c) ==
    /\ cpc[c] = "suspending"
    /\ PushFrom(c, Susp)
    /\ awaits' = [awaits EXCEPT ![c] = Susp]
    /\ UNCHANGED <<submitted, lock, susp, pool, tpc, loop>>

suspend_push_failed(c) ==
    /\ cpc[c] = "suspending"
    /\ ClientGoto(c, "idle")
    /\ awaits' = [awaits EXCEPT ![c] = Fail]
    /\ UNCHANGED <<tps, submitted, lock, susp, pool, tpc, loop>>

\* "Suspension failed, so unsuspend".
suspend_failed(c) ==
    /\ cpc[c] = "idle"
    /\ awaits[c] = Fail
    /\ lock = None
    /\ suspended' = "UNSUSPENDED"
    /\ awaits' = [awaits EXCEPT ![c] = None]
    /\ UNCHANGED <<tps, submitted, lock, suspends, crossed, paused, pool, tpc, loop, cpc>>

\* Mutant: unsuspend wakes the sync waiters and leaves the rest to them.
unsuspend_without_push(c) ==
    /\ CanCall(c)
    /\ lock = None
    /\ suspended = "SUSPENDED"
    /\ suspended' = "UNSUSPENDED"
    /\ tpc' = [p \in Threads |-> IF tpc[p] = "asleep" THEN "woken" ELSE tpc[p]]
    /\ UNCHANGED <<tps, submitted, lock, suspends, crossed, paused, pool, loop, cpc, awaits>>

\* ast_taskpool_serializer_unsuspend.
serializer_unsuspend(c) ==
    /\ CanCall(c)
    /\ lock = None
    /\ suspended = "SUSPENDED"
    /\ suspended' = "UNSUSPENDED"
    /\ tpc' = [p \in Threads |-> IF tpc[p] = "asleep" THEN "woken" ELSE tpc[p]]
    /\ PoolPush(Execute)
    /\ UNCHANGED <<tps, submitted, lock, suspends, crossed, paused, loop, cpc, awaits>>

ast_taskpool_shutdown ==
    /\ MayShutDown
    /\ ~shutting_down
    /\ shutting_down' = TRUE
    /\ UNCHANGED <<tps, submitted, lock, susp, poolq, refused, tpc, loop, cpc, awaits>>

-----------------------------------------------------------------------------
(* Pool threads: execute_tasks                                             *)

\* A pool thread takes the next pool task of its queue.
take(p) ==
    /\ tpc[p] = "idle"
    /\ poolq[p] # <<>>
    /\ poolq' = [poolq EXCEPT ![p] = Tail(@)]
    /\ LET w == Head(poolq[p]) IN
        IF w = Execute
            THEN ThreadGoto(p, "lockE") /\ UNCHANGED awaits
            ELSE ThreadGoto(p, "lockW") /\ awaits' = [awaits EXCEPT ![p] = w]
    /\ UNCHANGED <<tps, submitted, lock, susp, shutting_down, refused, loop, cpc>>

\* It locks ser and reads the size once.
execute_tasks(p) ==
    /\ tpc[p] = "lockE"
    /\ lock = None
    /\ remaining' = [remaining EXCEPT ![p] = Len(queue)]
    /\ requeue' = [requeue EXCEPT ![p] = FALSE]
    /\ IF queue = <<>>
        THEN ThreadGoto(p, "endE") /\ UNCHANGED lock
        ELSE ThreadGoto(p, "loopE") /\ lock' = p
    /\ UNCHANGED <<tps, submitted, susp, pool, cpc, awaits>>

\* The loop executes the next task (remaining never exceeds what is queued).
execute_next(p) ==
    /\ tpc[p] = "loopE"
    /\ Pop
    /\ ThreadGoto(p, "runE")
    /\ UNCHANGED <<submitted, lock, susp, pool, loop, cpc, awaits>>

\* Mutant: the loop goes on although the serializer is suspended.
execute_return_unchecked(p) ==
    /\ tpc[p] = "runE"
    /\ Return
    /\ remaining' = [remaining EXCEPT ![p] = @ - 1]
    /\ requeue' = [requeue EXCEPT ![p] = queue # <<>>]
    /\ IF remaining[p] = 1
        THEN ThreadGoto(p, "endE") /\ lock' = None
        ELSE ThreadGoto(p, "loopE") /\ UNCHANGED lock
    /\ UNCHANGED <<submitted, susp, pool, cpc, awaits>>

\* The task returned: stop when suspended or when all of them are executed.
execute_return(p) ==
    LET stop == suspended = "SUSPENDED" IN
    /\ tpc[p] = "runE"
    /\ Return
    /\ remaining' = [remaining EXCEPT ![p] = @ - 1]
    /\ requeue' = [requeue EXCEPT ![p] = queue # <<>> /\ ~stop]
    /\ IF stop \/ remaining[p] = 1
        THEN ThreadGoto(p, "endE") /\ lock' = None
        ELSE ThreadGoto(p, "loopE") /\ UNCHANGED lock
    /\ UNCHANGED <<submitted, susp, pool, cpc, awaits>>

\* Outside of the lock: requeue, or drop the reference.
execute_end(p) ==
    /\ tpc[p] = "endE"
    /\ IF requeue[p] THEN PoolPush(Execute) ELSE UNCHANGED pool
    /\ ThreadGoto(p, "idle")
    /\ UNCHANGED <<tps, submitted, lock, susp, loop, cpc, awaits>>

\* taskpool_sync_task: the task of a waiter is complete, and the waiter may go
\* on while its executor is still inside ast_taskprocessor_execute.
sync_task(p) ==
    /\ tpc[p] \in {"runE", "runW"}
    /\ running = Susp => suspended = "SUSPENDED"
    /\ \E a \in Clients \union Threads :
        /\ awaits[a] = running
        /\ awaits' = [awaits EXCEPT ![a] = None]
    /\ UNCHANGED <<tps, submitted, lock, susp, pool, tpc, loop, cpc>>

\* The body of the suspend task, run by whichever thread executes it.
suspend_task(p) ==
    /\ tpc[p] \in {"runE", "runW"}
    /\ running = Susp
    /\ suspended = "SUSPENDING"
    /\ \E c \in Clients : awaits[c] = Susp
    /\ queue' = Append(queue, Empty)
    /\ suspended' = "SUSPENDED"
    /\ crossed' = (Executors \ {<<p, 0>>} # {})
    /\ UNCHANGED <<executing, running, done, submitted, lock, suspends, paused, pool, tpc, loop, cpc, awaits>>

\* It could not queue the empty task, and fails.
suspend_task_failed(p) ==
    /\ tpc[p] \in {"runE", "runW"}
    /\ running = Susp
    /\ suspended = "SUSPENDING"
    /\ \E c \in Clients :
        /\ awaits[c] = Susp
        /\ awaits' = [awaits EXCEPT ![c] = Fail]
    /\ UNCHANGED <<tps, submitted, lock, susp, pool, tpc, loop, cpc>>

-----------------------------------------------------------------------------
(* Pool threads: __ast_taskpool_serializer_push_wait                       *)

\* Where the loop "while (!sync_task.complete)" goes next.
WaitLoop(p, complete) ==
    /\ IF complete THEN ThreadGoto(p, "idle") /\ lock' = None
       ELSE IF suspended = "SUSPENDED" THEN ThreadGoto(p, "asleep") /\ lock' = None
       ELSE ThreadGoto(p, "execW") /\ lock' = p
    /\ paused' = (paused \/ (~complete /\ suspended = "SUSPENDED"))
    /\ UNCHANGED <<suspended, suspends, crossed>>

\* Mutant: push_wait calls its task at once whatever is queued.
wait_overtaking(p) ==
    /\ tpc[p] = "lockW"
    /\ lock = None
    /\ lock' = p
    /\ running' = awaits[p]
    /\ ThreadGoto(p, "direct")
    /\ UNCHANGED <<queue, executing, done, submitted, susp, pool, loop, cpc, awaits>>

\* Nothing is queued: the task is called at once, without the executing bit.
wait_direct(p) ==
    /\ tpc[p] = "lockW"
    /\ lock = None
    /\ queue = <<>>
    /\ lock' = p
    /\ running' = awaits[p]
    /\ ThreadGoto(p, "direct")
    /\ UNCHANGED <<queue, executing, done, submitted, susp, pool, loop, cpc, awaits>>

direct_return(p) ==
    /\ tpc[p] = "direct"
    /\ done' = Append(done, running)
    /\ running' = None
    /\ awaits' = [awaits EXCEPT ![p] = None]
    /\ lock' = None
    /\ ThreadGoto(p, "idle")
    /\ UNCHANGED <<queue, executing, submitted, susp, pool, loop, cpc>>

\* The task is queued behind what is there.
wait_push(p) ==
    /\ tpc[p] = "lockW"
    /\ lock = None
    /\ queue # <<>>
    /\ lock' = p
    /\ queue' = Append(queue, awaits[p])
    /\ ThreadGoto(p, "pushW")
    /\ UNCHANGED <<executing, running, done, submitted, susp, pool, loop, cpc, awaits>>

wait_push_failed(p) ==
    /\ tpc[p] = "lockW"
    /\ lock = None
    /\ queue # <<>>
    /\ awaits' = [awaits EXCEPT ![p] = None]
    /\ ThreadGoto(p, "idle")
    /\ UNCHANGED <<tps, submitted, lock, susp, pool, loop, cpc>>

\* "Next we queue the empty task to ensure the serializer doesn't reach empty".
wait_push_empty(p) ==
    /\ tpc[p] = "pushW"
    /\ queue' = Append(queue, Empty)
    /\ WaitLoop(p, FALSE)
    /\ UNCHANGED <<executing, running, done, submitted, pool, loop, cpc, awaits>>

\* The waiter executes the serializer's tasks itself.
wait_execute(p) ==
    /\ tpc[p] = "execW"
    /\ Pop
    /\ ThreadGoto(p, "runW")
    /\ UNCHANGED <<submitted, lock, susp, pool, loop, cpc, awaits>>

\* It was woken after another thread executed its task, and nothing is left.
wait_execute_empty(p) ==
    /\ tpc[p] = "execW"
    /\ queue = <<>>
    /\ WaitLoop(p, awaits[p] = None)
    /\ UNCHANGED <<tps, submitted, pool, loop, cpc, awaits>>

wait_return(p) ==
    /\ tpc[p] = "runW"
    /\ Return
    /\ WaitLoop(p, awaits[p] = None)
    /\ UNCHANGED <<submitted, pool, loop, cpc, awaits>>

\* ast_cond_wait returns with the lock; the condition is tested again.
wait_woken(p) ==
    /\ tpc[p] = "woken"
    /\ lock = None
    /\ IF suspended = "SUSPENDED"
        THEN ThreadGoto(p, "asleep") /\ UNCHANGED lock
        ELSE ThreadGoto(p, "execW") /\ lock' = p
    /\ UNCHANGED <<tps, submitted, susp, pool, loop, cpc, awaits>>

-----------------------------------------------------------------------------
Call(c) ==
    \/ \E t \in Tasks, wait \in BOOLEAN : ast_taskprocessor_push(c, t, wait)
    \/ \E w \in Jobs : push_job(c, w)
    \/ serializer_suspend(c)
    \/ serializer_unsuspend(c)

Continue(c) ==
    \/ serializer_task_pushed(c)
    \/ push_suspend_task(c) \/ suspend_push_failed(c) \/ suspend_failed(c)

ThreadStep(p) ==
    \/ take(p)
    \/ execute_tasks(p) \/ execute_next(p) \/ execute_return(p) \/ execute_end(p)
    \/ sync_task(p) \/ suspend_task(p) \/ suspend_task_failed(p)
    \/ wait_direct(p) \/ direct_return(p)
    \/ wait_push(p) \/ wait_push_failed(p) \/ wait_push_empty(p)
    \/ wait_execute(p) \/ wait_execute_empty(p) \/ wait_return(p) \/ wait_woken(p)

Next ==
    \/ \E c \in Clients : Call(c) \/ Continue(c)
    \/ \E p \in Threads : ThreadStep(p)
    \/ ast_taskpool_shutdown

Spec == Init /\ [][Next]_vars

\* The OS schedules every thread and tasks return.  Nobody is obliged to push,
\* to suspend or to unsuspend.
Fairness ==
    /\ \A c \in Clients : WF_vars(Continue(c))
    /\ \A p \in Threads : WF_vars(ThreadStep(p))

FairSpec == Spec /\ Fairness

-----------------------------------------------------------------------------
(* Properties                                                              *)

TypeOK ==
    /\ queue \in Seq(Work)
    /\ executing \in BOOLEAN
    /\ running \in Work \union {None}
    /\ done \in Seq(Work)
    /\ submitted \subseteq Tasks \union Jobs
    /\ lock \in Threads \union {None}
    /\ suspended \in {"UNSUSPENDED", "SUSPENDING", "SUSPENDED"}
    /\ suspends \in Nat /\ crossed \in BOOLEAN /\ paused \in BOOLEAN
    /\ poolq \in [Threads -> Seq(PoolWork)]
    /\ shutting_down \in BOOLEAN /\ refused \in BOOLEAN
    /\ tpc \in [Threads -> ThreadStates]
    /\ remaining \in [Threads -> Nat]
    /\ requeue \in [Threads -> BOOLEAN]
    /\ cpc \in [Clients -> ClientStates]
    /\ awaits \in [Clients \union Threads -> Work \union {Fail, None}]

Elems(s) == {s[i] : i \in DOMAIN s}

\* Somebody is bound to execute what is queued: execute_tasks is queued in the
\* pool, or a thread has taken it and has not yet decided not to requeue it,
\* or the client whose push found the serializer empty is about to queue it.
Scheduled ==
    \/ \E p \in Threads : Execute \in Elems(poolq[p])
    \/ \E p \in Threads : tpc[p] \in {"lockE", "loopE", "runE"}
    \/ \E p \in Threads : tpc[p] = "endE" /\ requeue[p]
    \/ \E c \in Clients : cpc[c] = "notify"

(***************************************************************************)
(* No lost wakeup: while anything is queued or being executed on a         *)
(* serializer that is not suspended, execute_tasks is on its way, unless   *)
(* the pool refused the last one.  The notification is sent after the      *)
(* unlock and only by the push that found the serializer empty, and sync   *)
(* waiters drain the queue from other threads, so this rests on the        *)
(* executing bit, the requeue decision and the push made by unsuspend      *)
(* fitting together.  A refused push is retried by nobody: later pushes    *)
(* find the serializer not empty, and only unsuspend pushes again.         *)
(***************************************************************************)
NoLostWakeup ==
    suspended # "SUSPENDED" /\ (queue # <<>> \/ executing) => Scheduled \/ refused

\* At most one execute_tasks exists at a time: the empty task behind a sync
\* task "stops two tasks from being queued for the same serializer at the same
\* time", and the one behind the suspend task does so during a suspension.  A
\* waiter that was paused executes one more task than it needs when it is
\* woken, which may be its own empty task, and the guarantee ends there.
SingleExecutor == ~paused => \A x, y \in Executors : x = y

\* When suspended no thread executes a task of the serializer, other than the
\* suspend task itself on its way out (include/asterisk/taskpool.h: "When
\* suspended no taskpool taskprocessor executes any tasks on the serializer"),
\* whatever is pushed, also by sync waiters, and whichever thread executed the
\* suspend task; unless an execute_tasks other than that thread's was pending
\* at that moment, which looks at the suspension only after its first task.
QuietWhenSuspended ==
    suspended = "SUSPENDED" /\ ~crossed => running \in {None, Susp}

\* Tasks execute one at a time and in the order in which they were pushed, with
\* sync waiters, direct calls and suspension in between: the serializer is a
\* serial executor like a default taskprocessor.
Serial == INSTANCE SerialExecutor
IsSerialExecutor == Serial!Spec

\* A task that was pushed is executed, unless the serializer stays suspended
\* or the pool refuses to execute it.
EveryTaskRuns ==
    \A t \in Tasks : (t \in Elems(queue)) ~> (t \in Elems(done) \/ suspended = "SUSPENDED" \/ refused)

\* A thread that waits for its task in push_wait returns.  A pool thread needs
\* nobody for this, whatever the pool refuses ("The sync task is guaranteed to
\* be executed, so doing a while loop on the complete flag is safe").
EveryWaitEnds ==
    /\ \A c \in Clients :
        (awaits[c] # None) ~> (awaits[c] = None \/ suspended = "SUSPENDED" \/ refused)
    /\ \A p \in Threads :
        (awaits[p] # None) ~> (awaits[p] = None \/ suspended = "SUSPENDED")
=============================================================================
