----------------------- MODULE TaskpoolSerializerProofs -----------------------
(***************************************************************************)
(* Proofs about TaskpoolSerializer, for any sets of clients, threads, tasks *)
(* and jobs and any number of suspensions: the inductive invariant, its    *)
(* conjuncts one after the other, the invariant as a whole, and what       *)
(* follows from it.                                                        *)
(***************************************************************************)
EXTENDS TaskpoolSerializer, Integers, TLAPS

\* The lock of ser is held wherever a task is executed, so that one thread
\* executes at a time.
LockInv ==
    /\ \A p \in Threads : lock = p <=> tpc[p] \in {"loopE", "runE", "direct", "pushW", "execW", "runW"}
    /\ executing <=> \E p \in Threads : tpc[p] \in {"runE", "runW"}
    /\ running # None <=> \E p \in Threads : tpc[p] \in {"runE", "runW", "direct"}

\* The loop of execute_tasks never outruns the queue, and what a waiter queued
\* its task behind is not executed before it has queued the empty task.
LoopInv ==
    \A p \in Threads :
        /\ tpc[p] = "loopE" => remaining[p] >= 1 /\ remaining[p] <= Len(queue)
        /\ tpc[p] = "runE" => remaining[p] >= 1 /\ remaining[p] <= Len(queue) + 1
        /\ tpc[p] = "pushW" => queue # <<>>

\* One client suspends at a time.
Suspender(c) == cpc[c] = "suspending" \/ awaits[c] \in {Susp, Fail}
SuspInv ==
    /\ \A c, d \in Clients : Suspender(c) /\ Suspender(d) => c = d
    /\ \A c \in Clients :
        /\ cpc[c] = "suspending" => suspended = "SUSPENDING" /\ awaits[c] = None
        /\ awaits[c] = Fail => suspended = "SUSPENDING"
        /\ awaits[c] = Susp => suspended = "SUSPENDING" \/ (suspended = "SUSPENDED" /\ running = Susp)

\* A job is in one place at a time on its way into the serializer.
JobInv ==
    /\ \A w \in Tasks \union Jobs :
        /\ w \in Elems(queue) => w \in submitted
        /\ running = w => w \in submitted
        /\ \A a \in Clients \union Threads : awaits[a] = w => w \in submitted
    /\ \A p \in Threads : awaits[p] \in Jobs \union {None}
    /\ \A p \in Threads : \A i \in DOMAIN poolq[p] : poolq[p][i] \in Jobs =>
        /\ poolq[p][i] \in submitted
        /\ poolq[p][i] \notin Elems(queue) /\ running # poolq[p][i]
        /\ \A a \in Clients \union Threads : awaits[a] # poolq[p][i]
        /\ \A q \in Threads : \A j \in DOMAIN poolq[q] : poolq[p][i] = poolq[q][j] => p = q /\ i = j
    /\ \A p \in Threads : tpc[p] = "lockW" =>
        /\ awaits[p] \in Jobs
        /\ awaits[p] \notin Elems(queue) /\ running # awaits[p]
        /\ \A a \in Clients \union Threads : awaits[a] = awaits[p] => a = p
    /\ \A p \in Threads : tpc[p] = "direct" => running \in Jobs

\* As long as no waiter was paused, a sync waiter leaves the empty task behind
\* its own, and waits for nothing after it executed its own.
Behind(w) == \E i, j \in DOMAIN queue : i < j /\ queue[i] = w /\ queue[j] = Empty
Syncing(p) ==
    /\ tpc[p] \notin {"asleep", "woken"}
    /\ tpc[p] = "pushW" => awaits[p] \in Elems(queue)
    /\ tpc[p] = "execW" => awaits[p] # None /\ Behind(awaits[p])
    /\ tpc[p] = "runW" => \/ awaits[p] \in {running, None} /\ running \in Jobs /\ queue # <<>>
                          \/ awaits[p] # None /\ Behind(awaits[p])
SyncInv == ~paused => \A p \in Threads : Syncing(p)

\* Thread p has an execute_tasks that it may still put back into the pool.
Executing(p) == tpc[p] \in {"lockE", "loopE", "runE"} \/ (tpc[p] = "endE" /\ requeue[p])

\* One execute_tasks at a time: taken, queued in the pool or about to be.
Solo ==
    /\ \A p, q \in Threads : Executing(p) /\ Executing(q) => p = q
    /\ \A c, d \in Clients : cpc[c] = "notify" /\ cpc[d] = "notify" => c = d
    /\ \A p \in Threads : Executing(p) =>
        /\ \A c \in Clients : cpc[c] # "notify"
        /\ \A q \in Threads : \A j \in DOMAIN poolq[q] : poolq[q][j] # Execute
    /\ \A p \in Threads : \A i \in DOMAIN poolq[p] : poolq[p][i] = Execute =>
        /\ \A c \in Clients : cpc[c] # "notify"
        /\ \A q \in Threads : \A j \in DOMAIN poolq[q] : poolq[q][j] = Execute => p = q /\ i = j

\* It exists only while there is something to execute.
Busy == Scheduled /\ suspended # "SUSPENDED" => queue # <<>> \/ executing

\* A suspension that crossed another one was executed by a waiter, which is
\* about to be paused.
Crossing ==
    suspended = "SUSPENDED" /\ crossed => \E p \in Threads : tpc[p] = "runW" /\ running = Susp

SoloInv == ~paused => Solo /\ Busy /\ Crossing

\* Under any other suspension the serializer is not empty, nothing but the suspend
\* task is executed, and there is no execute_tasks other than the one that is
\* leaving.
Still ==
    suspended = "SUSPENDED" /\ ~crossed =>
        /\ queue # <<>>
        /\ \A c \in Clients : cpc[c] # "notify"
        /\ \A p \in Threads :
            /\ \A i \in DOMAIN poolq[p] : poolq[p][i] # Execute
            /\ Executing(p) => tpc[p] = "runE"
            /\ tpc[p] \notin {"execW", "direct"}
            /\ tpc[p] \in {"runE", "runW"} => running = Susp

IInv == TypeOK /\ LockInv /\ LoopInv /\ SuspInv /\ JobInv /\ SyncInv /\ NoLostWakeup /\ SoloInv /\ Still

-----------------------------------------------------------------------------
(* What the operators of the model do                                      *)

\* Pushing to the pool: the new entry, if any, is the last one of a queue, and
\* an execute_tasks that is not queued was refused.
LEMMA PoolPushed ==
    ASSUME TypeOK, NEW w \in PoolWork, PoolPush(w)
    PROVE  /\ poolq' \in [Threads -> Seq(PoolWork)]
           /\ shutting_down' = shutting_down
           /\ refused' \in BOOLEAN
           /\ w # Execute => refused' = refused
           /\ \/ poolq' = poolq /\ (w = Execute => refused')
              \/ \E q \in Threads :
                /\ Len(poolq'[q]) = Len(poolq[q]) + 1
                /\ poolq'[q][Len(poolq[q]) + 1] = w
                /\ \A i \in 1..Len(poolq[q]) : poolq'[q][i] = poolq[q][i]
                /\ \A p \in Threads \ {q} : poolq'[p] = poolq[p]
<1>0. /\ shutting_down' = shutting_down
      /\ refused' \in BOOLEAN
      /\ w # Execute => refused' = refused
    BY Zenon DEF PoolPush, TypeOK
<1>1. CASE poolq' = poolq /\ refused' = (refused \/ w = Execute)
    BY <1>0, <1>1, Zenon DEF TypeOK
<1>2. CASE \E q \in Threads : poolq' = [poolq EXCEPT ![q] = Append(@, w)]
    <2>1. PICK q \in Threads : poolq' = [poolq EXCEPT ![q] = Append(@, w)]
        BY <1>2, Zenon
    <2>2. poolq[q] \in Seq(PoolWork) /\ poolq'[q] = Append(poolq[q], w)
        BY <2>1, Zenon DEF TypeOK
    <2>3. poolq' \in [Threads -> Seq(PoolWork)]
        BY <2>1 DEF TypeOK
    <2>4. /\ Len(poolq'[q]) = Len(poolq[q]) + 1
          /\ poolq'[q][Len(poolq[q]) + 1] = w
          /\ \A i \in 1..Len(poolq[q]) : poolq'[q][i] = poolq[q][i]
        BY <2>2
    <2>5. \A p \in Threads \ {q} : poolq'[p] = poolq[p]
        BY <2>1
    <2> QED BY <1>0, <2>3, <2>4, <2>5, Zenon
<1> QED BY <1>1, <1>2, Zenon DEF PoolPush

\* Taking the next pool task.
LEMMA PoolTaken ==
    ASSUME TypeOK, NEW p \in Threads, take(p)
    PROVE  /\ poolq' \in [Threads -> Seq(PoolWork)]
           /\ poolq[p] \in Seq(PoolWork) /\ Head(poolq[p]) = poolq[p][1]
           /\ Len(poolq[p]) \in Nat /\ Len(poolq[p]) >= 1 /\ poolq[p][1] \in PoolWork
           /\ Len(poolq'[p]) = Len(poolq[p]) - 1
           /\ \A i \in 1..Len(poolq'[p]) : poolq'[p][i] = poolq[p][i + 1]
           /\ \A q \in Threads \ {p} : poolq'[q] = poolq[q]
<1>1. poolq[p] \in Seq(PoolWork) /\ poolq[p] # <<>> /\ poolq'[p] = Tail(poolq[p])
    BY Zenon DEF TypeOK, take
<1>2. poolq' \in [Threads -> Seq(PoolWork)]
    BY DEF TypeOK, take
<1>3. \A q \in Threads \ {p} : poolq'[q] = poolq[q]
    BY Zenon DEF TypeOK, take
<1> QED BY <1>1, <1>2, <1>3

\* The outcomes of the test of the waiter's loop.
LEMMA WaitLoops ==
    ASSUME TypeOK, NEW p \in Threads, NEW complete \in BOOLEAN, WaitLoop(p, complete)
    PROVE  /\ tpc' \in [Threads -> ThreadStates]
           /\ lock' \in Threads \union {None}
           /\ \A q \in Threads \ {p} : tpc'[q] = tpc[q]
           /\ UNCHANGED <<suspended, suspends, crossed>>
           /\ paused' \in BOOLEAN /\ (paused => paused')
           /\ \/ complete /\ tpc'[p] = "idle" /\ lock' = None
              \/ ~complete /\ suspended = "SUSPENDED" /\ tpc'[p] = "asleep" /\ lock' = None /\ paused'
              \/ ~complete /\ suspended # "SUSPENDED" /\ tpc'[p] = "execW" /\ lock' = p
BY Zenon DEF WaitLoop, ThreadGoto, TypeOK, ThreadStates

LEMMA Goes ==
    ASSUME TypeOK, NEW p \in Threads, NEW l, ThreadGoto(p, l)
    PROVE  tpc'[p] = l /\ \A q \in Threads \ {p} : tpc'[q] = tpc[q]
BY Zenon DEF ThreadGoto, TypeOK

-----------------------------------------------------------------------------
(* Steps                                                                   *)

\* Type correctness: a popped task and a job are of their sets, and the loop
\* counter does not fall below zero.
LEMMA TypeStep == IInv /\ [Next]_vars => TypeOK'
<1> SUFFICES ASSUME IInv, [Next]_vars PROVE TypeOK'
    OBVIOUS
<1> USE WorkAssumption
<1>u. CASE UNCHANGED vars
    BY <1>u, Zenon DEF vars, tps, susp, pool, loop, TypeOK, IInv
<1>1. ASSUME NEW c \in Clients, NEW t \in Tasks, NEW wait \in BOOLEAN, ast_taskprocessor_push(c, t, wait)
      PROVE  TypeOK'
    BY <1>1 DEF ast_taskprocessor_push, ClientGoto, PushFrom, susp, pool, loop, TypeOK, IInv, Work,
       ClientStates
<1>2. ASSUME NEW c \in Clients, serializer_task_pushed(c) PROVE TypeOK'
    BY <1>2, PoolPushed, Zenon DEF serializer_task_pushed, IInv, PoolWork, ClientGoto, tps, susp, loop,
       TypeOK, ClientStates
<1>3. ASSUME NEW c \in Clients, NEW w \in Jobs, push_job(c, w) PROVE TypeOK'
    BY <1>3, PoolPushed DEF push_job, IInv, PoolWork, tps, susp, loop, TypeOK
<1>4. ASSUME NEW c \in Clients, serializer_suspend(c) PROVE TypeOK'
    BY <1>4 DEF serializer_suspend, ClientGoto, tps, pool, loop, TypeOK, IInv, ClientStates
<1>5. ASSUME NEW c \in Clients, push_suspend_task(c) PROVE TypeOK'
    BY <1>5 DEF push_suspend_task, ClientGoto, PushFrom, susp, pool, loop, TypeOK, IInv, Work, ClientStates
<1>6. ASSUME NEW c \in Clients, suspend_push_failed(c) PROVE TypeOK'
    BY <1>6, Zenon DEF suspend_push_failed, ClientGoto, tps, susp, pool, loop, TypeOK, IInv, ClientStates
<1>7. ASSUME NEW c \in Clients, suspend_failed(c) PROVE TypeOK'
    BY <1>7, Zenon DEF suspend_failed, tps, pool, loop, TypeOK, IInv
<1>8. ASSUME NEW c \in Clients, serializer_unsuspend(c) PROVE TypeOK'
    BY <1>8, PoolPushed, Zenon DEF serializer_unsuspend, IInv, PoolWork, tps, loop, TypeOK, ThreadStates
<1>9. ASSUME ast_taskpool_shutdown PROVE TypeOK'
    BY <1>9, Zenon DEF ast_taskpool_shutdown, tps, susp, loop, TypeOK, IInv
<1>10. ASSUME NEW p \in Threads, take(p) PROVE TypeOK'
    <2>1. poolq' \in [Threads -> Seq(PoolWork)] /\ poolq[p][1] \in PoolWork /\ Head(poolq[p]) = poolq[p][1]
        BY <1>10, PoolTaken, Zenon DEF IInv
    <2>2. tpc' \in [Threads -> ThreadStates]
        <3>1. tpc' = [tpc EXCEPT ![p] = "lockE"] \/ tpc' = [tpc EXCEPT ![p] = "lockW"]
            BY <1>10, Zenon DEF take, ThreadGoto
        <3> QED BY <3>1, Zenon DEF TypeOK, IInv, ThreadStates
    <2>3. awaits' \in [Clients \union Threads -> Work \union {Fail, None}]
        BY <1>10, <2>1, Zenon DEF take, TypeOK, IInv, Work, PoolWork
    <2> QED BY <1>10, <2>1, <2>2, <2>3, Zenon DEF take, tps, susp, loop, TypeOK, IInv
<1>11. ASSUME NEW p \in Threads, execute_tasks(p) PROVE TypeOK'
    <2>1. remaining' \in [Threads -> Nat] /\ requeue' \in [Threads -> BOOLEAN]
        BY <1>11 DEF execute_tasks, TypeOK, IInv
    <2>2. tpc' \in [Threads -> ThreadStates] /\ lock' \in Threads \union {None}
        BY <1>11, Zenon DEF execute_tasks, ThreadGoto, TypeOK, IInv, ThreadStates
    <2> QED BY <1>11, <2>1, <2>2, Zenon DEF execute_tasks, tps, susp, pool, TypeOK, IInv
<1>12. ASSUME NEW p \in Threads, execute_next(p) PROVE TypeOK'
    BY <1>12 DEF execute_next, ThreadGoto, Pop, susp, pool, loop, TypeOK, IInv, ThreadStates
<1>13. ASSUME NEW p \in Threads, execute_return(p) PROVE TypeOK'
    <2>1. running \in Work
        BY <1>13, Zenon DEF execute_return, TypeOK, LockInv, IInv
    <2>2. done' \in Seq(Work)
        BY <1>13, <2>1 DEF execute_return, Return, TypeOK, IInv
    <2>3. remaining[p] \in Nat /\ remaining[p] >= 1
        BY <1>13, Zenon DEF execute_return, TypeOK, LoopInv, IInv
    <2>4. remaining' \in [Threads -> Nat]
        BY <1>13, <2>3 DEF execute_return, TypeOK, IInv
    <2>5. requeue' \in [Threads -> BOOLEAN]
        BY <1>13, Zenon DEF execute_return, TypeOK, IInv
    <2>6. tpc' \in [Threads -> ThreadStates] /\ lock' \in Threads \union {None}
        BY <1>13, Zenon DEF execute_return, ThreadGoto, TypeOK, IInv, ThreadStates
    <2> QED BY <1>13, <2>2, <2>4, <2>6, Zenon DEF execute_return, Return, susp, pool, TypeOK, IInv
<1>14. ASSUME NEW p \in Threads, execute_end(p) PROVE TypeOK'
    <2>1. poolq' \in [Threads -> Seq(PoolWork)] /\ shutting_down' = shutting_down /\ refused' \in BOOLEAN
        BY <1>14, PoolPushed, SMTT(30) DEF execute_end, pool, TypeOK, IInv, PoolWork
    <2> QED BY <1>14, <2>1, Zenon DEF execute_end, ThreadGoto, tps, susp, loop, TypeOK, IInv, ThreadStates
<1>15. ASSUME NEW p \in Threads, sync_task(p) PROVE TypeOK'
    BY <1>15, Zenon DEF sync_task, tps, susp, pool, loop, TypeOK, IInv
<1>16. ASSUME NEW p \in Threads, suspend_task(p) PROVE TypeOK'
    <2>1. queue' \in Seq(Work)
        BY <1>16 DEF suspend_task, TypeOK, IInv, Work
    <2>2. crossed' \in BOOLEAN
        BY <1>16, Zenon DEF suspend_task
    <2> QED BY <1>16, <2>1, <2>2, Zenon DEF suspend_task, pool, loop, TypeOK, IInv
<1>17. ASSUME NEW p \in Threads, suspend_task_failed(p) PROVE TypeOK'
    BY <1>17, Zenon DEF suspend_task_failed, tps, susp, pool, loop, TypeOK, LoopInv, IInv
<1>18. ASSUME NEW p \in Threads, wait_direct(p) PROVE TypeOK'
    BY <1>18 DEF wait_direct, ThreadGoto, susp, pool, loop, TypeOK, JobInv, IInv, ThreadStates
<1>19. ASSUME NEW p \in Threads, direct_return(p) PROVE TypeOK'
    BY <1>19 DEF direct_return, TypeOK, LockInv, IInv, ThreadGoto, ThreadStates, susp, pool, loop
<1>20. ASSUME NEW p \in Threads, wait_push(p) PROVE TypeOK'
    BY <1>20 DEF wait_push, ThreadGoto, susp, pool, loop, TypeOK, JobInv, IInv, Work, ThreadStates
<1>21. ASSUME NEW p \in Threads, wait_push_failed(p) PROVE TypeOK'
    BY <1>21, Zenon DEF wait_push_failed, ThreadGoto, tps, susp, pool, loop, TypeOK, IInv, ThreadStates
<1>22. ASSUME NEW p \in Threads, wait_push_empty(p) PROVE TypeOK'
    <2>1. /\ tpc' \in [Threads -> ThreadStates] /\ lock' \in Threads \union {None}
          /\ UNCHANGED <<suspended, suspends, crossed>> /\ paused' \in BOOLEAN
        BY <1>22, WaitLoops, Zenon DEF wait_push_empty, IInv
    <2>2. queue' \in Seq(Work)
        BY <1>22 DEF wait_push_empty, TypeOK, IInv, Work
    <2> QED BY <1>22, <2>1, <2>2, Zenon DEF wait_push_empty, pool, loop, TypeOK, IInv
<1>23. ASSUME NEW p \in Threads, wait_execute(p) PROVE TypeOK'
    BY <1>23 DEF wait_execute, ThreadGoto, Pop, susp, pool, loop, TypeOK, IInv, ThreadStates
<1>24. ASSUME NEW p \in Threads, wait_execute_empty(p) PROVE TypeOK'
    <2>1. /\ tpc' \in [Threads -> ThreadStates] /\ lock' \in Threads \union {None}
          /\ UNCHANGED <<suspended, suspends, crossed>> /\ paused' \in BOOLEAN
        BY <1>24, WaitLoops, Zenon DEF wait_execute_empty, IInv
    <2> QED BY <1>24, <2>1, Zenon DEF wait_execute_empty, tps, pool, loop, TypeOK, IInv
<1>25. ASSUME NEW p \in Threads, wait_return(p) PROVE TypeOK'
    <2>1. running \in Work
        BY <1>25, Zenon DEF wait_return, TypeOK, LockInv, IInv
    <2>2. done' \in Seq(Work)
        BY <1>25, <2>1 DEF wait_return, Return, TypeOK, IInv
    <2>3. /\ tpc' \in [Threads -> ThreadStates] /\ lock' \in Threads \union {None}
          /\ UNCHANGED <<suspended, suspends, crossed>> /\ paused' \in BOOLEAN
        BY <1>25, WaitLoops, Zenon DEF wait_return, IInv
    <2> QED BY <1>25, <2>2, <2>3, Zenon DEF wait_return, Return, pool, loop, TypeOK, IInv
<1>26. ASSUME NEW p \in Threads, wait_woken(p) PROVE TypeOK'
    <2>1. tpc' \in [Threads -> ThreadStates] /\ lock' \in Threads \union {None}
        BY <1>26, Zenon DEF wait_woken, ThreadGoto, TypeOK, IInv, ThreadStates
    <2> QED BY <1>26, <2>1, Zenon DEF wait_woken, tps, susp, pool, loop, TypeOK, IInv
<1>27. ASSUME NEW c \in Clients, Call(c) \/ Continue(c) PROVE TypeOK'
    BY <1>27, <1>1, <1>2, <1>3, <1>4, <1>5, <1>6, <1>7, <1>8, Zenon DEF Call, Continue
<1>28. ASSUME NEW p \in Threads, ThreadStep(p) PROVE TypeOK'
    BY <1>28, <1>10, <1>11, <1>12, <1>13, <1>14, <1>15, <1>16, <1>17, <1>18, <1>19, <1>20, <1>21,
       <1>22, <1>23, <1>24, <1>25, <1>26, Zenon DEF ThreadStep
<1> QED BY <1>u, <1>9, <1>27, <1>28, Zenon DEF Next

\* Tasks are executed under the lock of ser.
LEMMA LockStep == IInv /\ [Next]_vars => LockInv'
<1> SUFFICES ASSUME IInv, [Next]_vars PROVE LockInv'
    OBVIOUS
<1> USE WorkAssumption
<1>u. CASE UNCHANGED vars
    BY <1>u, Zenon DEF vars, tps, LockInv, IInv
<1>1. ASSUME NEW c \in Clients, NEW t \in Tasks, NEW wait \in BOOLEAN, ast_taskprocessor_push(c, t, wait)
      PROVE  LockInv'
    BY <1>1, Zenon DEF ast_taskprocessor_push, PushFrom, LockInv, IInv
<1>2. ASSUME NEW c \in Clients, serializer_task_pushed(c) PROVE LockInv'
    BY <1>2, Zenon DEF serializer_task_pushed, tps, LockInv, IInv
<1>3. ASSUME NEW c \in Clients, NEW w \in Jobs, push_job(c, w) PROVE LockInv'
    BY <1>3, Zenon DEF push_job, tps, LockInv, IInv
<1>4. ASSUME NEW c \in Clients, serializer_suspend(c) PROVE LockInv'
    BY <1>4, Zenon DEF serializer_suspend, tps, LockInv, IInv
<1>5. ASSUME NEW c \in Clients, push_suspend_task(c) PROVE LockInv'
    BY <1>5, Zenon DEF push_suspend_task, PushFrom, LockInv, IInv
<1>6. ASSUME NEW c \in Clients, suspend_push_failed(c) PROVE LockInv'
    BY <1>6, Zenon DEF suspend_push_failed, tps, LockInv, IInv
<1>7. ASSUME NEW c \in Clients, suspend_failed(c) PROVE LockInv'
    BY <1>7, Zenon DEF suspend_failed, tps, LockInv, IInv
<1>8. ASSUME NEW c \in Clients, serializer_unsuspend(c) PROVE LockInv'
    BY <1>8, Zenon DEF serializer_unsuspend, tps, LockInv, IInv
<1>9. ASSUME ast_taskpool_shutdown PROVE LockInv'
    BY <1>9, Zenon DEF ast_taskpool_shutdown, tps, LockInv, IInv
<1>10. ASSUME NEW p \in Threads, take(p) PROVE LockInv'
    BY <1>10, SMTT(30) DEF take, ThreadGoto, ClientGoto, tps, LockInv, JobInv, TypeOK, IInv, Work
<1>11. ASSUME NEW p \in Threads, execute_tasks(p) PROVE LockInv'
    BY <1>11 DEF execute_tasks, ThreadGoto, ClientGoto, tps, LockInv, TypeOK, IInv
<1>12. ASSUME NEW p \in Threads, execute_next(p) PROVE LockInv'
    BY <1>12 DEF execute_next, ThreadGoto, Pop, LockInv, TypeOK, IInv, Work
<1>13. ASSUME NEW p \in Threads, execute_return(p) PROVE LockInv'
    <2>1. /\ lock = p /\ running # None
          /\ \A q \in Threads : q # p =>
                 tpc[q] \notin {"loopE", "runE", "direct", "pushW", "execW", "runW"}
        BY <1>13, Zenon DEF execute_return, LockInv, IInv
    <2>2. running' = None /\ executing' = FALSE
        BY <1>13, Zenon DEF execute_return, Return
    <2>3. /\ \A q \in Threads : q # p => tpc'[q] = tpc[q]
          /\ \/ tpc'[p] = "endE" /\ lock' = None
             \/ tpc'[p] = "loopE" /\ lock' = p
        BY <1>13, <2>1 DEF execute_return, ThreadGoto, TypeOK, IInv
    <2> QED BY <2>1, <2>2, <2>3, Zenon DEF LockInv
<1>14. ASSUME NEW p \in Threads, execute_end(p) PROVE LockInv'
    BY <1>14 DEF execute_end, ThreadGoto, tps, LockInv, IInv
<1>15. ASSUME NEW p \in Threads, sync_task(p) PROVE LockInv'
    BY <1>15, Zenon DEF sync_task, tps, LockInv, IInv
<1>16. ASSUME NEW p \in Threads, suspend_task(p) PROVE LockInv'
    BY <1>16, Zenon DEF suspend_task, LockInv, IInv
<1>17. ASSUME NEW p \in Threads, suspend_task_failed(p) PROVE LockInv'
    BY <1>17, Zenon DEF suspend_task_failed, tps, LockInv, IInv
<1>18. ASSUME NEW p \in Threads, wait_direct(p) PROVE LockInv'
    BY <1>18 DEF wait_direct, ThreadGoto, LockInv, JobInv, TypeOK, IInv
<1>19. ASSUME NEW p \in Threads, direct_return(p) PROVE LockInv'
    BY <1>19 DEF direct_return, ThreadGoto, LockInv, TypeOK, IInv
<1>20. ASSUME NEW p \in Threads, wait_push(p) PROVE LockInv'
    BY <1>20 DEF wait_push, ThreadGoto, LockInv, TypeOK, IInv
<1>21. ASSUME NEW p \in Threads, wait_push_failed(p) PROVE LockInv'
    BY <1>21 DEF wait_push_failed, ThreadGoto, tps, LockInv, IInv
<1>22. ASSUME NEW p \in Threads, wait_push_empty(p) PROVE LockInv'
    <2>1. /\ lock = p
          /\ \A q \in Threads : q # p =>
                 tpc[q] \notin {"loopE", "runE", "direct", "pushW", "execW", "runW"}
        BY <1>22, Zenon DEF wait_push_empty, LockInv, IInv
    <2>2. /\ \A q \in Threads : q # p => tpc'[q] = tpc[q]
          /\ \/ tpc'[p] \in {"idle", "asleep"} /\ lock' = None
             \/ tpc'[p] = "execW" /\ lock' = p
        BY <1>22, WaitLoops, Zenon DEF wait_push_empty, IInv
    <2>3. running' = running /\ executing' = executing
        BY <1>22, Zenon DEF wait_push_empty
    <2> QED BY <1>22, <2>2 DEF wait_push_empty, LockInv, IInv
<1>23. ASSUME NEW p \in Threads, wait_execute(p) PROVE LockInv'
    BY <1>23 DEF wait_execute, ThreadGoto, ClientGoto, Pop, loop, LockInv, TypeOK, IInv, Work
<1>24. ASSUME NEW p \in Threads, wait_execute_empty(p) PROVE LockInv'
    <2>1. /\ lock = p
          /\ \A q \in Threads : q # p =>
                 tpc[q] \notin {"loopE", "runE", "direct", "pushW", "execW", "runW"}
        BY <1>24, Zenon DEF wait_execute_empty, LockInv, IInv
    <2>2. /\ \A q \in Threads : q # p => tpc'[q] = tpc[q]
          /\ \/ tpc'[p] \in {"idle", "asleep"} /\ lock' = None
             \/ tpc'[p] = "execW" /\ lock' = p
        BY <1>24, WaitLoops, Zenon DEF wait_execute_empty, IInv
    <2>3. running' = running /\ executing' = executing
        BY <1>24, Zenon DEF wait_execute_empty, tps
    <2> QED BY <1>24, <2>1, <2>2, <2>3, Zenon DEF wait_execute_empty, LockInv, IInv
<1>25. ASSUME NEW p \in Threads, wait_return(p) PROVE LockInv'
    <2>1. /\ lock = p
          /\ \A q \in Threads : q # p =>
                 tpc[q] \notin {"loopE", "runE", "direct", "pushW", "execW", "runW"}
        BY <1>25, Zenon DEF wait_return, LockInv, IInv
    <2>2. running' = None /\ executing' = FALSE
        BY <1>25, Zenon DEF wait_return, Return
    <2>3. /\ \A q \in Threads : q # p => tpc'[q] = tpc[q]
          /\ \/ tpc'[p] \in {"idle", "asleep"} /\ lock' = None
             \/ tpc'[p] = "execW" /\ lock' = p
        BY <1>25, WaitLoops, Zenon DEF wait_return, IInv
    <2> QED BY <2>1, <2>2, <2>3, Zenon DEF LockInv
<1>26. ASSUME NEW p \in Threads, wait_woken(p) PROVE LockInv'
    BY <1>26 DEF wait_woken, ThreadGoto, tps, LockInv, TypeOK, IInv
<1>27. ASSUME NEW c \in Clients, Call(c) \/ Continue(c) PROVE LockInv'
    BY <1>27, <1>1, <1>2, <1>3, <1>4, <1>5, <1>6, <1>7, <1>8, Zenon DEF Call, Continue
<1>28. ASSUME NEW p \in Threads, ThreadStep(p) PROVE LockInv'
    BY <1>28, <1>10, <1>11, <1>12, <1>13, <1>14, <1>15, <1>16, <1>17, <1>18, <1>19, <1>20, <1>21,
       <1>22, <1>23, <1>24, <1>25, <1>26, Zenon DEF ThreadStep
<1> QED BY <1>u, <1>9, <1>27, <1>28, Zenon DEF Next

\* A push makes the queue longer.
LEMMA LenAppend ==
    ASSUME TypeOK, NEW x \in Work, queue' = Append(queue, x)
    PROVE  queue' # <<>> /\ Len(queue') = Len(queue) + 1 /\ Len(queue) \in Nat
BY DEF TypeOK

\* Clients and the suspend task only append while execute_tasks holds the lock.
LEMMA LoopStep == IInv /\ [Next]_vars => LoopInv'
<1> SUFFICES ASSUME IInv, [Next]_vars PROVE LoopInv'
    OBVIOUS
<1> USE WorkAssumption
<1>u. CASE UNCHANGED vars
    BY <1>u, Zenon DEF vars, tps, loop, LoopInv, IInv
<1>1. ASSUME NEW c \in Clients, NEW t \in Tasks, NEW wait \in BOOLEAN, ast_taskprocessor_push(c, t, wait)
      PROVE  LoopInv'
    BY <1>1, LenAppend, SMTT(30) DEF ast_taskprocessor_push, PushFrom, Work, IInv, TypeOK, loop, LoopInv
<1>2. ASSUME NEW c \in Clients, serializer_task_pushed(c) PROVE LoopInv'
    BY <1>2, Zenon DEF serializer_task_pushed, tps, loop, LoopInv, IInv
<1>3. ASSUME NEW c \in Clients, NEW w \in Jobs, push_job(c, w) PROVE LoopInv'
    BY <1>3, Zenon DEF push_job, tps, loop, LoopInv, IInv
<1>4. ASSUME NEW c \in Clients, serializer_suspend(c) PROVE LoopInv'
    BY <1>4, Zenon DEF serializer_suspend, LoopInv, LockInv, IInv
<1>5. ASSUME NEW c \in Clients, push_suspend_task(c) PROVE LoopInv'
    BY <1>5, LenAppend, SMTT(30) DEF push_suspend_task, PushFrom, Work, IInv, TypeOK, loop, LoopInv
<1>6. ASSUME NEW c \in Clients, suspend_push_failed(c) PROVE LoopInv'
    BY <1>6, Zenon DEF suspend_push_failed, tps, loop, LoopInv, IInv
<1>7. ASSUME NEW c \in Clients, suspend_failed(c) PROVE LoopInv'
    BY <1>7, Zenon DEF suspend_failed, LoopInv, LockInv, IInv
<1>8. ASSUME NEW c \in Clients, serializer_unsuspend(c) PROVE LoopInv'
    BY <1>8, Zenon DEF serializer_unsuspend, LoopInv, LockInv, IInv
<1>9. ASSUME ast_taskpool_shutdown PROVE LoopInv'
    BY <1>9, Zenon DEF ast_taskpool_shutdown, tps, loop, LoopInv, IInv
<1>10. ASSUME NEW p \in Threads, take(p) PROVE LoopInv'
    BY <1>10 DEF take, ThreadGoto, tps, loop, LoopInv, TypeOK, IInv
<1>11. ASSUME NEW p \in Threads, execute_tasks(p) PROVE LoopInv'
    BY <1>11 DEF execute_tasks, ThreadGoto, tps, LoopInv, TypeOK, IInv
<1>12. ASSUME NEW p \in Threads, execute_next(p) PROVE LoopInv'
    BY <1>12 DEF execute_next, ThreadGoto, ClientGoto, Pop, loop, LoopInv, LockInv, TypeOK, IInv
<1>13. ASSUME NEW p \in Threads, execute_return(p) PROVE LoopInv'
    BY <1>13, SMTT(30) DEF execute_return, ThreadGoto, Return, susp, pool, LoopInv, TypeOK, IInv
<1>14. ASSUME NEW p \in Threads, execute_end(p) PROVE LoopInv'
    BY <1>14 DEF execute_end, ThreadGoto, tps, loop, LoopInv, IInv
<1>15. ASSUME NEW p \in Threads, sync_task(p) PROVE LoopInv'
    BY <1>15, Zenon DEF sync_task, tps, loop, LoopInv, IInv
<1>16. ASSUME NEW p \in Threads, suspend_task(p) PROVE LoopInv'
    BY <1>16, SMTT(30) DEF suspend_task, loop, LoopInv, LockInv, TypeOK, IInv, Work
<1>17. ASSUME NEW p \in Threads, suspend_task_failed(p) PROVE LoopInv'
    BY <1>17, Zenon DEF suspend_task_failed, tps, loop, LoopInv, IInv
<1>18. ASSUME NEW p \in Threads, wait_direct(p) PROVE LoopInv'
    BY <1>18 DEF wait_direct, ThreadGoto, LoopInv, LockInv, IInv
<1>19. ASSUME NEW p \in Threads, direct_return(p) PROVE LoopInv'
    BY <1>19 DEF direct_return, ThreadGoto, LoopInv, LockInv, IInv
<1>20. ASSUME NEW p \in Threads, wait_push(p) PROVE LoopInv'
    <2>1. /\ \A q \in Threads : tpc[q] \notin {"loopE", "runE"}
          /\ \A q \in Threads : tpc'[q] \in {"loopE", "runE"} => tpc'[q] = tpc[q]
        BY <1>20, Goes, WorkAssumption, Zenon DEF wait_push, LockInv, IInv
    <2>2. queue' # <<>>
        BY <1>20, LenAppend, Zenon DEF wait_push, JobInv, Work, IInv
    <2> QED BY <2>1, <2>2, Zenon DEF LoopInv
<1>21. ASSUME NEW p \in Threads, wait_push_failed(p) PROVE LoopInv'
    BY <1>21 DEF wait_push_failed, ThreadGoto, LoopInv, LockInv, IInv
<1>22. ASSUME NEW p \in Threads, wait_push_empty(p) PROVE LoopInv'
    BY <1>22 DEF wait_push_empty, ThreadGoto, WaitLoop, loop, LoopInv, LockInv, TypeOK, IInv, Work
<1>23. ASSUME NEW p \in Threads, wait_execute(p) PROVE LoopInv'
    BY <1>23 DEF wait_execute, ThreadGoto, LoopInv, LockInv, IInv
<1>24. ASSUME NEW p \in Threads, wait_execute_empty(p) PROVE LoopInv'
    BY <1>24 DEF wait_execute_empty, ThreadGoto, WaitLoop, LoopInv, LockInv, TypeOK, IInv
<1>25. ASSUME NEW p \in Threads, wait_return(p) PROVE LoopInv'
    BY <1>25 DEF wait_return, ThreadGoto, Return, WaitLoop, LoopInv, LockInv, TypeOK, IInv
<1>26. ASSUME NEW p \in Threads, wait_woken(p) PROVE LoopInv'
    BY <1>26 DEF wait_woken, ThreadGoto, tps, LoopInv, LockInv, TypeOK, IInv
<1>27. ASSUME NEW c \in Clients, Call(c) \/ Continue(c) PROVE LoopInv'
    BY <1>27, <1>1, <1>2, <1>3, <1>4, <1>5, <1>6, <1>7, <1>8, Zenon DEF Call, Continue
<1>28. ASSUME NEW p \in Threads, ThreadStep(p) PROVE LoopInv'
    BY <1>28, <1>10, <1>11, <1>12, <1>13, <1>14, <1>15, <1>16, <1>17, <1>18, <1>19, <1>20, <1>21,
       <1>22, <1>23, <1>24, <1>25, <1>26, Zenon DEF ThreadStep
<1> QED BY <1>u, <1>9, <1>27, <1>28, Zenon DEF Next

\* One suspension at a time, and it fails only while it is under way.
LEMMA SuspStep == IInv /\ [Next]_vars => SuspInv'
<1> SUFFICES ASSUME IInv, [Next]_vars PROVE SuspInv'
    OBVIOUS
<1> USE WorkAssumption
<1>u. CASE UNCHANGED vars
    BY <1>u, Zenon DEF vars, tps, susp, SuspInv, Suspender, IInv
<1>1. ASSUME NEW c \in Clients, NEW t \in Tasks, NEW wait \in BOOLEAN, ast_taskprocessor_push(c, t, wait)
      PROVE  SuspInv'
    BY <1>1 DEF ast_taskprocessor_push, ClientGoto, CanCall, PushFrom, susp, SuspInv, Suspender, IInv
<1>2. ASSUME NEW c \in Clients, serializer_task_pushed(c) PROVE SuspInv'
    BY <1>2 DEF serializer_task_pushed, ClientGoto, tps, susp, SuspInv, Suspender, IInv
<1>3. ASSUME NEW c \in Clients, NEW w \in Jobs, push_job(c, w) PROVE SuspInv'
    BY <1>3, Zenon DEF push_job, tps, susp, SuspInv, Suspender, IInv
<1>4. ASSUME NEW c \in Clients, serializer_suspend(c) PROVE SuspInv'
    BY <1>4 DEF serializer_suspend, ClientGoto, CanCall, SuspInv, Suspender, TypeOK, IInv
<1>5. ASSUME NEW c \in Clients, push_suspend_task(c) PROVE SuspInv'
    BY <1>5, Zenon DEF push_suspend_task, ClientGoto, PushFrom, susp, SuspInv, Suspender, TypeOK, IInv
<1>6. ASSUME NEW c \in Clients, suspend_push_failed(c) PROVE SuspInv'
    BY <1>6 DEF suspend_push_failed, ClientGoto, susp, SuspInv, Suspender, TypeOK, IInv
<1>7. ASSUME NEW c \in Clients, suspend_failed(c) PROVE SuspInv'
    BY <1>7, Zenon DEF suspend_failed, SuspInv, Suspender, TypeOK, IInv
<1>8. ASSUME NEW c \in Clients, serializer_unsuspend(c) PROVE SuspInv'
    BY <1>8, Zenon DEF serializer_unsuspend, SuspInv, Suspender, LockInv, IInv
<1>9. ASSUME ast_taskpool_shutdown PROVE SuspInv'
    BY <1>9, Zenon DEF ast_taskpool_shutdown, tps, susp, SuspInv, Suspender, IInv
<1>10. ASSUME NEW p \in Threads, take(p) PROVE SuspInv'
    BY <1>10 DEF take, tps, susp, SuspInv, Suspender, TypeOK, IInv
<1>11. ASSUME NEW p \in Threads, execute_tasks(p) PROVE SuspInv'
    BY <1>11, Zenon DEF execute_tasks, tps, susp, pool, SuspInv, Suspender, IInv
<1>12. ASSUME NEW p \in Threads, execute_next(p) PROVE SuspInv'
    BY <1>12, Zenon DEF execute_next, ThreadGoto, ClientGoto, Pop, susp, pool, SuspInv, Suspender, LockInv,
       IInv
<1>13. ASSUME NEW p \in Threads, execute_return(p) PROVE SuspInv'
    BY <1>13, Zenon DEF execute_return, Return, susp, SuspInv, Suspender, IInv
<1>14. ASSUME NEW p \in Threads, execute_end(p) PROVE SuspInv'
    BY <1>14, Zenon DEF execute_end, tps, susp, SuspInv, Suspender, IInv
<1>15. ASSUME NEW p \in Threads, sync_task(p) PROVE SuspInv'
    BY <1>15 DEF sync_task, susp, SuspInv, Suspender, JobInv, TypeOK, IInv
<1>16. ASSUME NEW p \in Threads, suspend_task(p) PROVE SuspInv'
    BY <1>16, Zenon DEF suspend_task, SuspInv, Suspender, IInv
<1>17. ASSUME NEW p \in Threads, suspend_task_failed(p) PROVE SuspInv'
    BY <1>17 DEF suspend_task_failed, susp, SuspInv, Suspender, IInv
<1>18. ASSUME NEW p \in Threads, wait_direct(p) PROVE SuspInv'
    BY <1>18 DEF wait_direct, susp, SuspInv, Suspender, LockInv, IInv
<1>19. ASSUME NEW p \in Threads, direct_return(p) PROVE SuspInv'
    <2>1. running \in Jobs /\ running' = None /\ suspended' = suspended /\ cpc' = cpc
        BY <1>19, Zenon DEF direct_return, susp, JobInv, IInv
    <2> QED BY <1>19, <2>1 DEF direct_return, SuspInv, Suspender, IInv
<1>20. ASSUME NEW p \in Threads, wait_push(p) PROVE SuspInv'
    BY <1>20, Zenon DEF wait_push, susp, SuspInv, Suspender, IInv
<1>21. ASSUME NEW p \in Threads, wait_push_failed(p) PROVE SuspInv'
    BY <1>21 DEF wait_push_failed, tps, susp, SuspInv, Suspender, IInv
<1>22. ASSUME NEW p \in Threads, wait_push_empty(p) PROVE SuspInv'
    BY <1>22, WaitLoops, Zenon DEF wait_push_empty, SuspInv, Suspender, IInv
<1>23. ASSUME NEW p \in Threads, wait_execute(p) PROVE SuspInv'
    BY <1>23, Zenon DEF wait_execute, susp, SuspInv, Suspender, LockInv, IInv
<1>24. ASSUME NEW p \in Threads, wait_execute_empty(p) PROVE SuspInv'
    BY <1>24, WaitLoops, Zenon DEF wait_execute_empty, tps, SuspInv, Suspender, IInv
<1>25. ASSUME NEW p \in Threads, wait_return(p) PROVE SuspInv'
    BY <1>25, WaitLoops, Zenon DEF wait_return, Return, SuspInv, Suspender, IInv
<1>26. ASSUME NEW p \in Threads, wait_woken(p) PROVE SuspInv'
    BY <1>26, Zenon DEF wait_woken, tps, susp, SuspInv, Suspender, IInv
<1>27. ASSUME NEW c \in Clients, Call(c) \/ Continue(c) PROVE SuspInv'
    BY <1>27, <1>1, <1>2, <1>3, <1>4, <1>5, <1>6, <1>7, <1>8, Zenon DEF Call, Continue
<1>28. ASSUME NEW p \in Threads, ThreadStep(p) PROVE SuspInv'
    BY <1>28, <1>10, <1>11, <1>12, <1>13, <1>14, <1>15, <1>16, <1>17, <1>18, <1>19, <1>20, <1>21,
       <1>22, <1>23, <1>24, <1>25, <1>26, Zenon DEF ThreadStep
<1> QED BY <1>u, <1>9, <1>27, <1>28, Zenon DEF Next

-----------------------------------------------------------------------------
(* Jobs                                                                    *)

\* What a queue holds after a push and after a pop.
LEMMA ElemsAppend ==
    ASSUME NEW S, NEW s \in Seq(S), NEW x \in S
    PROVE  Elems(Append(s, x)) = Elems(s) \union {x}
<1>1. DOMAIN Append(s, x) = DOMAIN s \union {Len(s) + 1}
    OBVIOUS
<1>2. \A i \in DOMAIN s : Append(s, x)[i] = s[i]
    OBVIOUS
<1>3. Append(s, x)[Len(s) + 1] = x
    OBVIOUS
<1> QED BY <1>3 DEF Elems

\* The head of a sequence and the rest are what it holds.
LEMMA ElemsPop ==
    ASSUME NEW S, NEW s \in Seq(S), s # <<>>
    PROVE  /\ Head(s) \in Elems(s) /\ Head(s) \in S /\ Tail(s) \in Seq(S)
           /\ \A x : x \in Elems(s) <=> x = Head(s) \/ x \in Elems(Tail(s))
<1>1. DOMAIN s = 1..Len(s) /\ Len(s) \in Nat /\ Len(s) >= 1 /\ Head(s) = s[1] /\ s[1] \in S /\ Tail(s) \in Seq(S)
    OBVIOUS
<1>2. DOMAIN Tail(s) = 1..(Len(s) - 1) /\ \A i \in 1..(Len(s) - 1) : Tail(s)[i] = s[i + 1]
    OBVIOUS
<1>3. ASSUME NEW x, x \in Elems(s) PROVE x = Head(s) \/ x \in Elems(Tail(s))
    <2>1. PICK i \in 1..Len(s) : x = s[i]
        BY <1>3 DEF Elems
    <2>2. CASE i = 1
        BY <2>1, <2>2
    <2>3. CASE i # 1
        <3>1. i - 1 \in 1..(Len(s) - 1) /\ Tail(s)[i - 1] = s[i]
            BY <2>3
        <3> QED BY <1>2, <2>1, <3>1, Zenon DEF Elems
    <2> QED BY <2>2, <2>3
<1>4. ASSUME NEW x \in Elems(Tail(s)) PROVE x \in Elems(s)
    BY DEF Elems
<1>5. Head(s) \in Elems(s)
    BY DEF Elems
<1> QED BY <1>3, <1>4, <1>5

\* What is queued after a push.
LEMMA QueueAppend ==
    ASSUME TypeOK, NEW x \in Work, queue' = Append(queue, x)
    PROVE  Elems(queue') = Elems(queue) \union {x}
<1>1. queue \in Seq(Work)
    BY Zenon DEF TypeOK
<1> QED BY <1>1, ElemsAppend

\* What Pop takes was queued, and the rest stays.
LEMMA QueuePop ==
    ASSUME TypeOK, Pop
    PROVE  /\ running' \in Elems(queue) /\ running' \in Work
           /\ \A x : x \in Elems(queue) <=> x = running' \/ x \in Elems(queue')
<1>1. queue \in Seq(Work) /\ queue # <<>> /\ running' = Head(queue) /\ queue' = Tail(queue)
    BY Zenon DEF TypeOK, Pop
<1> QED BY <1>1, ElemsPop, Zenon

\* A step that brings no task in: what is queued, executed, awaited and pooled
\* was so before.
JobsKept ==
    /\ submitted' = submitted
    /\ \A w \in Tasks \union Jobs : w \in Elems(queue') \/ running' = w => w \in Elems(queue) \/ running = w
    /\ \A a \in Clients \union Threads : awaits'[a] \in Tasks \union Jobs => awaits'[a] = awaits[a]
    /\ \A p \in Threads : awaits'[p] \in {awaits[p], None}
    /\ \A p \in Threads : \A i \in DOMAIN poolq'[p] : poolq'[p][i] \in Jobs =>
        i \in DOMAIN poolq[p] /\ poolq'[p][i] = poolq[p][i]
    /\ \A p \in Threads : tpc'[p] = "lockW" => tpc[p] = "lockW" /\ awaits'[p] = awaits[p]
    /\ \A p \in Threads : tpc'[p] = "direct" => tpc[p] = "direct" /\ running' = running

\* Such a step preserves what is known of jobs.
LEMMA KeptJobs ==
    ASSUME IInv, JobsKept
    PROVE  JobInv'
<1> USE DEF IInv, JobInv, JobsKept
<1>1. \A w \in Tasks \union Jobs :
        /\ w \in Elems(queue') => w \in submitted'
        /\ running' = w => w \in submitted'
        /\ \A a \in Clients \union Threads : awaits'[a] = w => w \in submitted'
    OBVIOUS
<1>2. \A p \in Threads : awaits'[p] \in Jobs \union {None}
    OBVIOUS
<1>3. ASSUME NEW p \in Threads, NEW i \in DOMAIN poolq'[p], poolq'[p][i] \in Jobs
      PROVE  /\ poolq'[p][i] \in submitted'
             /\ poolq'[p][i] \notin Elems(queue') /\ running' # poolq'[p][i]
             /\ \A a \in Clients \union Threads : awaits'[a] # poolq'[p][i]
             /\ \A q \in Threads : \A j \in DOMAIN poolq'[q] : poolq'[p][i] = poolq'[q][j] => p = q /\ i = j
    BY <1>3
<1>4. ASSUME NEW p \in Threads, tpc'[p] = "lockW"
      PROVE  /\ awaits'[p] \in Jobs
             /\ awaits'[p] \notin Elems(queue') /\ running' # awaits'[p]
             /\ \A a \in Clients \union Threads : awaits'[a] = awaits'[p] => a = p
    BY <1>4
<1>5. \A p \in Threads : tpc'[p] = "direct" => running' \in Jobs
    OBVIOUS
<1> HIDE DEF IInv, JobsKept
<1> QED BY <1>1, <1>2, <1>3, <1>4, <1>5, Zenon

\* Queueing execute_tasks in the pool adds no job.
LEMMA ExecutePushed ==
    ASSUME TypeOK, PoolPush(Execute) \/ UNCHANGED poolq
    PROVE  \A q \in Threads : \A i \in DOMAIN poolq'[q] : poolq'[q][i] \in Jobs =>
                i \in DOMAIN poolq[q] /\ poolq'[q][i] = poolq[q][i]
<1>1. CASE PoolPush(Execute) /\ poolq' # poolq
    <2>1. PICK q \in Threads :
                /\ Len(poolq'[q]) = Len(poolq[q]) + 1
                /\ poolq'[q][Len(poolq[q]) + 1] = Execute
                /\ \A i \in 1..Len(poolq[q]) : poolq'[q][i] = poolq[q][i]
                /\ \A p \in Threads \ {q} : poolq'[p] = poolq[p]
        BY <1>1, PoolPushed, Zenon DEF PoolWork
    <2>2. poolq'[q] \in Seq(PoolWork) /\ poolq[q] \in Seq(PoolWork)
        BY PoolPushed, Zenon DEF PoolWork, TypeOK
    <2>3. \A i \in DOMAIN poolq'[q] : poolq'[q][i] \in Jobs => i \in DOMAIN poolq[q] /\ poolq'[q][i] = poolq[q][i]
        BY <2>1, <2>2, WorkAssumption, SMTT(30)
    <2> QED BY <2>1, <2>3, Zenon
<1>2. CASE UNCHANGED poolq
    BY <1>2, Zenon
<1> QED BY <1>1, <1>2, Zenon

\* A pool push adds its own entry and no other.
LEMMA WorkPushed ==
    ASSUME TypeOK, NEW w \in PoolWork, PoolPush(w)
    PROVE  /\ \A q \in Threads : \A i \in DOMAIN poolq'[q] : poolq'[q][i] # w =>
                i \in DOMAIN poolq[q] /\ poolq'[q][i] = poolq[q][i]
           /\ (\A q \in Threads : \A i \in DOMAIN poolq[q] : poolq[q][i] # w) =>
                \A q, r \in Threads : \A i \in DOMAIN poolq'[q], j \in DOMAIN poolq'[r] :
                    poolq'[q][i] = w /\ poolq'[r][j] = w => q = r /\ i = j
<1>1. CASE poolq' # poolq
    <2>1. PICK q \in Threads :
                /\ Len(poolq'[q]) = Len(poolq[q]) + 1
                /\ poolq'[q][Len(poolq[q]) + 1] = w
                /\ \A i \in 1..Len(poolq[q]) : poolq'[q][i] = poolq[q][i]
                /\ \A p \in Threads \ {q} : poolq'[p] = poolq[p]
        BY <1>1, PoolPushed, Zenon
    <2>2. poolq'[q] \in Seq(PoolWork) /\ poolq[q] \in Seq(PoolWork)
        BY PoolPushed, Zenon DEF TypeOK
    <2>3. \A i \in DOMAIN poolq'[q] : i = Len(poolq[q]) + 1 \/ (i \in DOMAIN poolq[q] /\ poolq'[q][i] = poolq[q][i])
        BY <2>1, <2>2, SMTT(30)
    <2> QED BY <2>1, <2>3
<1>2. CASE poolq' = poolq
    BY <1>2
<1> QED BY <1>1, <1>2, Zenon

\* A job enters the pool once, is taken by one thread, and enters the queue or is
\* called by that thread only.
LEMMA JobStep == IInv /\ [Next]_vars => JobInv'
<1> SUFFICES ASSUME IInv, [Next]_vars PROVE JobInv'
    OBVIOUS
<1> USE WorkAssumption
<1>u. CASE UNCHANGED vars
    <2>1. JobsKept
        BY <1>u, Zenon DEF vars, tps, pool, JobsKept
    <2> QED BY <2>1, KeptJobs, Zenon
<1>1. ASSUME NEW c \in Clients, NEW t \in Tasks, NEW wait \in BOOLEAN, ast_taskprocessor_push(c, t, wait)
      PROVE  JobInv'
    <2>1. Elems(queue') = Elems(queue) \union {t} /\ UNCHANGED <<running, poolq, tpc>>
        BY <1>1, QueueAppend, Zenon DEF ast_taskprocessor_push, PushFrom, pool, IInv, Work
    <2>2. /\ \A a \in Clients \union Threads : a # c => awaits'[a] = awaits[a]
          /\ awaits'[c] \in {None, t} /\ submitted' = submitted \union {t} /\ t \notin submitted
        BY <1>1, Zenon DEF ast_taskprocessor_push, TypeOK, IInv
    <2>a. \A v \in Tasks \union Jobs :
            /\ v \in Elems(queue') => v \in submitted'
            /\ running' = v => v \in submitted'
            /\ \A a \in Clients \union Threads : awaits'[a] = v => v \in submitted'
        BY <2>1, <2>2 DEF JobInv, IInv
    <2>b. \A q \in Threads : awaits'[q] \in Jobs \union {None}
        BY <2>2 DEF JobInv, IInv
    <2>c. ASSUME NEW q \in Threads, NEW i \in DOMAIN poolq'[q], poolq'[q][i] \in Jobs
          PROVE  /\ poolq'[q][i] \in submitted'
                 /\ poolq'[q][i] \notin Elems(queue') /\ running' # poolq'[q][i]
                 /\ \A a \in Clients \union Threads : awaits'[a] # poolq'[q][i]
                 /\ \A r \in Threads : \A j \in DOMAIN poolq'[r] : poolq'[q][i] = poolq'[r][j] => q = r /\ i = j
        BY <2>c, <2>1, <2>2 DEF JobInv, IInv
    <2>d. ASSUME NEW q \in Threads, tpc'[q] = "lockW"
          PROVE  /\ awaits'[q] \in Jobs
                 /\ awaits'[q] \notin Elems(queue') /\ running' # awaits'[q]
                 /\ \A a \in Clients \union Threads : awaits'[a] = awaits'[q] => a = q
        BY <2>d, <2>1, <2>2 DEF JobInv, IInv
    <2>e. \A q \in Threads : tpc'[q] = "direct" => running' \in Jobs
        BY <2>1, Zenon DEF JobInv, IInv
    <2> QED BY <2>a, <2>b, <2>c, <2>d, <2>e, Zenon DEF JobInv
<1>2. ASSUME NEW c \in Clients, serializer_task_pushed(c) PROVE JobInv'
    <2>1. JobsKept
        BY <1>2, ExecutePushed, Zenon DEF serializer_task_pushed, tps, IInv, JobsKept
    <2> QED BY <2>1, KeptJobs, Zenon
<1>3. ASSUME NEW c \in Clients, NEW w \in Jobs, push_job(c, w) PROVE JobInv'
    <2>1. UNCHANGED <<queue, running, tpc, awaits>> /\ submitted' = submitted \union {w} /\ w \notin submitted
        BY <1>3, Zenon DEF push_job, tps
    <2>2. \A q \in Threads : \A i \in DOMAIN poolq'[q] : poolq'[q][i] # w =>
            i \in DOMAIN poolq[q] /\ poolq'[q][i] = poolq[q][i]
        BY <1>3, WorkPushed DEF push_job, IInv, PoolWork
    <2>3. \A q, r \in Threads : \A i \in DOMAIN poolq'[q], j \in DOMAIN poolq'[r] :
            poolq'[q][i] = w /\ poolq'[r][j] = w => q = r /\ i = j
        BY <1>3, WorkPushed DEF push_job, IInv, JobInv, PoolWork
    <2>a. \A v \in Tasks \union Jobs :
            /\ v \in Elems(queue') => v \in submitted'
            /\ running' = v => v \in submitted'
            /\ \A a \in Clients \union Threads : awaits'[a] = v => v \in submitted'
        BY <2>1, Zenon DEF JobInv, IInv
    <2>b. \A q \in Threads : awaits'[q] \in Jobs \union {None}
        BY <2>1, Zenon DEF JobInv, IInv
    <2>c. ASSUME NEW q \in Threads, NEW i \in DOMAIN poolq'[q], poolq'[q][i] \in Jobs
          PROVE  /\ poolq'[q][i] \in submitted'
                 /\ poolq'[q][i] \notin Elems(queue') /\ running' # poolq'[q][i]
                 /\ \A a \in Clients \union Threads : awaits'[a] # poolq'[q][i]
                 /\ \A r \in Threads : \A j \in DOMAIN poolq'[r] : poolq'[q][i] = poolq'[r][j] => q = r /\ i = j
        BY <2>c, <2>1, <2>2, <2>3 DEF JobInv, IInv
    <2>d. ASSUME NEW q \in Threads, tpc'[q] = "lockW"
          PROVE  /\ awaits'[q] \in Jobs
                 /\ awaits'[q] \notin Elems(queue') /\ running' # awaits'[q]
                 /\ \A a \in Clients \union Threads : awaits'[a] = awaits'[q] => a = q
        BY <2>d, <2>1, Zenon DEF JobInv, IInv
    <2>e. \A q \in Threads : tpc'[q] = "direct" => running' \in Jobs
        BY <2>1, Zenon DEF JobInv, IInv
    <2> QED BY <2>a, <2>b, <2>c, <2>d, <2>e, Zenon DEF JobInv
<1>4. ASSUME NEW c \in Clients, serializer_suspend(c) PROVE JobInv'
    <2>1. JobsKept
        BY <1>4, Zenon DEF serializer_suspend, tps, pool, JobsKept
    <2> QED BY <2>1, KeptJobs, Zenon
<1>5. ASSUME NEW c \in Clients, push_suspend_task(c) PROVE JobInv'
    <2>1. JobsKept
        BY <1>5, QueueAppend DEF push_suspend_task, PushFrom, pool, IInv, Work, JobsKept
    <2> QED BY <2>1, KeptJobs, Zenon
<1>6. ASSUME NEW c \in Clients, suspend_push_failed(c) PROVE JobInv'
    <2>1. JobsKept
        BY <1>6 DEF suspend_push_failed, tps, pool, JobsKept
    <2> QED BY <2>1, KeptJobs, Zenon
<1>7. ASSUME NEW c \in Clients, suspend_failed(c) PROVE JobInv'
    <2>1. JobsKept
        BY <1>7 DEF suspend_failed, tps, pool, JobsKept
    <2> QED BY <2>1, KeptJobs, Zenon
<1>8. ASSUME NEW c \in Clients, serializer_unsuspend(c) PROVE JobInv'
    <2>1. JobsKept
        BY <1>8, ExecutePushed, Zenon DEF serializer_unsuspend, tps, IInv, JobsKept
    <2> QED BY <2>1, KeptJobs, Zenon
<1>9. ASSUME ast_taskpool_shutdown PROVE JobInv'
    <2>1. JobsKept
        BY <1>9, Zenon DEF ast_taskpool_shutdown, tps, JobsKept
    <2> QED BY <2>1, KeptJobs, Zenon
<1>10. ASSUME NEW p \in Threads, take(p) PROVE JobInv'
    <2>1. UNCHANGED <<queue, running, submitted>> /\ tpc[p] = "idle" /\ \A q \in Threads : q # p => tpc'[q] = tpc[q]
        BY <1>10 DEF take, tps, ThreadGoto, TypeOK, IInv
    <2>2. \/ poolq[p][1] \notin Jobs /\ awaits' = awaits /\ tpc'[p] = "lockE"
          \/ poolq[p][1] \in Jobs /\ awaits' = [awaits EXCEPT ![p] = poolq[p][1]] /\ tpc'[p] = "lockW"
        BY <1>10 DEF take, ThreadGoto, TypeOK, IInv, PoolWork
    <2>3. /\ 1 \in DOMAIN poolq[p]
          /\ \A q \in Threads \ {p} : poolq'[q] = poolq[q]
          /\ \A i \in DOMAIN poolq'[p] : i + 1 \in DOMAIN poolq[p] /\ i + 1 # 1 /\ poolq'[p][i] = poolq[p][i + 1]
          /\ \A i, j \in DOMAIN poolq'[p] : i + 1 = j + 1 => i = j
        <3>0. poolq'[p] \in Seq(PoolWork)
            BY <1>10, PoolTaken DEF IInv
        <3>1. /\ poolq[p] \in Seq(PoolWork)
              /\ Len(poolq[p]) \in Nat /\ Len(poolq[p]) >= 1 /\ Len(poolq'[p]) = Len(poolq[p]) - 1
              /\ \A i \in 1..Len(poolq'[p]) : poolq'[p][i] = poolq[p][i + 1]
              /\ \A q \in Threads \ {p} : poolq'[q] = poolq[q]
            BY <1>10, PoolTaken, Zenon DEF IInv
        <3>2. DOMAIN poolq'[p] = 1..Len(poolq'[p]) /\ DOMAIN poolq[p] = 1..Len(poolq[p])
            BY <3>0
        <3>3. \A i \in DOMAIN poolq'[p] : i \in Nat /\ i + 1 \in DOMAIN poolq[p] /\ i + 1 # 1
            BY <3>1, <3>2
        <3>4. \A i \in DOMAIN poolq'[p] : poolq'[p][i] = poolq[p][i + 1]
            BY <3>1, <3>2, Zenon
        <3>5. \A i, j \in DOMAIN poolq'[p] : i + 1 = j + 1 => i = j
            BY <3>2
        <3>6. 1 \in DOMAIN poolq[p]
            BY <3>1
        <3> QED BY <3>1, <3>3, <3>4, <3>5, <3>6, Zenon
    <2>4. /\ \A a \in Clients \union Threads : a # p => awaits'[a] = awaits[a]
          /\ tpc'[p] = "lockE" => awaits'[p] = awaits[p]
          /\ tpc'[p] = "lockW" => awaits'[p] = poolq[p][1] /\ poolq[p][1] \in Jobs
        BY <2>2, Zenon DEF TypeOK, IInv
    <2>5. tpc'[p] \in {"lockE", "lockW"}
        BY <2>2, Zenon
    <2>a. \A v \in Tasks \union Jobs :
            /\ v \in Elems(queue') => v \in submitted'
            /\ running' = v => v \in submitted'
            /\ \A a \in Clients \union Threads : awaits'[a] = v => v \in submitted'
        BY <2>1, <2>3, <2>4, <2>5 DEF JobInv, IInv
    <2>b. \A q \in Threads : awaits'[q] \in Jobs \union {None}
        BY <2>4, <2>5, Zenon DEF JobInv, IInv
    <2>c. ASSUME NEW q \in Threads, NEW i \in DOMAIN poolq'[q], poolq'[q][i] \in Jobs
          PROVE  /\ poolq'[q][i] \in submitted'
                 /\ poolq'[q][i] \notin Elems(queue') /\ running' # poolq'[q][i]
                 /\ \A a \in Clients \union Threads : awaits'[a] # poolq'[q][i]
                 /\ \A r \in Threads : \A j \in DOMAIN poolq'[r] : poolq'[q][i] = poolq'[r][j] => q = r /\ i = j
        BY <2>c, <2>1, <2>3, <2>4, <2>5 DEF JobInv, IInv
    <2>d. ASSUME NEW q \in Threads, tpc'[q] = "lockW"
          PROVE  /\ awaits'[q] \in Jobs
                 /\ awaits'[q] \notin Elems(queue') /\ running' # awaits'[q]
                 /\ \A a \in Clients \union Threads : awaits'[a] = awaits'[q] => a = q
        <3>1. CASE q = p
            <4>1. awaits'[p] = poolq[p][1] /\ poolq[p][1] \in Jobs /\ 1 \in DOMAIN poolq[p]
                BY <2>d, <2>3, <2>4, <3>1, Zenon
            <4>2. /\ poolq[p][1] \notin Elems(queue) /\ running # poolq[p][1]
                  /\ \A a \in Clients \union Threads : awaits[a] # poolq[p][1]
                BY <4>1, Zenon DEF JobInv, IInv
            <4> QED BY <2>1, <2>4, <3>1, <4>1, <4>2, Zenon
        <3>2. CASE q # p
            <4>1. tpc[q] = "lockW" /\ awaits'[q] = awaits[q]
                BY <2>d, <2>1, <2>4, <3>2, Zenon
            <4>2. /\ awaits[q] \in Jobs
                  /\ awaits[q] \notin Elems(queue) /\ running # awaits[q]
                  /\ \A a \in Clients \union Threads : awaits[a] = awaits[q] => a = q
                BY <4>1, Zenon DEF JobInv, IInv
            <4>3. ASSUME tpc'[p] = "lockW" PROVE awaits'[p] # awaits[q]
                <5>1. awaits'[p] = poolq[p][1] /\ poolq[p][1] \in Jobs /\ 1 \in DOMAIN poolq[p]
                    BY <2>3, <2>4, <4>3, Zenon
                <5>2. \A a \in Clients \union Threads : awaits[a] # poolq[p][1]
                    BY <5>1, Zenon DEF JobInv, IInv
                <5> QED BY <5>1, <5>2, Zenon
            <4>4. tpc'[p] # "lockW" => awaits'[p] # awaits[q]
                BY <2>4, <2>5, <3>2, <4>2, Zenon
            <4> QED BY <2>1, <2>4, <4>1, <4>2, <4>3, <4>4, Zenon
        <3> QED BY <3>1, <3>2, Zenon
    <2>e. \A q \in Threads : tpc'[q] = "direct" => running' \in Jobs
        BY <2>1, <2>5 DEF JobInv, IInv
    <2> QED BY <2>a, <2>b, <2>c, <2>d, <2>e, Zenon DEF JobInv
<1>11. ASSUME NEW p \in Threads, execute_tasks(p) PROVE JobInv'
    <2>1. JobsKept
        BY <1>11 DEF execute_tasks, tps, pool, ThreadGoto, TypeOK, IInv, JobsKept
    <2> QED BY <2>1, KeptJobs, Zenon
<1>12. ASSUME NEW p \in Threads, execute_next(p) PROVE JobInv'
    <2>1. JobsKept
        BY <1>12, QueuePop DEF execute_next, pool, IInv, ThreadGoto, LockInv, JobsKept
    <2> QED BY <2>1, KeptJobs, Zenon
<1>13. ASSUME NEW p \in Threads, execute_return(p) PROVE JobInv'
    <2>1. JobsKept
        <3>1. /\ UNCHANGED <<queue, poolq, submitted, awaits>> /\ running' = None
              /\ tpc[p] = "runE"
            BY <1>13, Zenon DEF execute_return, Return, pool
        <3>2. \A q \in Threads : tpc'[q] \in {tpc[q], "endE", "loopE"}
            BY <1>13 DEF execute_return, ThreadGoto, TypeOK, IInv
        <3>3. \A q \in Threads : tpc[q] # "direct"
            BY <3>1, Zenon DEF LockInv, IInv
        <3> QED BY <3>1, <3>2, <3>3, Zenon DEF JobsKept
    <2> QED BY <2>1, KeptJobs, Zenon
<1>14. ASSUME NEW p \in Threads, execute_end(p) PROVE JobInv'
    <2>1. JobsKept
        BY <1>14, ExecutePushed DEF execute_end, tps, pool, IInv, ThreadGoto, JobsKept
    <2> QED BY <2>1, KeptJobs, Zenon
<1>15. ASSUME NEW p \in Threads, sync_task(p) PROVE JobInv'
    <2>1. JobsKept
        BY <1>15 DEF sync_task, tps, pool, IInv, JobInv, JobsKept
    <2> QED BY <2>1, KeptJobs, Zenon
<1>16. ASSUME NEW p \in Threads, suspend_task(p) PROVE JobInv'
    <2>1. JobsKept
        BY <1>16, QueueAppend, Zenon DEF suspend_task, pool, IInv, Work, JobsKept
    <2> QED BY <2>1, KeptJobs, Zenon
<1>17. ASSUME NEW p \in Threads, suspend_task_failed(p) PROVE JobInv'
    <2>1. JobsKept
        BY <1>17 DEF suspend_task_failed, tps, pool, JobsKept
    <2> QED BY <2>1, KeptJobs, Zenon
<1>18. ASSUME NEW p \in Threads, wait_direct(p) PROVE JobInv'
    <2>1. UNCHANGED <<queue, poolq, submitted, awaits>> /\ running' = awaits[p] /\ tpc[p] = "lockW"
        BY <1>18, Zenon DEF wait_direct, pool
    <2>2. tpc'[p] = "direct" /\ \A q \in Threads : q # p => tpc'[q] = tpc[q]
        BY <1>18, Zenon DEF wait_direct, ThreadGoto, TypeOK, IInv
    <2>a. \A v \in Tasks \union Jobs :
            /\ v \in Elems(queue') => v \in submitted'
            /\ running' = v => v \in submitted'
            /\ \A a \in Clients \union Threads : awaits'[a] = v => v \in submitted'
        BY <2>1, Zenon DEF JobInv, IInv
    <2>b. \A q \in Threads : awaits'[q] \in Jobs \union {None}
        BY <2>1, Zenon DEF JobInv, IInv
    <2>c. ASSUME NEW q \in Threads, NEW i \in DOMAIN poolq'[q], poolq'[q][i] \in Jobs
          PROVE  /\ poolq'[q][i] \in submitted'
                 /\ poolq'[q][i] \notin Elems(queue') /\ running' # poolq'[q][i]
                 /\ \A a \in Clients \union Threads : awaits'[a] # poolq'[q][i]
                 /\ \A r \in Threads : \A j \in DOMAIN poolq'[r] : poolq'[q][i] = poolq'[r][j] => q = r /\ i = j
        BY <2>c, <2>1 DEF JobInv, IInv
    <2>d. ASSUME NEW q \in Threads, tpc'[q] = "lockW"
          PROVE  /\ awaits'[q] \in Jobs
                 /\ awaits'[q] \notin Elems(queue') /\ running' # awaits'[q]
                 /\ \A a \in Clients \union Threads : awaits'[a] = awaits'[q] => a = q
        BY <2>d, <2>1, <2>2, Zenon DEF JobInv, IInv
    <2>e. \A q \in Threads : tpc'[q] = "direct" => running' \in Jobs
        BY <2>1, Zenon DEF JobInv, IInv
    <2> QED BY <2>a, <2>b, <2>c, <2>d, <2>e, Zenon DEF JobInv
<1>19. ASSUME NEW p \in Threads, direct_return(p) PROVE JobInv'
    <2>1. JobsKept
        BY <1>19 DEF direct_return, pool, ThreadGoto, TypeOK, IInv, LockInv, JobsKept
    <2> QED BY <2>1, KeptJobs, Zenon
<1>20. ASSUME NEW p \in Threads, wait_push(p) PROVE JobInv'
    <2>1. UNCHANGED <<running, poolq, submitted, awaits>> /\ tpc[p] = "lockW"
        BY <1>20, Zenon DEF wait_push, pool
    <2>2. tpc'[p] = "pushW" /\ \A q \in Threads : q # p => tpc'[q] = tpc[q]
        BY <1>20, Zenon DEF wait_push, ThreadGoto, TypeOK, IInv
    <2>3. Elems(queue') = Elems(queue) \union {awaits[p]}
        BY <1>20, QueueAppend, Zenon DEF wait_push, JobInv, IInv, Work
    <2>a. \A v \in Tasks \union Jobs :
            /\ v \in Elems(queue') => v \in submitted'
            /\ running' = v => v \in submitted'
            /\ \A a \in Clients \union Threads : awaits'[a] = v => v \in submitted'
        BY <2>1, <2>3, Zenon DEF JobInv, IInv
    <2>b. \A q \in Threads : awaits'[q] \in Jobs \union {None}
        BY <2>1, Zenon DEF JobInv, IInv
    <2>c. ASSUME NEW q \in Threads, NEW i \in DOMAIN poolq'[q], poolq'[q][i] \in Jobs
          PROVE  /\ poolq'[q][i] \in submitted'
                 /\ poolq'[q][i] \notin Elems(queue') /\ running' # poolq'[q][i]
                 /\ \A a \in Clients \union Threads : awaits'[a] # poolq'[q][i]
                 /\ \A r \in Threads : \A j \in DOMAIN poolq'[r] : poolq'[q][i] = poolq'[r][j] => q = r /\ i = j
        BY <2>c, <2>1, <2>3 DEF JobInv, IInv
    <2>d. ASSUME NEW q \in Threads, tpc'[q] = "lockW"
          PROVE  /\ awaits'[q] \in Jobs
                 /\ awaits'[q] \notin Elems(queue') /\ running' # awaits'[q]
                 /\ \A a \in Clients \union Threads : awaits'[a] = awaits'[q] => a = q
        BY <2>d, <2>1, <2>2, <2>3, Zenon DEF JobInv, IInv
    <2>e. \A q \in Threads : tpc'[q] = "direct" => running' \in Jobs
        BY <2>1, <2>2 DEF JobInv, IInv
    <2> QED BY <2>a, <2>b, <2>c, <2>d, <2>e, Zenon DEF JobInv
<1>21. ASSUME NEW p \in Threads, wait_push_failed(p) PROVE JobInv'
    <2>1. JobsKept
        BY <1>21, Zenon DEF wait_push_failed, tps, pool, ThreadGoto, TypeOK, IInv, JobsKept
    <2> QED BY <2>1, KeptJobs, Zenon
<1>22. ASSUME NEW p \in Threads, wait_push_empty(p) PROVE JobInv'
    <2>u. UNCHANGED <<running, poolq, awaits, submitted>>
        BY <1>22, Zenon DEF wait_push_empty, pool
    <2>1. Elems(queue') = Elems(queue) \union {Empty}
        BY <1>22, QueueAppend, Zenon DEF wait_push_empty, IInv, Work
    <2>2. tpc'[p] \in {"asleep", "execW"} /\ \A q \in Threads : q # p => tpc'[q] = tpc[q]
        BY <1>22, WaitLoops, Zenon DEF wait_push_empty, IInv
    <2>5. JobsKept
        BY <2>u, <2>1, <2>2, Zenon DEF JobsKept
    <2> QED BY <2>5, KeptJobs, Zenon
<1>23. ASSUME NEW p \in Threads, wait_execute(p) PROVE JobInv'
    <2>1. JobsKept
        BY <1>23, QueuePop DEF wait_execute, pool, IInv, ThreadGoto, LockInv, JobsKept
    <2> QED BY <2>1, KeptJobs, Zenon
<1>24. ASSUME NEW p \in Threads, wait_execute_empty(p) PROVE JobInv'
    <2>u. UNCHANGED <<queue, running, poolq, awaits, submitted>>
        BY <1>24, Zenon DEF wait_execute_empty, tps, pool
    <2>2. tpc'[p] \in {"idle", "asleep", "execW"} /\ \A q \in Threads : q # p => tpc'[q] = tpc[q]
        BY <1>24, WaitLoops, Zenon DEF wait_execute_empty, IInv
    <2>5. JobsKept
        BY <2>u, <2>2, Zenon DEF JobsKept
    <2> QED BY <2>5, KeptJobs, Zenon
<1>25. ASSUME NEW p \in Threads, wait_return(p) PROVE JobInv'
    <2>u. UNCHANGED <<queue, poolq, awaits, submitted>>
        BY <1>25, Zenon DEF wait_return, Return, pool
    <2>1. running' = None
        BY <1>25, Zenon DEF wait_return, Return
    <2>2. tpc'[p] \in {"idle", "asleep", "execW"} /\ \A q \in Threads : q # p => tpc'[q] = tpc[q]
        BY <1>25, WaitLoops, Zenon DEF wait_return, IInv
    <2>l. \A q \in Threads : q # p => tpc[q] # "direct"
        BY <1>25, Zenon DEF wait_return, LockInv, IInv
    <2>5. JobsKept
        BY <2>u, <2>1, <2>2, <2>l, Zenon DEF JobsKept
    <2> QED BY <2>5, KeptJobs, Zenon
<1>26. ASSUME NEW p \in Threads, wait_woken(p) PROVE JobInv'
    <2>1. JobsKept
        <3>1. /\ \A q \in Threads \ {p} : tpc'[q] = tpc[q]
              /\ tpc'[p] \in {"asleep", "execW"}
            <4>1. ThreadGoto(p, "asleep") \/ ThreadGoto(p, "execW")
                BY <1>26, Zenon DEF wait_woken
            <4> QED BY <4>1, Goes, Zenon DEF IInv
        <3> QED BY <1>26, <3>1, Zenon DEF wait_woken, tps, pool, JobsKept
    <2> QED BY <2>1, KeptJobs, Zenon
<1>27. ASSUME NEW c \in Clients, Call(c) \/ Continue(c) PROVE JobInv'
    BY <1>27, <1>1, <1>2, <1>3, <1>4, <1>5, <1>6, <1>7, <1>8, Zenon DEF Call, Continue
<1>28. ASSUME NEW p \in Threads, ThreadStep(p) PROVE JobInv'
    BY <1>28, <1>10, <1>11, <1>12, <1>13, <1>14, <1>15, <1>16, <1>17, <1>18, <1>19, <1>20, <1>21,
       <1>22, <1>23, <1>24, <1>25, <1>26, Zenon DEF ThreadStep
<1> QED BY <1>u, <1>9, <1>27, <1>28, Zenon DEF Next

-----------------------------------------------------------------------------
(* Waiters                                                                 *)

LEMMA BehindNonempty == ASSUME NEW w, Behind(w) PROVE queue # <<>>
<1>1. PICK i \in DOMAIN queue : TRUE
    BY Zenon DEF Behind
<1> QED BY <1>1

\* What is behind a task stays behind it under a push.
LEMMA BehindAppend ==
    ASSUME TypeOK, NEW x \in Work, queue' = Append(queue, x), NEW w
    PROVE  /\ Behind(w) => Behind(w)'
           /\ w \in Elems(queue) /\ x = Empty => Behind(w)'
           /\ queue' # <<>>
<1>1. /\ queue \in Seq(Work) /\ queue' \in Seq(Work) /\ Len(queue') = Len(queue) + 1
      /\ queue'[Len(queue) + 1] = x /\ \A i \in 1..Len(queue) : queue'[i] = queue[i]
    <2>1. queue \in Seq(Work)
        BY Zenon DEF TypeOK
    <2> HIDE DEF Work
    <2> QED BY <2>1
<1>2. DOMAIN queue = 1..Len(queue) /\ DOMAIN queue' = 1..Len(queue) + 1 /\ Len(queue) \in Nat
    BY <1>1
<1>3. ASSUME Behind(w) PROVE Behind(w)'
    BY <1>3 DEF Behind
<1>4. ASSUME w \in Elems(queue), x = Empty PROVE Behind(w)'
    BY <1>4 DEF Elems, Behind
<1> QED BY <1>3, <1>4

\* Popping leaves the empty task behind, unless the task itself was popped.
LEMMA BehindPop ==
    ASSUME TypeOK, Pop, NEW w, Behind(w)
    PROVE  (w = running' \/ Behind(w)') /\ queue' # <<>>
<1>1. /\ queue \in Seq(Work) /\ queue' \in Seq(Work) /\ Len(queue') = Len(queue) - 1 /\ Len(queue) >= 1
      /\ running' = queue[1] /\ \A i \in 1..(Len(queue) - 1) : queue'[i] = queue[i + 1]
    BY DEF TypeOK, Pop
<1>2. DOMAIN queue = 1..Len(queue) /\ DOMAIN queue' = 1..(Len(queue) - 1) /\ Len(queue) \in Nat
    BY <1>1
<1>3. PICK i \in 1..Len(queue), j \in 1..Len(queue) : i < j /\ queue[i] = w /\ queue[j] = Empty
    BY DEF Behind
<1>4. j - 1 \in DOMAIN queue' /\ queue'[j - 1] = Empty
    BY <1>1, <1>3
<1>5. ASSUME i # 1 PROVE Behind(w)'
    <2>1. i - 1 \in DOMAIN queue' /\ queue'[i - 1] = w /\ i - 1 < j - 1
        BY <1>1, <1>3, <1>5
    <2> QED BY <1>4, <2>1, Zenon DEF Behind
<1>6. queue' # <<>>
    BY <1>4
<1> QED BY <1>1, <1>3, <1>5

\* A step that leaves the thread where it is and only appends.
SyncKept(q) ==
    tpc'[q] \in {"asleep", "woken", "pushW", "execW", "runW"} =>
        /\ tpc'[q] = tpc[q] /\ awaits'[q] = awaits[q] /\ running' = running
        /\ queue' = queue \/ \E x \in Work : queue' = Append(queue, x)

\* A waiter that such a step leaves alone still has the empty task behind its own.
LEMMA KeptSync ==
    ASSUME IInv, ~paused, NEW q \in Threads, SyncKept(q)
    PROVE  Syncing(q)'
<1>1. CASE tpc'[q] \notin {"asleep", "woken", "pushW", "execW", "runW"}
    BY <1>1, Zenon DEF Syncing
<1>2. CASE tpc'[q] \in {"asleep", "woken", "pushW", "execW", "runW"}
    <2>1. Syncing(q) /\ TypeOK
        BY DEF SyncInv, IInv
    <2>2. tpc'[q] = tpc[q] /\ awaits'[q] = awaits[q] /\ running' = running
        BY <1>2, Zenon DEF SyncKept
    <2>3. /\ Behind(awaits[q]) => Behind(awaits[q])'
          /\ awaits[q] \in Elems(queue) => awaits[q] \in Elems(queue')
          /\ queue # <<>> => queue' # <<>>
        <3>1. CASE queue' = queue
            BY <3>1, <2>2, Zenon DEF Behind
        <3>2. CASE \E x \in Work : queue' = Append(queue, x)
            <4>1. PICK x \in Work : queue' = Append(queue, x)
                BY <3>2
            <4>2. /\ queue' # <<>>
                  /\ Elems(queue') = Elems(queue) \union {x}
                BY <2>1, <4>1, QueueAppend
            <4>3. Behind(awaits[q]) => Behind(awaits[q])'
                <5> DEFINE w == awaits[q]
                <5>1. w' = w
                    BY <2>2
                <5>2. ASSUME NEW v, v = w PROVE Behind(v) => Behind(v)'
                    BY <2>1, <4>1, BehindAppend, Zenon
                <5> QED BY <5>1, <5>2
            <4> QED BY <4>2, <4>3, Zenon
        <3> QED BY <1>2, <3>1, <3>2, Zenon DEF SyncKept
    <2> QED BY <2>1, <2>2, <2>3, Zenon DEF Syncing
<1> QED BY <1>1, <1>2

\* The empty task of wait_push_empty is behind what is queued already.
LEMMA BehindEmpty ==
    ASSUME TypeOK, queue' = Append(queue, Empty), awaits' = awaits, NEW p \in Threads, awaits[p] \in Elems(queue)
    PROVE  Behind(awaits[p])'
<1>1. ASSUME NEW w, w = awaits[p] PROVE Behind(w)'
    BY <1>1, BehindAppend, Zenon DEF Work
<1>2. PICK w : w = awaits[p]
    OBVIOUS
<1> QED BY <1>1

\* When a waiter pops, its own task comes out or keeps the empty task behind it.
LEMMA BehindHead ==
    ASSUME TypeOK, Pop, awaits' = awaits, NEW p \in Threads, Behind(awaits[p])
    PROVE  queue' # <<>> /\ (awaits[p] = running' \/ Behind(awaits[p])')
<1>1. ASSUME NEW w, w = awaits[p] PROVE queue' # <<>> /\ (w = running' \/ Behind(w)')
    BY <1>1, BehindPop
<1>2. PICK w : w = awaits[p]
    OBVIOUS
<1> QED BY <1>1

\* Once a waiter was paused, this is not forgotten.
LEMMA PausedStays == IInv /\ [Next]_vars /\ paused => paused'
<1> SUFFICES ASSUME IInv, [Next]_vars, paused PROVE paused'
    OBVIOUS
<1>1. ASSUME NEW p \in Threads, wait_push_empty(p) \/ wait_execute_empty(p) \/ wait_return(p) PROVE paused'
    BY <1>1, Zenon DEF wait_push_empty, wait_execute_empty, wait_return, WaitLoop
<1>2. CASE UNCHANGED paused
    BY <1>2
<1> QED BY <1>1, <1>2, Zenon DEF Next, Call, Continue, ThreadStep, vars, susp, ast_taskprocessor_push,
        serializer_task_pushed, push_job, serializer_suspend, push_suspend_task, suspend_push_failed,
        suspend_failed, serializer_unsuspend, ast_taskpool_shutdown, take, execute_tasks, execute_next,
        execute_return, execute_end, sync_task, suspend_task, suspend_task_failed, wait_direct,
        direct_return, wait_push, wait_push_failed, wait_execute, wait_woken

\* Until it is paused, a waiter always finds its task executed or the empty task
\* still behind it.
LEMMA SyncStep == IInv /\ [Next]_vars => SyncInv'
<1> SUFFICES ASSUME IInv, [Next]_vars, ~paused' PROVE \A q \in Threads : Syncing(q)'
    BY DEF SyncInv
<1> USE WorkAssumption
<1>s. ~paused
    BY PausedStays, Zenon
<1>u. CASE UNCHANGED vars
    BY <1>u, <1>s, KeptSync, Zenon DEF vars, tps, SyncKept
<1>1. ASSUME NEW c \in Clients, NEW t \in Tasks, NEW wait \in BOOLEAN, ast_taskprocessor_push(c, t, wait)
      PROVE  \A q \in Threads : Syncing(q)'
    <2>k. \A q \in Threads : SyncKept(q)
        BY <1>1 DEF ast_taskprocessor_push, PushFrom, SyncKept, Work
    <2> QED BY <1>s, <2>k, KeptSync, Zenon
<1>2. ASSUME NEW c \in Clients, serializer_task_pushed(c) PROVE \A q \in Threads : Syncing(q)'
    <2>k. \A q \in Threads : SyncKept(q)
        BY <1>2, Zenon DEF serializer_task_pushed, tps, SyncKept
    <2> QED BY <1>s, <2>k, KeptSync, Zenon
<1>3. ASSUME NEW c \in Clients, NEW w \in Jobs, push_job(c, w) PROVE \A q \in Threads : Syncing(q)'
    <2>k. \A q \in Threads : SyncKept(q)
        BY <1>3, Zenon DEF push_job, tps, SyncKept
    <2> QED BY <1>s, <2>k, KeptSync, Zenon
<1>4. ASSUME NEW c \in Clients, serializer_suspend(c) PROVE \A q \in Threads : Syncing(q)'
    <2>k. \A q \in Threads : SyncKept(q)
        BY <1>4, Zenon DEF serializer_suspend, tps, SyncKept
    <2> QED BY <1>s, <2>k, KeptSync, Zenon
<1>5. ASSUME NEW c \in Clients, push_suspend_task(c) PROVE \A q \in Threads : Syncing(q)'
    <2>k. \A q \in Threads : SyncKept(q)
        BY <1>5 DEF push_suspend_task, PushFrom, SyncKept, Work
    <2> QED BY <1>s, <2>k, KeptSync, Zenon
<1>6. ASSUME NEW c \in Clients, suspend_push_failed(c) PROVE \A q \in Threads : Syncing(q)'
    <2>k. \A q \in Threads : SyncKept(q)
        BY <1>6 DEF suspend_push_failed, tps, SyncKept
    <2> QED BY <1>s, <2>k, KeptSync, Zenon
<1>7. ASSUME NEW c \in Clients, suspend_failed(c) PROVE \A q \in Threads : Syncing(q)'
    <2>k. \A q \in Threads : SyncKept(q)
        BY <1>7 DEF suspend_failed, tps, SyncKept
    <2> QED BY <1>s, <2>k, KeptSync, Zenon
<1>8. ASSUME NEW c \in Clients, serializer_unsuspend(c) PROVE \A q \in Threads : Syncing(q)'
    <2>1. \A q \in Threads : tpc[q] # "asleep"
        BY <1>s, Zenon DEF SyncInv, Syncing, IInv
    <2>2. \A q \in Threads : tpc'[q] = tpc[q]
        BY <1>8, <2>1, Zenon DEF serializer_unsuspend
    <2>k. \A q \in Threads : SyncKept(q)
        BY <1>8, <2>2, Zenon DEF serializer_unsuspend, tps, SyncKept
    <2> QED BY <1>s, <2>k, KeptSync, Zenon
<1>9. ASSUME ast_taskpool_shutdown PROVE \A q \in Threads : Syncing(q)'
    <2>k. \A q \in Threads : SyncKept(q)
        BY <1>9, Zenon DEF ast_taskpool_shutdown, tps, SyncKept
    <2> QED BY <1>s, <2>k, KeptSync, Zenon
<1>10. ASSUME NEW p \in Threads, take(p) PROVE \A q \in Threads : Syncing(q)'
    <2>k. \A q \in Threads : SyncKept(q)
        BY <1>10 DEF take, ThreadGoto, tps, SyncKept, TypeOK, IInv
    <2> QED BY <1>s, <2>k, KeptSync, Zenon
<1>11. ASSUME NEW p \in Threads, execute_tasks(p) PROVE \A q \in Threads : Syncing(q)'
    <2>k. \A q \in Threads : SyncKept(q)
        BY <1>11 DEF execute_tasks, ThreadGoto, tps, SyncKept, TypeOK, IInv
    <2> QED BY <1>s, <2>k, KeptSync, Zenon
<1>12. ASSUME NEW p \in Threads, execute_next(p) PROVE \A q \in Threads : Syncing(q)'
    <2>1. \A q \in Threads : tpc[q] \notin {"asleep", "woken", "pushW", "execW", "runW"}
        BY <1>12, <1>s, Zenon DEF execute_next, LockInv, SyncInv, Syncing, IInv
    <2>2. \A q \in Threads : tpc'[q] \in {tpc[q], "runE"}
        BY <1>12 DEF execute_next, ThreadGoto
    <2>k. \A q \in Threads : SyncKept(q)
        BY <2>1, <2>2, Zenon DEF SyncKept
    <2> QED BY <1>s, <2>k, KeptSync, Zenon
<1>13. ASSUME NEW p \in Threads, execute_return(p) PROVE \A q \in Threads : Syncing(q)'
    <2>1. \A q \in Threads : tpc[q] \notin {"asleep", "woken", "pushW", "execW", "runW"}
        BY <1>13, <1>s, Zenon DEF execute_return, LockInv, SyncInv, Syncing, IInv
    <2>2. \A q \in Threads : tpc'[q] \in {tpc[q], "endE", "loopE"}
        BY <1>13 DEF execute_return, ThreadGoto, TypeOK, IInv
    <2>k. \A q \in Threads : SyncKept(q)
        BY <2>1, <2>2, Zenon DEF SyncKept
    <2> QED BY <1>s, <2>k, KeptSync, Zenon
<1>14. ASSUME NEW p \in Threads, execute_end(p) PROVE \A q \in Threads : Syncing(q)'
    <2>k. \A q \in Threads : SyncKept(q)
        BY <1>14 DEF execute_end, ThreadGoto, tps, SyncKept
    <2> QED BY <1>s, <2>k, KeptSync, Zenon
<1>15. ASSUME NEW p \in Threads, sync_task(p) PROVE \A q \in Threads : Syncing(q)'
    <2>1. UNCHANGED <<queue, running, tpc>>
        BY <1>15, Zenon DEF sync_task, tps
    <2>2. \A q \in Threads : awaits'[q] = awaits[q] \/ (awaits[q] = running /\ awaits'[q] = None)
        BY <1>15 DEF sync_task
    <2>3. ASSUME NEW q \in Threads PROVE Syncing(q)'
        <3>1. CASE awaits'[q] = awaits[q]
            BY <1>s, <2>1, <3>1, KeptSync, Zenon DEF SyncKept
        <3>2. CASE awaits[q] = running /\ awaits'[q] = None
            <4>1. tpc[q] \notin {"asleep", "woken", "pushW", "execW"}
                BY <1>15, <1>s, Zenon DEF sync_task, SyncInv, Syncing, LockInv, IInv
            <4>2. tpc[q] = "runW" => queue # <<>>
                BY <1>s DEF SyncInv, Syncing, Behind, IInv
            <4>3. tpc[q] = "runW" => running \in Jobs
                BY <3>2, Zenon DEF JobInv, LockInv, IInv
            <4> QED BY <2>1, <3>2, <4>1, <4>2, <4>3, Zenon DEF Syncing
        <3> QED BY <2>2, <3>1, <3>2, Zenon
    <2> QED BY <2>3, Zenon
<1>16. ASSUME NEW p \in Threads, suspend_task(p) PROVE \A q \in Threads : Syncing(q)'
    <2>k. \A q \in Threads : SyncKept(q)
        BY <1>16, Zenon DEF suspend_task, SyncKept, Work
    <2> QED BY <1>s, <2>k, KeptSync, Zenon
<1>17. ASSUME NEW p \in Threads, suspend_task_failed(p) PROVE \A q \in Threads : Syncing(q)'
    <2>k. \A q \in Threads : SyncKept(q)
        BY <1>17 DEF suspend_task_failed, tps, SyncKept
    <2> QED BY <1>s, <2>k, KeptSync, Zenon
<1>18. ASSUME NEW p \in Threads, wait_direct(p) PROVE \A q \in Threads : Syncing(q)'
    <2>1. tpc'[p] = "direct" /\ \A q \in Threads : q # p => tpc'[q] = tpc[q]
        BY <1>18, Zenon DEF wait_direct, ThreadGoto, TypeOK, IInv
    <2>2. \A q \in Threads : tpc[q] \notin {"pushW", "execW", "runW"}
        BY <1>18, Zenon DEF wait_direct, LockInv, IInv
    <2>3. \A q \in Threads : tpc[q] \notin {"asleep", "woken"}
        BY <1>s, Zenon DEF SyncInv, Syncing, IInv
    <2> QED BY <2>1, <2>2, <2>3, Zenon DEF Syncing
<1>19. ASSUME NEW p \in Threads, direct_return(p) PROVE \A q \in Threads : Syncing(q)'
    <2>1. tpc'[p] = "idle" /\ \A q \in Threads : q # p => tpc'[q] = tpc[q]
        BY <1>19, Zenon DEF direct_return, ThreadGoto, TypeOK, IInv
    <2>2. \A q \in Threads : q # p => tpc[q] \notin {"pushW", "execW", "runW"}
        BY <1>19, Zenon DEF direct_return, LockInv, IInv
    <2>3. \A q \in Threads : tpc[q] \notin {"asleep", "woken"}
        BY <1>s, Zenon DEF SyncInv, Syncing, IInv
    <2> QED BY <2>1, <2>2, <2>3, Zenon DEF Syncing
<1>20. ASSUME NEW p \in Threads, wait_push(p) PROVE \A q \in Threads : Syncing(q)'
    <2>1. tpc'[p] = "pushW" /\ \A q \in Threads : q # p => tpc'[q] = tpc[q]
        BY <1>20, Zenon DEF wait_push, ThreadGoto, TypeOK, IInv
    <2>2. \A q \in Threads : tpc[q] \notin {"pushW", "execW", "runW"}
        BY <1>20, Zenon DEF wait_push, LockInv, IInv
    <2>3. awaits[p] \in Work
        BY <1>20, Zenon DEF wait_push, JobInv, Work, IInv
    <2>4. awaits[p] \in Elems(queue') /\ awaits' = awaits
        BY <1>20, <2>3, QueueAppend DEF wait_push, IInv
    <2>5. \A q \in Threads : tpc[q] \notin {"asleep", "woken"}
        BY <1>s, Zenon DEF SyncInv, Syncing, IInv
    <2> QED BY <2>1, <2>2, <2>4, <2>5, Zenon DEF Syncing
<1>21. ASSUME NEW p \in Threads, wait_push_failed(p) PROVE \A q \in Threads : Syncing(q)'
    <2>k. \A q \in Threads : SyncKept(q)
        BY <1>21 DEF wait_push_failed, ThreadGoto, tps, SyncKept
    <2> QED BY <1>s, <2>k, KeptSync, Zenon
<1>22. ASSUME NEW p \in Threads, wait_push_empty(p) PROVE \A q \in Threads : Syncing(q)'
    <2>l. \A q \in Threads : q # p => tpc[q] \notin {"pushW", "execW", "runW"}
        BY <1>22, Zenon DEF wait_push_empty, LockInv, IInv
    <2>1. tpc'[p] = "execW" /\ \A q \in Threads : q # p => tpc'[q] = tpc[q]
        BY <1>22, <1>s, WaitLoops, Zenon DEF wait_push_empty, IInv
    <2>2. awaits[p] \in Elems(queue) /\ awaits[p] # None
        BY <1>22, <1>s DEF wait_push_empty, SyncInv, Syncing, Elems, TypeOK, Work, IInv
    <2>3. Behind(awaits[p])' /\ awaits' = awaits
        BY <1>22, <2>2, BehindEmpty, Zenon DEF wait_push_empty, IInv
    <2>h. \A q \in Threads : tpc[q] \notin {"asleep", "woken"}
        BY <1>s, Zenon DEF SyncInv, Syncing, IInv
    <2>4. Syncing(p)'
        BY <2>1, <2>2, <2>3, Zenon DEF Syncing
    <2>5. \A q \in Threads : q # p => Syncing(q)'
        BY <2>1, <2>l, <2>h, Zenon DEF Syncing
    <2> QED BY <2>4, <2>5, Zenon
<1>23. ASSUME NEW p \in Threads, wait_execute(p) PROVE \A q \in Threads : Syncing(q)'
    <2>1. tpc'[p] = "runW" /\ (\A q \in Threads : q # p => tpc'[q] = tpc[q]) /\ awaits' = awaits
        BY <1>23, Zenon DEF wait_execute, ThreadGoto, TypeOK, IInv
    <2>2. \A q \in Threads : q # p => tpc[q] \notin {"pushW", "execW", "runW"}
        BY <1>23, Zenon DEF wait_execute, LockInv, IInv
    <2>3. \A q \in Threads : tpc[q] \notin {"asleep", "woken"}
        BY <1>s, Zenon DEF SyncInv, Syncing, IInv
    <2>4. awaits[p] # None /\ Behind(awaits[p])
        BY <1>23, <1>s, Zenon DEF wait_execute, SyncInv, Syncing, IInv
    <2>5. \/ awaits[p] = running' /\ queue' # <<>>
          \/ Behind(awaits[p])'
        BY <1>23, <2>4, BehindHead, Zenon DEF wait_execute, IInv
    <2>j. awaits[p] \in Jobs
        BY <2>4, Zenon DEF JobInv, IInv
    <2>6. Syncing(p)'
        BY <2>1, <2>4, <2>5, <2>j, Zenon DEF Syncing
    <2>7. \A q \in Threads : q # p => Syncing(q)'
        BY <2>1, <2>2, <2>3, Zenon DEF Syncing
    <2> QED BY <2>6, <2>7, Zenon
<1>24. ASSUME NEW p \in Threads, wait_execute_empty(p) PROVE \A q \in Threads : Syncing(q)'
    <2>1. Syncing(p) /\ tpc[p] = "execW" /\ queue = <<>>
        BY <1>24, <1>s, Zenon DEF wait_execute_empty, SyncInv, IInv
    <2> QED BY <2>1 DEF Syncing, Behind
<1>25. ASSUME NEW p \in Threads, wait_return(p) PROVE \A q \in Threads : Syncing(q)'
    <2>l. \A q \in Threads : q # p => tpc[q] \notin {"pushW", "execW", "runW"}
        BY <1>25, Zenon DEF wait_return, LockInv, IInv
    <2>1. /\ tpc'[p] = "idle" \/ (tpc'[p] = "execW" /\ awaits[p] # None)
          /\ \A q \in Threads : q # p => tpc'[q] = tpc[q]
        BY <1>25, <1>s, WaitLoops, Zenon DEF wait_return, IInv
    <2>2. awaits[p] # running /\ UNCHANGED <<awaits, queue>>
        BY <1>25, Zenon DEF wait_return, Return
    <2>3. awaits[p] # None => Behind(awaits[p])
        BY <1>25, <1>s, <2>2, Zenon DEF wait_return, SyncInv, Syncing, IInv
    <2>h. \A q \in Threads : tpc[q] \notin {"asleep", "woken"}
        BY <1>s, Zenon DEF SyncInv, Syncing, IInv
    <2>4. Syncing(p)'
        BY <2>1, <2>2, <2>3, Zenon DEF Syncing, Behind
    <2>5. \A q \in Threads : q # p => Syncing(q)'
        BY <2>1, <2>l, <2>h, Zenon DEF Syncing
    <2> QED BY <2>4, <2>5, Zenon
<1>26. ASSUME NEW p \in Threads, wait_woken(p) PROVE \A q \in Threads : Syncing(q)'
    BY <1>26, <1>s, Zenon DEF wait_woken, SyncInv, Syncing, IInv
<1>27. ASSUME NEW c \in Clients, Call(c) \/ Continue(c) PROVE \A q \in Threads : Syncing(q)'
    BY <1>27, <1>1, <1>2, <1>3, <1>4, <1>5, <1>6, <1>7, <1>8, Zenon DEF Call, Continue
<1>28. ASSUME NEW p \in Threads, ThreadStep(p) PROVE \A q \in Threads : Syncing(q)'
    BY <1>28, <1>10, <1>11, <1>12, <1>13, <1>14, <1>15, <1>16, <1>17, <1>18, <1>19, <1>20, <1>21,
       <1>22, <1>23, <1>24, <1>25, <1>26, Zenon DEF ThreadStep
<1> QED BY <1>u, <1>9, <1>27, <1>28, Zenon DEF Next

-----------------------------------------------------------------------------
(* Wakeups                                                                 *)

\* The ways in which execute_tasks is on its way.
LEMMA ScheduledBy ==
    Scheduled <=> \/ \E p \in Threads : \E i \in DOMAIN poolq[p] : poolq[p][i] = Execute
                  \/ \E p \in Threads : Executing(p)
                  \/ \E c \in Clients : cpc[c] = "notify"
BY Zenon DEF Scheduled, Executing, Elems

\* Every execute_tasks is still there.
StillScheduled ==
    /\ \A p \in Threads : \A i \in DOMAIN poolq[p] : poolq[p][i] = Execute =>
        i \in DOMAIN poolq'[p] /\ poolq'[p][i] = Execute
    /\ \A p \in Threads : Executing(p) => Executing(p)'
    /\ \A c \in Clients : cpc[c] = "notify" => cpc'[c] = "notify"

\* Then the wakeup is not lost.
LEMMA KeptScheduled ==
    ASSUME StillScheduled, Scheduled
    PROVE  Scheduled'
<1>1. \/ \E p \in Threads : \E i \in DOMAIN poolq'[p] : poolq'[p][i] = Execute
      \/ \E p \in Threads : Executing(p)'
      \/ \E c \in Clients : cpc'[c] = "notify"
    BY ScheduledBy, Zenon DEF StillScheduled
<1> QED BY <1>1, Zenon DEF Scheduled, Executing, Elems

\* A thread without an execute_tasks of its own may go where it likes.
LEMMA OtherGoes ==
    ASSUME TypeOK, NEW p \in Threads, NEW l, ThreadGoto(p, l), ~Executing(p), UNCHANGED <<poolq, requeue, cpc>>
    PROVE  StillScheduled
<1>1. \A q \in Threads : Executing(q) => Executing(q)'
    BY Goes, Zenon DEF Executing
<1> QED BY <1>1, Zenon DEF StillScheduled

\* An execute_tasks that was pushed to the pool is on its way.
LEMMA PushedIsScheduled ==
    ASSUME TypeOK, PoolPush(Execute), ~refused'
    PROVE  Scheduled'
<1>1. PICK q \in Threads : Len(poolq'[q]) = Len(poolq[q]) + 1 /\ poolq'[q][Len(poolq[q]) + 1] = Execute
    BY PoolPushed, Zenon DEF PoolWork
<1>2. poolq'[q] \in Seq(PoolWork) /\ poolq[q] \in Seq(PoolWork)
    BY PoolPushed, Zenon DEF PoolWork, TypeOK
<1>3. Len(poolq[q]) + 1 \in DOMAIN poolq'[q]
    BY <1>1
<1> QED BY <1>1 DEF Scheduled, Elems

\* A pool push removes nothing.
LEMMA PoolGrows ==
    ASSUME TypeOK, NEW w \in PoolWork, PoolPush(w)
    PROVE  \A p \in Threads : \A i \in DOMAIN poolq[p] : i \in DOMAIN poolq'[p] /\ poolq'[p][i] = poolq[p][i]
<1>1. CASE poolq' # poolq
    <2>1. PICK q \in Threads :
                /\ Len(poolq'[q]) = Len(poolq[q]) + 1
                /\ \A i \in 1..Len(poolq[q]) : poolq'[q][i] = poolq[q][i]
                /\ \A p \in Threads \ {q} : poolq'[p] = poolq[p]
        BY <1>1, PoolPushed, Zenon
    <2>2. poolq'[q] \in Seq(PoolWork) /\ poolq[q] \in Seq(PoolWork)
        BY PoolPushed, Zenon DEF TypeOK
    <2>3. \A i \in DOMAIN poolq[q] : i \in DOMAIN poolq'[q] /\ poolq'[q][i] = poolq[q][i]
        BY <2>1
    <2> QED BY <2>1, <2>3, Zenon
<1>2. CASE poolq' = poolq
    BY <1>2
<1> QED BY <1>1, <1>2, Zenon

\* The push that finds the serializer empty schedules execute_tasks, which requeues
\* itself while anything is left.
LEMMA WakeStep == IInv /\ [Next]_vars => NoLostWakeup'
<1> SUFFICES ASSUME IInv, [Next]_vars,
                    ~refused', suspended' # "SUSPENDED", queue' # <<>> \/ executing'
             PROVE  Scheduled'
    BY DEF NoLostWakeup
<1> USE WorkAssumption
<1>u. CASE UNCHANGED vars
    BY <1>u, Zenon DEF vars, tps, susp, pool, loop, NoLostWakeup, Scheduled, IInv
<1>1. ASSUME NEW c \in Clients, NEW t \in Tasks, NEW wait \in BOOLEAN, ast_taskprocessor_push(c, t, wait)
      PROVE  Scheduled'
    <2>1. UNCHANGED <<executing, running, poolq, refused, suspended, tpc, requeue>>
        BY <1>1, Zenon DEF ast_taskprocessor_push, PushFrom, pool, susp, loop
    <2>2. \/ queue = <<>> /\ ~executing /\ cpc'[c] = "notify"
          \/ (queue # <<>> \/ executing) /\ \A d \in Clients : cpc[d] = "notify" => cpc'[d] = "notify"
        BY <1>1, Zenon DEF ast_taskprocessor_push, PushFrom, ClientGoto, CanCall, TypeOK, IInv
    <2>3. CASE cpc'[c] = "notify"
        BY <2>3, Zenon DEF Scheduled
    <2>4. CASE (queue # <<>> \/ executing) /\ \A d \in Clients : cpc[d] = "notify" => cpc'[d] = "notify"
        BY <2>1, <2>4, KeptScheduled, Zenon DEF NoLostWakeup, StillScheduled, Executing, IInv
    <2> QED BY <2>2, <2>3, <2>4, Zenon
<1>2. ASSUME NEW c \in Clients, serializer_task_pushed(c) PROVE Scheduled'
    BY <1>2, PushedIsScheduled, Zenon DEF serializer_task_pushed, IInv
<1>3. ASSUME NEW c \in Clients, NEW w \in Jobs, push_job(c, w) PROVE Scheduled'
    <2>1. w \in PoolWork /\ w # Execute
        BY Zenon DEF PoolWork
    <2>2. refused' = refused
        BY <1>3, <2>1, PoolPushed, Zenon DEF push_job, IInv
    <2>3. StillScheduled
        BY <1>3, <2>1, PoolGrows, Zenon DEF push_job, IInv, StillScheduled, Executing, loop
    <2> QED BY <1>3, <2>2, <2>3, KeptScheduled, Zenon DEF push_job, tps, susp, NoLostWakeup, IInv
<1>4. ASSUME NEW c \in Clients, serializer_suspend(c) PROVE Scheduled'
    BY <1>4, KeptScheduled, Zenon DEF serializer_suspend, tps, pool, loop, NoLostWakeup, TypeOK, IInv,
       ClientGoto, CanCall, StillScheduled, Executing
<1>5. ASSUME NEW c \in Clients, push_suspend_task(c) PROVE Scheduled'
    <2>1. UNCHANGED <<executing, running, poolq, refused, suspended, tpc, requeue>>
        BY <1>5, Zenon DEF push_suspend_task, PushFrom, pool, susp, loop
    <2>2. \/ queue = <<>> /\ ~executing /\ cpc'[c] = "notify"
          \/ (queue # <<>> \/ executing) /\ \A d \in Clients : cpc[d] = "notify" => cpc'[d] = "notify"
        BY <1>5, Zenon DEF push_suspend_task, PushFrom, ClientGoto, TypeOK, IInv
    <2>3. CASE cpc'[c] = "notify"
        BY <2>3, Zenon DEF Scheduled
    <2>4. CASE (queue # <<>> \/ executing) /\ \A d \in Clients : cpc[d] = "notify" => cpc'[d] = "notify"
        BY <2>1, <2>4, KeptScheduled, Zenon DEF NoLostWakeup, StillScheduled, Executing, IInv
    <2> QED BY <2>2, <2>3, <2>4, Zenon
<1>6. ASSUME NEW c \in Clients, suspend_push_failed(c) PROVE Scheduled'
    <2>1. \A d \in Clients : cpc[d] = "notify" => cpc'[d] = "notify"
        BY <1>6, Zenon DEF suspend_push_failed, ClientGoto, TypeOK, IInv
    <2>2. UNCHANGED <<queue, executing, suspended, refused, poolq, tpc, requeue>>
        BY <1>6, Zenon DEF suspend_push_failed, tps, susp, pool, loop
    <2> QED BY <2>1, <2>2, KeptScheduled, Zenon DEF NoLostWakeup, IInv, StillScheduled, Executing
<1>7. ASSUME NEW c \in Clients, suspend_failed(c) PROVE Scheduled'
    BY <1>7, KeptScheduled, Zenon DEF suspend_failed, tps, pool, loop, SuspInv, NoLostWakeup, IInv,
       StillScheduled, Executing
<1>8. ASSUME NEW c \in Clients, serializer_unsuspend(c) PROVE Scheduled'
    BY <1>8, PushedIsScheduled, Zenon DEF serializer_unsuspend, IInv
<1>9. ASSUME ast_taskpool_shutdown PROVE Scheduled'
    BY <1>9, KeptScheduled, Zenon DEF ast_taskpool_shutdown, tps, susp, loop, NoLostWakeup, IInv, StillScheduled,
       Executing
<1>10. ASSUME NEW p \in Threads, take(p) PROVE Scheduled'
    <2>1. Scheduled
        BY <1>10, Zenon DEF take, tps, susp, NoLostWakeup, IInv
    <2>2. \A q \in Threads : q # p => tpc'[q] = tpc[q] /\ poolq'[q] = poolq[q]
        BY <1>10, Zenon DEF take, ThreadGoto, TypeOK, IInv
    <2>3. tpc[p] = "idle" /\ UNCHANGED <<cpc, requeue>>
        BY <1>10, Zenon DEF take, loop
    <2>4. CASE Head(poolq[p]) = Execute
        BY <1>10, <2>4, Zenon DEF take, ThreadGoto, Scheduled, TypeOK, IInv
    <2>5. CASE Head(poolq[p]) # Execute
        <3>1. ASSUME Execute \in Elems(poolq[p]) PROVE Execute \in Elems(poolq'[p])
            <4>1. poolq[p] \in Seq(PoolWork) /\ poolq[p] # <<>> /\ poolq'[p] = Tail(poolq[p])
                BY <1>10, Zenon DEF take, TypeOK, IInv
            <4> QED BY <2>5, <3>1, <4>1, ElemsPop, Zenon
        <3>2. \A q \in Threads : Executing(q) => tpc'[q] = tpc[q]
            BY <2>2, <2>3, Zenon DEF Executing
        <3> QED BY <2>1, <2>2, <2>3, <3>1, Zenon DEF Scheduled
    <2> QED BY <2>4, <2>5, Zenon
<1>11. ASSUME NEW p \in Threads, execute_tasks(p) PROVE Scheduled'
    BY <1>11 DEF execute_tasks, tps, susp, pool, LockInv, IInv, ThreadGoto, TypeOK, Scheduled
<1>12. ASSUME NEW p \in Threads, execute_next(p) PROVE Scheduled'
    BY <1>12 DEF execute_next, ThreadGoto, Scheduled
<1>13. ASSUME NEW p \in Threads, execute_return(p) PROVE Scheduled'
    <2>1. executing' = FALSE /\ UNCHANGED <<queue, suspended>>
        BY <1>13, Zenon DEF execute_return, Return, susp
    <2>2. tpc'[p] = "loopE" \/ (tpc'[p] = "endE" /\ requeue'[p])
        BY <1>13, <2>1, Zenon DEF execute_return, ThreadGoto, TypeOK, IInv
    <2> QED BY <2>2, Zenon DEF Scheduled
<1>14. ASSUME NEW p \in Threads, execute_end(p) PROVE Scheduled'
    <2>1. CASE requeue[p]
        BY <1>14, <2>1, PushedIsScheduled, Zenon DEF execute_end, IInv
    <2>2. CASE ~requeue[p]
        <3>1. Scheduled /\ UNCHANGED <<cpc, requeue>>
            BY <1>14, <2>2, Zenon DEF execute_end, tps, susp, loop, pool, NoLostWakeup, IInv
        <3>2. /\ \A q \in Threads \ {p} : tpc'[q] = tpc[q]
              /\ tpc[p] = "endE" /\ poolq' = poolq
            BY <1>14, <2>2, Goes, Zenon DEF execute_end, pool, IInv
        <3>3. StillScheduled
            BY <2>2, <3>1, <3>2, Zenon DEF StillScheduled, Executing
        <3> QED BY <3>1, <3>3, KeptScheduled, Zenon
    <2> QED BY <2>1, <2>2, Zenon
<1>15. ASSUME NEW p \in Threads, sync_task(p) PROVE Scheduled'
    BY <1>15, KeptScheduled, Zenon DEF sync_task, tps, susp, pool, loop, NoLostWakeup, IInv, Executing,
       StillScheduled
<1>16. ASSUME NEW p \in Threads, suspend_task(p) PROVE Scheduled'
    BY <1>16, Zenon DEF suspend_task
<1>17. ASSUME NEW p \in Threads, suspend_task_failed(p) PROVE Scheduled'
    BY <1>17, KeptScheduled, Zenon DEF suspend_task_failed, tps, pool, loop, NoLostWakeup, IInv, Executing,
       StillScheduled
<1>18. ASSUME NEW p \in Threads, wait_direct(p) PROVE Scheduled'
    <2>1. Scheduled
        BY <1>18, Zenon DEF wait_direct, susp, pool, NoLostWakeup, IInv
    <2>2. ~Executing(p) /\ ThreadGoto(p, "direct") /\ UNCHANGED <<poolq, requeue, cpc>>
        BY <1>18, Zenon DEF wait_direct, pool, loop, Executing
    <2> QED BY <2>1, <2>2, OtherGoes, KeptScheduled, Zenon DEF IInv
<1>19. ASSUME NEW p \in Threads, direct_return(p) PROVE Scheduled'
    <2>1. Scheduled
        BY <1>19, Zenon DEF direct_return, susp, pool, NoLostWakeup, IInv
    <2>2. ~Executing(p) /\ ThreadGoto(p, "idle") /\ UNCHANGED <<poolq, requeue, cpc>>
        BY <1>19, Zenon DEF direct_return, pool, loop, Executing
    <2> QED BY <2>1, <2>2, OtherGoes, KeptScheduled, Zenon DEF IInv
<1>20. ASSUME NEW p \in Threads, wait_push(p) PROVE Scheduled'
    <2>1. Scheduled
        BY <1>20, Zenon DEF wait_push, susp, pool, NoLostWakeup, IInv
    <2>2. ~Executing(p) /\ ThreadGoto(p, "pushW") /\ UNCHANGED <<poolq, requeue, cpc>>
        BY <1>20, Zenon DEF wait_push, pool, loop, Executing
    <2> QED BY <2>1, <2>2, OtherGoes, KeptScheduled, Zenon DEF IInv
<1>21. ASSUME NEW p \in Threads, wait_push_failed(p) PROVE Scheduled'
    <2>1. Scheduled
        BY <1>21, Zenon DEF wait_push_failed, tps, susp, pool, NoLostWakeup, IInv
    <2>2. ~Executing(p) /\ ThreadGoto(p, "idle") /\ UNCHANGED <<poolq, requeue, cpc>>
        BY <1>21, Zenon DEF wait_push_failed, pool, loop, Executing
    <2> QED BY <2>1, <2>2, OtherGoes, KeptScheduled, Zenon DEF IInv
<1>22. ASSUME NEW p \in Threads, wait_push_empty(p) PROVE Scheduled'
    <2>1. Scheduled
        BY <1>22, WaitLoops, Zenon DEF wait_push_empty, pool, LoopInv, NoLostWakeup, IInv
    <2>2. UNCHANGED poolq
        BY <1>22, Zenon DEF wait_push_empty, pool
    <2>3. \A q \in Threads : Executing(q) => tpc'[q] = tpc[q] /\ requeue'[q] = requeue[q]
        BY <1>22, WaitLoops, Zenon DEF wait_push_empty, loop, Executing, IInv
    <2>4. UNCHANGED cpc
        BY <1>22, Zenon DEF wait_push_empty
    <2> QED BY <2>1, <2>2, <2>3, <2>4, KeptScheduled, Zenon DEF StillScheduled, Executing
<1>23. ASSUME NEW p \in Threads, wait_execute(p) PROVE Scheduled'
    <2>1. Scheduled
        BY <1>23, Zenon DEF wait_execute, Pop, susp, pool, NoLostWakeup, IInv
    <2>2. ~Executing(p) /\ ThreadGoto(p, "runW") /\ UNCHANGED <<poolq, requeue, cpc>>
        BY <1>23, Zenon DEF wait_execute, pool, loop, Executing
    <2> QED BY <2>1, <2>2, OtherGoes, KeptScheduled, Zenon DEF IInv
<1>24. ASSUME NEW p \in Threads, wait_execute_empty(p) PROVE Scheduled'
    <2>1. Scheduled
        BY <1>24, WaitLoops, Zenon DEF wait_execute_empty, tps, pool, NoLostWakeup, IInv
    <2>2. UNCHANGED poolq
        BY <1>24, Zenon DEF wait_execute_empty, pool
    <2>3. \A q \in Threads : Executing(q) => tpc'[q] = tpc[q] /\ requeue'[q] = requeue[q]
        BY <1>24, WaitLoops, Zenon DEF wait_execute_empty, loop, Executing, IInv
    <2>4. UNCHANGED cpc
        BY <1>24, Zenon DEF wait_execute_empty
    <2> QED BY <2>1, <2>2, <2>3, <2>4, KeptScheduled, Zenon DEF StillScheduled, Executing
<1>25. ASSUME NEW p \in Threads, wait_return(p) PROVE Scheduled'
    <2>1. Scheduled
        BY <1>25, WaitLoops, Zenon DEF wait_return, Return, pool, LockInv, NoLostWakeup, IInv
    <2>2. UNCHANGED <<poolq, cpc>>
        BY <1>25, Zenon DEF wait_return, pool
    <2>3. \A q \in Threads : Executing(q) => tpc'[q] = tpc[q] /\ requeue'[q] = requeue[q]
        BY <1>25, WaitLoops, Zenon DEF wait_return, loop, Executing, IInv
    <2> QED BY <2>1, <2>2, <2>3, KeptScheduled, Zenon DEF StillScheduled, Executing
<1>26. ASSUME NEW p \in Threads, wait_woken(p) PROVE Scheduled'
    BY <1>26, KeptScheduled, Zenon DEF wait_woken, tps, susp, pool, loop, NoLostWakeup, TypeOK, IInv,
       ThreadGoto, Executing, StillScheduled
<1>27. ASSUME NEW c \in Clients, Call(c) \/ Continue(c) PROVE Scheduled'
    BY <1>27, <1>1, <1>2, <1>3, <1>4, <1>5, <1>6, <1>7, <1>8, Zenon DEF Call, Continue
<1>28. ASSUME NEW p \in Threads, ThreadStep(p) PROVE Scheduled'
    BY <1>28, <1>10, <1>11, <1>12, <1>13, <1>14, <1>15, <1>16, <1>17, <1>18, <1>19, <1>20, <1>21,
       <1>22, <1>23, <1>24, <1>25, <1>26, Zenon DEF ThreadStep
<1> QED BY <1>u, <1>9, <1>27, <1>28, Zenon DEF Next

-----------------------------------------------------------------------------
(* One execute_tasks                                                       *)

\* A step that adds no execute_tasks.
NoneAdded ==
    /\ \A q \in Threads : Executing(q)' => Executing(q)
    /\ \A d \in Clients : cpc'[d] = "notify" => cpc[d] = "notify"
    /\ \A q \in Threads : \A i \in DOMAIN poolq'[q] : poolq'[q][i] = Execute =>
        i \in DOMAIN poolq[q] /\ poolq[q][i] = Execute

\* ... and neither empties the serializer nor suspends or resumes it, nor begins
\* or ends a task during a suspension.
CalmStep ==
    /\ NoneAdded
    /\ queue' = <<>> => queue = <<>>
    /\ executing' = executing
    /\ suspended' # suspended => "SUSPENDED" \notin {suspended, suspended'}
    /\ crossed' = crossed
    /\ \A q \in Threads : tpc[q] \in {"runE", "runW"} => tpc'[q] = tpc[q] /\ running' = running
    /\ \A q \in Threads : tpc'[q] \in {"execW", "direct", "runE", "runW"} =>
        tpc[q] = tpc'[q] \/ suspended # "SUSPENDED" \/ queue = <<>>

\* A step that adds no execute_tasks leaves at most one.
LEMMA SoloKept ==
    ASSUME Solo, NoneAdded
    PROVE  Solo' /\ (Scheduled' => Scheduled)
<1>1. /\ \A p, q \in Threads : Executing(p)' /\ Executing(q)' => p = q
      /\ \A c, d \in Clients : cpc'[c] = "notify" /\ cpc'[d] = "notify" => c = d
    BY Zenon DEF Solo, NoneAdded
<1>2. ASSUME NEW p \in Threads, Executing(p)'
      PROVE  /\ \A c \in Clients : cpc'[c] # "notify"
             /\ \A q \in Threads : \A j \in DOMAIN poolq'[q] : poolq'[q][j] # Execute
    BY <1>2 DEF Solo, NoneAdded
<1>3. ASSUME NEW p \in Threads, NEW i \in DOMAIN poolq'[p], poolq'[p][i] = Execute
      PROVE  /\ \A c \in Clients : cpc'[c] # "notify"
             /\ \A q \in Threads : \A j \in DOMAIN poolq'[q] : poolq'[q][j] = Execute => p = q /\ i = j
    BY <1>3 DEF Solo, NoneAdded
<1>4. ASSUME Scheduled' PROVE Scheduled
    BY <1>4 DEF Scheduled, Executing, Elems, NoneAdded
<1> QED BY <1>1, <1>2, <1>3, <1>4, Zenon DEF Solo

\* A calm step preserves all of this.
LEMMA KeptCalm ==
    ASSUME IInv, [Next]_vars, CalmStep
    PROVE  SoloInv' /\ Still'
<1>1. ASSUME ~paused' PROVE Solo' /\ Busy' /\ Crossing'
    <2>1. Solo /\ Busy /\ Crossing
        BY <1>1, PausedStays, Zenon DEF SoloInv, IInv
    <2>2. Solo' /\ (Scheduled' => Scheduled)
        BY <2>1, SoloKept DEF CalmStep
    <2>3. Busy'
        BY <2>1, <2>2 DEF Busy, CalmStep
    <2>4. Crossing'
        BY <2>1, Zenon DEF Crossing, CalmStep
    <2> QED BY <2>2, <2>3, <2>4
<1>2. Still'
    <2> SUFFICES ASSUME suspended' = "SUSPENDED", ~crossed'
                 PROVE  /\ queue' # <<>>
                        /\ \A c \in Clients : cpc'[c] # "notify"
                        /\ \A p \in Threads :
                            /\ \A i \in DOMAIN poolq'[p] : poolq'[p][i] # Execute
                            /\ Executing(p)' => tpc'[p] = "runE"
                            /\ tpc'[p] \notin {"execW", "direct"}
                            /\ tpc'[p] \in {"runE", "runW"} => running' = Susp
        BY Zenon DEF Still
    <2>1. suspended = "SUSPENDED" /\ ~crossed
        BY Zenon DEF CalmStep
    <2> QED BY <2>1, Zenon DEF Still, CalmStep, NoneAdded, IInv
<1> QED BY <1>1, <1>2, Zenon DEF SoloInv

\* A thread that goes on elsewhere without executing anything.
LEMMA CalmThread ==
    ASSUME NEW p \in Threads, \A q \in Threads \ {p} : tpc'[q] = tpc[q] /\ requeue'[q] = requeue[q],
           UNCHANGED <<poolq, cpc, executing, suspended, crossed>>,
           queue' = <<>> => queue = <<>>,
           tpc[p] \notin {"runE", "runW"}, tpc'[p] \notin {"execW", "runE", "runW"},
           tpc'[p] = "direct" => queue = <<>>,
           Executing(p)' => Executing(p),
           running' = running \/ \A q \in Threads : tpc[q] \notin {"runE", "runW"}
    PROVE  CalmStep
<1>1. NoneAdded
    BY Zenon DEF NoneAdded, Executing
<1> QED BY <1>1, Zenon DEF CalmStep

\* Nobody has it: whoever creates it has the only one.
LEMMA Unscheduled ==
    ASSUME ~Scheduled
    PROVE  /\ \A q \in Threads : ~Executing(q) /\ \A i \in DOMAIN poolq[q] : poolq[q][i] # Execute
           /\ \A d \in Clients : cpc[d] # "notify"
BY ScheduledBy, Zenon

\* An execute_tasks that is pushed when there is no other is the only one.
LEMMA OnlyPooled ==
    ASSUME TypeOK, PoolPush(Execute),
           \A q \in Threads : ~Executing(q)' /\ \A i \in DOMAIN poolq[q] : poolq[q][i] # Execute,
           \A d \in Clients : cpc'[d] # "notify"
    PROVE  Solo'
<1>1. \A q, r \in Threads : \A i \in DOMAIN poolq'[q], j \in DOMAIN poolq'[r] :
        poolq'[q][i] = Execute /\ poolq'[r][j] = Execute => q = r /\ i = j
    BY WorkPushed DEF PoolWork
<1> QED BY <1>1 DEF Solo

\* The execute_tasks of a thread, of a queue of the pool or of a client is an
\* element of Executors, and these are all.
LEMMA ExecutorsAre ==
    \A x : x \in Executors <=>
        \/ \E p \in Threads : \E i \in DOMAIN poolq[p] : poolq[p][i] = Execute /\ x = <<p, i>>
        \/ \E p \in Threads : Executing(p) /\ x = <<p, 0>>
        \/ \E c \in Clients : cpc[c] = "notify" /\ x = <<c, 0>>
<1>1. \A x : x \in Pooled <=> \E p \in Threads : \E i \in DOMAIN poolq[p] : poolq[p][i] = Execute /\ x = <<p, i>>
    BY DEF Pooled
<1>2. \A x : x \in Taken <=> \E p \in Threads : Executing(p) /\ x = <<p, 0>>
    BY DEF Taken, Executing
<1>3. \A x : x \in Coming <=> \E c \in Clients : cpc[c] = "notify" /\ x = <<c, 0>>
    BY DEF Coming
<1> QED BY <1>1, <1>2, <1>3, Zenon DEF Executors

\* Solo says that there is one of them.
LEMMA SoloExecutor ==
    ASSUME Solo
    PROVE  \A x, y \in Executors : x = y
<1> SUFFICES ASSUME NEW x \in Executors, NEW y \in Executors PROVE x = y
    OBVIOUS
<1>1. ASSUME NEW z \in Executors
      PROVE  \/ \E p \in Threads : \E i \in DOMAIN poolq[p] : poolq[p][i] = Execute /\ z = <<p, i>>
             \/ \E p \in Threads : Executing(p) /\ z = <<p, 0>>
             \/ \E c \in Clients : cpc[c] = "notify" /\ z = <<c, 0>>
    BY ExecutorsAre, Zenon
<1> QED BY <1>1, WorkAssumption DEF Solo

\* The first push to an idle serializer.
LEMMA FirstPush ==
    ASSUME IInv, [Next]_vars, NEW c \in Clients, queue = <<>>, ~executing, queue' # <<>>,
           UNCHANGED <<executing, running, poolq, suspended, crossed, paused, tpc, requeue>>,
           \A d \in Clients : d # c => cpc'[d] = cpc[d]
    PROVE  SoloInv' /\ Still'
<1>1. Still'
    BY Zenon DEF Still, IInv
<1>2. ASSUME ~paused PROVE Solo' /\ Busy' /\ Crossing'
    <2>1. Solo /\ Busy /\ Crossing
        BY <1>2, Zenon DEF SoloInv, IInv
    <2>2. suspended # "SUSPENDED"
        BY <2>1, Zenon DEF Crossing, Still, LockInv, IInv
    <2>3. ~Scheduled
        BY <2>1, <2>2, Zenon DEF Busy
    <2>4. \A q \in Threads : ~Executing(q)' /\ \A i \in DOMAIN poolq'[q] : poolq'[q][i] # Execute
        BY <2>3, Unscheduled, Zenon DEF Executing
    <2>5. \A d \in Clients : cpc'[d] = "notify" => d = c
        BY <2>3, Unscheduled, Zenon
    <2>6. Solo'
        BY <2>4, <2>5 DEF Solo
    <2> QED BY <2>2, <2>6, Zenon DEF Busy, Crossing
<1> QED BY <1>1, <1>2, Zenon DEF SoloInv

\* Only a push to an empty serializer, the requeueing and the end of a suspension
\* create an execute_tasks, each when there is no other; a suspension leaves none.
LEMMA SoloStep == IInv /\ [Next]_vars => SoloInv' /\ Still'
<1> SUFFICES ASSUME IInv, [Next]_vars PROVE SoloInv' /\ Still'
    OBVIOUS
<1> USE WorkAssumption
<1>s. ~paused' => Solo /\ Busy /\ Crossing /\ ~paused
    BY PausedStays, Zenon DEF SoloInv, IInv
<1>t. Still /\ TypeOK
    BY Zenon DEF IInv
<1>u. CASE UNCHANGED vars
    <2>1. CalmStep
        BY <1>u, Zenon DEF vars, tps, susp, pool, loop, CalmStep, NoneAdded, Executing
    <2> QED BY <2>1, KeptCalm, Zenon
<1>1. ASSUME NEW c \in Clients, NEW t \in Tasks, NEW wait \in BOOLEAN, ast_taskprocessor_push(c, t, wait)
      PROVE  SoloInv' /\ Still'
    <2>1. UNCHANGED <<executing, running, poolq, suspended, crossed, paused, tpc, requeue>>
        BY <1>1, Zenon DEF ast_taskprocessor_push, PushFrom, pool, susp, loop
    <2>2. queue' # <<>>
        BY <1>1 DEF ast_taskprocessor_push, PushFrom
    <2>3. /\ \A d \in Clients : d # c => cpc'[d] = cpc[d]
          /\ queue # <<>> \/ executing => cpc'[c] # "notify"
        BY <1>1, Zenon DEF ast_taskprocessor_push, PushFrom, ClientGoto, TypeOK, IInv
    <2>4. CASE queue = <<>> /\ ~executing
        BY <2>1, <2>2, <2>3, <2>4, FirstPush, Zenon
    <2>5. CASE queue # <<>> \/ executing
        <3>1. CalmStep
            BY <2>1, <2>2, <2>3, <2>5, Zenon DEF CalmStep, NoneAdded, Executing
        <3> QED BY <3>1, KeptCalm, Zenon
    <2> QED BY <2>4, <2>5, Zenon
<1>2. ASSUME NEW c \in Clients, serializer_task_pushed(c) PROVE SoloInv' /\ Still'
    <2>1. /\ UNCHANGED <<queue, executing, running, suspended, crossed, tpc, requeue>>
          /\ cpc[c] = "notify" /\ PoolPush(Execute)
        BY <1>2, Zenon DEF serializer_task_pushed, tps, susp, loop
    <2>2. cpc'[c] = "idle" /\ \A d \in Clients : d # c => cpc'[d] = cpc[d]
        BY <1>2, <1>t, Zenon DEF serializer_task_pushed, ClientGoto, TypeOK
    <2>3. Still'
        BY <1>t, <2>1, Zenon DEF Still
    <2>4. ASSUME ~paused' PROVE Solo' /\ Busy' /\ Crossing'
        <3>1. /\ \A q \in Threads : ~Executing(q)' /\ \A i \in DOMAIN poolq[q] : poolq[q][i] # Execute
              /\ \A d \in Clients : cpc'[d] # "notify"
            BY <1>s, <2>1, <2>2, <2>4, Zenon DEF Solo, Executing
        <3>2. Solo'
            BY <1>t, <2>1, <3>1, OnlyPooled, Zenon
        <3>3. Scheduled
            BY <2>1, Zenon DEF Scheduled
        <3> QED BY <1>s, <2>1, <2>4, <3>2, <3>3, Zenon DEF Busy, Crossing
    <2> QED BY <2>3, <2>4, Zenon DEF SoloInv
<1>3. ASSUME NEW c \in Clients, NEW w \in Jobs, push_job(c, w) PROVE SoloInv' /\ Still'
    <2>1. /\ tpc' = tpc /\ cpc' = cpc /\ queue' = queue /\ running' = running /\ executing' = executing
          /\ requeue' = requeue /\ suspended' = suspended /\ crossed' = crossed /\ PoolPush(w) /\ TypeOK
        BY <1>3, Zenon DEF push_job, tps, susp, loop, IInv
    <2>2. w \in PoolWork /\ w # Execute
        BY WorkAssumption, Zenon DEF PoolWork
    <2>3. \A q \in Threads : \A i \in DOMAIN poolq'[q] : poolq'[q][i] # w =>
            i \in DOMAIN poolq[q] /\ poolq'[q][i] = poolq[q][i]
        BY <2>1, <2>2, WorkPushed, Zenon
    <2>4. CalmStep
        BY <2>1, <2>2, <2>3, Zenon DEF CalmStep, NoneAdded, Executing
    <2> QED BY <2>4, KeptCalm, Zenon
<1>4. ASSUME NEW c \in Clients, serializer_suspend(c) PROVE SoloInv' /\ Still'
    <2>1. /\ tpc' = tpc /\ poolq' = poolq /\ queue' = queue /\ running' = running /\ executing' = executing
          /\ requeue' = requeue /\ suspended = "UNSUSPENDED" /\ suspended' = "SUSPENDING" /\ crossed' = crossed
          /\ ClientGoto(c, "suspending")
        BY <1>4, Zenon DEF serializer_suspend, tps, pool, loop
    <2>2. \A d \in Clients : cpc'[d] = "notify" => cpc[d] = "notify"
        BY <2>1 DEF ClientGoto
    <2>3. CalmStep
        BY <2>1, <2>2, Zenon DEF CalmStep, NoneAdded, Executing
    <2> QED BY <2>3, KeptCalm, Zenon
<1>5. ASSUME NEW c \in Clients, push_suspend_task(c) PROVE SoloInv' /\ Still'
    <2>1. UNCHANGED <<executing, running, poolq, suspended, crossed, paused, tpc, requeue>>
        BY <1>5, Zenon DEF push_suspend_task, PushFrom, pool, susp, loop
    <2>2. queue' # <<>>
        BY <1>5 DEF push_suspend_task, PushFrom
    <2>3. /\ \A d \in Clients : d # c => cpc'[d] = cpc[d]
          /\ queue # <<>> \/ executing => cpc'[c] # "notify"
        BY <1>5 DEF push_suspend_task, PushFrom, ClientGoto
    <2>4. CASE queue = <<>> /\ ~executing
        BY <2>1, <2>2, <2>3, <2>4, FirstPush, Zenon
    <2>5. CASE queue # <<>> \/ executing
        <3>1. CalmStep
            BY <2>1, <2>2, <2>3, <2>5, Zenon DEF CalmStep, NoneAdded, Executing
        <3> QED BY <3>1, KeptCalm, Zenon
    <2> QED BY <2>4, <2>5, Zenon
<1>6. ASSUME NEW c \in Clients, suspend_push_failed(c) PROVE SoloInv' /\ Still'
    <2>1. CalmStep
        <3>1. \A d \in Clients : cpc'[d] = "notify" => cpc[d] = "notify"
            BY <1>6, Zenon DEF suspend_push_failed, ClientGoto, TypeOK, IInv
        <3> QED BY <1>6, <3>1, Zenon DEF suspend_push_failed, tps, susp, pool, loop, CalmStep, NoneAdded,
                   Executing
    <2> QED BY <2>1, KeptCalm, Zenon
<1>7. ASSUME NEW c \in Clients, suspend_failed(c) PROVE SoloInv' /\ Still'
    <2>1. CalmStep
        BY <1>7, Zenon DEF suspend_failed, tps, SuspInv, IInv, pool, loop, CalmStep, NoneAdded, Executing
    <2> QED BY <2>1, KeptCalm, Zenon
<1>8. ASSUME NEW c \in Clients, serializer_unsuspend(c) PROVE SoloInv' /\ Still'
    <2>1. /\ UNCHANGED <<queue, executing, running, requeue, cpc>> /\ PoolPush(Execute)
          /\ suspended = "SUSPENDED" /\ suspended' = "UNSUSPENDED"
        BY <1>8, Zenon DEF serializer_unsuspend, tps, loop
    <2>2. \A q \in Threads : tpc[q] \notin {"loopE", "runE", "runW"}
        BY <1>8, Zenon DEF serializer_unsuspend, LockInv, IInv
    <2>3. \A q \in Threads : Executing(q)' => Executing(q)
        BY <1>8, <2>1, Zenon DEF serializer_unsuspend, Executing
    <2>4. ASSUME ~paused' PROVE Solo' /\ Busy' /\ Crossing'
        <3>1. ~crossed
            BY <1>s, <2>1, <2>2, <2>4, Zenon DEF Crossing
        <3>2. /\ \A q \in Threads : ~Executing(q)' /\ \A i \in DOMAIN poolq[q] : poolq[q][i] # Execute
              /\ \A d \in Clients : cpc'[d] # "notify"
              /\ queue # <<>>
            BY <1>t, <2>1, <2>2, <2>3, <3>1, Zenon DEF Still
        <3>3. Solo'
            BY <1>t, <2>1, <3>2, OnlyPooled, Zenon
        <3> QED BY <2>1, <3>2, <3>3, Zenon DEF Busy, Crossing
    <2> QED BY <2>1, <2>4, Zenon DEF SoloInv, Still
<1>9. ASSUME ast_taskpool_shutdown PROVE SoloInv' /\ Still'
    <2>1. CalmStep
        BY <1>9, Zenon DEF ast_taskpool_shutdown, tps, susp, loop, CalmStep, NoneAdded, Executing
    <2> QED BY <2>1, KeptCalm, Zenon
<1>10. ASSUME NEW p \in Threads, take(p) PROVE SoloInv' /\ Still'
    <2>1. UNCHANGED <<queue, executing, running, suspended, crossed, cpc, requeue>> /\ tpc[p] = "idle"
        BY <1>10, Zenon DEF take, tps, susp, loop
    <2>2. /\ tpc'[p] = IF poolq[p][1] = Execute THEN "lockE" ELSE "lockW"
          /\ \A q \in Threads : q # p => tpc'[q] = tpc[q]
        BY <1>10 DEF take, ThreadGoto, TypeOK, IInv
    <2>3. /\ 1 \in DOMAIN poolq[p]
          /\ \A q \in Threads \ {p} : poolq'[q] = poolq[q]
          /\ \A i \in DOMAIN poolq'[p] : i + 1 \in DOMAIN poolq[p] /\ i + 1 # 1 /\ poolq'[p][i] = poolq[p][i + 1]
          /\ \A i, j \in DOMAIN poolq'[p] : i + 1 = j + 1 => i = j
        <3>0. poolq'[p] \in Seq(PoolWork)
            BY <1>10, PoolTaken DEF IInv
        <3>1. /\ poolq[p] \in Seq(PoolWork)
              /\ Len(poolq[p]) \in Nat /\ Len(poolq[p]) >= 1 /\ Len(poolq'[p]) = Len(poolq[p]) - 1
              /\ \A i \in 1..Len(poolq'[p]) : poolq'[p][i] = poolq[p][i + 1]
              /\ \A q \in Threads \ {p} : poolq'[q] = poolq[q]
            BY <1>10, PoolTaken, Zenon DEF IInv
        <3>2. DOMAIN poolq'[p] = 1..Len(poolq'[p]) /\ DOMAIN poolq[p] = 1..Len(poolq[p])
            BY <3>0
        <3>3. \A i \in DOMAIN poolq'[p] : i \in Nat /\ i + 1 \in DOMAIN poolq[p] /\ i + 1 # 1
            BY <3>1, <3>2
        <3>4. \A i \in DOMAIN poolq'[p] : poolq'[p][i] = poolq[p][i + 1]
            BY <3>1, <3>2, Zenon
        <3>5. \A i, j \in DOMAIN poolq'[p] : i + 1 = j + 1 => i = j
            BY <3>2
        <3>6. 1 \in DOMAIN poolq[p]
            BY <3>1
        <3> QED BY <3>1, <3>3, <3>4, <3>5, <3>6, Zenon
    <2>4. \A q \in Threads : q # p => (Executing(q)' <=> Executing(q))
        BY <2>1, <2>2, Zenon DEF Executing
    <2>c. Crossing => Crossing'
        BY <2>1, <2>2, Zenon DEF Crossing
    <2>5. CASE poolq[p][1] = Execute
        <3>1. Still'
            BY <1>t, <2>1, <2>3, <2>5, Zenon DEF Still
        <3>2. ASSUME ~paused' PROVE Solo' /\ Busy' /\ Crossing'
            <4>1. \A q \in Threads : ~Executing(q)
                BY <1>s, <2>3, <2>5, <3>2, Zenon DEF Solo
            <4>2. \A q \in Threads : \A i \in DOMAIN poolq'[q] : poolq'[q][i] # Execute
                BY <1>s, <2>3, <2>5, <3>2 DEF Solo
            <4>3. \A d \in Clients : cpc'[d] # "notify"
                BY <1>s, <2>1, <2>3, <2>5, <3>2, Zenon DEF Solo
            <4>4. Solo'
                BY <2>4, <4>1, <4>2, <4>3, Zenon DEF Solo
            <4>5. Scheduled
                BY <2>3, <2>5 DEF Scheduled, Elems
            <4> QED BY <1>s, <2>1, <2>c, <3>2, <4>4, <4>5, Zenon DEF Busy
        <3> QED BY <3>1, <3>2, Zenon DEF SoloInv
    <2>6. CASE poolq[p][1] # Execute
        <3>1. \A q \in Threads : Executing(q)' <=> Executing(q)
            BY <2>1, <2>2, <2>6, Zenon DEF Executing
        <3>2. ASSUME ~paused' PROVE Solo' /\ Busy' /\ Crossing'
            <4>1. Solo'
                <5>1. ASSUME NEW q \in Threads, NEW i \in DOMAIN poolq'[q], poolq'[q][i] = Execute
                      PROVE  \E j \in DOMAIN poolq[q] : poolq[q][j] = Execute
                    <6>1. CASE q = p
                        BY <2>3, <5>1, <6>1, Zenon
                    <6>2. CASE q # p
                        BY <2>3, <5>1, <6>2, Zenon
                    <6> QED BY <6>1, <6>2, Zenon
                <5>2. ASSUME NEW q \in Threads, NEW r \in Threads,
                             NEW i \in DOMAIN poolq'[q], NEW j \in DOMAIN poolq'[r],
                             poolq'[q][i] = Execute, poolq'[r][j] = Execute
                      PROVE  q = r /\ i = j
                    <6>1. q = r
                        BY <1>s, <3>2, <5>1, <5>2, Zenon DEF Solo
                    <6>s. \A m, n \in DOMAIN poolq[q] : poolq[q][m] = Execute /\ poolq[q][n] = Execute => m = n
                        BY <1>s, <3>2 DEF Solo
                    <6>2. CASE q = p
                        <7>1. /\ i + 1 \in DOMAIN poolq[q] /\ poolq[q][i + 1] = Execute
                              /\ j + 1 \in DOMAIN poolq[q] /\ poolq[q][j + 1] = Execute
                            BY <2>3, <5>2, <6>1, <6>2, Zenon
                        <7>2. i + 1 = j + 1
                            BY <6>s, <7>1, Zenon
                        <7> QED BY <2>3, <6>1, <6>2, <7>2, Zenon
                    <6>3. CASE q # p
                        BY <2>3, <5>2, <6>s, <6>1, <6>3, Zenon
                    <6> QED BY <6>1, <6>2, <6>3, Zenon
                <5>3. \A q, r \in Threads : Executing(q)' /\ Executing(r)' => q = r
                    BY <1>s, <3>1, <3>2, Zenon DEF Solo
                <5>4. ASSUME NEW q \in Threads, Executing(q)'
                      PROVE  /\ \A d \in Clients : cpc'[d] # "notify"
                             /\ \A r \in Threads : \A j \in DOMAIN poolq'[r] : poolq'[r][j] # Execute
                    BY <1>s, <2>1, <3>1, <3>2, <5>1, <5>4, Zenon DEF Solo
                <5>5. ASSUME NEW q \in Threads, NEW i \in DOMAIN poolq'[q], poolq'[q][i] = Execute
                      PROVE  \A d \in Clients : cpc'[d] # "notify"
                    BY <1>s, <2>1, <3>2, <5>1, <5>5, Zenon DEF Solo
                <5>6. \A d, e \in Clients : cpc'[d] = "notify" /\ cpc'[e] = "notify" => d = e
                    BY <1>s, <2>1, <3>2, Zenon DEF Solo
                <5> QED BY <5>2, <5>3, <5>4, <5>5, <5>6, Zenon DEF Solo
            <4>2. ASSUME NEW q \in Threads, Execute \in Elems(poolq'[q])
                  PROVE  Execute \in Elems(poolq[q])
                BY <2>3, <4>2 DEF Elems
            <4>3. Scheduled' => Scheduled
                BY <2>1, <3>1, <4>2, Zenon DEF Scheduled, Executing
            <4> QED BY <1>s, <2>1, <2>c, <3>2, <4>1, <4>3, Zenon DEF Busy
        <3>3. Still'
            <4>1. \A q \in Threads : (\A i \in DOMAIN poolq[q] : poolq[q][i] # Execute) =>
                    \A i \in DOMAIN poolq'[q] : poolq'[q][i] # Execute
                <5> SUFFICES ASSUME NEW q \in Threads, \A i \in DOMAIN poolq[q] : poolq[q][i] # Execute
                             PROVE  \A i \in DOMAIN poolq'[q] : poolq'[q][i] # Execute
                    OBVIOUS
                <5>1. CASE q = p
                    <6> SUFFICES ASSUME NEW i \in DOMAIN poolq'[p] PROVE poolq'[p][i] # Execute
                        BY <5>1, Zenon
                    <6>1. i + 1 \in DOMAIN poolq[p] /\ poolq'[p][i] = poolq[p][i + 1]
                        BY <2>3, Zenon
                    <6> QED BY <5>1, <6>1, Zenon
                <5>2. CASE q # p
                    <6>1. poolq'[q] = poolq[q]
                        BY <2>3, <5>2
                    <6> QED BY <6>1, Zenon
                <5> QED BY <5>1, <5>2, Zenon
            <4>2. \A q \in Threads : tpc'[q] = tpc[q] \/ tpc'[q] = "lockW"
                BY <2>2, <2>6, Zenon
            <4>3. \A q \in Threads : Executing(q) => tpc'[q] = tpc[q]
                BY <2>1, <2>2, Zenon DEF Executing
            <4> QED BY <1>t, <2>1, <3>1, <4>1, <4>2, <4>3, Zenon DEF Still
        <3> QED BY <3>2, <3>3, Zenon DEF SoloInv
    <2> QED BY <2>5, <2>6, Zenon
<1>11. ASSUME NEW p \in Threads, execute_tasks(p) PROVE SoloInv' /\ Still'
    <2>1. CalmStep
        <3>1. /\ \A q \in Threads \ {p} : tpc'[q] = tpc[q] /\ requeue'[q] = requeue[q]
              /\ tpc[p] = "lockE" /\ tpc'[p] \in {"endE", "loopE"}
            <4>1. ThreadGoto(p, "endE") \/ ThreadGoto(p, "loopE")
                BY <1>11, Zenon DEF execute_tasks
            <4>2. tpc'[p] \in {"endE", "loopE"} /\ \A q \in Threads \ {p} : tpc'[q] = tpc[q]
                BY <4>1, Goes, Zenon DEF IInv
            <4>3. \A q \in Threads \ {p} : requeue'[q] = requeue[q]
                BY <1>11, Zenon DEF execute_tasks, TypeOK, IInv
            <4> QED BY <1>11, <4>2, <4>3, Zenon DEF execute_tasks
        <3> QED BY <1>11, <3>1, CalmThread, Zenon DEF execute_tasks, tps, susp, pool, Executing
    <2> QED BY <2>1, KeptCalm, Zenon
<1>12. ASSUME NEW p \in Threads, execute_next(p) PROVE SoloInv' /\ Still'
    <2>1. UNCHANGED <<poolq, suspended, crossed, requeue, cpc>> /\ executing' /\ tpc[p] = "loopE"
        BY <1>12, Zenon DEF execute_next, Pop, pool, susp, loop
    <2>2. tpc'[p] = "runE" /\ \A q \in Threads : q # p => tpc'[q] = tpc[q]
        BY <1>12, <1>t, Zenon DEF execute_next, ThreadGoto, TypeOK
    <2>3. NoneAdded
        BY <2>1, <2>2, Zenon DEF NoneAdded, Executing
    <2>4. Executing(p) /\ \A q \in Threads : tpc[q] # "runW"
        BY <2>1, Zenon DEF Executing, LockInv, IInv
    <2>5. Still'
        BY <1>t, <2>1, <2>4, Zenon DEF Still
    <2>6. ASSUME ~paused' PROVE Solo' /\ Busy' /\ Crossing'
        <3>1. Solo'
            BY <1>s, <2>3, <2>6, SoloKept, Zenon
        <3>2. Crossing'
            BY <1>s, <2>1, <2>4, <2>6, Zenon DEF Crossing
        <3> QED BY <2>1, <3>1, <3>2, Zenon DEF Busy
    <2> QED BY <2>5, <2>6, Zenon DEF SoloInv
<1>13. ASSUME NEW p \in Threads, execute_return(p) PROVE SoloInv' /\ Still'
    <2>1. UNCHANGED <<queue, poolq, suspended, crossed, cpc>> /\ executing' = FALSE /\ tpc[p] = "runE"
        BY <1>13, Zenon DEF execute_return, Return, pool, susp
    <2>2. \A q \in Threads : q # p => tpc'[q] = tpc[q] /\ requeue'[q] = requeue[q]
        BY <1>13, Zenon DEF execute_return, ThreadGoto, TypeOK, IInv
    <2>3. NoneAdded
        BY <2>1, <2>2, Zenon DEF NoneAdded, Executing
    <2>4. queue = <<>> => remaining[p] = 1
        BY <2>1 DEF LoopInv, TypeOK, IInv
    <2>5. queue = <<>> \/ suspended = "SUSPENDED" => tpc'[p] = "endE" /\ ~requeue'[p]
        BY <1>13, <2>4, Zenon DEF execute_return, ThreadGoto, TypeOK, IInv
    <2>6. \A q \in Threads : q # p => tpc[q] \notin {"runE", "runW"}
        BY <2>1, Zenon DEF LockInv, IInv
    <2>7. Still'
        <3> SUFFICES ASSUME suspended' = "SUSPENDED", ~crossed'
                     PROVE  /\ queue' # <<>>
                            /\ \A c \in Clients : cpc'[c] # "notify"
                            /\ \A q \in Threads :
                                /\ \A i \in DOMAIN poolq'[q] : poolq'[q][i] # Execute
                                /\ Executing(q)' => tpc'[q] = "runE"
                                /\ tpc'[q] \notin {"execW", "direct"}
                                /\ tpc'[q] \in {"runE", "runW"} => running' = Susp
            BY Zenon DEF Still
        <3>1. tpc'[p] = "endE" /\ ~requeue'[p]
            BY <2>1, <2>5, Zenon
        <3>2. /\ queue' # <<>>
              /\ \A c \in Clients : cpc'[c] # "notify"
              /\ \A q \in Threads : \A i \in DOMAIN poolq'[q] : poolq'[q][i] # Execute
            BY <1>t, <2>1, Zenon DEF Still
        <3>3. \A q \in Threads : Executing(q) => q = p
            BY <1>t, <2>1, <2>6, Zenon DEF Still
        <3>4. \A q \in Threads : ~Executing(q)'
            BY <2>3, <3>1, <3>3, Zenon DEF NoneAdded, Executing
        <3>5. \A q \in Threads : tpc'[q] \notin {"execW", "direct", "runE", "runW"}
            BY <1>t, <2>1, <2>2, <2>6, <3>1, Zenon DEF Still
        <3> QED BY <3>2, <3>4, <3>5, Zenon
    <2>8. ASSUME ~paused' PROVE Solo' /\ Busy' /\ Crossing'
        <3>1. /\ \A q \in Threads : Executing(q) => q = p
              /\ \A d \in Clients : cpc'[d] # "notify"
              /\ \A q \in Threads : \A i \in DOMAIN poolq'[q] : poolq'[q][i] # Execute
            BY <1>s, <2>1, <2>8, Zenon DEF Solo, Executing
        <3>2. queue = <<>> => \A q \in Threads : ~Executing(q)'
            BY <2>3, <2>5, <3>1, Zenon DEF NoneAdded, Executing
        <3>3. queue = <<>> => ~Scheduled'
            BY <3>1, <3>2, Zenon DEF Scheduled, Executing, Elems
        <3>4. Solo'
            BY <1>s, <2>3, <2>8, SoloKept, Zenon
        <3>5. Crossing'
            BY <1>s, <2>1, <2>6, <2>8, Zenon DEF Crossing
        <3> QED BY <2>1, <3>3, <3>4, <3>5, Zenon DEF Busy
    <2> QED BY <2>7, <2>8, Zenon DEF SoloInv
<1>14. ASSUME NEW p \in Threads, execute_end(p) PROVE SoloInv' /\ Still'
    <2>1. UNCHANGED <<queue, executing, running, suspended, crossed, cpc, requeue>> /\ tpc[p] = "endE"
        BY <1>14, Zenon DEF execute_end, tps, susp, loop
    <2>2. tpc'[p] = "idle" /\ \A q \in Threads : q # p => tpc'[q] = tpc[q]
        BY <1>14, Zenon DEF execute_end, ThreadGoto, TypeOK, IInv
    <2>3. CASE requeue[p]
        <3>1. Executing(p)
            BY <2>1, <2>3, Zenon DEF Executing
        <3>2. Still'
            BY <1>t, <2>1, <3>1, Zenon DEF Still
        <3>3. ASSUME ~paused' PROVE Solo' /\ Busy' /\ Crossing'
            <4>1. /\ \A q \in Threads : ~Executing(q)' /\ \A i \in DOMAIN poolq[q] : poolq[q][i] # Execute
                  /\ \A d \in Clients : cpc'[d] # "notify"
                BY <1>s, <2>1, <2>2, <3>1, <3>3, Zenon DEF Solo, Executing
            <4>2. PoolPush(Execute)
                BY <1>14, <2>3, Zenon DEF execute_end
            <4>3. Solo'
                BY <1>t, <4>1, <4>2, OnlyPooled, Zenon
            <4>4. Scheduled
                BY <2>1, <2>3, Zenon DEF Scheduled
            <4>5. Crossing'
                BY <1>s, <2>1, <2>2, <3>3, Zenon DEF Crossing
            <4> QED BY <1>s, <2>1, <3>3, <4>3, <4>4, <4>5, Zenon DEF Busy
        <3> QED BY <3>2, <3>3, Zenon DEF SoloInv
    <2>4. CASE ~requeue[p]
        <3>1. CalmStep
            BY <1>14, <2>1, <2>2, <2>4, Zenon DEF execute_end, pool, CalmStep, NoneAdded, Executing
        <3> QED BY <3>1, KeptCalm, Zenon
    <2> QED BY <2>3, <2>4, Zenon
<1>15. ASSUME NEW p \in Threads, sync_task(p) PROVE SoloInv' /\ Still'
    <2>1. CalmStep
        BY <1>15, Zenon DEF sync_task, tps, susp, pool, loop, Executing, CalmStep, NoneAdded
    <2> QED BY <2>1, KeptCalm, Zenon
<1>16. ASSUME NEW p \in Threads, suspend_task(p) PROVE SoloInv' /\ Still'
    <2>1. /\ UNCHANGED <<executing, running, poolq, tpc, requeue, cpc>> /\ running = Susp
          /\ suspended' = "SUSPENDED" /\ tpc[p] \in {"runE", "runW"}
          /\ crossed' <=> Executors \ {<<p, 0>>} # {}
        BY <1>16, Zenon DEF suspend_task, pool, loop
    <2>2. queue' # <<>>
        BY <1>16, LenAppend, Zenon DEF suspend_task, Work, IInv
    <2>3. NoneAdded
        BY <2>1, Zenon DEF NoneAdded, Executing
    <2>4. Still'
        <3> SUFFICES ASSUME ~crossed'
                     PROVE  /\ \A c \in Clients : cpc[c] # "notify"
                            /\ \A q \in Threads :
                                /\ \A i \in DOMAIN poolq[q] : poolq[q][i] # Execute
                                /\ Executing(q) => tpc[q] = "runE"
                                /\ tpc[q] \notin {"execW", "direct"}
            BY <2>1, <2>2, Zenon DEF Still, Executing
        <3>1. \A x \in Executors : x = <<p, 0>>
            BY <2>1, Zenon
        <3>2. ASSUME NEW c \in Clients, cpc[c] = "notify" PROVE FALSE
            <4>1. <<c, 0>> \in Executors
                BY <3>2, ExecutorsAre, Zenon
            <4> QED BY <3>1, <4>1
        <3>3. ASSUME NEW q \in Threads, NEW i \in DOMAIN poolq[q], poolq[q][i] = Execute PROVE FALSE
            <4>1. <<q, i>> \in Executors
                BY <3>3, ExecutorsAre, Zenon
            <4>2. i # 0
                BY <1>t DEF TypeOK
            <4> QED BY <3>1, <4>1, <4>2
        <3>4. ASSUME NEW q \in Threads, Executing(q) PROVE tpc[q] = "runE"
            <4>1. <<q, 0>> \in Executors
                BY <3>4, ExecutorsAre, Zenon
            <4>2. q = p
                BY <3>1, <4>1
            <4> QED BY <2>1, <3>4, <4>2, Zenon DEF Executing
        <3>5. \A q \in Threads : tpc[q] \notin {"execW", "direct"}
            BY <2>1, Zenon DEF LockInv, IInv
        <3> QED BY <3>2, <3>3, <3>4, <3>5, Zenon
    <2>5. ASSUME ~paused' PROVE Solo' /\ Busy' /\ Crossing'
        <3>1. Solo'
            BY <1>s, <2>3, <2>5, SoloKept, Zenon
        <3>2. ASSUME tpc[p] = "runE" PROVE ~crossed'
            <4>1. <<p, 0>> \in Executors
                BY <3>2, ExecutorsAre, Zenon DEF Executing
            <4>2. \A x \in Executors : x = <<p, 0>>
                BY <1>s, <2>5, <4>1, SoloExecutor, Zenon
            <4> QED BY <2>1, <4>2, Zenon
        <3>3. Crossing'
            BY <2>1, <3>2, Zenon DEF Crossing
        <3> QED BY <2>1, <3>1, <3>3, Zenon DEF Busy
    <2> QED BY <2>4, <2>5, Zenon DEF SoloInv
<1>17. ASSUME NEW p \in Threads, suspend_task_failed(p) PROVE SoloInv' /\ Still'
    <2>1. CalmStep
        BY <1>17, Zenon DEF suspend_task_failed, tps, susp, pool, loop, Executing, CalmStep, NoneAdded
    <2> QED BY <2>1, KeptCalm, Zenon
<1>18. ASSUME NEW p \in Threads, wait_direct(p) PROVE SoloInv' /\ Still'
    <2>1. CalmStep
        <3>1. /\ \A q \in Threads \ {p} : tpc'[q] = tpc[q]
              /\ \A q \in Threads : tpc[q] \notin {"runE", "runW"}
              /\ tpc[p] = "lockW" /\ tpc'[p] = "direct"
            BY <1>18, Goes, WorkAssumption, Zenon DEF wait_direct, LockInv, IInv
        <3> QED BY <1>18, <3>1, CalmThread, Zenon DEF wait_direct, susp, pool, loop, Executing
    <2> QED BY <2>1, KeptCalm, Zenon
<1>19. ASSUME NEW p \in Threads, direct_return(p) PROVE SoloInv' /\ Still'
    <2>1. CalmStep
        <3>1. /\ \A q \in Threads \ {p} : tpc'[q] = tpc[q]
              /\ \A q \in Threads : tpc[q] \notin {"runE", "runW"}
              /\ tpc[p] = "direct" /\ tpc'[p] = "idle"
            BY <1>19, Goes, Zenon DEF direct_return, LockInv, IInv
        <3> QED BY <1>19, <3>1, CalmThread, Zenon DEF direct_return, susp, pool, loop, Executing
    <2> QED BY <2>1, KeptCalm, Zenon
<1>20. ASSUME NEW p \in Threads, wait_push(p) PROVE SoloInv' /\ Still'
    <2>1. CalmStep
        <3>1. /\ \A q \in Threads \ {p} : tpc'[q] = tpc[q]
              /\ tpc[p] = "lockW" /\ tpc'[p] = "pushW" /\ queue # <<>>
            BY <1>20, Goes, Zenon DEF wait_push, IInv
        <3>2. queue' # <<>>
            BY <1>20, <3>1, LenAppend, Zenon DEF wait_push, JobInv, Work, IInv
        <3> QED BY <1>20, <3>1, <3>2, CalmThread, Zenon DEF wait_push, susp, pool, loop, Executing
    <2> QED BY <2>1, KeptCalm, Zenon
<1>21. ASSUME NEW p \in Threads, wait_push_failed(p) PROVE SoloInv' /\ Still'
    <2>1. CalmStep
        <3>1. /\ \A q \in Threads \ {p} : tpc'[q] = tpc[q]
              /\ tpc[p] = "lockW" /\ tpc'[p] = "idle"
            BY <1>21, Goes, Zenon DEF wait_push_failed, IInv
        <3> QED BY <1>21, <3>1, CalmThread, Zenon DEF wait_push_failed, tps, susp, pool, loop, Executing
    <2> QED BY <2>1, KeptCalm, Zenon
<1>22. ASSUME NEW p \in Threads, wait_push_empty(p) PROVE SoloInv' /\ Still'
    <2>1. (queue' = <<>> => queue = <<>>) /\ executing' = executing
        BY <1>22, LenAppend, Zenon DEF wait_push_empty, IInv, Work
    <2>2. UNCHANGED <<poolq, cpc, running, requeue>> /\ tpc[p] = "pushW"
        BY <1>22, Zenon DEF wait_push_empty, pool, loop
    <2>3. /\ UNCHANGED <<suspended, crossed>> /\ \A q \in Threads : q # p => tpc'[q] = tpc[q]
          /\ tpc'[p] = "asleep" \/ (tpc'[p] = "execW" /\ suspended # "SUSPENDED")
        BY <1>22, WaitLoops, Zenon DEF wait_push_empty, IInv
    <2>4. CalmStep
        BY <2>1, <2>2, <2>3, Zenon DEF CalmStep, NoneAdded, Executing
    <2> QED BY <2>4, KeptCalm, Zenon
<1>23. ASSUME NEW p \in Threads, wait_execute(p) PROVE SoloInv' /\ Still'
    <2>1. tpc[p] = "execW" /\ UNCHANGED <<poolq, suspended, crossed, requeue, cpc>> /\ executing'
        BY <1>23, Zenon DEF wait_execute, pool, susp, loop, Pop
    <2>2. \A q \in Threads : Executing(q)' => Executing(q)
        BY <1>23 DEF wait_execute, loop, ThreadGoto, Executing
    <2>3. NoneAdded
        BY <2>1, <2>2, Zenon DEF NoneAdded
    <2>4. \A q \in Threads : tpc[q] # "runW"
        BY <2>1, Zenon DEF LockInv, IInv
    <2>5. Still'
        BY <1>t, <2>1, Zenon DEF Still
    <2>6. ASSUME ~paused' PROVE Solo' /\ Busy' /\ Crossing'
        <3>1. Solo'
            BY <1>s, <2>3, <2>6, SoloKept, Zenon
        <3> QED BY <1>s, <2>1, <2>4, <2>6, <3>1, Zenon DEF Busy, Crossing
    <2> QED BY <2>5, <2>6, Zenon DEF SoloInv
<1>24. ASSUME NEW p \in Threads, wait_execute_empty(p) PROVE SoloInv' /\ Still'
    <2>1. UNCHANGED <<queue, executing, poolq, cpc, running, requeue>> /\ tpc[p] = "execW"
        BY <1>24, Zenon DEF wait_execute_empty, tps, pool, loop
    <2>2. /\ UNCHANGED <<suspended, crossed>> /\ \A q \in Threads : q # p => tpc'[q] = tpc[q]
          /\ tpc'[p] \in {"idle", "asleep", "execW"}
        BY <1>24, WaitLoops, Zenon DEF wait_execute_empty, IInv
    <2>3. CalmStep
        BY <2>1, <2>2, Zenon DEF CalmStep, NoneAdded, Executing
    <2> QED BY <2>3, KeptCalm, Zenon
<1>25. ASSUME NEW p \in Threads, wait_return(p) PROVE SoloInv' /\ Still'
    <2>1. tpc[p] = "runW" /\ UNCHANGED <<queue, poolq, requeue, cpc>> /\ awaits[p] # running
        BY <1>25, Zenon DEF wait_return, Return, pool, loop
    <2>2. /\ UNCHANGED <<suspended, crossed>> /\ \A q \in Threads : q # p => tpc'[q] = tpc[q]
          /\ \/ awaits[p] = None /\ tpc'[p] = "idle"
             \/ awaits[p] # None /\ suspended = "SUSPENDED" /\ tpc'[p] = "asleep" /\ paused'
             \/ awaits[p] # None /\ suspended # "SUSPENDED" /\ tpc'[p] = "execW"
        BY <1>25, WaitLoops, Zenon DEF wait_return, IInv
    <2>3. NoneAdded
        BY <2>1, <2>2, Zenon DEF NoneAdded, Executing
    <2>4. \A q \in Threads : q # p => tpc[q] \notin {"runE", "runW"}
        BY <2>1, Zenon DEF LockInv, IInv
    <2>5. Still'
        BY <1>t, <2>1, <2>2, <2>3, <2>4, Zenon DEF Still, NoneAdded
    <2>6. ASSUME ~paused' PROVE Solo' /\ Busy' /\ Crossing'
        <3>1. Syncing(p)
            BY <1>s, <2>6, Zenon DEF SyncInv, IInv
        <3>2. queue' # <<>>
            <4>1. queue # <<>>
                BY <2>1, <3>1, BehindNonempty, Zenon DEF Syncing, IInv
            <4> QED BY <2>1, <4>1, Zenon
        <3>3. Solo'
            BY <1>s, <2>3, <2>6, SoloKept, Zenon
        <3>4. suspended = "SUSPENDED" => running \in Jobs
            BY <2>1, <2>2, <2>6, <3>1, Zenon DEF Syncing
        <3>5. Crossing'
            BY <1>s, <2>2, <2>6, <3>4, Zenon DEF Crossing
        <3> QED BY <3>2, <3>3, <3>5, Zenon DEF Busy
    <2> QED BY <2>5, <2>6, Zenon DEF SoloInv
<1>26. ASSUME NEW p \in Threads, wait_woken(p) PROVE SoloInv' /\ Still'
    <2>1. /\ poolq' = poolq /\ cpc' = cpc /\ queue' = queue /\ running' = running /\ executing' = executing
          /\ requeue' = requeue /\ suspended' = suspended /\ crossed' = crossed /\ tpc[p] = "woken"
        BY <1>26, Zenon DEF wait_woken, tps, susp, pool, loop
    <2>2. /\ tpc'[p] = "asleep" \/ (tpc'[p] = "execW" /\ suspended # "SUSPENDED")
          /\ \A q \in Threads : q # p => tpc'[q] = tpc[q]
        BY <1>26 DEF wait_woken, ThreadGoto, TypeOK, IInv
    <2>3. CalmStep
        BY <2>1, <2>2, Zenon DEF CalmStep, NoneAdded, Executing
    <2> QED BY <2>3, KeptCalm, Zenon
<1>27. ASSUME NEW c \in Clients, Call(c) \/ Continue(c) PROVE SoloInv' /\ Still'
    BY <1>27, <1>1, <1>2, <1>3, <1>4, <1>5, <1>6, <1>7, <1>8, Zenon DEF Call, Continue
<1>28. ASSUME NEW p \in Threads, ThreadStep(p) PROVE SoloInv' /\ Still'
    BY <1>28, <1>10, <1>11, <1>12, <1>13, <1>14, <1>15, <1>16, <1>17, <1>18, <1>19, <1>20, <1>21,
       <1>22, <1>23, <1>24, <1>25, <1>26, Zenon DEF ThreadStep
<1> QED BY <1>u, <1>9, <1>27, <1>28, Zenon DEF Next

-----------------------------------------------------------------------------
(* Theorems                                                                *)

\* The invariant holds before the first push.
LEMMA InitHolds == Init => IInv
<1> SUFFICES ASSUME Init PROVE IInv
    OBVIOUS
<1> USE WorkAssumption DEF Init
<1>e. DOMAIN <<>> = {}
    OBVIOUS
<1>1. TypeOK
    <2>1. /\ queue \in Seq(Work) /\ done \in Seq(Work) /\ suspends \in Nat
          /\ poolq \in [Threads -> Seq(PoolWork)] /\ remaining \in [Threads -> Nat]
        OBVIOUS
    <2>2. /\ tpc \in [Threads -> ThreadStates] /\ requeue \in [Threads -> BOOLEAN]
          /\ cpc \in [Clients -> ClientStates]
          /\ awaits \in [Clients \union Threads -> Work \union {Fail, None}]
        BY Zenon DEF ThreadStates, ClientStates
    <2> QED BY <2>1, <2>2, Zenon DEF TypeOK
<1>2. LockInv /\ LoopInv /\ SuspInv
    BY Zenon DEF LockInv, LoopInv, SuspInv, Suspender
<1>3. JobInv
    <2>1. Elems(queue) = {} /\ \A p \in Threads : DOMAIN poolq[p] = {}
        BY <1>e, Zenon DEF Elems
    <2>2. \A w \in Tasks \union Jobs : running # w
        BY Zenon
    <2>3. \A a \in Clients \union Threads : awaits[a] = None
        BY Zenon
    <2> QED BY <2>1, <2>2, <2>3, Zenon DEF JobInv
<1>4. SyncInv
    BY Zenon DEF SyncInv, Syncing
<1>5. ~Scheduled
    BY <1>e, Zenon DEF Scheduled, Elems
<1>6. Solo
    BY <1>e, Zenon DEF Solo, Executing
<1> QED BY <1>1, <1>2, <1>3, <1>4, <1>5, <1>6, Zenon DEF IInv, NoLostWakeup, SoloInv, Busy, Crossing, Still

\* The invariant holds in every reachable state of every instance.
THEOREM Invariance == Spec => []IInv
<1>1. IInv /\ [Next]_vars => IInv'
    BY TypeStep, LockStep, LoopStep, SuspStep, JobStep, SyncStep, WakeStep, SoloStep, Zenon DEF IInv
<1> QED BY <1>1, InitHolds, PTL DEF Spec

\* Every variable keeps its type.
THEOREM TypeCorrect == Spec => []TypeOK
<1>1. IInv => TypeOK
    BY DEF IInv
<1> QED BY <1>1, Invariance, PTL

\* While anything is queued or executed on a serializer that is not suspended,
\* execute_tasks is on its way, unless the pool refused the last one: whatever
\* pushes, waits, suspensions and other refusals came before.
THEOREM WakeupNeverLost == Spec => []NoLostWakeup
<1>1. IInv => NoLostWakeup
    BY DEF IInv
<1> QED BY <1>1, Invariance, PTL

\* At most one execute_tasks exists at a time, with any number of sync waiters
\* and of suspensions, until a suspension pauses a waiter.
THEOREM ExecutorIsUnique == Spec => []SingleExecutor
<1>1. IInv => SingleExecutor
    BY SoloExecutor, Zenon DEF IInv, SoloInv, SingleExecutor
<1> QED BY <1>1, Invariance, PTL

\* A suspended serializer executes nothing but the end of the suspend task, with
\* any number of sync waiters, unless its suspension crossed an execute_tasks.
THEOREM SuspensionIsQuiet == Spec => []QuietWhenSuspended
<1>1. IInv => QuietWhenSuspended
    <2> SUFFICES ASSUME IInv, suspended = "SUSPENDED", ~crossed, running # None
                 PROVE  running = Susp
        BY Zenon DEF QuietWhenSuspended
    <2>1. PICK p \in Threads : tpc[p] \in {"runE", "runW", "direct"}
        BY Zenon DEF IInv, LockInv
    <2> QED BY <2>1, Zenon DEF IInv, Still
<1> QED BY <1>1, Invariance, PTL

\* The serializer implements a serial executor, whoever executes its tasks:
\* execute_tasks, a sync waiter or a direct call.
THEOREM Refinement == Spec => IsSerialExecutor
<1>1. Init => Serial!Init
    BY DEF Init, Serial!Init
<1>2. IInv /\ [Next]_vars => [Serial!Next]_Serial!vars
    <2> SUFFICES ASSUME IInv, [Next]_vars PROVE [Serial!Next]_Serial!vars
        OBVIOUS
    <2> USE DEF Serial!Next, Serial!vars
    <2>1. ASSUME NEW c \in Clients, NEW t \in Tasks, NEW wait \in BOOLEAN, ast_taskprocessor_push(c, t, wait)
          PROVE  Serial!Submit(t) /\ t \in Work
        BY <2>1, Zenon DEF ast_taskprocessor_push, PushFrom, Serial!Submit, Work
    <2>2. ASSUME NEW c \in Clients, push_suspend_task(c) PROVE Serial!Submit(Susp) /\ Susp \in Work
        BY <2>2, Zenon DEF push_suspend_task, PushFrom, Serial!Submit, Work
    <2>3. ASSUME NEW p \in Threads, suspend_task(p) PROVE Serial!Submit(Empty) /\ Empty \in Work
        BY <2>3, Zenon DEF suspend_task, Serial!Submit, Work
    <2>4. ASSUME NEW p \in Threads, wait_push(p)
          PROVE  Serial!Submit(awaits[p]) /\ awaits[p] \in Work
        BY <2>4, Zenon DEF wait_push, Serial!Submit, Work, IInv, JobInv
    <2>5. ASSUME NEW p \in Threads, wait_push_empty(p) PROVE Serial!Submit(Empty) /\ Empty \in Work
        BY <2>5, Zenon DEF wait_push_empty, Serial!Submit, Work
    <2>6. ASSUME NEW p \in Threads, execute_next(p) \/ wait_execute(p) PROVE Serial!Begin
        <3>1. running = None
            BY <2>6 DEF execute_next, wait_execute, IInv, LockInv
        <3> QED BY <2>6, <3>1, Zenon DEF execute_next, wait_execute, Pop, Serial!Begin
    <2>7. ASSUME NEW p \in Threads, wait_direct(p)
          PROVE  Serial!Inline(awaits[p]) /\ awaits[p] \in Work
        <3>1. awaits[p] \in Work
            BY <2>7, Zenon DEF wait_direct, Work, IInv, JobInv
        <3>2. running = None
            BY <2>7, WorkAssumption, Zenon DEF wait_direct, IInv, LockInv
        <3> QED BY <2>7, <3>1, <3>2, Zenon DEF wait_direct, Serial!Inline
    <2>8. ASSUME NEW p \in Threads, execute_return(p) \/ wait_return(p) \/ direct_return(p)
          PROVE  Serial!Finish
        BY <2>8, Zenon DEF execute_return, wait_return, direct_return, Return, Serial!Finish, IInv, LockInv
    <2>9. ASSUME NEW c \in Clients,
                 \/ serializer_suspend(c) \/ serializer_unsuspend(c) \/ serializer_task_pushed(c)
                 \/ suspend_push_failed(c) \/ suspend_failed(c) \/ \E w \in Jobs : push_job(c, w)
          PROVE  UNCHANGED tps
        BY <2>9, Zenon DEF serializer_suspend, serializer_unsuspend, serializer_task_pushed,
           suspend_push_failed, suspend_failed, push_job
    <2>10. ASSUME NEW p \in Threads,
                  \/ take(p) \/ execute_tasks(p) \/ execute_end(p) \/ sync_task(p)
                  \/ suspend_task_failed(p) \/ wait_push_failed(p) \/ wait_execute_empty(p) \/ wait_woken(p)
           PROVE  UNCHANGED tps
        BY <2>10, Zenon DEF take, execute_tasks, execute_end, sync_task, suspend_task_failed,
           wait_push_failed, wait_execute_empty, wait_woken
    <2>11. CASE UNCHANGED tps
        BY <2>11 DEF tps
    <2>12. ASSUME NEW c \in Clients, Call(c) \/ Continue(c) PROVE [Serial!Next]_Serial!vars
        BY <2>1, <2>2, <2>9, <2>11, <2>12, Zenon DEF Call, Continue
    <2>13. ASSUME NEW p \in Threads, ThreadStep(p) PROVE [Serial!Next]_Serial!vars
        BY <2>3, <2>4, <2>5, <2>6, <2>7, <2>8, <2>10, <2>11, <2>13, Zenon DEF ThreadStep
    <2>14. CASE ast_taskpool_shutdown \/ UNCHANGED vars
        BY <2>11, <2>14, Zenon DEF ast_taskpool_shutdown, vars
    <2> QED BY <2>12, <2>13, <2>14, Zenon DEF Next
<1> QED BY <1>1, <1>2, Invariance, PTL DEF Spec, IsSerialExecutor, Serial!Spec
=============================================================================
