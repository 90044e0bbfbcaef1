------------------------------- MODULE Taskpool -------------------------------
(***************************************************************************)
(* A pool of taskprocessors (main/taskpool.c): pushing through a selector, *)
(* growing, the scheduled callback that shrinks the pool, and shutdown.    *)
(*                                                                         *)
(* A worker is a struct taskpool_taskprocessor with its taskprocessor and  *)
(* its thread, which executes what is queued and ends once it has been     *)
(* unreferenced (the module TaskProcessor).  A critical section of the     *)
(* pool's lock is one step, but for the shrink callback, which holds the   *)
(* lock while it joins the threads it removes.                             *)
(***************************************************************************)
EXTENDS Integers, Sequences, FiniteSets

CONSTANTS
    Clients,        \* threads that push from outside of the pool
    MaxWorkers,     \* workers that there is memory for
    RawOptions,     \* options passed to ast_taskpool_create, each with a bound
                    \* on the calls of ast_taskpool_push
    DefaultThreshold, \* TASKPOOL_GROW_THRESHOLD
    ShrinkThread,   \* the scheduler's thread, in the shrink callback
    ShutdownThread, \* the thread that calls ast_taskpool_shutdown
    None

Workers == 1 .. MaxWorkers
Pushers == Clients \union Workers

ASSUME OptionsAssumption ==
    /\ MaxWorkers \in Nat /\ DefaultThreshold \in Nat
    /\ Clients \intersect Workers = {} /\ None \notin Pushers /\ None \notin {"start", "task", "stop"}
    /\ ShrinkThread \notin Pushers \union {ShutdownThread} /\ ShutdownThread \notin Pushers
    /\ RawOptions \subseteq [initial : Nat, min : Nat, max : Nat, inc : Nat, threshold : Nat,
                             sequential : BOOLEAN, pushes : Nat]

VARIABLES
    opts,           \* pool->options and pool->selector
    static, dynamic, \* the two vectors
    num,            \* their taskprocessor_num
    refs,           \* refs[w]: references to the wrapper
    idle,           \* workers last pushed to longer than idle_timeout ago
    queue,          \* queue[w]: queue of the taskprocessor
    cur,            \* cur[w]: what its thread executes
    state,          \* state[w]: unused, up, stopping, detached, ended
    pc, sel,        \* where a pusher is in ast_taskpool_push, with which worker
    shrink, idx, removed, victim, \* the shrink callback and its loop
    shut, joined,   \* ast_taskpool_shutdown
    shutting_down,
    prefs,          \* references to the pool
    pushes,
    busy_removed,   \* history: the shrink removed a worker with work left
    leaked          \* history: the callback's reference was lost

pool == <<static, dynamic, num, refs, idle>>
work == <<queue, cur, state>>
push == <<pc, sel, pushes>>
shrinker == <<shrink, idx, removed, victim, busy_removed>>
shutdown == <<shut, joined, shutting_down, leaked>>
vars == <<opts, pool, work, push, shrinker, shutdown, prefs>>

-----------------------------------------------------------------------------
(* ast_taskpool_create                                                     *)

\* The adjustments of the options.
Adjusted(o) ==
    LET initial == IF o.initial < o.min THEN o.min ELSE o.initial
        max == IF o.max # 0 /\ initial > o.max THEN initial ELSE o.max
        min1 == IF o.min = 0 THEN 1 ELSE o.min
        max1 == IF max = 0 THEN min1 ELSE max
    IN  IF o.inc = 0
        THEN [o EXCEPT !.min = max1, !.max = max1, !.initial = IF min1 # max1 THEN max1 ELSE initial]
        ELSE [o EXCEPT !.initial = initial, !.max = max,
                       !.threshold = IF @ = 0 THEN DefaultThreshold ELSE @]

Created(o) == 1 .. (IF o.initial > o.min THEN o.initial ELSE o.min)

\* A pool that has been created, with the start tasks queued and, when it can
\* grow, the shrink callback scheduled.
Init ==
    /\ opts \in {Adjusted(o) : o \in RawOptions}
    /\ Created(opts) \subseteq Workers
    /\ static = [i \in 1 .. opts.min |-> i]
    /\ dynamic = [i \in 1 .. (opts.initial - opts.min) |-> opts.min + i]
    /\ num = [static |-> 0, dynamic |-> 0]
    /\ refs = [w \in Workers |-> IF w \in Created(opts) THEN 1 ELSE 0]
    /\ idle = {}
    /\ queue = [w \in Workers |-> IF w \in Created(opts) THEN <<"start">> ELSE <<>>]
    /\ cur = [w \in Workers |-> None]
    /\ state = [w \in Workers |-> IF w \in Created(opts) THEN "up" ELSE "unused"]
    /\ pc = [a \in Pushers |-> "idle"] /\ sel = [a \in Pushers |-> None]
    /\ shrink = IF opts.inc > 0 THEN "scheduled" ELSE "gone"
    /\ idx = 0 /\ removed = FALSE /\ victim = None
    /\ shut = "up" /\ joined = None /\ shutting_down = FALSE
    /\ prefs = 1 + Cardinality(Created(opts)) + (IF opts.inc > 0 THEN 1 ELSE 0)
    /\ pushes = 0
    /\ busy_removed = FALSE /\ leaked = FALSE

-----------------------------------------------------------------------------
(* References to workers                                                   *)

\* taskpool_taskprocessor_dtor, when the last reference goes: the stop task is
\* queued and the taskprocessor unreferenced by thread a, which then joins the
\* worker's thread unless it is that thread.
Drop(w, a) ==
    /\ refs' = [refs EXCEPT ![w] = @ - 1]
    /\ IF refs[w] = 1
        THEN state' = [state EXCEPT ![w] = IF a = w THEN "detached" ELSE "stopping"]
        ELSE UNCHANGED state

\* The queue of w after Drop, when q was its queue before.
Stopped(w, q) == IF refs[w] = 1 THEN Append(q, "stop") ELSE q

MustJoin(w, a) == refs[w] = 1 /\ a # w

-----------------------------------------------------------------------------
(* Selecting and pushing                                                   *)

Size(w) == Len(queue[w])
Full(w) == Size(w) >= opts.threshold

\* The worker that a selector finds in v, the next index, and whether to grow.
sequential_selector(v, n) ==
    [w |-> v[n + 1], num |-> IF n + 1 = Len(v) THEN 0 ELSE n + 1, grow |-> Full(v[n + 1])]

\* The loop ends at the first worker with nothing queued; only the workers before
\* it were looked at for the growth threshold.
least_full_selector(v, n) ==
    LET empty == {i \in DOMAIN v : Size(v[i]) = 0}
        first == IF empty = {} THEN Len(v) + 1 ELSE CHOOSE i \in empty : \A j \in empty : i <= j
        least == CHOOSE i \in DOMAIN v : \A j \in DOMAIN v :
                    Size(v[i]) < Size(v[j]) \/ (Size(v[i]) = Size(v[j]) /\ i <= j)
    IN  [w |-> IF empty = {} THEN v[least] ELSE v[first], num |-> n,
         grow |-> \E i \in 1 .. first - 1 : Full(v[i])]

\* A selector leaves the choice alone when the vector is empty.
Select(v, n, choice) ==
    IF v = <<>> THEN [w |-> choice, num |-> n, grow |-> TRUE]
    ELSE IF opts.sequential THEN sequential_selector(v, n)
    ELSE least_full_selector(v, n)

\* Mutant: the pool grows by the whole increment.
NumToAdd_unclamped ==
    IF opts.max # 0 /\ Len(static) + Len(dynamic) >= opts.max THEN 0 ELSE opts.inc

\* taskpool_dynamic_pool_grow: how many workers it tries to add.
NumToAdd ==
    LET size == Len(static) + Len(dynamic) IN
    IF opts.max # 0 /\ size + opts.inc > opts.max THEN opts.max - size ELSE opts.inc

Unused == {w \in Workers : state[w] = "unused"}

\* n workers that are not in use.
Fresh(n) == CHOOSE s \in [1 .. n -> Unused] : \A i, j \in 1 .. n : i # j => s[i] # s[j]

\* n workers are appended, each with its start task and a reference to the pool.
taskpool_dynamic_pool_grow(n, d) ==
    LET new == Fresh(n)
        added == {new[i] : i \in 1 .. n}
    IN
    /\ dynamic' = dynamic \o new
    /\ num' = [num EXCEPT !.static = Select(static, num.static, None).num,
                          !.dynamic = IF n = 0 THEN d.num ELSE IF n = 1 THEN 0 ELSE Len(dynamic) + 1]
    /\ state' = [w \in Workers |-> IF w \in added THEN "up" ELSE state[w]]
    /\ queue' = [w \in Workers |-> IF w \in added THEN <<"start">> ELSE queue[w]]
    /\ prefs' = prefs + n

Unlocked == shrink \notin {"scan", "join"}

\* A client, or a task that a worker executes, calls ast_taskpool_push.
push_called(a) ==
    /\ pc[a] = "idle" /\ pushes < opts.pushes
    /\ IF a \in Workers THEN cur[a] = "task" ELSE shut = "up"
    /\ pc' = [pc EXCEPT ![a] = "lock"]
    /\ pushes' = pushes + 1
    /\ UNCHANGED <<opts, pool, work, sel, shrinker, shutdown, prefs>>

\* Nothing is pushed to a pool that shuts down.
push_refused(a) ==
    /\ pc[a] = "lock" /\ Unlocked /\ shutting_down
    /\ pc' = [pc EXCEPT ![a] = "idle"]
    /\ UNCHANGED <<opts, pool, work, sel, pushes, shrinker, shutdown, prefs>>

\* Mutant: no reference is taken.
Chosen_no_ref(a, w, added) ==
    /\ sel' = [sel EXCEPT ![a] = w]
    /\ pc' = [pc EXCEPT ![a] = IF w = None THEN "idle" ELSE "selected"]
    /\ refs' = [v \in Workers |-> IF v \in added THEN 1 ELSE refs[v]]

\* A reference to the chosen worker is taken; with none, the push fails.
Chosen(a, w, added) ==
    /\ sel' = [sel EXCEPT ![a] = w]
    /\ pc' = [pc EXCEPT ![a] = IF w = None THEN "idle" ELSE "selected"]
    /\ refs' = [v \in Workers |-> (IF v \in added THEN 1 ELSE refs[v]) + (IF v = w THEN 1 ELSE 0)]

\* The static workers suffice, or the pool cannot grow.
push_static(a) ==
    LET s == Select(static, num.static, None) IN
    /\ pc[a] = "lock" /\ Unlocked /\ ~shutting_down
    /\ opts.inc = 0 \/ ~s.grow
    /\ Chosen(a, s.w, {})
    /\ num' = [num EXCEPT !.static = s.num]
    /\ UNCHANGED <<opts, static, dynamic, idle, work, pushes, shrinker, shutdown, prefs>>

\* The dynamic workers are tried, and n of the workers to add can be allocated.
push_dynamic(a, n) ==
    LET s == Select(static, num.static, None)
        d == Select(dynamic, num.dynamic, s.w)
        w == IF n > 0 THEN Fresh(n)[1] ELSE d.w
    IN
    /\ pc[a] = "lock" /\ Unlocked /\ ~shutting_down
    /\ opts.inc # 0 /\ s.grow
    /\ n <= (IF d.grow THEN NumToAdd ELSE 0)
    /\ n <= Cardinality(Unused)
    /\ taskpool_dynamic_pool_grow(n, d)
    /\ Chosen(a, w, {Fresh(n)[i] : i \in 1 .. n})
    /\ idle' = idle \ ({w} \union {Fresh(n)[i] : i \in 1 .. n})
    /\ UNCHANGED <<opts, static, cur, pushes, shrinker, shutdown>>

\* Mutant: the reference is dropped before the task is queued.
push_task_late(a, queued) ==
    LET w == sel[a]
        tail == IF queued THEN <<"task">> ELSE <<>>
    IN
    /\ pc[a] = "selected"
    /\ Drop(w, a)
    /\ queue' = [queue EXCEPT ![w] = Stopped(w, @) \o tail]
    /\ IF MustJoin(w, a)
        THEN pc' = [pc EXCEPT ![a] = "join"] /\ UNCHANGED sel
        ELSE pc' = [pc EXCEPT ![a] = "idle"] /\ sel' = [sel EXCEPT ![a] = None]
    /\ UNCHANGED <<opts, static, dynamic, num, idle, cur, pushes, shrinker, shutdown, prefs>>

\* Outside of the lock: the task is queued, or there is no memory for it, and
\* the reference is dropped.
push_task(a, queued) ==
    LET w == sel[a]
        q == IF queued THEN Append(queue[w], "task") ELSE queue[w]
    IN
    /\ pc[a] = "selected"
    /\ Drop(w, a)
    /\ queue' = [queue EXCEPT ![w] = Stopped(w, q)]
    /\ IF MustJoin(w, a)
        THEN pc' = [pc EXCEPT ![a] = "join"] /\ UNCHANGED sel
        ELSE pc' = [pc EXCEPT ![a] = "idle"] /\ sel' = [sel EXCEPT ![a] = None]
    /\ UNCHANGED <<opts, static, dynamic, num, idle, cur, pushes, shrinker, shutdown, prefs>>

\* pthread_join returns and what is left of worker w is freed.
Joined(w) ==
    /\ state[w] = "ended"
    /\ state' = [state EXCEPT ![w] = "unused"]

push_joined(a) ==
    /\ pc[a] = "join"
    /\ Joined(sel[a])
    /\ pc' = [pc EXCEPT ![a] = "idle"] /\ sel' = [sel EXCEPT ![a] = None]
    /\ UNCHANGED <<opts, pool, queue, cur, pushes, shrinker, shutdown, prefs>>

-----------------------------------------------------------------------------
(* The threads of the workers                                              *)

\* Mutant: a thread that is to end leaves its queue.
execute_only_up(w) ==
    /\ state[w] = "up"
    /\ cur[w] = None /\ queue[w] # <<>>
    /\ cur' = [cur EXCEPT ![w] = Head(queue[w])]
    /\ queue' = [queue EXCEPT ![w] = Tail(@)]
    /\ UNCHANGED <<opts, pool, state, push, shrinker, shutdown, prefs>>

execute(w) ==
    /\ state[w] \in {"up", "stopping", "detached"}
    /\ cur[w] = None /\ queue[w] # <<>>
    /\ cur' = [cur EXCEPT ![w] = Head(queue[w])]
    /\ queue' = [queue EXCEPT ![w] = Tail(@)]
    /\ UNCHANGED <<opts, pool, state, push, shrinker, shutdown, prefs>>

\* taskpool_taskprocessor_stop drops the reference that the start task brought.
task_returns(w) ==
    /\ cur[w] # None /\ pc[w] = "idle"
    /\ cur' = [cur EXCEPT ![w] = None]
    /\ prefs' = IF cur[w] = "stop" THEN prefs - 1 ELSE prefs
    /\ UNCHANGED <<opts, pool, queue, state, push, shrinker, shutdown>>

thread_ends(w) ==
    /\ state[w] \in {"stopping", "detached"}
    /\ cur[w] = None /\ queue[w] = <<>>
    /\ state' = [state EXCEPT ![w] = IF @ = "detached" THEN "unused" ELSE "ended"]
    /\ UNCHANGED <<opts, pool, queue, cur, push, shrinker, shutdown, prefs>>

-----------------------------------------------------------------------------
(* The shrink callback                                                     *)

\* idle_timeout passes since the last push to w through the dynamic workers.
time_passes(w) ==
    /\ w \notin idle /\ \E i \in DOMAIN dynamic : dynamic[i] = w
    /\ idle' = idle \union {w}
    /\ UNCHANGED <<opts, static, dynamic, num, refs, work, push, shrinker, shutdown, prefs>>

\* The scheduler calls it.
shrink_fires ==
    /\ shrink = "scheduled"
    /\ shrink' = "fired"
    /\ UNCHANGED <<opts, pool, work, push, idx, removed, victim, busy_removed, shutdown, prefs>>

\* Mutant: the reference is not dropped.
shrink_locks_no_unref ==
    /\ shrink = "fired"
    /\ shrink' = IF shutting_down THEN "gone" ELSE "scan"
    /\ idx' = 0 /\ removed' = FALSE
    /\ UNCHANGED <<opts, pool, work, push, victim, busy_removed, shutdown, prefs>>

\* It takes the lock; while shutting down it drops its reference and returns 0.
shrink_locks ==
    /\ shrink = "fired"
    /\ IF shutting_down
        THEN shrink' = "gone" /\ prefs' = prefs - 1
        ELSE shrink' = "scan" /\ UNCHANGED prefs
    /\ idx' = 0 /\ removed' = FALSE
    /\ UNCHANGED <<opts, pool, work, push, victim, busy_removed, shutdown>>

\* AST_VECTOR_REMOVE_UNORDERED
RemoveUnordered(v, i) == [j \in 1 .. Len(v) - 1 |-> IF j = i THEN v[Len(v)] ELSE v[j]]

shrink_keeps ==
    /\ shrink = "scan" /\ idx < Len(dynamic)
    /\ dynamic[idx + 1] \notin idle
    /\ idx' = idx + 1
    /\ UNCHANGED <<opts, pool, work, push, shrink, removed, victim, busy_removed, shutdown, prefs>>

\* An idle worker is removed, once its thread is joined if nobody else has it.
shrink_removes ==
    LET w == dynamic[idx + 1] IN
    /\ shrink = "scan" /\ idx < Len(dynamic)
    /\ w \in idle
    /\ Drop(w, ShrinkThread)
    /\ queue' = [queue EXCEPT ![w] = Stopped(w, @)]
    /\ busy_removed' = (busy_removed \/ queue[w] # <<>> \/ cur[w] # None \/ refs[w] > 1)
    /\ IF MustJoin(w, ShrinkThread)
        THEN shrink' = "join" /\ victim' = w /\ UNCHANGED <<dynamic, removed>>
        ELSE dynamic' = RemoveUnordered(dynamic, idx + 1) /\ removed' = TRUE /\ UNCHANGED <<shrink, victim>>
    /\ UNCHANGED <<opts, static, num, idle, cur, push, idx, shutdown, prefs>>

shrink_joined ==
    /\ shrink = "join"
    /\ Joined(victim)
    /\ dynamic' = RemoveUnordered(dynamic, idx + 1)
    /\ removed' = TRUE /\ shrink' = "scan" /\ victim' = None
    /\ UNCHANGED <<opts, static, num, refs, idle, queue, cur, push, idx, busy_removed, shutdown, prefs>>

\* Mutant: the next index is left as it is.
shrink_done_no_reset ==
    /\ shrink = "scan" /\ idx >= Len(dynamic)
    /\ shrink' = "return"
    /\ idx' = 0 /\ removed' = FALSE
    /\ UNCHANGED <<opts, pool, work, push, victim, busy_removed, shutdown, prefs>>

\* The loop is over: the next index is made valid and the lock released.
shrink_done ==
    /\ shrink = "scan" /\ idx >= Len(dynamic)
    /\ num' = IF removed /\ num.dynamic >= Len(dynamic) THEN [num EXCEPT !.dynamic = 0] ELSE num
    /\ shrink' = "return"
    /\ idx' = 0 /\ removed' = FALSE
    /\ UNCHANGED <<opts, static, dynamic, refs, idle, work, push, victim, busy_removed, shutdown, prefs>>

\* It is scheduled again, or the shutdown that waits for it deletes the entry;
\* then nobody drops the callback's reference (the module Sched).
shrink_returns ==
    /\ shrink = "return"
    /\ shrink' = IF shut = "wait" THEN "gone" ELSE "scheduled"
    /\ leaked' = (shut = "wait")
    /\ UNCHANGED <<opts, pool, work, push, idx, removed, victim, busy_removed, shut, joined,
                   shutting_down, prefs>>

-----------------------------------------------------------------------------
(* ast_taskpool_shutdown                                                   *)

shutdown_begins ==
    /\ shut = "up" /\ Unlocked
    /\ shut' = "del" /\ shutting_down' = TRUE
    /\ UNCHANGED <<opts, pool, work, push, shrinker, joined, leaked, prefs>>

\* AST_SCHED_DEL_UNREF on the shrink callback.
shutdown_del ==
    /\ shut = "del"
    /\ CASE shrink = "scheduled" -> shut' = "clean" /\ shrink' = "gone" /\ prefs' = prefs - 1
         [] shrink = "gone" -> shut' = "clean" /\ UNCHANGED <<shrink, prefs>>
         [] OTHER -> shut' = "wait" /\ UNCHANGED <<shrink, prefs>>
    /\ UNCHANGED <<opts, pool, work, push, idx, removed, victim, busy_removed, joined, shutting_down, leaked>>

shutdown_waited ==
    /\ shut = "wait" /\ shrink = "gone"
    /\ shut' = "clean"
    /\ UNCHANGED <<opts, pool, work, push, shrinker, joined, shutting_down, leaked, prefs>>

\* taskpool_taskprocessors_cleanup, worker by worker: static, then dynamic.
shutdown_cleans ==
    LET w == IF static # <<>> THEN Head(static) ELSE Head(dynamic) IN
    /\ shut = "clean" /\ (static # <<>> \/ dynamic # <<>>)
    /\ Drop(w, ShutdownThread)
    /\ queue' = [queue EXCEPT ![w] = Stopped(w, @)]
    /\ IF static # <<>>
        THEN static' = Tail(static) /\ UNCHANGED dynamic
        ELSE dynamic' = Tail(dynamic) /\ UNCHANGED static
    /\ IF MustJoin(w, ShutdownThread) THEN shut' = "join" /\ joined' = w ELSE UNCHANGED <<shut, joined>>
    /\ UNCHANGED <<opts, num, idle, cur, push, shrinker, shutting_down, leaked, prefs>>

shutdown_joined ==
    /\ shut = "join"
    /\ Joined(joined)
    /\ shut' = "clean" /\ joined' = None
    /\ UNCHANGED <<opts, pool, queue, cur, push, shrinker, shutting_down, leaked, prefs>>

\* Everything is cleaned up: the creator's reference is dropped.
shutdown_done ==
    /\ shut = "clean" /\ static = <<>> /\ dynamic = <<>>
    /\ shut' = "done"
    /\ prefs' = prefs - 1
    /\ UNCHANGED <<opts, pool, work, push, shrinker, joined, shutting_down, leaked>>

-----------------------------------------------------------------------------
PushStep(a) ==
    \/ push_refused(a) \/ push_static(a) \/ push_joined(a)
    \/ \E n \in 0 .. MaxWorkers : push_dynamic(a, n)
    \/ \E queued \in BOOLEAN : push_task(a, queued)

WorkerStep(w) == execute(w) \/ task_returns(w) \/ thread_ends(w)

ShrinkStep ==
    \/ shrink_locks \/ shrink_keeps \/ shrink_removes \/ shrink_joined \/ shrink_done \/ shrink_returns

ShutdownStep ==
    \/ shutdown_del \/ shutdown_waited \/ shutdown_cleans \/ shutdown_joined \/ shutdown_done

Next ==
    \/ \E a \in Pushers : push_called(a) \/ PushStep(a)
    \/ \E w \in Workers : WorkerStep(w) \/ time_passes(w)
    \/ shrink_fires \/ ShrinkStep
    \/ shutdown_begins \/ ShutdownStep

Spec == Init /\ [][Next]_vars

-----------------------------------------------------------------------------
(* Properties                                                              *)

Elems(v) == {v[i] : i \in DOMAIN v}
Distinct(v) == \A i, j \in DOMAIN v : i # j => v[i] # v[j]

\* The values of the variables; no worker is in the vectors twice, and while the
\* lock is free the next index of each vector is one that the sequential selector
\* may read.
TypeOK ==
    /\ static \in Seq(Workers) /\ dynamic \in Seq(Workers)
    /\ Distinct(static) /\ Distinct(dynamic) /\ Elems(static) \intersect Elems(dynamic) = {}
    /\ num \in [static : Nat, dynamic : Nat]
    /\ Unlocked /\ ~shutting_down =>
        /\ static # <<>> => num.static < Len(static)
        /\ dynamic # <<>> => num.dynamic < Len(dynamic)
    /\ refs \in [Workers -> Nat] /\ idle \subseteq Workers
    /\ queue \in [Workers -> Seq({"start", "task", "stop"})]
    /\ cur \in [Workers -> {"start", "task", "stop", None}]
    /\ state \in [Workers -> {"unused", "up", "stopping", "detached", "ended"}]
    /\ pc \in [Pushers -> {"idle", "lock", "selected", "join"}]
    /\ sel \in [Pushers -> Workers \union {None}]
    /\ shrink \in {"scheduled", "fired", "scan", "join", "return", "gone"}
    /\ idx \in Nat /\ victim \in Workers \union {None} /\ joined \in Workers \union {None}
    /\ shut \in {"up", "del", "wait", "clean", "join", "done"}
    /\ prefs \in Nat /\ pushes \in 0 .. opts.pushes
    /\ {removed, shutting_down, busy_removed, leaked} \subseteq BOOLEAN

\* A pool that grows never has more workers than max_size, through failed
\* allocations, shrinking and increments larger than the room left.
SizeBound == opts.inc > 0 /\ opts.max > 0 => Len(static) + Len(dynamic) <= opts.max

\* Nothing is queued behind a worker's stop task, nor for a worker that has
\* none to execute it: pushing outside of the lock is covered by the reference.
StopIsLast ==
    \A w \in Workers :
        /\ \A i \in DOMAIN queue[w] : queue[w][i] = "stop" => i = Len(queue[w])
        /\ cur[w] = "stop" => queue[w] = <<>>
        /\ state[w] \in {"unused", "ended"} => queue[w] = <<>> /\ cur[w] = None
        /\ state[w] # "up" <=> refs[w] = 0

\* The stop task of w is queued or executed.
StopLeft(w) == cur[w] = "stop" \/ \E i \in DOMAIN queue[w] : queue[w][i] = "stop"

\* The pool is referenced once by its creator, by the scheduled callback, and by
\* each worker from its creation to the end of its stop task, so it outlives its
\* threads and is freed after them, but for the reference lost to a shrink that
\* is deleted while it runs.
PoolRefsExact ==
    prefs = (IF shut = "done" THEN 0 ELSE 1)
          + (IF shrink # "gone" \/ leaked THEN 1 ELSE 0)
          + Cardinality({w \in Workers : state[w] = "up" \/ StopLeft(w)})

\* Thread a waits for thread b: for the lock that the shrink holds, for a thread
\* to end, or for the shrink callback to return.
Threads == Pushers \union {ShrinkThread, ShutdownThread}
Waits(a, b) ==
    \/ a \in Pushers /\ pc[a] = "lock" /\ ~Unlocked /\ b = ShrinkThread
    \/ a \in Pushers /\ pc[a] = "join" /\ b = sel[a]
    \/ a = ShrinkThread /\ shrink = "join" /\ b = victim
    \/ a = ShutdownThread /\ shut = "join" /\ b = joined
    \/ a = ShutdownThread /\ shut = "wait" /\ b = ShrinkThread

Waiting == {a \in Threads : \E b \in Threads : Waits(a, b)}
Deadlocked == \E S \in SUBSET Waiting : S # {} /\ \A a \in S : \E b \in S : Waits(a, b)

\* Threads wait for each other in a circle only after the shrink removed a
\* worker that was executing, had tasks queued or was being pushed to (it looks
\* at the time of the last push only), or when the pool is shut down under
\* tasks that push to it.
DeadlockOnlyIfBusy == Deadlocked => busy_removed \/ shutting_down

\* A shutdown, once begun, completes unless threads wait for each other in
\* a circle: some thread can always go on, and from then on every behaviour is
\* finite.
Progress ==
    \/ \E a \in Pushers : PushStep(a)
    \/ \E w \in Workers : WorkerStep(w)
    \/ ShrinkStep \/ ShutdownStep

ShutdownCompletes ==
    shutting_down /\ shut # "done" /\ ~Deadlocked => ENABLED Progress
=============================================================================
