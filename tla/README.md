# Verification of the task and scheduling core

This directory holds TLA+ models of the part of the telephony core that every other
part runs on: taskprocessors, taskpools and their serializers, the scheduler and the
heap below it, named locks and the weak references below them, and the Stasis message
bus. The models are written from the C code under `src/`; each definition
is mapped to the lines it stands for in `PROJECT.json` ("map"). TLC checks small
instances, TLAPS proves the central results for every instance.

- [The system](#the-system)
- [The modules](#the-modules)
- [The runs](#the-runs)
- [Fairness](#fairness)
- [The proofs](#the-proofs)
- [What the models found](#what-the-models-found)
- [What is not modelled](#what-is-not-modelled)

## The system

The server is a PBX: channel drivers (`channels/`, `res/res_pjsip*`) create channels,
the dialplan (`main/pbx.c`) runs applications (`apps/`) on them, bridges
(`main/bridge.c`) connect them, and state changes are published on the Stasis bus
(`main/stasis*.c`) to the manager interface, ARI, CDR and CEL. None of these owns a
thread per job. They hand their work to the core below:

| part | code | state | operations | used by |
|---|---|---|---|---|
| taskprocessor | `main/taskprocessor.c`, `main/sem.c` | task queue, executing flag, semaphore, dead flag, reference count, the container `tps_singletons` | get, push, execute, unreference, listener start and shutdown | Stasis, messaging, DNS, IAX2, conferences, taskpool |
| overload alerts | `main/taskprocessor.c` | alert bit and water marks of each taskprocessor, global count, vector of overloaded subsystems | push, pop, set levels, destroy | PJSIP distributor, `core show taskprocessors` |
| taskpool | `main/taskpool.c` | static and dynamic vectors of workers, selector position, options, shrink entry, shutting-down flag | create, push, grow, shrink callback, shutdown | PJSIP, Stasis, sorcery |
| serializer | `main/taskpool.c` | queue of a taskprocessor without thread, suspension state, lock, thread-local current serializer | push, push_wait, execute_tasks, suspend, unsuspend | PJSIP sessions, Stasis subscriptions, sorcery |
| scheduler | `main/sched.c`, macros of `include/asterisk/sched.h` | heap of entries, id queue, struct cache, currently executing entry, thread with timed wait | add, run, reschedule, delete, delete while running, clean by callback, stop | RTP, PJSIP, IAX2, DUNDi, taskpool (shrink) |
| named locks | `main/named_locks.c`, weak proxies of `main/astobj2.c` | container of proxies, two reference counts and the proxy's lock of each pair, notifications | get, put, weak references, subscribe to the destruction | PJSIP registrar and location |
| Stasis bus | `main/stasis.c` | subscribers and upstream topics of each topic, its lock, mailbox, flags and references of each subscription | publish, publish_sync, subscribe, unsubscribe with or without join, forward, cancel, set filter | channels, bridges, endpoints, AMI, ARI, CDR, CEL |
| heap | `main/heap.c` | array, index stored in the elements | push, pop, remove, peek | scheduler, bridging, timing, sorcery cache |

They interact as follows. A taskpool worker is a taskprocessor with the default
listener. A serializer is a taskprocessor whose listener queues the pool task
`execute_tasks`. The shrink callback of a taskpool is a scheduler entry. The
scheduler keeps its entries in a heap. The mailbox of a Stasis subscription is a
serializer or a taskprocessor; `Stasis` uses of it what `SerialExecutor` promises. The other parts of the server, which are users
of these, are listed with status `not_modelled` in `PROJECT.json`.

What makes this code hard is the same everywhere: the lock is released between a
decision and its effect (a push notifies the listener after the unlock; a callback
runs outside of the scheduler's lock; a worker is chosen under the pool's lock and
pushed to outside of it), the last reference may be dropped by anyone, including the
thread that is being stopped, and every allocation may fail. The correctness
questions asked here are those a reviewer of this code would ask:

1. Are tasks executed once, one at a time, in the order of the pushes, whoever
   executes them?
2. Is no wakeup lost, so that work that was accepted is executed?
3. Does stopping lose no work, join no thread for ever, and free nothing in use?
4. Are counts (alerts, references, ids, structs, pool size) exact at all times?
5. Do entries run when they are due and in order, and never after their deletion?
6. Do all threads that ask for the lock of a key get the same lock, although locks are
   destroyed and created again?
7. Does a subscription get its messages once per path, and its final message last?

`PROJECT.json` ("hazards") lists where in the code each of these can go wrong.

## The modules

| module | models | kind |
|---|---|---|
| `SerialExecutor` | what a taskprocessor promises: accept, begin the oldest, finish, one at a time | abstract specification |
| `TaskProcessor` | a taskprocessor with the default listener, its thread, its clients and its references | state machine; implements `SerialExecutor` |
| `TaskpoolSerializer` | a serializer, the threads of its pool, sync waiters, suspension | state machine; implements `SerialExecutor` |
| `TaskProcessorAlerts` | the water marks and alert counters of all taskprocessors | state machine |
| `Taskpool` | a pool with its workers, growing, shrinking and shutdown | state machine |
| `PriorityQueue` | what a heap promises | abstract specification |
| `Heap` | the array algorithm with sifting and stored indexes | algorithm as a state machine; implements `PriorityQueue` |
| `SchedClean` | `ast_sched_clean_by_callback` on that array | extends `Heap` |
| `Sched` | a scheduler context, its thread, owners that add and delete | state machine |
| `Weakproxy` | an object and its weak proxy: counts, links, the proxy's lock | operators on the state of a pair |
| `NamedLocks` | the container of named locks and the threads that use it | state machine; extends `Weakproxy` |
| `Stasis` | topics, forwards, subscriptions, mailboxes and their handlers | state machine |
| `TaskProcessorProofs`, `TaskProcessorAlertsProofs`, `TaskpoolSerializerProofs`, `TaskpoolProofs`, `HeapProofs`, `NamedLocksProofs` | theorems about the modules they extend | proofs |
| `SchedOwners`, `SchedProofs` | theorems about `Sched`, in two parts | proofs |
| `MC*` | the constants of the runs | instances |

Conventions. An action has the name of the function it models; when a function has
several critical sections, each is an action, and a program counter (`apc`, `pollpc`,
`tpc`, `cpc`, `rpc`, `opc`, `pc`) says where the thread is between them. An operation
named in a comment "Mutant:" is a deliberately wrong variant of the definition that
follows it; it is not part of any specification and is there to show that the
properties would notice the mistake. Variables called history variables in their
declaration do not influence the others: they only record what a property needs.

### TaskProcessor

Actors are client threads and the listener's thread `Poll`, which acts only from
inside a task. `queue`, `running`, `sem`, `dead` are the fields of the same meaning;
`holders`, `linked`, `listenerRef` and `shutdownRef` are the references the ao2 count
is the sum of (`RefCount`), so "down to 3 references" is computed as in
`ast_taskprocessor_unreference`. `taskprocessor_push` ends at the unlock and
`default_task_pushed` is a later step. `default_listener_shutdown` queues the die
task, or fails to (`shutdown_push_failed`); the caller then joins the thread, or
detaches it when it is the thread. A signal may interrupt `ast_sem_wait`.

### TaskpoolSerializer

Each pool thread has a queue of pool tasks: `Execute` is `execute_tasks`, a member of
`Jobs` is a task that calls `ast_taskpool_serializer_push_wait`. Clients push, suspend
and unsuspend. The locks `ser` and that of the taskprocessor are kept apart: `lock` is
the owner of the former, a step is a critical section of the latter. `executing` is
the bit that `ast_taskprocessor_execute` sets under the lock, which the push reads to
decide whether the serializer was empty. The pool may refuse a push (`PoolPush`): it is
shut down, has no taskprocessor, or there is no memory; the callers drop a reference and
go on. Three history variables say where the guarantees end: `refused`, the last push of
`execute_tasks` failed; `crossed`, another `execute_tasks` was pending when the suspend
task was executed; `paused`, a suspension has put a synchronous waiter to sleep.

### TaskProcessorAlerts

A taskprocessor is its queue length, its two water marks and its alert bit; all
changes of them happen under its lock, and the global counter and the subsystem vector
are changed with it. Raising an alert may fail to allocate the subsystem's entry
(`dropped` records that it has). Creation, push, pop, `ast_taskprocessor_alert_set_levels`
with any pair of arguments (also negative ones) and destruction are the actions.

### Taskpool

`Adjusted` computes the options as `ast_taskpool_create` does. A push takes the pool's
lock, chooses a worker (least full or sequential), grows the pool if the threshold is
passed, releases the lock, queues the task and drops its reference to the worker; the
last reference stops the worker's taskprocessor and joins its thread. The shrink
callback is broken at each join, since it holds the pool's lock meanwhile. Workers
execute `start`, `task` and `stop` items; a task may push to its own pool. Shutdown
deletes the shrink entry with `AST_SCHED_DEL_UNREF`, waiting if it runs, and then drops
every worker. Since the counters are finite and every step after the start of the
shutdown consumes something, the module states completion as an invariant: unless
threads wait for each other in a circle, some thread can go on (`ShutdownCompletes`).

### Heap and SchedClean

`Heap` keeps the array, growth and the index stored in each element; a removal trusts that
index, as the code does. Operations follow each other, since the caller holds a lock, but
each iteration of the loops `bubble_up` and `max_heapify` is a step (`pc` says which loop
runs, `at` is its variable), so that what holds inside of them can be stated and proved.
While a removal is under way the array still has the slot that `cur_len` has given up,
which `bubble_up` reads when the last element is removed. `key` gives the order; two
elements may share a key. `SchedClean` runs the loop of `ast_sched_clean_by_callback`
on every array the heap operations can build.

### Sched

Time is relative: `tick` brings every entry closer by a millisecond, and an entry may be
at most `MaxLate` late. `sched_run` computes the timeout of the thread under the lock and
`sched_wakes` ends the wait by a signal or a timeout. `ast_sched_runq` pops one entry,
`callback` runs without the lock and may clear the owner's field and drop its reference
or ask to be run again, `runq_return` reschedules or releases the entry or hands it to
the deleter that waits for it. An owner adds an entry, stores its id after the lock has
been released, and deletes with `AST_SCHED_DEL_UNREF`, including its retries. Ids are
handed out first in, first out and structs are kept in a cache of bounded size.

The macro reads the id before it takes the lock. If the entry has run meanwhile and its
id has been given to another owner, the deletion hits the wrong entry; `sched.c` leaves
avoiding this to its users. The history variable `stale` marks that this has happened
and the behaviour is followed no further.

### Weakproxy and NamedLocks

A pair is the memory of a lock and of its proxy, each with a reference count; `weakptr`
is the link between them, `plock` the owner of the proxy's lock. A thread that gets a
lock holds the container's lock (`clock`) from the search to the creation.
`weakproxy_find`, `find_get_object` and `find_unlinks` are the loop of
`__ao2_weakproxy_find`, which unlinks proxies without an object and searches again. The
last put keeps the proxy's lock (`put_ref`), unlinks the pair and moves the list of
notifications (`put_unlink`), and runs them with no lock held: `named_lock_proxy_cb` takes
the proxy out of the container, possibly after a new lock of the same key has been put
in. Holders may also hand on a reference, keep a weak one, subscribe to the destruction
and unsubscribe. The allocations of `__ast_named_lock_get` may fail; when it is that of
the notification, a linked pair is torn down, and when it is the one that
`ao2_link_flags` makes, the code hands out a lock that the container does not list
(`unlisted`, a history variable).

### Stasis

`subscribers[x]` is the vector of topic `x`, which lists its own subscriptions and those
of the topics it forwards to, once per path. Publishing holds the lock of one topic and
dispatches to one subscriber per step. `Visit` and the `walk_` actions are the recursion
of `topic_add_subscription` and `topic_remove_subscription` through the upstream topics,
each under the recursive lock of its topic, with `stack` as the call stack. An
unsubscription is removed from the lists, published to the others, dispatched to the
subscription itself as its final message, followed by the task that drops the mailbox's
reference. A push to a mailbox may fail; the history variable `lost` records that the final
message did, `leaked` that the cleanup did. Handlers take one message at a time, and a callback may publish or unsubscribe itself.

## The runs

`tlc -config <cfg> <module>` in this directory; the module is the MC module
whose name the cfg starts with.

| run | distinct states |
|---|---|
| taskprocessor | 16,968 |
| alerts | 221,880 |
| serializer | 62,462 |
| heap | 333,146 |
| sched | 466,571 (with symmetry) |
| sched_live | 87,416 |
| taskpool | 537,577 |
| named_locks | 722,081 (with symmetry) |
| stasis | 1,366,695 (with symmetry) |
| stasis_live | 218,272 |

Passing runs:

**taskprocessor** (`MCTaskProcessor.cfg`): two clients and the listener's own thread,
three tasks. Two clients are enough for a lookup or a push to race the last
unreference, and three tasks for one to be running, one queued and one on its way.
It checks that
the thread leaves only when nothing is queued, no token is left and nobody is about to
post one (`NoPostToDead`, the assertion at the end of the thread's function), that no
accepted task is dropped (`NothingLost`), that the destructor comes after every use
(`NoUseAfterFree`), that it is a `SerialExecutor`, that every accepted task is executed and that shutdown
completes, also when a task drops the last reference. The exceptions are stated in the
properties: a thread stopped without its die task (`DieLost`), and, for the tokens only,
a wait that was interrupted by a signal; the queue is empty then as well.

**alerts** (`MCTaskProcessorAlerts.cfg`): three taskprocessors, two in one subsystem, one
in none, marks from {-1, 0, 2, 3} and queues up to 3. The counters are exact
(`CountsExact`; the count of a subsystem is a lower bound once its entry could not be
allocated) and the alert bit agrees with the load
(`AlertMeansLoad`).

**serializer** (`MCTaskpoolSerializer.cfg`): two clients, two pool threads, one task, one
synchronous job, one suspension, pushes that the pool refuses and its shutdown. While
anything is queued on a serializer that is not suspended, `execute_tasks` is on its way,
unless the pool refused the last one (`NoLostWakeup`); there is at most one of it until a
suspension pauses a synchronous waiter (`SingleExecutor`); a suspended serializer is quiet
unless another `execute_tasks` was pending when it was suspended (`QuietWhenSuspended`);
tasks execute in order and alone in every case (`IsSerialExecutor`); tasks are executed
(`EveryTaskRuns`) and waiters return (`EveryWaitEnds`), unless the serializer stays
suspended or the pool refused the last `execute_tasks`, which keeps only threads outside
of the pool waiting. One task besides
the job, the suspend task and the empty tasks is enough for each of them to be first or
last in the queue. The safety properties and the refinement are also
[proved](#the-proofs) for any number of clients, threads, tasks, jobs and suspensions.

**heap** (`MCHeap.cfg`): six elements, two with one key, in three rows, so that the last
element can belong above the hole a removal leaves; the array starts with room for one
and grows. The order and the stored indexes (`WellFormed`) and the abstract priority
queue (`IsPriorityQueue`). Both are also [proved](#the-proofs) for any elements, keys and
lengths.

**sched** (`MCSched.cfg`): two owners, three structs, entries that are due at once and may
be rescheduled by their callback, three calls of `schedule()`, one tick late. With one
struct in the cache and ids allocated one at a time, structs and ids come back into use
while a deleter may still hold the old ones. It checks that ids and structs are never
lost, shared or released twice (`Conserved`), that the thread does
not sleep past an entry (`NoOversleep`), that no callback runs on an object that was
unscheduled (`DeletedIsQuiet`), that the callback's reference is held while it may be used
and dropped at most once, and left behind only by a thread that was told that it could
not cancel (`RefHeld`), and the order of execution (`RunsInOrder`). All of them are also
[proved](#the-proofs) for any owners, structs, timings and bounds.

**sched_live** (`MCSchedLive.cfg`): entries due after a millisecond with a fixed interval,
two structs, two calls of `schedule()`. Deleters that wait for a running callback return,
due entries run, and stopping the thread completes.

**taskpool** (`MCTaskpool.cfg`): one client, three workers, four sets of options (growing
from a static worker by more than there is room for; shrinking to nothing; growing from
nothing; fixed size) and both selectors. The size limit (`SizeBound`), the order of the
stop task (`StopIsLast`), the references to the pool (`PoolRefsExact`), where threads may
wait for each other in a circle (`DeadlockOnlyIfBusy`), and that a shutdown completes
otherwise (`ShutdownCompletes`). Each set of options has its own bound on the pushes. All
but the last are also [proved](#the-proofs) for any workers, clients, options and pushes.

**named_locks** (`MCNamedLocks.cfg`): three threads, memory for three locks, two keys. Three
threads are one that destroys a lock, one that finds its stale proxy and one that holds
or creates the next lock of the key; nothing but the memory is bounded. Holders of a key
hold one lock, apart from locks that could not be linked (`SameLock`), both counts of a pair are the number of its users
(`RefsExact`), the container lists every live lock but those, and a dead one only until its
callback has run (`ContainerExact`), and a subscriber is notified once or not at all
after it unsubscribed (`NotifiedOnce`).

**stasis** (`MCStasis.cfg`): two clients and a handler, three topics with two paths of
forwards from the first to the last, two publications. The triangle is the smallest graph
in which a topic lists a subscription twice and a walk meets a topic again. The final
message is the last (`FinalIsLast`), lists agree with the paths (`PathsExact`), the last
reference is dropped after every use and after the final message, and in the end all are
dropped, but for the one of a mailbox whose cleanup could not be queued (`DtorSafe`), and
every circle of waiting threads has a synchronous publisher in it (`OnlySyncCircular`).

**stasis_live** (`MCStasisLive.cfg`): one client, one forward, a subscription with a mailbox
and a direct one. Every call returns, joins included, unless there is a circular wait or
the final message was lost (`CallsReturn`).

Deadlock is checked in the runs `alerts`, `heap` and `named_locks`. The others may stop: a client that
has dropped its reference, a thread that has ended and a bound that is used up are all
legitimate ends of a behaviour. That a thread is not stuck where it should not be is
checked by the liveness properties and by `ShutdownCompletes` of `Taskpool`.

Runs that are expected to find a violation are described
[below](#what-the-models-found).

## Fairness

Only threads that the operating system schedules are fair, and only weakly, except where
they wait for a contended lock.

- `TaskProcessor`: the listener's thread, every actor that is inside of a function of the
  taskprocessor, and a client that owns a reference eventually drops it (otherwise there
  is no shutdown to complete). Tasks return. Pushing and interrupting a wait are not fair.
- `TaskpoolSerializer`: every pool thread, and every client inside a function. Nobody need
  push, suspend or unsuspend, hence the exceptions in the two liveness properties.
- `Sched`: the scheduler's thread, including the end of its timed wait once the time has
  come, callbacks, and owners inside the macro. Time need not pass; an entry counts as due
  only when its time has come. An owner need not add or delete.
- `Stasis`: handlers are weakly fair, so callbacks return. A thread inside a call is strongly
  fair: most of its steps take a topic's lock, which others may take and release for ever,
  and a mutex is eventually granted to who waits for it. Nobody need make a call.

`NamedLocks` is checked for safety only.

## The proofs

`tlapm <module>.tla`. Assumptions on constants are the named `ASSUME`s of the modules;
they say that sets of threads are finite, that tasks, markers and threads are
different things, and that bounds are natural numbers. Nothing bounds the number of
clients, tasks, taskprocessors, entries or operations.

**TaskProcessorProofs.** None of the properties is inductive. The inductive invariant
`IInv` adds to `TypeOK`:

- `RefInv`: references and program counters fit together: whoever is inside a push owns a
  reference, at most one actor shuts down, and while it does the taskprocessor is
  unlinked, unowned and not freed;
- `PollInv`: where the thread can be, given the flags and references, in particular that
  the "tps-shutdown" reference exists until the thread drops it;
- `DieInv`: the die task exists only after the last reference is gone, and is last;
- `SemInv`: tokens posted, plus those about to be posted, plus the one just taken, are as
  many as the tasks queued, as long as no signal interrupted the wait;
- `WorkInv`: every accepted task is queued, running or done.

`RefInv` is what makes `DieInv` inductive: a push needs a reference, and the die task is
queued only when there is none, so nothing can follow it. From `DieInv` the queue is empty
when the thread leaves, whether or not a signal came in between, and `SemInv` then gives
the rest of the assertion in the code. Theorems:
`TypeCorrect`, `DeadIsQuiet` (`NoPostToDead`), `NoTaskLost` (`NothingLost`), `FreeIsLast`
(`NoUseAfterFree`), `ReferencesAlive` (`HeldIsAlive`) and `Refinement`: every step of the
taskprocessor is a step of `SerialExecutor` or leaves its variables unchanged.

**TaskProcessorAlertsProofs.** `IInv` adds to the properties that the low mark does not
exceed the high one, which the clearing of an alert rests on. Raising and clearing are
shown once (`RaiseCounts`, `ClearCounts`) to keep both counters exact, and each action
either does one of them or keeps them (`KeepCounts`). Theorems: `AlertsTyped`,
`AlertsCounted` (`CountsExact`), `AlertFollowsLoad`.

**TaskpoolSerializerProofs.** `IInv` adds to `TypeOK` and `NoLostWakeup`:

- `LockInv`: the serializer's lock is held wherever a task is executed, and `executing` and
  `running` agree with where the threads are;
- `LoopInv`: the count of the loop of `execute_tasks` does not exceed the queue;
- `SuspInv`: one client suspends at a time, and the suspension state agrees with where it is;
- `JobInv`: a synchronous job is in one place at a time on its way into the serializer;
- `SyncInv`: until a waiter is paused, a waiter's task has the empty task behind it;
- `SoloInv`: until then there is one `execute_tasks` at most, it exists only while there is
  something to execute, and a suspension that crossed another `execute_tasks` was executed
  by a waiter that is about to be paused;
- `Still`: under any other suspension the serializer is not empty, so that no push sends a
  notification, and nothing but the suspend task is executed.

`LockInv` gives that one thread executes at a time, hence the refinement. `SoloInv` needs
`SyncInv`: a waiter that drained the queue would make the next push schedule a second
`execute_tasks` while the first is still on its way; the empty task that the waiter leaves
behind prevents it. A refused push is covered by `NoLostWakeup` itself: it ends an
executor and sets `refused`, and every later push that finds the queue not empty leaves it
set. Theorems: `TypeCorrect`, `WakeupNeverLost` (`NoLostWakeup`), `ExecutorIsUnique`
(`SingleExecutor`), `SuspensionIsQuiet` (`QuietWhenSuspended`) and `Refinement`
(`IsSerialExecutor`).

**NamedLocksProofs.** `IInv` adds to `TypeOK` and `RefsExact`:

- `LockInv`: which thread holds which lock, and which locals are in use;
- `LifeInv`: an object in use is linked to its proxy, and one thread destroys it;
- `ListInv`: `ContainerExact`, a lock that could not be linked is forgotten when it dies, and
  only locks with the unlinking notification are handed out;
- `WeakInv`: a subscriber keeps its weak reference until it is notified.

The counts carry the argument: the put that finds two references left is, by `RefsExact`,
the only user, so that with the proxy's lock held nobody can become one. `SameLock` follows
from `ListInv`: two locks of one key that could be linked would both be listed. The steps of `RefsExact` are
reduced to one lemma (`RefsMatched`) about sets of users that gain or lose one thread.
Theorems: `TypeCorrect`, `OneLockPerKey` (`SameLock`), `ReferencesExact` (`RefsExact`),
`ContainerIsExact` (`ContainerExact`), `NotificationExact` (`NotifiedOnce`).

**SchedOwners, SchedProofs** (the second extends the first; the theorems are in the
second). `IInv` adds to `TypeOK` and `NoOversleep`:

- `ThreadInv`: an entry is executing exactly between its pop and the end of the iteration
  of `ast_sched_runq`, whose limit is never more than a millisecond ahead;
- `OrderInv`: in the heap the tie breakers are ordered like the calls of `schedule()`;

and, up to the first deletion with an id that names another's entry (`stale`),
`OwnersInv`, which is `Conserved` with

- `MarkInv`: an entry marked as deleted is the executing one, or its callback has
  returned, and its deleter waits for it; entries in the heap carry no mark;
- `OwnInv`: an owner has at most one pending entry, whose id is in its field or in the
  hands of the `ast_sched_add` that has not returned yet, and one reference for it;
- `RefInv`: a reference without a pending entry is one that a deleter has been told it
  could not cancel.

`Conserved` is inductive only with the other three: which of `runq_return` and `del_woken`
releases the struct is decided by the mark, and `MarkInv` says that exactly one of them
sees it. `OwnInv` is what a callback's decrement and the macro's `refcall` need so that each
finds the reference it drops. The sequences of ids and of cached structs are handled
through the sets of their elements (`Shares`, with one lemma for taking from the front, one
for appending and one for leaving alone), so no induction over a sequence is needed.
`SchedOwners` has the steps of these four, `SchedProofs` those of the types, the order and
the sleep, and the combination. That the head of the heap exists (the first of the entries
that are due) is a least-number argument over the times and tie breakers (`LeastNat`,
`FirstExists`), for any set of structs, finite or not. Theorems: `TypeCorrect`,
`Conservation` (`Conserved`), `NeverOversleeps` (`NoOversleep`), `Quiet`
(`DeletedIsQuiet`), `ReferenceHeld` (`RefHeld`) and `OrderKeeping` (`RunsInOrder`).

**TaskpoolProofs.** `IInv` adds to `TypeOK`, `SizeBound` and `PoolRefsExact`:

- `RefsInv`: a worker's count is the number of pushers between the choice of the worker and
  the queueing of the task, plus one while the vectors own it, which they do until the
  shrink callback or the shutdown drops it;
- `StopInv`: `StopIsLast`, and a worker has no stop task before its last reference is gone;
- `PushInv`: a worker pushes only from within a task, and to a worker it has chosen;
- `BusyInv`: unless a busy worker was removed, before the shutdown nobody but the shrink
  callback joins, the workers that pushers have chosen are still in the vectors, and the
  worker being joined has nothing left but its stop task;
- `LifeInv`, `NumInv`: how far the shrink callback and the shutdown can be at a time, and
  that the next indices are valid, except for the dynamic one between the first removal of
  the callback and its end.

`RefsInv` carries the argument. A push between its choice and its unreference is itself a
reference, so the count is not zero and by `StopInv` no stop task is queued before its task;
the unreference that leaves zero is the only one to queue the stop task, which
`PoolRefsExact` needs to count each worker once. For `DeadlockOnlyIfBusy`, a set of
threads in which each waits for another contains the shrink callback (every wait is for its
lock, for a thread it joins, or for it), whose victim by `BusyInv` executes no task and
therefore waits for nobody. `RefsInv` counts pushers of an arbitrary set of clients, so it
also states that the sets it counts are finite. The steps of a push that adds workers are
reduced to what it grants (`GrantsRefs`, `GrantsWork`, `GrantsPush`); the least full worker
exists by a least-number argument (`LeastNat`). Theorems: `TypeCorrect`, `Bounded`
(`SizeBound`), `StopLast` (`StopIsLast`), `PoolReferences` (`PoolRefsExact`) and
`DeadlockOnlyBusy` (`DeadlockOnlyIfBusy`).

**HeapProofs.** Inside of the loops the array is not a heap. `IInv` is `TypeOK`, `IndexExact`
and `OrderInv`, which says how far it is from one: the node at which the loop stands may come
out before its parent (`bubble_up`), after a child (`max_heapify`), or either (`bubble_up` in
a removal), every other node is in order with its parent, and the children of that node do
not come out before its parent. The last part is what a swap needs: whichever way the node
moves, the one it changes places with is in order with everything around it. It also is
why a removal may call both loops, whose effects exclude each other. That the root comes
out first follows from the order of parents and children by a least counterexample
(`RootFirst`), so no induction over the tree is needed. Theorems: `StaysHeap`
(`WellFormed`) and `Refinement` (`IsPriorityQueue`), whose `Push`, `Remove` and `Pop` are the
first steps of the operations, the loops changing nothing that it sees.

Only model-checked: liveness and `ENABLED`, hence also `ShutdownCompletes` of `Taskpool`
(not supported by the provers); `SchedClean`, whose only property does not hold; and the
safety properties of `Stasis`. Three of these rest on the number of paths between topics:
that a subscription is in no list once it has been removed along all of them is an equation
between sums over the forwards, and what a sum over a set is cannot be unfolded here, since
it is an induction over the set. The fourth, `OnlySyncCircular`, needs a rank of the topics
that falls along every forward and an invariant on the stack of locks of every walk; that
such a rank exists in a graph without circles is again an induction over a set, and to
assume it as a constant would add to the model what the code does not have.

## What the models found

Two runs violate what a comment or a header says of the code.

1. **taskprocessor_stop_without_memory** (`ShutdownAlwaysCompletes`). If the die task
   cannot be allocated, the caller sets `dead` and joins the thread without waking it. The
   comment says that the thread exits early; a thread that sleeps in `ast_sem_wait` never
   looks at the flag, and the join does not return.
2. **sched_clean** (`CleansAll`). `ast_sched_clean_by_callback` walks the array while
   removing from it; an entry that is sifted up behind the walk is missed.

In five more places the code does less than its documentation or its callers expect. The property of the
passing run excludes the case and says that there is no other:

- `QuietWhenSuspended`: `taskpool.h` says that a suspended serializer executes nothing.
  `execute_tasks` looks at the suspension after it has executed a task; if a waiter in
  `push_wait` executed the suspend task, an `execute_tasks` that was pending at that moment
  executes one more task. What that one task may be is not restricted.
- `NoLostWakeup`: when the pool refuses `execute_tasks` for lack of memory, the push reports
  success, and nobody asks the pool again: later pushes find a queue that is not empty and
  send no notification. From then on a `push_wait` from a pool thread still executes what is
  queued before its own task, and nothing else does. No other wakeup is lost.
- `SameLock`: `named_locks.h` says that any other thread waits for the lock of a key.
  `__ast_named_lock_get` ignores that the proxy could not be linked; the next caller then
  creates a second lock of the same key. Only such a lock is ever a second one.
- `RefHeld`: `AST_SCHED_DEL_UNREF` on an entry that is running and asks to be rescheduled:
  the entry is deleted but the function reports a failure, so the macro gives up and the
  callback's reference is not dropped. It is left behind in no other case.
- `OnlySyncCircular`: `stasis.h` says that there are no worries about publishing and
  subscribing concurrently. `stasis_publish_sync` waits for a callback with the topic locked;
  a callback that publishes to that topic or unsubscribes never returns. Every circular wait
  has such a publisher in it.

Two more observations are part of what `taskpool` establishes and are not runs of their
own: `DeadlockOnlyIfBusy` needs its exceptions. The shrink callback joins threads under
the pool's lock and judges by the time of the last push only, so that removing a worker
whose task then pushes to the pool blocks both; and during a shutdown two tasks that hold
the last references to each other's workers join each other.

## What is not modelled

- Spurious wakeups of condition variables; all waits modelled are in loops that test
  their condition, or their return is harmless.
- A listener thread that cannot be created (the code then joins a null thread).
- A growing taskpool with an idle timeout of 0, which schedules no shrink callback
  (taskpool.c:438) and is otherwise the growing pool of the model.
- `push_wait` when its second allocation fails: the code returns with a task queued that
  points into its stack frame, which is undefined behaviour. Likewise `push_wait` from
  inside a task of the same serializer, which just calls the task, the serializer's own
  references and the shutdown group.
- `schedule()` ignoring that the heap could not grow; the failing push itself is an action
  of `Heap`.
- What follows when an owner deletes by an id that meanwhile names another's entry
  (`stale`), destroying a scheduler context, the macros that ignore the result of a
  delete, and a callback that deletes its own entry, which the code reports as an error
  and ignores (sched.c:648-657).
- A taskpool whose creation fails half way, a stop task that cannot be queued (the
  behaviour of finding 1, once per worker) and `ast_taskpool_push_wait`. A worker that
  cannot be appended to its vector is treated like one that cannot be allocated.
- Weak proxies: `ao2_weakproxy_ref_object`, which only tests call, duplicating a container of
  proxies, and two subscriptions of one user to one proxy. Named locks: the assertion that
  a key is always asked for with the same lock type.
- Stasis: the lifetime of topics, which outlive their users in the model; topic pools, the
  caching topic and the message router, which are users of the bus; a forward made twice
  between the same topics; a vector that cannot grow; the statistics of developer builds.
  The callback of a direct subscription makes no calls in the model; that of a caching
  topic publishes with the topic locked. An unsubscription that finds no entry in its
  topic's list returns early (stasis.c:1052-1058); by `PathsExact` there is none in the
  model. A callback that gives up its own subscription before `stasis_subscribe` has
  published that it exists (stasis.c:1004): the publication then reads the id of a
  subscription that may be gone.
- ao2 containers as such: hash tables, red-black trees and iterators.
- The older threadpool (`main/threadpool.c`): no code outside of the tests creates one.
- Statistics, CLI commands and log messages.
- The rest of the server, with the reason for each part in `PROJECT.json`.

Candidates for further work, in this order: iteration over an ao2 container that changes;
the caching topic of Stasis, whose callback publishes under the topic's lock; the states of bridges and bridge channels; the aggregation of device states and
the translation paths as pure algorithms. Each needs a module of its own and none of them
is assumed by the models here.
