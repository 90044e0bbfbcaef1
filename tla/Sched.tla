-------------------------------- MODULE Sched --------------------------------
(***************************************************************************)
(* A scheduler context (main/sched.c) with its thread, and the owners of   *)
(* objects that schedule a callback on themselves: each holds the id of    *)
(* its entry in a field of the object and a reference for the callback,    *)
(* and unschedules with the macro AST_SCHED_DEL_UNREF of                   *)
(* include/asterisk/sched.h.                                               *)
(*                                                                         *)
(* A step is one critical section of con->lock, one callback, or what a    *)
(* thread does between them.  Times are relative to the current time, in   *)
(* milliseconds: tick moves every one of them.  The heap is the set of its *)
(* entries; that the array in main/heap.c hands them out in order is       *)
(* checked in the module Heap.                                             *)
(***************************************************************************)
EXTENDS Integers, Sequences, FiniteSets

CONSTANTS
    Owners,         \* objects with a scheduled callback, each used by one thread
    Structs,        \* memory for struct sched
    Timings,        \* pairs of "when" and "variable" passed to ast_sched_add_variable
    IdIncrement,    \* ID_QUEUE_INCREMENT
    MaxCache,       \* SCHED_MAX_CACHE
    MaxTries,       \* attempts of AST_SCHED_DEL_UNREF
    MaxScheds,      \* bound on the calls of schedule()
    MaxLate,        \* bound on how late the thread may be
    None

ASSUME BoundsAssumption ==
    /\ Timings \subseteq (0 .. MaxLate) \X BOOLEAN /\ 1 <= MaxLate
    /\ IdIncrement \in Nat \ {0} /\ MaxTries \in Nat \ {0}
    /\ MaxCache \in Nat /\ MaxScheds \in Nat /\ MaxLate \in Nat
    /\ None \notin Structs /\ None \notin Int

VARIABLES
    heap,           \* con->sched_heap
    ent,            \* ent[s]: the contents of struct s
    schedc,         \* con->schedc, the cache of unused structs
    unallocated,    \* structs that are not allocated
    id_queue, id_queue_size,
    tie_breaker,    \* con->tie_breaker
    scheds,         \* number of calls of schedule()
    executing,      \* con->currently_executing
    res,            \* what the callback returned
    limit,          \* the local "when" of ast_sched_runq
    rpc,            \* where the scheduler's thread is
    until,          \* when its timed wait ends, or None
    signalled,      \* con->sched_thread->cond has been signalled
    stop,           \* con->sched_thread->stop
    opc,            \* opc[o]: where the thread of o is in AST_SCHED_DEL_UNREF
    del,            \* del[o]: its locals _id, _count and, inside the call, s
    woken,          \* owners whose condition s->cond was signalled
    field,          \* field[o]: the id kept in the object, -1 for none
    refs,           \* refs[o]: references held for callbacks
    stale           \* history: an owner deleted an entry that was not its own

entries == <<heap, ent, schedc, unallocated, id_queue, id_queue_size, tie_breaker, scheds>>
thread == <<executing, res, limit, rpc, until>>
owner == <<opc, del, woken, field, refs, stale>>
vars == <<entries, thread, signalled, stop, owner>>

\* A struct sched fresh from calloc; seq numbers the calls of schedule().
NoEntry == [id |-> 0, data |-> None, when |-> 0, tie |-> 0, resched |-> 0, variable |-> FALSE,
            seq |-> 0, deleted |-> FALSE, rescheduled |-> FALSE]

NotDeleting == [id |-> -1, count |-> 0, s |-> None]

Init ==
    /\ heap = {} /\ ent = [s \in Structs |-> NoEntry]
    /\ schedc = <<>> /\ unallocated = Structs
    /\ id_queue = <<>> /\ id_queue_size = 0
    /\ tie_breaker = 0 /\ scheds = 0
    /\ executing = None /\ res = 0 /\ limit = 0
    /\ rpc = "top" /\ until = None
    /\ signalled = FALSE /\ stop = FALSE
    /\ opc = [o \in Owners |-> "idle"]
    /\ del = [o \in Owners |-> NotDeleting]
    /\ woken = {}
    /\ field = [o \in Owners |-> -1]
    /\ refs = [o \in Owners |-> 0]
    /\ stale = FALSE

\* sched_settime: never in the past.
sched_settime(from, interval) == IF from + interval < 0 THEN 0 ELSE from + interval

\* schedule(): "restart the sequence for the first entry".
NextTie == IF heap = {} THEN 0 ELSE tie_breaker + 1

\* Mutant: the operands of the tie breaker's subtraction are swapped.
Before_newest(a, b, e) == e[a].when < e[b].when \/ (e[a].when = e[b].when /\ e[a].tie > e[b].tie)

\* sched_time_cmp: a comes out of the heap before b.
Before(a, b, e) == e[a].when < e[b].when \/ (e[a].when = e[b].when /\ e[a].tie < e[b].tie)

\* Mutant: the signal is left out.
Signal_lost == UNCHANGED signalled

\* ast_cond_signal(&con->sched_thread->cond): lost unless the thread waits.
Signal == signalled' = (signalled \/ rpc = "asleep")

\* Mutant: the cache takes one struct too many.
sched_release_full(s) ==
    /\ id_queue' = IF ent[s].id # 0 THEN Append(id_queue, ent[s].id) ELSE id_queue
    /\ IF Len(schedc) <= MaxCache
        THEN schedc' = <<s>> \o schedc /\ UNCHANGED unallocated
        ELSE unallocated' = unallocated \union {s} /\ UNCHANGED schedc
    /\ ent' = [ent EXCEPT ![s] = NoEntry]
    /\ UNCHANGED id_queue_size

\* sched_release: the id goes to the end of the queue, the struct to the front
\* of the cache or back to the allocator.  What is left in a cached struct is
\* overwritten before it is read, so it is not kept.
sched_release(s) ==
    /\ id_queue' = IF ent[s].id # 0 THEN Append(id_queue, ent[s].id) ELSE id_queue
    /\ IF Len(schedc) < MaxCache
        THEN schedc' = <<s>> \o schedc /\ UNCHANGED unallocated
        ELSE unallocated' = unallocated \union {s} /\ UNCHANGED schedc
    /\ ent' = [ent EXCEPT ![s] = NoEntry]
    /\ UNCHANGED id_queue_size

-----------------------------------------------------------------------------
(* Scheduling                                                              *)

\* Nobody turns to a scheduler that is being destroyed.
MayUse(o) == opc[o] = "idle" /\ ~stop

\* sched_alloc takes a struct from the cache, or a new one.
sched_alloc(s) ==
    IF schedc # <<>>
        THEN s = Head(schedc) /\ schedc' = Tail(schedc) /\ UNCHANGED unallocated
        ELSE /\ unallocated # {} /\ s = CHOOSE u \in unallocated : TRUE
             /\ unallocated' = unallocated \ {s}
             /\ UNCHANGED schedc

\* The queue of ids once set_sched_id made sure there is one; add_ids stops at
\* an allocation failure, after n of them.
add_ids(n) == IF id_queue # <<>> THEN id_queue ELSE [i \in 1 .. n |-> id_queue_size + i]

\* An owner takes a reference and schedules its callback.  Between 1 and
\* IdIncrement ids are added when there are none.
ast_sched_add(o, s, n, when, variable) ==
    LET ids == add_ids(n) IN
    /\ MayUse(o) /\ field[o] = -1
    /\ scheds < MaxScheds
    /\ sched_alloc(s)
    /\ n = 0 <=> id_queue # <<>>
    /\ ent' = [ent EXCEPT ![s] = [id |-> Head(ids), data |-> o, when |-> sched_settime(0, when),
                                  tie |-> NextTie, resched |-> when, variable |-> variable,
                                  seq |-> scheds, deleted |-> FALSE, rescheduled |-> FALSE]]
    /\ id_queue' = Tail(ids)
    /\ id_queue_size' = id_queue_size + n
    /\ heap' = heap \union {s}
    /\ tie_breaker' = NextTie
    /\ scheds' = scheds + 1
    /\ refs' = [refs EXCEPT ![o] = @ + 1]
    /\ opc' = [opc EXCEPT ![o] = "added"]
    /\ del' = [del EXCEPT ![o].id = Head(ids)]
    /\ Signal
    /\ UNCHANGED <<thread, stop, woken, field, stale>>

\* The id is stored in the object once the lock has been released: by then the
\* callback may have run.
add_returns(o) ==
    /\ opc[o] = "added"
    /\ field' = [field EXCEPT ![o] = del[o].id]
    /\ opc' = [opc EXCEPT ![o] = "idle"]
    /\ del' = [del EXCEPT ![o].id = -1]
    /\ UNCHANGED <<entries, thread, signalled, stop, woken, refs, stale>>

\* The add fails because there is no memory for the struct or, when one had to
\* be allocated, for an id: then the new struct stays in the cache.
sched_add_failed(o) ==
    /\ MayUse(o) /\ field[o] = -1
    /\ schedc = <<>> \/ id_queue = <<>>
    /\ \/ UNCHANGED <<schedc, unallocated>>
       \/ /\ schedc = <<>> /\ id_queue = <<>> /\ MaxCache > 0
          /\ \E s \in unallocated : schedc' = <<s>> /\ unallocated' = unallocated \ {s}
    /\ Signal
    /\ UNCHANGED <<heap, ent, id_queue, id_queue_size, tie_breaker, scheds, thread, stop, owner>>

-----------------------------------------------------------------------------
(* The scheduler's thread: sched_run and ast_sched_runq                    *)

\* Mutant: an entry that is overdue is taken for none.
ast_sched_wait_unclamped ==
    IF heap = {} THEN None
    ELSE LET s == CHOOSE s \in heap : \A u \in heap : ~Before(u, s, ent)
         IN  IF ent[s].when < 0 THEN None ELSE ent[s].when

\* The time to wait for the first entry, None when there is none.
ast_sched_wait ==
    IF heap = {} THEN None
    ELSE LET s == CHOOSE s \in heap : \A u \in heap : ~Before(u, s, ent)
         IN  IF ent[s].when < 0 THEN 0 ELSE ent[s].when

\* Under the lock: stop, or wait for the time of the first entry.
sched_run ==
    /\ rpc = "top"
    /\ IF stop
        THEN rpc' = "done" /\ UNCHANGED until
        ELSE /\ rpc' = "asleep"
             /\ until' = ast_sched_wait
    /\ UNCHANGED <<entries, executing, res, limit, signalled, stop, owner>>

\* The wait ends by a signal or by its timeout, and the stop flag is read.
sched_wakes ==
    /\ rpc = "asleep"
    /\ signalled \/ (until # None /\ until <= 0)
    /\ signalled' = FALSE
    /\ until' = None
    /\ rpc' = IF stop THEN "done" ELSE "runq"
    /\ UNCHANGED <<entries, executing, res, limit, stop, owner>>

\* The head of the loop of ast_sched_runq, with the heap h and the contents e:
\* the first entry is popped if its time is before lim.
runq_loop(h, e, lim) ==
    IF \E s \in h : e[s].when < lim
        THEN LET current == CHOOSE s \in h : \A u \in h : ~Before(u, s, e) IN
             heap' = h \ {current} /\ executing' = current /\ rpc' = "callback" /\ limit' = lim
        ELSE heap' = h /\ executing' = None /\ rpc' = "top" /\ limit' = 0

\* The lock is taken; what expires within the next millisecond is due.
ast_sched_runq ==
    /\ rpc = "runq"
    /\ runq_loop(heap, ent, 1)
    /\ UNCHANGED <<ent, schedc, unallocated, id_queue, id_queue_size, tie_breaker, scheds,
                   res, until, signalled, stop, owner>>

\* The callback of the entry's owner, outside of the lock.  It asks to be run
\* again, or drops its reference and may reset the object's field.
callback(again, clears) ==
    LET o == ent[executing].data IN
    /\ rpc = "callback"
    /\ again => scheds < MaxScheds
    /\ res' = IF again THEN 1 ELSE 0
    /\ rpc' = "returned"
    /\ IF again
        THEN ~clears /\ UNCHANGED <<refs, field>>
        ELSE /\ refs' = [refs EXCEPT ![o] = @ - 1]
             /\ field' = IF clears THEN [field EXCEPT ![o] = -1] ELSE field
    /\ UNCHANGED <<entries, executing, limit, until, signalled, stop, opc, del, woken, stale>>

\* Mutants: the signal is left out; the flag is not looked at.
SignalDeleter_lost(s) == UNCHANGED woken
LeftToDeleter_never(s) == FALSE

\* ast_cond_signal(&current->cond) wakes one of those that wait.
SignalDeleter(s) ==
    LET waiting == {o \in Owners : opc[o] = "wait" /\ del[o].s = s /\ o \notin woken} IN
    IF waiting = {} THEN UNCHANGED woken ELSE \E o \in waiting : woken' = woken \union {o}

\* "Another thread is waiting on this scheduled item."
LeftToDeleter(s) == ent[s].deleted

\* The lock is taken again: one waiting deleter is signalled, and the entry is
\* left to it, scheduled again or released; then the loop goes on.
runq_return ==
    LET s == executing IN
    /\ rpc = "returned"
    /\ SignalDeleter(s)
    /\ IF LeftToDeleter(s)
        THEN /\ ent' = [ent EXCEPT ![s].rescheduled = (res # 0)]
             /\ runq_loop(heap, ent', limit)
             /\ UNCHANGED <<schedc, unallocated, id_queue, id_queue_size, tie_breaker, scheds>>
        ELSE IF res # 0
        THEN /\ ent' = [ent EXCEPT ![s].when = sched_settime(@, IF ent[s].variable THEN res ELSE ent[s].resched),
                                   ![s].tie = NextTie, ![s].seq = scheds]
             /\ tie_breaker' = NextTie
             /\ scheds' = scheds + 1
             /\ runq_loop(heap \union {s}, ent', limit)
             /\ UNCHANGED <<schedc, unallocated, id_queue, id_queue_size>>
        ELSE /\ sched_release(s)
             /\ runq_loop(heap, ent', limit)
             /\ UNCHANGED <<tie_breaker, scheds>>
    /\ res' = 0
    /\ UNCHANGED <<until, signalled, stop, opc, del, field, refs, stale>>

\* sched_thread_destroy, up to its pthread_join.
sched_thread_destroy ==
    /\ ~stop
    /\ stop' = TRUE
    /\ Signal
    /\ UNCHANGED <<entries, thread, owner>>

-----------------------------------------------------------------------------
(* Unscheduling: AST_SCHED_DEL_UNREF and ast_sched_del_nonrunning          *)

Goto(o, pc) == opc' = [opc EXCEPT ![o] = pc]

\* The while condition reads the field, before any lock is taken.
DEL_UNREF(o) ==
    /\ opc[o] = "again" \/ (MayUse(o) /\ field[o] # -1)
    /\ del' = [del EXCEPT ![o].id = field[o], ![o].count = IF field[o] = -1 THEN 0 ELSE @]
    /\ Goto(o, IF field[o] = -1 THEN "idle" ELSE "del")
    /\ UNCHANGED <<entries, thread, signalled, stop, woken, field, refs, stale>>

\* The call returned -1: try again, or give up "this is probably a bug".
DelFailed(o) ==
    LET n == del[o].count + 1 IN
    /\ del' = [del EXCEPT ![o].count = n, ![o].s = None]
    /\ Goto(o, IF n = MaxTries THEN "gone" ELSE "again")

\* The entry is in the heap: it is deleted, and its reference dropped.
del_found(o, s) ==
    /\ opc[o] = "del"
    /\ s \in heap /\ ent[s].id = del[o].id
    /\ heap' = heap \ {s}
    /\ sched_release(s)
    /\ refs' = [refs EXCEPT ![o] = @ - 1]
    /\ field' = [field EXCEPT ![o] = -1]
    /\ del' = [del EXCEPT ![o] = NotDeleting]
    /\ Goto(o, "idle")
    /\ stale' = (stale \/ ent[s].data # o)
    /\ Signal
    /\ UNCHANGED <<tie_breaker, scheds, thread, stop, woken>>

NotInHeap(o) == \A s \in heap : ent[s].id # del[o].id
Executing(o) == executing # None /\ ent[executing].id = del[o].id

\* Mutant: the deleter does not wait for the callback.
del_running_no_wait(o) ==
    /\ opc[o] = "del"
    /\ NotInHeap(o) /\ Executing(o)
    /\ ent' = [ent EXCEPT ![executing].deleted = TRUE]
    /\ refs' = [refs EXCEPT ![o] = @ - 1]
    /\ field' = [field EXCEPT ![o] = -1]
    /\ del' = [del EXCEPT ![o] = NotDeleting]
    /\ Goto(o, "idle")
    /\ Signal
    /\ UNCHANGED <<heap, schedc, unallocated, id_queue, id_queue_size, tie_breaker, scheds,
                   thread, stop, woken, stale>>

\* Its callback is running: mark it and wait.
del_running(o) ==
    /\ opc[o] = "del"
    /\ NotInHeap(o) /\ Executing(o)
    /\ ent' = [ent EXCEPT ![executing].deleted = TRUE]
    /\ del' = [del EXCEPT ![o].s = executing]
    /\ Goto(o, "wait")
    /\ stale' = (stale \/ ent[executing].data # o)
    /\ UNCHANGED <<heap, schedc, unallocated, id_queue, id_queue_size, tie_breaker, scheds,
                   thread, signalled, stop, woken, field, refs>>

del_not_found(o) ==
    /\ opc[o] = "del"
    /\ NotInHeap(o) /\ ~Executing(o)
    /\ DelFailed(o)
    /\ Signal
    /\ UNCHANGED <<entries, thread, stop, woken, field, refs, stale>>

\* Mutant: the reference is dropped for an entry that ran to its end, too.
del_woken_unref(o) ==
    LET s == del[o].s IN
    /\ opc[o] = "wait" /\ o \in woken
    /\ woken' = woken \ {o}
    /\ ~Executing(o)
    /\ sched_release(s)
    /\ IF ent[s].rescheduled
        THEN DelFailed(o) /\ UNCHANGED refs
        ELSE /\ Goto(o, "idle") /\ del' = [del EXCEPT ![o] = NotDeleting]
             /\ refs' = [refs EXCEPT ![o] = @ - 1]
    /\ Signal
    /\ UNCHANGED <<heap, tie_breaker, scheds, thread, stop, field, stale>>

\* The waiter has the lock again: the entry is its own to release.  It returns
\* -2, or -1 when the callback had asked to be scheduled again.
del_woken(o) ==
    LET s == del[o].s IN
    /\ opc[o] = "wait" /\ o \in woken
    /\ woken' = woken \ {o}
    /\ IF Executing(o)
        THEN UNCHANGED <<ent, schedc, unallocated, id_queue, id_queue_size, opc, del, signalled>>
        ELSE /\ sched_release(s)
             /\ IF ent[s].rescheduled
                 THEN DelFailed(o)
                 ELSE Goto(o, "idle") /\ del' = [del EXCEPT ![o] = NotDeleting]
             /\ Signal
    /\ UNCHANGED <<heap, tie_breaker, scheds, thread, stop, field, refs, stale>>

-----------------------------------------------------------------------------
\* A millisecond passes.  The thread is never more than MaxLate behind, nor
\* longer than that in the callbacks of one ast_sched_runq.
tick ==
    /\ \A s \in heap : ent[s].when > -MaxLate
    /\ limit > -MaxLate
    /\ ent' = [s \in Structs |->
                IF s \in heap \/ (s = executing /\ ent[s].when > -MaxLate)
                    THEN [ent[s] EXCEPT !.when = @ - 1] ELSE ent[s]]
    /\ limit' = IF executing # None THEN limit - 1 ELSE limit
    /\ until' = IF until = None \/ until <= 0 THEN until ELSE until - 1
    /\ UNCHANGED <<heap, schedc, unallocated, id_queue, id_queue_size, tie_breaker, scheds,
                   executing, res, rpc, signalled, stop, owner>>

ThreadStep ==
    \/ sched_run \/ sched_wakes \/ ast_sched_runq \/ runq_return
    \/ \E again, clears \in BOOLEAN : callback(again, clears)

DelStep(o) == del_running(o) \/ del_not_found(o) \/ del_woken(o) \/ \E s \in Structs : del_found(o, s)

Step ==
    \/ ThreadStep
    \/ sched_thread_destroy
    \/ tick
    \/ \E o \in Owners :
        \/ \E s \in Structs, n \in 0 .. IdIncrement, t \in Timings : ast_sched_add(o, s, n, t[1], t[2])
        \/ add_returns(o) \/ sched_add_failed(o)
        \/ DEL_UNREF(o)
        \/ DelStep(o)

\* An owner that deletes with an id that has become another's breaks the
\* bookkeeping of both; behaviours are followed up to that point.
Next == ~stale /\ Step

Spec == Init /\ [][Next]_vars

\* Threads are scheduled and callbacks return; an owner in the macro goes on.
Fairness ==
    /\ WF_vars(~stale /\ ThreadStep)
    /\ \A o \in Owners : WF_vars(~stale /\ DelStep(o)) /\ WF_vars(~stale /\ add_returns(o))
                         /\ WF_vars(~stale /\ opc[o] = "again" /\ DEL_UNREF(o))

FairSpec == Spec /\ Fairness

-----------------------------------------------------------------------------
(* Properties                                                              *)

Ids == 1 .. id_queue_size
Waiting(o) == opc[o] = "wait"

\* Structs in use: in the heap, running, or left to a waiting deleter.
Live == heap \union {s \in Structs : s = executing \/ \E o \in Owners : Waiting(o) /\ del[o].s = s}

\* The contents of a struct, and the locals of a deleter.
Entry == [id : Ids \union {0}, data : Owners \union {None}, when : Int, tie : Nat, resched : Nat,
          variable : BOOLEAN, seq : Nat, deleted : BOOLEAN, rescheduled : BOOLEAN]
Locals == [id : Ids \union {-1}, count : 0 .. MaxTries, s : Structs \union {None}]

\* The values of the variables.
TypeOK ==
    /\ heap \subseteq Structs /\ unallocated \subseteq Structs
    /\ schedc \in Seq(Structs) /\ Len(schedc) <= MaxCache
    /\ id_queue_size \in Nat /\ id_queue \in Seq(Ids)
    /\ ent \in [Structs -> Entry]
    /\ tie_breaker \in Nat /\ scheds \in Nat
    /\ executing \in Structs \union {None}
    /\ res \in {0, 1} /\ limit \in Int /\ until \in Nat \union {None}
    /\ rpc \in {"top", "asleep", "runq", "callback", "returned", "done"}
    /\ signalled \in BOOLEAN /\ stop \in BOOLEAN /\ stale \in BOOLEAN
    /\ opc \in [Owners -> {"idle", "added", "again", "del", "wait", "gone"}]
    /\ del \in [Owners -> Locals]
    /\ woken \subseteq Owners
    /\ field \in [Owners -> Ids \union {-1}]
    /\ refs \in [Owners -> Int]

\* Until an owner deletes with an id that is no longer its own: no id is lost or
\* in two places across add, run, reschedule, delete and the hand-over of a
\* running entry to its deleter (set_sched_id, sched_release).
IdsConserved ==
    ~stale =>
        /\ \A i, j \in DOMAIN id_queue : i # j => id_queue[i] # id_queue[j]
        /\ \A s, u \in Live : s # u => ent[s].id # ent[u].id
        /\ {id_queue[i] : i \in DOMAIN id_queue} \intersect {ent[s].id : s \in Live} = {}
        /\ Ids = {id_queue[i] : i \in DOMAIN id_queue} \union {ent[s].id : s \in Live}

\* Likewise for the structs: each is in exactly one of the heap, the callback,
\* a waiting deleter's hands, the cache and the allocator; so none is released
\* twice, and none is given to an add while a deleter still looks at it.
StructsConserved ==
    ~stale =>
        /\ \A i, j \in DOMAIN schedc : i # j => schedc[i] # schedc[j]
        /\ LET cached == {schedc[i] : i \in DOMAIN schedc} IN
           /\ Live \intersect cached = {} /\ unallocated \intersect (Live \union cached) = {}
           /\ Structs = Live \union cached \union unallocated
        /\ executing \notin heap
        /\ \A o \in Owners : Waiting(o) =>
             /\ del[o].s \notin heap /\ ent[del[o].s].deleted
             /\ \A q \in Owners : q # o /\ Waiting(q) => del[q].s # del[o].s

\* Neither an id nor a struct is lost, doubled or shared, whichever of the
\* thread and a deleter ends up releasing the entry.
Conserved == IdsConserved /\ StructsConserved

\* ast_sched_runq starts the callback of an entry only when it is due, and
\* before every entry that is due later or was scheduled later for the same
\* time, across restarts of the tie breaker's sequence.
RunsInOrder ==
    [][rpc' = "callback" /\ rpc # "callback" =>
        /\ ent'[executing'].when <= 0
        /\ \A u \in heap' : \/ ent'[executing'].when < ent'[u].when
                            \/ /\ ent'[executing'].when = ent'[u].when
                               /\ ent'[executing'].seq < ent'[u].seq]_vars

\* The thread never sleeps past the time of an entry: an add or a delete that
\* changes the first entry wakes it.
NoOversleep ==
    rpc = "asleep" /\ ~signalled =>
        \A s \in heap : until # None /\ (until <= ent[s].when \/ until = 0)

\* Once AST_SCHED_DEL_UNREF has reset the object's field, or the callback has,
\* no entry is left that would run the callback on the object.
DeletedIsQuiet ==
    ~stale => \A o \in Owners : opc[o] = "idle" /\ field[o] = -1 =>
        \A s \in Structs : s \in heap \/ (s = executing /\ rpc = "callback") => ent[s].data # o

\* The callback's reference is held while the callback can still use the
\* object, and is dropped once between callback and deleter.  It is left behind
\* only by a thread that AST_SCHED_DEL_UNREF has told that it could not cancel
\* the entry: ast_sched_del_nonrunning reports -1 for a running entry that it
\* deleted although its callback asked to be run again.
RefHeld ==
    ~stale => \A o \in Owners :
        /\ refs[o] >= 0
        /\ \A s \in Structs :
            /\ s \in heap \/ (s = executing /\ rpc = "callback")
            /\ ent[s].data = o
            => refs[o] = 1
        /\ opc[o] = "idle" /\ (\A s \in Live : ent[s].data # o) => refs[o] = 0

\* A deleter that waits for a running callback returns.
DeleteReturns == \A o \in Owners : Waiting(o) ~> ~Waiting(o) \/ stale

\* An entry whose time has come is run or deleted, unless the thread is stopped.
DueRuns == \A s \in Structs : s \in heap /\ ent[s].when <= 0 ~> s \notin heap \/ stop \/ stale

\* sched_thread_destroy's pthread_join returns.
StopCompletes == stop ~> rpc = "done" \/ stale
=============================================================================
