----------------------------- MODULE SchedProofs -----------------------------
(***************************************************************************)
(* Proofs about the scheduler (module Sched), for any owners, structs,     *)
(* timings and bounds.                                                     *)
(***************************************************************************)
EXTENDS SchedOwners, WellFoundedInduction

-----------------------------------------------------------------------------
(* The first entry of the heap                                             *)

\* A set of naturals that is not empty has a least element.
LEMMA LeastNat ==
    ASSUME NEW T \in SUBSET Nat, T # {}
    PROVE  \E x \in T : \A y \in T : x <= y
<1> DEFINE R == OpToRel(<, Nat)
<1>1. IsWellFoundedOn(R, Nat)
  BY NatLessThanWellFounded, Zenon
<1>2. PICK x \in T : \A y \in T : ~(<<y, x>> \in R)
  <2> HIDE DEF R
  <2> QED BY <1>1, WFMin, Zenon
<1>3. \A y \in T : y < x => <<y, x>> \in R
  BY DEF OpToRel
<1>4. \A y \in T : ~(y < x)
  BY <1>2, <1>3, Zenon
<1> HIDE <1>1, <1>2, <1>3 DEF R
<1> QED BY <1>4

\* The comparison sched_time_cmp has a first entry in every heap.
LEMMA FirstExists ==
    ASSUME NEW h, NEW e, h # {},
           \A s \in h : e[s].when \in Int /\ e[s].when >= -MaxLate /\ e[s].tie \in Nat
    PROVE  \E s \in h : \A u \in h : ~Before(u, s, e)
<1> MaxLate \in Nat
  BY BoundsAssumption, Zenon
<1> DEFINE W == {e[s].when + MaxLate : s \in h}
<1>1. W \in SUBSET Nat /\ W # {}
  OBVIOUS
<1>2. PICK w \in W : \A y \in W : w <= y
  <2> HIDE DEF W
  <2> QED BY <1>1, LeastNat, Zenon
<1> DEFINE T == {e[s].tie : s \in {v \in h : e[v].when + MaxLate = w}}
<1>3. T \in SUBSET Nat /\ T # {}
  <2>1. PICK v \in h : e[v].when + MaxLate = w
    OBVIOUS
  <2>2. e[v].tie \in T
    BY <2>1, Zenon
  <2> QED BY <2>2, Zenon
<1>4. PICK t \in T : \A y \in T : t <= y
  <2> HIDE DEF T, W
  <2> QED BY <1>3, LeastNat, Zenon
<1>5. PICK s \in h : e[s].when + MaxLate = w /\ e[s].tie = t
  OBVIOUS
<1>6. \A u \in h : e[s].when <= e[u].when
  <2> TAKE u \in h
  <2>1. e[u].when + MaxLate \in W
    OBVIOUS
  <2> HIDE DEF T, W
  <2>2. w <= e[u].when + MaxLate
    BY <2>1, <1>2, Zenon
  <2> QED BY <2>2, <1>5
<1>7. \A u \in h : e[u].when = e[s].when => e[s].tie <= e[u].tie
  <2> SUFFICES ASSUME NEW u \in h, e[u].when = e[s].when PROVE e[s].tie <= e[u].tie
    OBVIOUS
  <2>1. e[u].tie \in T
    BY <1>5, Zenon
  <2> HIDE DEF T, W
  <2> QED BY <2>1, <1>4, <1>5, Zenon
<1>8. \A u \in h : ~Before(u, s, e)
  <2> HIDE DEF T, W
  <2> QED BY <1>6, <1>7 DEF Before
<1> QED BY <1>8, Zenon

\* The loop pops a first entry, or none is due.
LEMMA LoopPops ==
    ASSUME NEW h, NEW e, NEW lim \in Int,
           \A s \in h : e[s].when \in Int /\ e[s].when >= -MaxLate /\ e[s].tie \in Nat,
           runq_loop(h, e, lim)
    PROVE  NonePopped(h) \/ \E s \in h : Popped(h, e, lim, s)
<1>1. CASE ~ \E s \in h : e[s].when < lim
  BY <1>1, Zenon DEF runq_loop, NonePopped
<1>2. CASE \E s \in h : e[s].when < lim
  <2> DEFINE current == CHOOSE s \in h : \A u \in h : ~Before(u, s, e)
  <2>1. current \in h /\ \A u \in h : ~Before(u, current, e)
    <3>1. \E s \in h : \A u \in h : ~Before(u, s, e)
      BY <1>2, FirstExists, Zenon
    <3> QED BY <3>1, Zenon
  <2>2. heap' = h \ {current} /\ executing' = current /\ rpc' = "callback" /\ limit' = lim
    BY <1>2, Zenon DEF runq_loop
  <2> HIDE DEF current
  <2>3. PICK s \in h : e[s].when < lim
    BY <1>2, Zenon
  <2>4. e[current].when < lim
    BY <2>1, <2>3 DEF Before
  <2> QED BY <2>1, <2>2, <2>4, Zenon DEF Popped
<1> QED BY <1>1, <1>2, Zenon

-----------------------------------------------------------------------------
(* Types                                                                   *)

LEMMA SameIds ==
    id_queue_size' = id_queue_size => Ids' = Ids /\ Entry' = Entry /\ Locals' = Locals
BY DEF Ids, Entry, Locals

\* sched_release keeps the types of what it changes.
LEMMA ReleaseTyped ==
    ASSUME TypeOK, NEW s \in Structs, sched_release(s)
    PROVE  /\ schedc' \in Seq(Structs) /\ Len(schedc') <= MaxCache
           /\ unallocated' \subseteq Structs
           /\ id_queue_size' = id_queue_size /\ id_queue' \in Seq(Ids)
           /\ ent' \in [Structs -> Entry] /\ ent' = [ent EXCEPT ![s] = NoEntry]
<1>1. id_queue_size' = id_queue_size /\ ent' = [ent EXCEPT ![s] = NoEntry]
  BY Zenon DEF sched_release
<1>2. ent[s] \in Entry /\ NoEntry \in Entry
  BY DEF TypeOK, Entry, NoEntry
<1>3. id_queue' \in Seq(Ids)
  <2>1. ent[s].id # 0 => ent[s].id \in Ids
    BY <1>2, Zenon DEF Entry
  <2> QED BY <2>1 DEF sched_release, TypeOK
<1>4. schedc' \in Seq(Structs) /\ Len(schedc') <= MaxCache
  <2>1. schedc \in Seq(Structs) /\ Len(schedc) \in Nat /\ Len(schedc) <= MaxCache
    BY DEF TypeOK
  <2>2. <<s>> \o schedc \in Seq(Structs) /\ Len(<<s>> \o schedc) = Len(schedc) + 1
    BY <2>1
  <2>3. schedc' = schedc \/ (Len(schedc) < MaxCache /\ schedc' = <<s>> \o schedc)
    BY Zenon DEF sched_release
  <2>4. CASE schedc' = schedc
    BY <2>1, <2>4
  <2>5. CASE Len(schedc) < MaxCache /\ schedc' = <<s>> \o schedc
    <3> HIDE DEF sched_release
    <3> QED BY Constants, <2>1, <2>5
  <2> QED BY <2>3, <2>4, <2>5, Zenon
<1>5. unallocated' \subseteq Structs
  BY Zenon DEF sched_release, TypeOK
<1>6. ent' \in [Structs -> Entry]
  BY <1>1, <1>2, Zenon DEF TypeOK
<1> QED BY <1>1, <1>3, <1>4, <1>5, <1>6, Zenon

\* The entry that the loop of ast_sched_runq pops is one of its heap.
LEMMA LoopTyped ==
    ASSUME TypeOK, NEW h \in SUBSET Structs, NEW e,
           \A s \in h : e[s].when \in Int /\ e[s].when >= -MaxLate /\ e[s].tie \in Nat,
           NEW lim \in Int, lim <= 1, runq_loop(h, e, lim)
    PROVE  /\ heap' \subseteq Structs /\ executing' \in Structs \union {None}
           /\ rpc' \in {"callback", "top"} /\ limit' \in Int /\ limit' <= 1
           /\ executing' # None <=> rpc' = "callback"
<1>1. NonePopped(h) \/ \E s \in h : Popped(h, e, lim, s)
  BY LoopPops, Zenon
<1>2. CASE NonePopped(h)
  BY <1>2 DEF NonePopped
<1>3. ASSUME NEW s \in h, Popped(h, e, lim, s)
      PROVE  /\ heap' \subseteq Structs /\ executing' \in Structs \union {None}
             /\ rpc' \in {"callback", "top"} /\ limit' \in Int /\ limit' <= 1
             /\ executing' # None <=> rpc' = "callback"
  BY <1>3, Constants, Zenon DEF Popped
<1> QED BY <1>1, <1>2, <1>3, Zenon

\* ast_sched_wait is a time, or that there is none.
LEMMA WaitTyped ==
    ASSUME TypeOK, ThreadInv
    PROVE  /\ ast_sched_wait \in Nat \union {None}
           /\ \A s \in heap : ast_sched_wait # None /\ (ast_sched_wait <= ent[s].when \/ ast_sched_wait = 0)
<1>1. CASE heap = {}
  BY <1>1, Zenon DEF ast_sched_wait
<1>2. CASE heap # {}
  <2> DEFINE first == CHOOSE s \in heap : \A u \in heap : ~Before(u, s, ent)
  <2>0. \A s \in heap : ent[s].when \in Int /\ ent[s].when >= -MaxLate /\ ent[s].tie \in Nat
    BY Zenon DEF TypeOK, Entry, ThreadInv
  <2>1. first \in heap /\ \A u \in heap : ~Before(u, first, ent)
    <3>1. \E s \in heap : \A u \in heap : ~Before(u, s, ent)
      BY <1>2, <2>0, FirstExists, Zenon
    <3> QED BY <3>1
  <2>2. ast_sched_wait = IF ent[first].when < 0 THEN 0 ELSE ent[first].when
    BY <1>2, Zenon DEF ast_sched_wait
  <2> HIDE DEF first
  <2>3. \A u \in heap : ent[first].when <= ent[u].when
    BY <2>0, <2>1 DEF Before
  <2> QED BY Constants, <2>2, <2>3
<1> QED BY <1>1, <1>2, Zenon

\* The three ways in which runq_return leaves the entry that has run.
LEMMA ReturnSplit ==
    ASSUME IInv, ~stale, runq_return
    PROVE  /\ executing \in Structs /\ executing \notin heap /\ NextTie \in Nat
           /\ HandedOver \/ ScheduledAgain \/ Released
           /\ ent' \in [Structs -> Entry] /\ \A s \in Structs : ent'[s].when >= -MaxLate
           /\ rpc = "returned" /\ SignalDeleter(executing) /\ res' = 0
           /\ UNCHANGED <<until, signalled, stop, opc, del, field, refs, stale>>
<1>t. TypeOK /\ ThreadInv /\ Conserved
  BY DEF IInv, OwnersInv
<1>1. executing \in Structs /\ executing \notin heap /\ ent[executing] \in Entry
  BY <1>t, Zenon DEF runq_return, ThreadInv, TypeOK, Conserved, StructsConserved
<1>2. NextTie \in Nat
  BY <1>t DEF NextTie, TypeOK
<1>3. /\ rpc = "returned" /\ SignalDeleter(executing) /\ res' = 0
      /\ UNCHANGED <<until, signalled, stop, opc, del, field, refs, stale>>
  BY Zenon DEF runq_return
<1>h. ASSUME ent' \in [Structs -> Entry], \A s \in Structs : ent'[s].when >= -MaxLate,
             NEW h \in SUBSET Structs, runq_loop(h, ent', limit)
      PROVE  Looped(h)
  <2>1. \A s \in h : ent'[s].when \in Int /\ ent'[s].when >= -MaxLate /\ ent'[s].tie \in Nat
    BY <1>h, Zenon DEF Entry
  <2>2. limit \in Int
    BY <1>t, Zenon DEF TypeOK
  <2> QED BY <1>h, <2>1, <2>2, LoopPops, Zenon DEF Looped
<1>4. CASE ent[executing].deleted
  <2>1. ent' = [ent EXCEPT ![executing].rescheduled = (res # 0)]
    BY <1>4, Zenon DEF runq_return, LeftToDeleter
  <2>2. ent' \in [Structs -> Entry] /\ \A s \in Structs : ent'[s].when >= -MaxLate
    BY <1>1, <1>t, <2>1, Zenon DEF TypeOK, ThreadInv, Entry
  <2>3. heap \in SUBSET Structs /\ runq_loop(heap, ent', limit)
    BY <1>4, <1>t, Zenon DEF runq_return, LeftToDeleter, TypeOK
  <2>4. Looped(heap)
    BY <1>h, <2>2, <2>3, Zenon
  <2>5. HandedOver
    BY <1>4, <2>4, Zenon DEF runq_return, LeftToDeleter, HandedOver
  <2> QED BY <1>1, <1>2, <1>3, <2>2, <2>5, Zenon
<1>5. CASE ~ent[executing].deleted /\ res # 0
  <2> DEFINE w == sched_settime(ent[executing].when, IF ent[executing].variable THEN res ELSE ent[executing].resched)
  <2>0. w \in Int /\ w >= 0
    BY <1>1, <1>t DEF sched_settime, Entry, TypeOK
  <2>1. ent' = [ent EXCEPT ![executing].when = w, ![executing].tie = NextTie, ![executing].seq = scheds]
    BY <1>5, Zenon DEF runq_return, LeftToDeleter
  <2>6. heap \union {executing} \in SUBSET Structs /\ runq_loop(heap \union {executing}, ent', limit)
    BY <1>1, <1>5, <1>t, Zenon DEF runq_return, LeftToDeleter, TypeOK
  <2>7. /\ tie_breaker' = NextTie /\ scheds' = scheds + 1
        /\ UNCHANGED <<schedc, unallocated, id_queue, id_queue_size>>
    BY <1>5, Zenon DEF runq_return, LeftToDeleter
  <2> HIDE DEF w
  <2>2. ent' \in [Structs -> Entry] /\ \A s \in Structs : ent'[s].when >= -MaxLate
    <3>1. scheds \in Nat /\ ent \in [Structs -> Entry] /\ \A s \in Structs : ent[s].when >= -MaxLate
      BY <1>t, Zenon DEF TypeOK, ThreadInv
    <3> DEFINE new == [ent[executing] EXCEPT !.when = w, !.tie = NextTie, !.seq = scheds]
    <3>2. new \in Entry /\ new.when = w
      BY <1>1, <1>2, <2>0, <3>1, Zenon DEF Entry
    <3>3. ent' = [ent EXCEPT ![executing] = new]
      BY <2>1, Zenon
    <3> HIDE DEF new, NextTie
    <3> QED BY Constants, <1>1, <2>0, <3>1, <3>2, <3>3
  <2>4. Looped(heap \union {executing})
    BY <1>h, <2>2, <2>6, Zenon
  <2>5. ScheduledAgain
    BY <1>5, <2>0, <2>1, <2>4, <2>7, Zenon DEF ScheduledAgain
  <2> QED BY <1>1, <1>2, <1>3, <2>2, <2>5, Zenon
<1>6. CASE ~ent[executing].deleted /\ res = 0
  <2>1. sched_release(executing) /\ UNCHANGED <<tie_breaker, scheds>>
    BY <1>6, Zenon DEF runq_return, LeftToDeleter
  <2>2. ent' \in [Structs -> Entry] /\ \A s \in Structs : ent'[s].when >= -MaxLate
    <3>1. ent' \in [Structs -> Entry] /\ ent' = [ent EXCEPT ![executing] = NoEntry]
      BY <1>1, <1>t, <2>1, ReleaseTyped, Zenon
    <3> QED BY Constants, <1>t, <3>1 DEF ThreadInv, NoEntry
  <2>3. heap \in SUBSET Structs /\ runq_loop(heap, ent', limit)
    BY <1>6, <1>t, Zenon DEF runq_return, TypeOK
  <2>4. Looped(heap)
    BY <1>h, <2>2, <2>3, Zenon
  <2>5. Released
    BY <1>6, <2>1, <2>4, Zenon DEF Released
  <2> QED BY <1>1, <1>2, <1>3, <2>2, <2>5, Zenon
<1> QED BY <1>4, <1>5, <1>6, Zenon

\* The thread's steps, the stop and the clock keep the types.
LEMMA TypeThread ==
    ASSUME IInv, ~stale, ThreadStep \/ sched_thread_destroy \/ tick
    PROVE  TypeOK' /\ ThreadInv'
<1>t. TypeOK /\ ThreadInv
  BY DEF IInv
<1>1. CASE sched_run
  <2>1. until' \in Nat \union {None}
    BY <1>1, <1>t, WaitTyped, Zenon DEF sched_run, TypeOK
  <2> QED BY <1>1, <1>t, <2>1, Zenon DEF sched_run, TypeOK, ThreadInv, entries, owner, Ids, Entry, Locals
<1>2. CASE sched_wakes
  BY <1>2, <1>t, Zenon DEF sched_wakes, TypeOK, ThreadInv, entries, owner, Ids, Entry, Locals
<1>3. CASE ast_sched_runq
  <2>1. \A s \in heap : ent[s].when \in Int /\ ent[s].when >= -MaxLate /\ ent[s].tie \in Nat
    BY <1>t, Zenon DEF TypeOK, Entry, ThreadInv
  <2>2. /\ heap' \subseteq Structs /\ executing' \in Structs \union {None}
        /\ rpc' \in {"callback", "top"} /\ limit' \in Int /\ limit' <= 1
        /\ executing' # None <=> rpc' = "callback"
    <3>1. runq_loop(heap, ent, 1) /\ heap \in SUBSET Structs
      BY <1>3, <1>t, Zenon DEF ast_sched_runq, TypeOK
    <3> QED BY <1>t, <2>1, <3>1, LoopTyped
  <2> QED BY <1>3, <1>t, <2>2, Zenon DEF ast_sched_runq, TypeOK, ThreadInv, owner, Ids, Entry, Locals
<1>4. ASSUME NEW again \in BOOLEAN, NEW clears \in BOOLEAN, callback(again, clears)
      PROVE  TypeOK' /\ ThreadInv'
  <2>1. refs' \in [Owners -> Int] /\ field' \in [Owners -> Ids \union {-1}]
    <3> DEFINE o == ent[executing].data
    <3>1. /\ refs \in [Owners -> Int] /\ field \in [Owners -> Ids \union {-1}]
          /\ refs' = refs \/ refs' = [refs EXCEPT ![o] = refs[o] - 1]
          /\ field' = field \/ field' = [field EXCEPT ![o] = -1]
      BY <1>4, <1>t, Zenon DEF callback, TypeOK
    <3> HIDE DEF o
    <3> QED BY <3>1
  <2>2. /\ res' \in {0, 1} /\ rpc = "callback" /\ rpc' = "returned"
        /\ UNCHANGED <<heap, ent, schedc, unallocated, id_queue, id_queue_size, tie_breaker, scheds>>
        /\ UNCHANGED <<executing, limit, until, signalled, stop, opc, del, woken, stale>>
    BY <1>4, Zenon DEF callback, entries
  <2>3. TypeOK'
    BY <1>t, <2>1, <2>2, Zenon DEF TypeOK, Ids, Entry, Locals
  <2> QED BY <1>t, <2>2, <2>3, Zenon DEF ThreadInv
<1>5. CASE runq_return
  <2>1. /\ ent' \in [Structs -> Entry] /\ \A s \in Structs : ent'[s].when >= -MaxLate
        /\ rpc' \in {"callback", "top"} /\ heap' \subseteq Structs
        /\ executing' \in Structs \union {None} /\ (executing' # None <=> rpc' = "callback")
        /\ limit' \in Int /\ limit' <= 1
    <3>1. Looped(heap) \/ Looped(heap \union {executing})
      BY <1>5, ReturnSplit, Zenon DEF HandedOver, ScheduledAgain, Released
    <3>2. executing \in Structs /\ heap \subseteq Structs /\ limit \in Int /\ limit <= 1
      BY <1>5, <1>t, ReturnSplit, Zenon DEF TypeOK, ThreadInv
    <3>3. ASSUME NEW h \in SUBSET Structs, Looped(h)
          PROVE  /\ rpc' \in {"callback", "top"} /\ heap' \subseteq Structs
                 /\ executing' \in Structs \union {None} /\ (executing' # None <=> rpc' = "callback")
                 /\ limit' \in Int /\ limit' <= 1
      BY Constants, <3>2, <3>3 DEF Looped, NonePopped, Popped
    <3>4. heap \in SUBSET Structs /\ heap \union {executing} \in SUBSET Structs
      BY <3>2
    <3> QED BY <1>5, <3>1, <3>3, <3>4, ReturnSplit, Zenon
  <2>2. /\ schedc' \in Seq(Structs) /\ Len(schedc') <= MaxCache
        /\ unallocated' \subseteq Structs
        /\ id_queue_size' = id_queue_size /\ id_queue' \in Seq(Ids)
        /\ tie_breaker' \in Nat /\ scheds' \in Nat
    <3>1. CASE HandedOver
      BY <1>t, <3>1, Zenon DEF HandedOver, TypeOK
    <3>2. CASE ScheduledAgain
      <4>1. NextTie \in Nat
        BY <1>5, ReturnSplit, Zenon
      <4> QED BY <1>t, <3>2, <4>1 DEF ScheduledAgain, TypeOK
    <3>3. CASE Released
      <4>1. executing \in Structs
        BY <1>5, ReturnSplit, Zenon
      <4>2. tie_breaker' \in Nat /\ scheds' \in Nat
        BY <1>t, <3>3, Zenon DEF Released, TypeOK
      <4> QED BY <1>t, <3>3, <4>1, <4>2, ReleaseTyped, Zenon DEF Released
    <3> QED BY <1>5, <3>1, <3>2, <3>3, ReturnSplit, Zenon
  <2>3. res' = 0 /\ UNCHANGED <<until, signalled, stop, opc, del, field, refs, stale>>
    BY <1>5, ReturnSplit, Zenon
  <2>4. woken' \subseteq Owners
    BY <1>5, <1>t, Zenon DEF runq_return, SignalDeleter, TypeOK
  <2>5. TypeOK'
    <3>1. Ids' = Ids /\ Entry' = Entry /\ Locals' = Locals
      BY <2>2, SameIds
    <3> QED BY <1>t, <2>1, <2>2, <2>3, <2>4, <3>1, Zenon DEF TypeOK
  <2>6. ThreadInv'
    <3>1. opc' = opc /\ del' = del
      BY <2>3
    <3>2. \A o \in Owners : opc'[o] # "gone" => del'[o].count < MaxTries
      BY <1>t, <3>1, Zenon DEF ThreadInv
    <3>3. executing' # None <=> rpc' \in {"callback", "returned"}
      BY <2>1
    <3> QED BY <2>1, <3>2, Zenon DEF ThreadInv
  <2> QED BY <2>5, <2>6
<1>6. CASE sched_thread_destroy
  BY <1>6, <1>t, Zenon DEF sched_thread_destroy, TypeOK, ThreadInv, entries, owner, thread, Signal, Ids,
     Entry, Locals
<1>7. CASE tick
  <2>1. ent' \in [Structs -> Entry] /\ \A s \in Structs : ent'[s].when >= -MaxLate
    <3>1. ent \in [Structs -> Entry] /\ \A s \in Structs : ent[s].when >= -MaxLate
      BY <1>t, Zenon DEF TypeOK, ThreadInv
    <3>2. ASSUME NEW e \in Entry PROVE [e EXCEPT !.when = @ - 1] \in Entry /\ [e EXCEPT !.when = @ - 1].when = e.when - 1
      BY DEF Entry
    <3>3. \A s \in Structs : \/ ent'[s] = ent[s]
                             \/ ent[s].when > -MaxLate /\ ent'[s] = [ent[s] EXCEPT !.when = @ - 1]
      BY <1>7, Zenon DEF tick
    <3>4. \A s \in Structs : ent[s].when \in Int
      BY <3>1, Zenon DEF Entry
    <3>5. ASSUME NEW s \in Structs PROVE ent'[s] \in Entry /\ ent'[s].when >= -MaxLate
      <4>1. CASE ent'[s] = ent[s]
        BY <3>1, <4>1, Zenon
      <4>2. CASE ent[s].when > -MaxLate /\ ent'[s] = [ent[s] EXCEPT !.when = @ - 1]
        BY Constants, <3>1, <3>2, <3>4, <4>2
      <4> QED BY <3>3, <4>1, <4>2, Zenon
    <3>6. ent' = [s \in Structs |-> ent'[s]]
      BY <1>7, Zenon DEF tick
    <3> QED BY <3>5, <3>6
  <2>2. until' \in Nat \union {None}
    BY <1>7, <1>t DEF tick, TypeOK
  <2>3. limit' \in Int /\ limit' <= 1
    BY <1>7, <1>t DEF tick, TypeOK, ThreadInv
  <2> QED BY <1>7, <1>t, <2>1, <2>2, <2>3, Zenon DEF tick, TypeOK, ThreadInv, owner, Ids, Entry, Locals
<1> QED BY <1>1, <1>2, <1>3, <1>4, <1>5, <1>6, <1>7, Zenon DEF ThreadStep

\* The owners' steps keep the types.
LEMMA TypeOwner ==
    ASSUME IInv, ~stale, NEW o \in Owners,
           \/ \E s \in Structs, n \in 0 .. IdIncrement, t \in Timings : ast_sched_add(o, s, n, t[1], t[2])
           \/ add_returns(o) \/ sched_add_failed(o) \/ DEL_UNREF(o) \/ DelStep(o)
    PROVE  TypeOK' /\ ThreadInv'
<1>t. TypeOK /\ ThreadInv
  BY DEF IInv
<1>1. ASSUME NEW s \in Structs, NEW n \in 0 .. IdIncrement, NEW t \in Timings, ast_sched_add(o, s, n, t[1], t[2])
      PROVE  TypeOK' /\ ThreadInv'
  <2>1. /\ id_queue_size' = id_queue_size + n /\ id_queue_size' \in Nat /\ id_queue' \in Seq(1 .. id_queue_size')
        /\ ent'[s].id \in 1 .. id_queue_size' /\ del' = [del EXCEPT ![o].id = ent'[s].id]
        /\ schedc' \in Seq(Structs) /\ Len(schedc') <= MaxCache /\ unallocated' \subseteq Structs
    BY <1>1, AddTakes
  <2>2. PICK e \in Entry' : ent' = [ent EXCEPT ![s] = e] /\ e.when >= 0
    BY <1>1, AddTakes
  <2>3. Ids' = 1 .. id_queue_size' /\ Ids \subseteq Ids'
    <3>1. id_queue_size \in Nat
      BY <1>t, Zenon DEF TypeOK
    <3> QED BY <2>1, <3>1 DEF Ids
  <2>4. Entry \subseteq Entry' /\ Locals \subseteq Locals'
    BY <2>3, Zenon DEF Entry, Locals
  <2>5. ent' \in [Structs -> Entry'] /\ \A u \in Structs : ent'[u].when >= -MaxLate
    <3>1. ent \in [Structs -> Entry'] /\ \A u \in Structs : ent[u].when >= -MaxLate
      BY <1>t, <2>4, Zenon DEF TypeOK, ThreadInv
    <3>2. e.when >= -MaxLate
      BY Constants, <2>2 DEF Entry
    <3> QED BY <2>2, <3>1, <3>2, Zenon
  <2>6. /\ del' \in [Owners -> Locals'] /\ field' \in [Owners -> Ids' \union {-1}]
        /\ \A q \in Owners : del'[q].count = del[q].count
    <3>1. del \in [Owners -> Locals'] /\ field' = field /\ field \in [Owners -> Ids \union {-1}]
      BY <1>1, <1>t, <2>4, Zenon DEF ast_sched_add, TypeOK
    <3>2. ent'[s].id \in Ids'
      BY <2>1, <2>3, Zenon
    <3>3. \A l \in Locals', i \in Ids' : [l EXCEPT !.id = i] \in Locals' /\ [l EXCEPT !.id = i].count = l.count
      BY DEF Locals
    <3>4. del' = [del EXCEPT ![o] = [del[o] EXCEPT !.id = ent'[s].id]]
      BY <2>1, Zenon
    <3> QED BY <2>3, <3>1, <3>2, <3>3, <3>4
  <2>7. UNCHANGED <<thread, stop, woken, field, stale>> /\ tie_breaker' = NextTie /\ opc[o] = "idle"
    BY <1>1, Zenon DEF ast_sched_add, MayUse
  <2>8. NextTie \in Nat /\ scheds' \in Nat /\ refs' \in [Owners -> Int] /\ heap' \subseteq Structs
    <3>1. scheds' = scheds + 1 /\ heap' = heap \union {s} /\ refs' = [refs EXCEPT ![o] = @ + 1]
      BY <1>1, Zenon DEF ast_sched_add
    <3> QED BY <3>1, <1>t DEF TypeOK, NextTie
  <2>9. signalled' \in BOOLEAN
    BY <1>1, Zenon DEF ast_sched_add, Signal
  <2>10. /\ opc' \in [Owners -> {"idle", "added", "again", "del", "wait", "gone"}]
         /\ \A q \in Owners : opc'[q] # "gone" => opc[q] # "gone"
    BY <1>1, <1>t, <2>7, Zenon DEF ast_sched_add, TypeOK
  <2>11. TypeOK'
    BY <1>t, <2>1, <2>3, <2>5, <2>6, <2>7, <2>8, <2>9, <2>10, Zenon DEF TypeOK, thread
  <2>12. ThreadInv'
    BY <1>t, <2>5, <2>6, <2>7, <2>10, Zenon DEF ThreadInv, thread
  <2> QED BY <2>11, <2>12, Zenon
<1>d. /\ del \in [Owners -> Locals] /\ field \in [Owners -> Ids \union {-1}]
      /\ \A q \in Owners : del[q] \in Locals /\ del[q].count \in 0 .. MaxTries /\ del[q].id \in Ids \union {-1}
  BY <1>t, Zenon DEF TypeOK, Locals
<1>2. CASE add_returns(o)
  <2>1. field' = [field EXCEPT ![o] = del[o].id] /\ del' = [del EXCEPT ![o] = [del[o] EXCEPT !.id = -1]]
    BY <1>2, Zenon DEF add_returns
  <2>2. del' \in [Owners -> Locals] /\ field' \in [Owners -> Ids \union {-1}] /\ \A q \in Owners : del'[q].count = del[q].count
    <3> DEFINE new == [del[o] EXCEPT !.id = -1]
    <3>1. new \in Locals /\ new.count = del[o].count
      BY <1>d DEF Locals
    <3> HIDE DEF new
    <3> QED BY <1>d, <2>1, <3>1, Zenon DEF new
  <2> QED BY <1>2, <1>t, <2>2, SameIds, Zenon DEF add_returns, entries, thread, TypeOK, ThreadInv
<1>3. CASE sched_add_failed(o)
  <2>1. schedc' \in Seq(Structs) /\ Len(schedc') <= MaxCache /\ unallocated' \subseteq Structs
    <3>1. CASE UNCHANGED <<schedc, unallocated>>
      BY <1>t, <3>1, Zenon DEF TypeOK
    <3>2. CASE MaxCache > 0 /\ \E s \in unallocated : schedc' = <<s>> /\ unallocated' = unallocated \ {s}
      BY Constants, <1>t, <3>2 DEF TypeOK
    <3> QED BY <1>3, <3>1, <3>2, Zenon DEF sched_add_failed
  <2> QED BY <1>3, <1>t, <2>1, SameIds, Zenon DEF sched_add_failed, thread, owner, Signal, TypeOK, ThreadInv
<1>4. CASE DEL_UNREF(o)
  <2> DEFINE c == IF field[o] = -1 THEN 0 ELSE del[o].count
             new == [del[o] EXCEPT !.id = field[o], !.count = c]
  <2>1. del' = [del EXCEPT ![o] = new]
    BY <1>4, Zenon DEF DEL_UNREF
  <2>2. opc[o] # "gone" /\ \A q \in Owners \ {o} : opc'[q] = opc[q]
    BY <1>4, <1>t, Zenon DEF DEL_UNREF, MayUse, Goto, TypeOK
  <2>3. c \in 0 .. MaxTries /\ c < MaxTries
    BY Constants, <1>d, <1>t, <2>2 DEF ThreadInv
  <2> HIDE DEF c
  <2>4. new \in Locals /\ new.count = c
    BY <1>d, <2>3, Zenon DEF Locals
  <2> HIDE DEF new
  <2>5. del' \in [Owners -> Locals] /\ \A q \in Owners : opc'[q] # "gone" => del'[q].count < MaxTries
    BY <1>d, <1>t, <2>1, <2>2, <2>3, <2>4, Zenon DEF ThreadInv
  <2> QED BY <1>4, <1>t, <2>5, SameIds, Zenon DEF DEL_UNREF, Goto, entries, thread, TypeOK, ThreadInv
<1>5. ASSUME DelFailed(o), opc[o] # "gone"
      PROVE  /\ del' \in [Owners -> Locals] /\ \A q \in Owners : opc'[q] # "gone" => del'[q].count < MaxTries
             /\ opc' \in [Owners -> {"idle", "added", "again", "del", "wait", "gone"}]
  <2> DEFINE new == [del[o] EXCEPT !.count = del[o].count + 1, !.s = None]
  <2>1. del' = [del EXCEPT ![o] = new]
    BY <1>5, Zenon DEF DelFailed
  <2>2. opc' = [opc EXCEPT ![o] = IF del[o].count + 1 = MaxTries THEN "gone" ELSE "again"]
    BY <1>5, Zenon DEF DelFailed, Goto
  <2>3. del[o].count + 1 \in 0 .. MaxTries
    BY Constants, <1>5, <1>d, <1>t DEF ThreadInv
  <2>4. new \in Locals /\ new.count = del[o].count + 1
    BY <1>d, <2>3, Zenon DEF Locals
  <2> HIDE DEF new
  <2>5. opc' \in [Owners -> {"idle", "added", "again", "del", "wait", "gone"}]
    BY <1>t, <2>2, Zenon DEF TypeOK
  <2> QED BY Constants, <1>d, <1>t, <2>1, <2>2, <2>3, <2>4, <2>5 DEF ThreadInv
<1>n. NotDeleting \in Locals /\ NotDeleting.count = 0
  BY Constants DEF NotDeleting, Locals
<1>6. CASE del_running(o)
  <2>1. executing \in Structs /\ opc[o] = "del"
    BY <1>6, <1>t, Zenon DEF del_running, Executing, TypeOK
  <2> DEFINE new == [ent[executing] EXCEPT !.deleted = TRUE]
             loc == [del[o] EXCEPT !.s = executing]
  <2>2. ent' = [ent EXCEPT ![executing] = new] /\ del' = [del EXCEPT ![o] = loc] /\ opc' = [opc EXCEPT ![o] = "wait"]
    BY <1>6, Zenon DEF del_running, Goto
  <2>3. new \in Entry /\ new.when = ent[executing].when /\ loc \in Locals /\ loc.count = del[o].count
    <3>1. ent[executing] \in Entry
      BY <1>t, <2>1, Zenon DEF TypeOK
    <3>2. new \in Entry /\ new.when = ent[executing].when
      BY <3>1, Zenon DEF Entry
    <3>3. loc \in Locals /\ loc.count = del[o].count
      BY <1>d, <2>1, Zenon DEF Locals
    <3> QED BY <3>2, <3>3, Zenon
  <2> HIDE DEF new, loc
  <2>4. ent' \in [Structs -> Entry] /\ \A s \in Structs : ent'[s].when >= -MaxLate
    BY <1>t, <2>2, <2>3, Zenon DEF TypeOK, ThreadInv
  <2>5. del' \in [Owners -> Locals] /\ \A q \in Owners : opc'[q] # "gone" => del'[q].count < MaxTries
    BY <1>t, <2>1, <2>2, <2>3, Zenon DEF TypeOK, ThreadInv
  <2>6. stale' \in BOOLEAN
    BY <1>6, Zenon DEF del_running
  <2> QED BY <1>6, <1>t, <2>4, <2>5, SameIds, Zenon DEF del_running, Goto, thread, TypeOK, ThreadInv
<1>7. CASE del_not_found(o)
  <2>1. DelFailed(o) /\ opc[o] # "gone" /\ Signal /\ UNCHANGED <<entries, thread, stop, woken, field, refs, stale>>
    BY <1>7, Zenon DEF del_not_found
  <2> QED BY <1>5, <1>t, <2>1, SameIds, Zenon DEF entries, thread, Signal, TypeOK, ThreadInv
<1>r. ASSUME NEW s \in Structs, sched_release(s)
      PROVE  /\ schedc' \in Seq(Structs) /\ Len(schedc') <= MaxCache /\ unallocated' \subseteq Structs
             /\ id_queue_size' = id_queue_size /\ id_queue' \in Seq(Ids)
             /\ ent' \in [Structs -> Entry] /\ \A u \in Structs : ent'[u].when >= -MaxLate
  <2>1. ent' \in [Structs -> Entry] /\ ent' = [ent EXCEPT ![s] = NoEntry]
    BY <1>r, <1>t, ReleaseTyped, Zenon
  <2>2. \A u \in Structs : ent'[u].when >= -MaxLate
    BY Constants, <1>t, <2>1 DEF ThreadInv, NoEntry
  <2> QED BY <1>r, <1>t, <2>2, ReleaseTyped, Zenon
<1>8. ASSUME NEW s \in Structs, del_found(o, s) PROVE TypeOK' /\ ThreadInv'
  <2>1. /\ sched_release(s) /\ heap' = heap \ {s} /\ refs' = [refs EXCEPT ![o] = @ - 1] /\ opc[o] = "del"
        /\ field' = [field EXCEPT ![o] = -1] /\ del' = [del EXCEPT ![o] = NotDeleting]
        /\ opc' = [opc EXCEPT ![o] = "idle"] /\ Signal /\ stale' = (stale \/ ent[s].data # o)
        /\ UNCHANGED <<tie_breaker, scheds, thread, stop, woken>>
    BY <1>8, Zenon DEF del_found, Goto
  <2>2. /\ heap' \subseteq Structs /\ refs' \in [Owners -> Int] /\ field' \in [Owners -> Ids \union {-1}]
        /\ opc' \in [Owners -> {"idle", "added", "again", "del", "wait", "gone"}]
        /\ stale' \in BOOLEAN /\ signalled' \in BOOLEAN
    BY <1>t, <2>1 DEF TypeOK, Signal
  <2>3. del' \in [Owners -> Locals] /\ \A q \in Owners : opc'[q] # "gone" => del'[q].count < MaxTries
    BY Constants, <1>t, <1>d, <1>n, <2>1 DEF ThreadInv
  <2> QED BY <1>t, <1>r, <2>1, <2>2, <2>3, SameIds, Zenon DEF thread, TypeOK, ThreadInv
<1>9. CASE del_woken(o)
  <2>1. /\ opc[o] = "wait" /\ woken' = woken \ {o}
        /\ UNCHANGED <<heap, tie_breaker, scheds, thread, stop, field, refs, stale>>
    BY <1>9, Zenon DEF del_woken
  <2>2. CASE Executing(o)
    <3>1. UNCHANGED <<ent, schedc, unallocated, id_queue, id_queue_size, opc, del, signalled>>
      BY <1>9, <2>2, Zenon DEF del_woken
    <3> QED BY <1>t, <2>1, <3>1, SameIds, Zenon DEF thread, TypeOK, ThreadInv
  <2>3. CASE ~Executing(o)
    <3>1. del[o].s \in Structs
      BY <2>1, Zenon DEF IInv, OwnersInv, MarkInv, Waiting
    <3>2. sched_release(del[o].s) /\ Signal
      BY <1>9, <2>3, Zenon DEF del_woken
    <3>3. \/ DelFailed(o)
          \/ opc' = [opc EXCEPT ![o] = "idle"] /\ del' = [del EXCEPT ![o] = NotDeleting]
      BY <1>9, <2>3, Zenon DEF del_woken, Goto
    <3>4. /\ opc' \in [Owners -> {"idle", "added", "again", "del", "wait", "gone"}]
          /\ del' \in [Owners -> Locals] /\ \A q \in Owners : opc'[q] # "gone" => del'[q].count < MaxTries
      <4>1. CASE DelFailed(o)
        BY <1>5, <2>1, <4>1, Zenon
      <4>2. CASE opc' = [opc EXCEPT ![o] = "idle"] /\ del' = [del EXCEPT ![o] = NotDeleting]
        BY Constants, <1>t, <1>n, <4>2 DEF ThreadInv, TypeOK
      <4> QED BY <3>3, <4>1, <4>2, Zenon
    <3>5. signalled' \in BOOLEAN
      BY <3>2, Zenon DEF Signal
    <3>6. Ids' = Ids /\ Entry' = Entry /\ Locals' = Locals
      BY <1>r, <3>1, <3>2, SameIds, Zenon
    <3> QED BY <1>t, <1>r, <2>1, <3>1, <3>2, <3>4, <3>5, <3>6, Zenon DEF thread, TypeOK, ThreadInv
  <2> QED BY <2>2, <2>3, Zenon
<1> QED BY <1>1, <1>2, <1>3, <1>4, <1>6, <1>7, <1>8, <1>9, Zenon DEF DelStep

-----------------------------------------------------------------------------
(* The order of the heap and the thread's sleep                            *)

\* schedule() puts an entry behind all others.
LEMMA OrderAdd ==
    ASSUME NEW h, NEW e, NEW f, NEW n \in Nat, NEW k \in Nat, Ordered(h, e, n, k),
           \A u \in h : e[u].tie \in Nat /\ e[u].seq \in Nat,
           NEW s, NEW m \in Nat, h # {} => m = n + 1, f[s].tie = m, f[s].seq = k,
           \A u \in h \ {s} : f[u].tie = e[u].tie /\ f[u].seq = e[u].seq
    PROVE  Ordered(h \union {s}, f, m, k + 1)
<1>1. \A u \in h \ {s} : f[u].tie \in Nat /\ f[u].seq \in Nat /\ f[u].tie < m /\ f[u].seq < k
  BY DEF Ordered
<1>2. \A u \in h \union {s} : f[u].tie <= m /\ f[u].seq < k + 1
  BY <1>1
<1>3. \A u, v \in h \union {s} : u # v => \/ f[u].tie < f[v].tie /\ f[u].seq < f[v].seq
                                          \/ f[v].tie < f[u].tie /\ f[v].seq < f[u].seq
  BY DEF Ordered
<1> QED BY <1>2, <1>3, Zenon DEF Ordered

LEMMA OrderKept ==
    ASSUME NEW h, NEW e, NEW f, NEW n, NEW k, Ordered(h, e, n, k), NEW g, g \subseteq h,
           \A s \in g : f[s].tie = e[s].tie /\ f[s].seq = e[s].seq
    PROVE  Ordered(g, f, n, k)
BY Zenon DEF Ordered

\* The loop of ast_sched_runq after a callback goes on with an ordered heap.
LEMMA ReturnOrdered ==
    ASSUME IInv, ~stale, runq_return
    PROVE  \E h : Looped(h) /\ Ordered(h, ent', tie_breaker', scheds')
<1>t. /\ TypeOK /\ Ordered(heap, ent, tie_breaker, scheds) /\ heap \subseteq Structs
      /\ tie_breaker \in Nat /\ scheds \in Nat /\ ent \in [Structs -> Entry]
  BY Zenon DEF IInv, OrderInv, TypeOK
<1>1. executing \in Structs /\ executing \notin heap /\ NextTie \in Nat /\ (HandedOver \/ ScheduledAgain \/ Released)
  BY ReturnSplit, Zenon
<1>2. ASSUME \A s \in heap : ent'[s] = ent[s], Looped(heap), UNCHANGED <<tie_breaker, scheds>>
      PROVE  \E h : Looped(h) /\ Ordered(h, ent', tie_breaker', scheds')
  <2>1. Ordered(heap, ent', tie_breaker, scheds)
    BY <1>t, <1>2, OrderKept
  <2> QED BY <1>2, <2>1, Zenon
<1>3. CASE HandedOver
  <2>1. \A s \in heap : ent'[s] = ent[s]
    BY <1>1, <1>3 DEF HandedOver
  <2> QED BY <1>2, <1>3, <2>1, Zenon DEF HandedOver
<1>4. CASE Released
  <2>1. \A s \in heap : ent'[s] = ent[s]
    BY <1>1, <1>4, <1>t, Zenon DEF Released, sched_release
  <2> QED BY <1>2, <1>4, <2>1, Zenon DEF Released
<1>5. CASE ScheduledAgain
  <2>1. PICK x \in Int : ent' = [ent EXCEPT ![executing].when = x, ![executing].tie = NextTie, ![executing].seq = scheds]
    BY <1>5, Zenon DEF ScheduledAgain
  <2>2. ent'[executing].tie = NextTie /\ ent'[executing].seq = scheds
    <3>1. ent[executing] \in Entry /\ ent'[executing] = [ent[executing] EXCEPT !.when = x, !.tie = NextTie, !.seq = scheds]
      BY <1>1, <1>t, <2>1, Zenon
    <3> HIDE DEF NextTie
    <3> QED BY <3>1
  <2>3. \A s \in heap \ {executing} : ent'[s] = ent[s]
    BY <1>t, <2>1, Zenon
  <2>4. \A s \in heap : ent[s].tie \in Nat /\ ent[s].seq \in Nat
    BY <1>t, Zenon DEF Entry
  <2>5. heap # {} => NextTie = tie_breaker + 1
    BY DEF NextTie
  <2>6. Ordered(heap \union {executing}, ent', NextTie, scheds + 1)
    BY <1>1, <1>t, <2>2, <2>3, <2>4, <2>5, OrderAdd, Zenon
  <2> QED BY <1>5, <2>6, Zenon DEF ScheduledAgain
<1> QED BY <1>1, <1>3, <1>4, <1>5, Zenon

\* The thread's steps keep the order.
LEMMA OrderThread ==
    ASSUME IInv, ~stale, ThreadStep \/ sched_thread_destroy \/ tick
    PROVE  OrderInv'
<1>t. Ordered(heap, ent, tie_breaker, scheds) /\ heap \subseteq Structs
  BY Zenon DEF IInv, OrderInv, TypeOK
<1>k. ASSUME heap' \subseteq heap, UNCHANGED <<tie_breaker, scheds>>,
             \A s \in heap' : ent'[s].tie = ent[s].tie /\ ent'[s].seq = ent[s].seq
      PROVE  OrderInv'
  BY <1>k, <1>t, OrderKept, Zenon DEF OrderInv
<1>1. CASE sched_run \/ sched_wakes \/ sched_thread_destroy \/ \E again, clears \in BOOLEAN : callback(again, clears)
  BY <1>1, <1>k, Zenon DEF sched_run, sched_wakes, sched_thread_destroy, callback, entries
<1>2. CASE ast_sched_runq
  <2>1. ent' = ent /\ UNCHANGED <<tie_breaker, scheds>>
    BY <1>2 DEF ast_sched_runq
  <2>2. heap' \subseteq heap
    BY <1>2, Zenon DEF ast_sched_runq, runq_loop
  <2> QED BY <1>k, <2>1, <2>2
<1>3. CASE runq_return
  <2>1. PICK h : Looped(h) /\ Ordered(h, ent', tie_breaker', scheds')
    BY <1>3, ReturnOrdered
  <2>2. heap' \subseteq h
    BY <2>1, Zenon DEF Looped, NonePopped, Popped
  <2> QED BY <2>1, <2>2, OrderKept, Zenon DEF OrderInv
<1>4. CASE tick
  <2>1. heap' = heap /\ UNCHANGED <<tie_breaker, scheds>>
    BY <1>4, Zenon DEF tick
  <2>2. \A s \in heap : ent'[s].tie = ent[s].tie /\ ent'[s].seq = ent[s].seq
    <3>1. \A s \in heap : ent[s] \in Entry /\ ent'[s] = [ent[s] EXCEPT !.when = @ - 1]
      BY <1>4, Zenon DEF tick, IInv, TypeOK
    <3> QED BY <3>1, Zenon DEF Entry
  <2> QED BY <1>k, <2>1, <2>2, Zenon
<1> QED BY <1>1, <1>2, <1>3, <1>4 DEF ThreadStep

\* The owners' steps keep it.
LEMMA OrderOwner ==
    ASSUME IInv, ~stale, NEW o \in Owners,
           \/ \E s \in Structs, n \in 0 .. IdIncrement, t \in Timings : ast_sched_add(o, s, n, t[1], t[2])
           \/ add_returns(o) \/ sched_add_failed(o) \/ DEL_UNREF(o) \/ DelStep(o)
    PROVE  OrderInv'
<1>t. /\ Ordered(heap, ent, tie_breaker, scheds) /\ heap \subseteq Structs
      /\ ent \in [Structs -> Entry] /\ tie_breaker \in Nat /\ scheds \in Nat
  BY Zenon DEF IInv, OrderInv, TypeOK
<1>k. ASSUME heap' \subseteq heap, UNCHANGED <<tie_breaker, scheds>>,
             \A s \in heap' : ent'[s].tie = ent[s].tie /\ ent'[s].seq = ent[s].seq
      PROVE  OrderInv'
  BY <1>k, <1>t, OrderKept DEF OrderInv
<1>1. ASSUME NEW s \in Structs, NEW n \in 0 .. IdIncrement, NEW t \in Timings, ast_sched_add(o, s, n, t[1], t[2])
      PROVE  OrderInv'
  <2>1. PICK e : ent' = [ent EXCEPT ![s] = e] /\ e.tie = NextTie /\ e.seq = scheds
    BY <1>1, AddTakes
  <2>2. ent'[s].tie = NextTie /\ ent'[s].seq = scheds /\ \A u \in heap \ {s} : ent'[u] = ent[u]
    BY <1>t, <2>1, Zenon
  <2>3. heap' = heap \union {s} /\ tie_breaker' = NextTie /\ scheds' = scheds + 1
    BY <1>1, Zenon DEF ast_sched_add
  <2>4. \A u \in heap : ent[u].tie \in Nat /\ ent[u].seq \in Nat
    BY <1>t, Zenon DEF Entry
  <2>5. NextTie \in Nat /\ (heap # {} => NextTie = tie_breaker + 1)
    BY <1>t DEF NextTie
  <2>6. Ordered(heap \union {s}, ent', NextTie, scheds + 1)
    BY <1>t, <2>2, <2>4, <2>5, OrderAdd, Zenon
  <2> QED BY <2>3, <2>6, Zenon DEF OrderInv
<1>2. CASE add_returns(o) \/ sched_add_failed(o) \/ DEL_UNREF(o) \/ del_not_found(o)
  <2>1. UNCHANGED <<heap, ent, tie_breaker, scheds>>
    BY <1>2, Zenon DEF add_returns, sched_add_failed, DEL_UNREF, del_not_found, entries
  <2> QED BY <1>k, <2>1, Zenon
<1>3. CASE del_running(o)
  <2>1. heap' = heap /\ UNCHANGED <<tie_breaker, scheds>>
    BY <1>3, Zenon DEF del_running
  <2>2. executing \notin heap
    BY Zenon DEF IInv, OwnersInv, Conserved, StructsConserved
  <2>3. \A s \in heap : ent'[s] = ent[s]
    BY <1>3, <1>t, <2>2, Zenon DEF del_running
  <2> QED BY <1>k, <2>1, <2>3, Zenon
<1>4. ASSUME NEW s \in Structs, del_found(o, s) PROVE OrderInv'
  <2>1. heap' = heap \ {s} /\ UNCHANGED <<tie_breaker, scheds>>
    BY <1>4, Zenon DEF del_found
  <2>2. \A u \in heap \ {s} : ent'[u] = ent[u]
    BY <1>4, <1>t, Zenon DEF del_found, sched_release
  <2> QED BY <1>k, <2>1, <2>2, Zenon
<1>5. CASE del_woken(o)
  <2>1. heap' = heap /\ UNCHANGED <<tie_breaker, scheds>>
    BY <1>5, Zenon DEF del_woken
  <2>2. del[o].s \notin heap
    BY <1>5, Zenon DEF del_woken, IInv, OwnersInv, Conserved, StructsConserved, Waiting
  <2>3. ent' = ent \/ ent' = [ent EXCEPT ![del[o].s] = NoEntry]
    BY <1>5, Zenon DEF del_woken, sched_release
  <2>4. \A u \in heap : ent'[u] = ent[u]
    BY <1>t, <2>2, <2>3, Zenon
  <2> QED BY <1>k, <2>1, <2>4, Zenon
<1> QED BY <1>1, <1>2, <1>3, <1>4, <1>5, Zenon DEF DelStep

\* A step that leaves the sleep and the times of the heap, wakes the thread, or
\* is one of the thread when it is awake.
LEMMA SleepKept ==
    ASSUME NoOversleep,
           \/ rpc' # "asleep" \/ signalled'
           \/ /\ UNCHANGED <<rpc, signalled, until>> /\ heap' \subseteq heap
              /\ \A s \in heap' : ent'[s].when = ent[s].when
    PROVE  NoOversleep'
BY Zenon DEF NoOversleep

\* The thread goes to sleep with a timeout that no entry is due before.
LEMMA SleepThread ==
    ASSUME IInv, ThreadStep \/ sched_thread_destroy \/ tick
    PROVE  NoOversleep'
<1>t. TypeOK /\ ThreadInv /\ NoOversleep
  BY DEF IInv
<1>1. CASE sched_run
  <2>1. CASE stop
    BY <1>1, <1>t, <2>1, SleepKept, Zenon DEF sched_run
  <2>2. CASE ~stop
    <3>1. until' = ast_sched_wait /\ UNCHANGED <<heap, ent>>
      BY <1>1, <2>2, Zenon DEF sched_run, entries
    <3>2. \A s \in heap : ast_sched_wait # None /\ (ast_sched_wait <= ent[s].when \/ ast_sched_wait = 0)
      BY <1>t, WaitTyped, Zenon
    <3> HIDE DEF ast_sched_wait
    <3> QED BY <3>1, <3>2, Zenon DEF NoOversleep
  <2> QED BY <2>1, <2>2
<1>2. CASE sched_wakes \/ \E again, clears \in BOOLEAN : callback(again, clears)
  <2>1. rpc' # "asleep"
    BY <1>2, Zenon DEF sched_wakes, callback
  <2> QED BY <1>t, <2>1, SleepKept
<1>3. CASE ast_sched_runq \/ runq_return
  <2>1. rpc' # "asleep"
    BY <1>3, Zenon DEF ast_sched_runq, runq_return, runq_loop
  <2> QED BY <1>t, <2>1, SleepKept
<1>4. CASE sched_thread_destroy
  <2>1. UNCHANGED <<rpc, heap, ent, until>> /\ Signal
    BY <1>4, Zenon DEF sched_thread_destroy, entries, thread
  <2> QED BY <1>t, <2>1, SleepKept, Zenon DEF Signal
<1>5. CASE tick
  <2>1. heap' = heap /\ UNCHANGED <<rpc, signalled>> /\ until' = IF until = None \/ until <= 0 THEN until ELSE until - 1
    BY <1>5, Zenon DEF tick
  <2>2. \A s \in heap : ent'[s].when = ent[s].when - 1 /\ ent[s].when \in Int
    <3>1. \A s \in heap : ent[s] \in Entry /\ ent'[s] = [ent[s] EXCEPT !.when = @ - 1]
      BY <1>5, <1>t, Zenon DEF tick, TypeOK
    <3> QED BY <3>1, Zenon DEF Entry
  <2>3. until \in Nat \union {None} /\ None \notin Int
    BY <1>t, Constants, Zenon DEF TypeOK
  <2> QED BY <1>t, <2>1, <2>2, <2>3 DEF NoOversleep
<1> QED BY <1>1, <1>2, <1>3, <1>4, <1>5 DEF ThreadStep

\* Every owner that changes the first entry signals.
LEMMA SleepOwner ==
    ASSUME IInv, ~stale, NEW o \in Owners,
           \/ \E s \in Structs, n \in 0 .. IdIncrement, t \in Timings : ast_sched_add(o, s, n, t[1], t[2])
           \/ add_returns(o) \/ sched_add_failed(o) \/ DEL_UNREF(o) \/ DelStep(o)
    PROVE  NoOversleep'
<1>t. NoOversleep /\ rpc' = rpc
  BY Zenon DEF IInv, ast_sched_add, add_returns, sched_add_failed, DEL_UNREF, DelStep, del_running,
     del_not_found, del_woken, del_found, thread
<1>s. Signal => NoOversleep'
  BY <1>t, SleepKept, Zenon DEF Signal
<1>1. CASE \E s \in Structs, n \in 0 .. IdIncrement, t \in Timings : ast_sched_add(o, s, n, t[1], t[2])
  BY <1>1, <1>s, Zenon DEF ast_sched_add
<1>2. CASE sched_add_failed(o) \/ del_not_found(o) \/ \E s \in Structs : del_found(o, s)
  BY <1>2, <1>s, Zenon DEF sched_add_failed, del_not_found, del_found
<1>3. CASE add_returns(o) \/ DEL_UNREF(o)
  <2>1. UNCHANGED <<rpc, signalled, until, heap, ent>>
    BY <1>3, Zenon DEF add_returns, DEL_UNREF, entries, thread
  <2> QED BY <1>t, <2>1, SleepKept, Zenon
<1>4. CASE del_running(o)
  <2>1. UNCHANGED <<rpc, signalled, until, heap>>
    BY <1>4, Zenon DEF del_running, thread
  <2>2. executing \notin heap /\ heap \subseteq Structs /\ ent = [s \in Structs |-> ent[s]]
    BY Zenon DEF IInv, OwnersInv, Conserved, StructsConserved, TypeOK
  <2>3. \A s \in heap : ent'[s] = ent[s]
    BY <1>4, <2>2, Zenon DEF del_running
  <2> QED BY <1>t, <2>1, <2>3, SleepKept, Zenon
<1>5. CASE del_woken(o)
  <2>1. CASE Executing(o)
    <3>1. UNCHANGED <<rpc, signalled, until, heap, ent>>
      BY <1>5, <2>1, Zenon DEF del_woken, thread
    <3> QED BY <1>t, <3>1, SleepKept, Zenon
  <2>2. CASE ~Executing(o)
    BY <1>5, <1>s, <2>2, Zenon DEF del_woken
  <2> QED BY <2>1, <2>2, Zenon
<1> QED BY <1>1, <1>2, <1>3, <1>4, <1>5, Zenon DEF DelStep

-----------------------------------------------------------------------------
(* The invariant                                                           *)

\* The thread's steps, the stop and the clock keep what concerns the owners.
LEMMA OwnersThread ==
    ASSUME IInv, ~stale, Parted, ThreadStep \/ sched_thread_destroy \/ tick
    PROVE  Parted'
<1>t. TypeOK /\ ThreadInv
  BY DEF IInv
<1>1. CASE sched_run \/ sched_wakes \/ sched_thread_destroy
  <2>1. /\ UNCHANGED <<heap, executing, opc, del, field, refs>>
        /\ UNCHANGED <<id_queue, id_queue_size, schedc, unallocated, ent, res>>
    BY <1>1, Zenon DEF sched_run, sched_wakes, sched_thread_destroy, entries, owner, thread
  <2>2. (rpc = "callback" <=> rpc' = "callback")
    BY <1>1, Zenon DEF sched_run, sched_wakes, sched_thread_destroy, thread
  <2>3. \A s \in Structs : Same(s) /\ (Pending(s)' <=> Pending(s))
    BY <2>1, <2>2, Zenon DEF Same, Pending
  <2> QED BY <1>t, <2>1, <2>3, QuietStep, Zenon
<1>2. CASE ast_sched_runq
  <2>1. Goes(heap)
    <3>1. runq_loop(heap, ent, 1)
      BY <1>2, Zenon DEF ast_sched_runq
    <3>2. \A s \in heap : ent[s].when \in Int /\ ent[s].when >= -MaxLate /\ ent[s].tie \in Nat
      BY <1>t, Zenon DEF TypeOK, Entry, ThreadInv
    <3>3. NonePopped(heap) \/ \E s \in heap : Popped(heap, ent, 1, s)
      BY <3>1, <3>2, LoopPops
    <3> QED BY <3>3, Zenon DEF Goes, Popped
  <2> QED BY <1>2, <1>t, <2>1, OwnersRunq
<1>3. ASSUME NEW again \in BOOLEAN, NEW clears \in BOOLEAN, callback(again, clears) PROVE Parted'
  BY <1>3, <1>t, OwnersCallback
<1>4. CASE runq_return
  BY <1>4, <1>t, ReturnSplit, OwnersReturn, Zenon
<1>5. CASE tick
  <2>1. /\ UNCHANGED <<heap, executing, opc, del, field, refs>>
        /\ UNCHANGED <<id_queue, id_queue_size, schedc, unallocated, res, rpc>>
    BY <1>5, Zenon DEF tick, owner
  <2>2. \A s \in Structs : ent[s] \in Entry /\ (ent'[s] = ent[s] \/ ent'[s] = [ent[s] EXCEPT !.when = @ - 1])
    BY <1>5, <1>t, Zenon DEF tick, TypeOK
  <2>3. \A s \in Structs : Same(s)
    BY <2>2, Zenon DEF Same, Entry
  <2>4. \A s \in Structs : Pending(s)' <=> Pending(s)
    BY <2>1, Zenon DEF Pending
  <2> QED BY <1>t, <2>1, <2>3, <2>4, QuietStep, Zenon
<1> QED BY <1>1, <1>2, <1>3, <1>4, <1>5, Zenon DEF ThreadStep

\* The owners' steps keep it, up to a deletion with another's id.
LEMMA OwnersOwner ==
    ASSUME IInv, Parted, ~stale', NEW o \in Owners,
           \/ \E s \in Structs, n \in 0 .. IdIncrement, t \in Timings : ast_sched_add(o, s, n, t[1], t[2])
           \/ add_returns(o) \/ sched_add_failed(o) \/ DEL_UNREF(o) \/ DelStep(o)
    PROVE  Parted'
<1>t. TypeOK
  BY Zenon DEF IInv
<1>1. ASSUME NEW s \in Structs, NEW n \in 0 .. IdIncrement, NEW t \in Timings, ast_sched_add(o, s, n, t[1], t[2])
      PROVE  Parted'
  BY <1>1, OwnersAdd, Zenon
<1>2. CASE add_returns(o)
  BY <1>2, <1>t, OwnersAddReturns, Zenon
<1>3. CASE sched_add_failed(o)
  BY <1>3, <1>t, OwnersAddFailed, Zenon
<1>4. CASE DEL_UNREF(o)
  BY <1>4, <1>t, OwnersDelUnref, Zenon
<1>5. CASE del_running(o)
  BY <1>5, <1>t, OwnersRunning, Zenon
<1>6. CASE del_not_found(o)
  BY <1>6, <1>t, OwnersNotFound, Zenon
<1>7. CASE del_woken(o)
  BY <1>7, <1>t, OwnersWoken, Zenon
<1>8. ASSUME NEW s \in Structs, del_found(o, s) PROVE Parted'
  BY <1>8, <1>t, OwnersFound, Zenon
<1> QED BY <1>1, <1>2, <1>3, <1>4, <1>5, <1>6, <1>7, <1>8, Zenon DEF DelStep

\* A new context satisfies the invariant.
LEMMA InitHolds == Init => IInv
<1> SUFFICES ASSUME Init PROVE IInv
  OBVIOUS
<1>1. TypeOK
  <2>1. NoEntry \in Entry /\ NotDeleting \in Locals
    BY Constants DEF NoEntry, Entry, NotDeleting, Locals
  <2>2. /\ ent \in [Structs -> Entry] /\ del \in [Owners -> Locals]
        /\ opc \in [Owners -> {"idle", "added", "again", "del", "wait", "gone"}]
        /\ field \in [Owners -> Ids \union {-1}] /\ refs \in [Owners -> Int]
    BY <2>1 DEF Init
  <2>3. schedc \in Seq(Structs) /\ Len(schedc) <= MaxCache /\ id_queue \in Seq(Ids)
    BY Constants DEF Init
  <2>4. /\ heap \subseteq Structs /\ unallocated \subseteq Structs /\ woken \subseteq Owners
        /\ id_queue_size \in Nat /\ tie_breaker \in Nat /\ scheds \in Nat
        /\ executing \in Structs \union {None} /\ res \in {0, 1} /\ limit \in Int
    BY DEF Init
  <2>5. /\ until \in Nat \union {None} /\ signalled \in BOOLEAN /\ stop \in BOOLEAN /\ stale \in BOOLEAN
        /\ rpc \in {"top", "asleep", "runq", "callback", "returned", "done"}
    BY Zenon DEF Init
  <2> QED BY <2>2, <2>3, <2>4, <2>5, Zenon DEF TypeOK
<1>2. ThreadInv
  BY Constants DEF Init, ThreadInv, NoEntry, NotDeleting
<1>3. OrderInv /\ NoOversleep
  BY Zenon DEF Init, OrderInv, Ordered, NoOversleep
<1>4. Live = {} /\ \A o \in Owners : ~Waiting(o)
  BY Constants, Zenon DEF Init, Live, Waiting
<1>5. Shared
  <2>1. Elems(id_queue) = {} /\ Elems(schedc) = {} /\ Distinct(id_queue) /\ Distinct(schedc)
    BY DEF Init, Elems, Distinct
  <2> QED BY <1>4, <2>1 DEF Init, Shared, Shares
<1>6. Hands /\ MarkInv
  BY <1>4, Zenon DEF Init, Hands, MarkInv
<1>7. OwnInv /\ RefInv
  BY <1>4 DEF Init, OwnInv, RefInv, Pending
<1>8. OwnersInv
  BY <1>5, <1>6, <1>7, OwnersParts, Zenon DEF Parted, Init
<1> QED BY <1>1, <1>2, <1>3, <1>8 DEF IInv

LEMMA Stutter == IInv /\ UNCHANGED vars => IInv'
<1> SUFFICES ASSUME IInv, UNCHANGED vars PROVE IInv'
  OBVIOUS
<1>v. /\ UNCHANGED <<heap, ent, schedc, unallocated, id_queue, id_queue_size, tie_breaker, scheds>>
      /\ UNCHANGED <<executing, res, limit, rpc, until, signalled, stop>>
      /\ UNCHANGED <<opc, del, woken, field, refs, stale>>
  BY Zenon DEF vars, entries, thread, owner
<1>t. TypeOK /\ ThreadInv /\ OrderInv /\ NoOversleep
  BY DEF IInv
<1>1. TypeOK'
  BY <1>t, <1>v, SameIds DEF TypeOK
<1>2. ThreadInv' /\ OrderInv' /\ NoOversleep'
  BY <1>t, <1>v, Zenon DEF ThreadInv, OrderInv, NoOversleep
<1>3. ASSUME ~stale' PROVE OwnersInv'
  <2>1. Parted
    BY <1>3, <1>v, OwnersParts, Zenon DEF IInv
  <2>2. \A s \in Structs : Same(s) /\ (Pending(s)' <=> Pending(s))
    BY <1>v, Zenon DEF Same, Pending
  <2>3. Parted'
    BY <1>t, <1>v, <2>1, <2>2, QuietStep, Zenon
  <2> QED BY <1>3, <2>3, OwnersPartsNext
<1> QED BY <1>1, <1>2, <1>3 DEF IInv

\* Every step keeps the invariant.
LEMMA Inductive == IInv /\ [Next]_vars => IInv'
<1> SUFFICES ASSUME IInv, Next PROVE IInv'
  BY Stutter
<1>1. ~stale /\ Step
  BY DEF Next
<1>2. Parted
  BY <1>1, OwnersParts DEF IInv
<1>3. CASE ThreadStep \/ sched_thread_destroy \/ tick
  <2>1. TypeOK' /\ ThreadInv' /\ OrderInv' /\ NoOversleep' /\ Parted'
    BY <1>1, <1>2, <1>3, TypeThread, OrderThread, SleepThread, OwnersThread, Zenon
  <2> QED BY <2>1, OwnersPartsNext DEF IInv
<1>4. ASSUME NEW o \in Owners,
             \/ \E s \in Structs, n \in 0 .. IdIncrement, t \in Timings : ast_sched_add(o, s, n, t[1], t[2])
             \/ add_returns(o) \/ sched_add_failed(o) \/ DEL_UNREF(o) \/ DelStep(o)
      PROVE  IInv'
  <2>1. TypeOK' /\ ThreadInv'
    BY <1>1, <1>4, TypeOwner, Zenon
  <2>2. OrderInv' /\ NoOversleep'
    BY <1>1, <1>4, OrderOwner, SleepOwner, Zenon
  <2>3. ~stale' => Parted'
    BY <1>2, <1>4, OwnersOwner, Zenon
  <2> QED BY <2>1, <2>2, <2>3, OwnersPartsNext, Zenon DEF IInv
<1> QED BY <1>1, <1>3, <1>4, Zenon DEF Step

\* IInv is an inductive invariant of the scheduler.
THEOREM Invariance == Spec => []IInv
BY InitHolds, Inductive, PTL DEF Spec

\* Every variable keeps its type; in particular the identifiers in the queue, in
\* the entries and in the owners' fields are ones that add_ids() has made.
THEOREM TypeCorrect == Spec => []TypeOK
<1>1. IInv => TypeOK
  BY DEF IInv
<1> QED BY <1>1, Invariance, PTL

\* Until an owner deletes with an identifier that is no longer its own, no
\* identifier and no struct is lost, doubled or shared, whichever of
\* ast_sched_runq and the waiting deleter releases the entry.
THEOREM Conservation == Spec => []Conserved
<1>1. IInv => Conserved
  BY Zenon DEF IInv, OwnersInv, Conserved, IdsConserved, StructsConserved
<1> QED BY <1>1, Invariance, PTL

\* sched_run never sleeps past the time of an entry: each add or delete that
\* changes the first entry reaches it, before it has gone to sleep or after.
THEOREM NeverOversleeps == Spec => []NoOversleep
<1>1. IInv => NoOversleep
  BY Zenon DEF IInv
<1> QED BY <1>1, Invariance, PTL

\* Once AST_SCHED_DEL_UNREF or the callback has reset the object's field, no entry
\* is left that would run the callback on the object.
THEOREM Quiet == Spec => []DeletedIsQuiet
<1>1. IInv => DeletedIsQuiet
  <2> SUFFICES ASSUME IInv, ~stale, NEW o \in Owners, opc[o] = "idle", field[o] = -1,
                      NEW s \in Structs, s \in heap \/ (s = executing /\ rpc = "callback"), ent[s].data = o
               PROVE  FALSE
    BY Zenon DEF DeletedIsQuiet
  <2>1. Pending(s)
    BY Zenon DEF Pending
  <2>2. field[o] = ent[s].id
    BY <2>1, Zenon DEF IInv, OwnersInv, OwnInv
  <2>3. ent[s].id \in Ids \union {0} /\ id_queue_size \in Nat
    BY Zenon DEF IInv, TypeOK, Entry
  <2> QED BY <2>2, <2>3 DEF Ids
<1> QED BY <1>1, Invariance, PTL

\* The callback's reference is held as long as the callback can be run, is dropped
\* once between callback and deleter, and is left behind only by a thread that
\* has been told that its entry could not be cancelled.
THEOREM ReferenceHeld == Spec => []RefHeld
<1>1. IInv => RefHeld
  <2> SUFFICES ASSUME IInv, ~stale, NEW o \in Owners
               PROVE  /\ refs[o] >= 0
                      /\ \A s \in Structs :
                          /\ s \in heap \/ (s = executing /\ rpc = "callback")
                          /\ ent[s].data = o
                          => refs[o] = 1
                      /\ opc[o] = "idle" /\ (\A s \in Live : ent[s].data # o) => refs[o] = 0
    BY Zenon DEF RefHeld
  <2>1. /\ refs[o] \in {0, 1}
        /\ refs[o] = 1 => Left(o) \/ \E s \in Structs : Pending(s) /\ ent[s].data = o
    BY Zenon DEF IInv, OwnersInv, RefInv
  <2>2. \A s \in Structs : Pending(s) => refs[ent[s].data] = 1
    BY Zenon DEF IInv, OwnersInv, OwnInv
  <2>3. opc[o] = "idle" => ~Left(o)
    BY Zenon DEF Left, Waiting
  <2>4. \A s \in Structs : Pending(s) => s \in Live
    BY Zenon DEF Pending, Live
  <2>5. \A s \in Structs : s \in heap \/ (s = executing /\ rpc = "callback") => Pending(s)
    BY DEF Pending
  <2> QED BY <2>1, <2>2, <2>3, <2>4, <2>5
<1> QED BY <1>1, Invariance, PTL

\* Among entries in the order of their schedule() calls, the loop's choice is the
\* first that is due.
LEMMA PopsFirst ==
    ASSUME NEW h, NEW e, NEW lim \in Int, lim <= 1, NEW breaker, NEW calls, Ordered(h, e, breaker, calls),
           \A u \in h : e[u].when \in Int /\ e[u].tie \in Nat,
           NEW s \in h, Popped(h, e, lim, s)
    PROVE  /\ e[s].when <= 0
           /\ \A u \in heap' : \/ e[s].when < e[u].when
                               \/ e[s].when = e[u].when /\ e[s].seq < e[u].seq
<1>1. e[s].when <= 0
  <2>1. Popped(h, e, lim, s)
    OBVIOUS
  <2> QED BY <2>1 DEF Popped
<1>2. ASSUME NEW u \in heap'
      PROVE  e[s].when < e[u].when \/ (e[s].when = e[u].when /\ e[s].seq < e[u].seq)
  <2>1. u \in h /\ u # s /\ ~Before(u, s, e)
    BY Zenon DEF Popped
  <2>2. \/ e[s].tie < e[u].tie /\ e[s].seq < e[u].seq
        \/ e[u].tie < e[s].tie
    BY <2>1, Zenon DEF Ordered
  <2> QED BY <2>1, <2>2 DEF Before
<1> QED BY <1>1, <1>2, Zenon

\* ast_sched_runq starts the callback of an entry only when it is due, and before
\* every entry that is due later or was scheduled later for the same time.
THEOREM OrderKeeping == Spec => RunsInOrder
<1> DEFINE First == rpc' = "callback" /\ rpc # "callback" =>
                      /\ ent'[executing'].when <= 0
                      /\ \A u \in heap' : \/ ent'[executing'].when < ent'[u].when
                                          \/ /\ ent'[executing'].when = ent'[u].when
                                             /\ ent'[executing'].seq < ent'[u].seq
<1>1. ASSUME IInv, IInv', [Next]_vars PROVE First
  <2> SUFFICES ASSUME rpc' = "callback", rpc # "callback" PROVE First
    OBVIOUS
  <2>1. \A u \in Structs : ent'[u].when \in Int /\ ent'[u].tie \in Nat
    BY <1>1, Zenon DEF IInv, TypeOK, Entry
  <2>2. CASE ast_sched_runq
    <3>1. Ordered(heap, ent', tie_breaker, scheds) /\ heap \subseteq Structs
      BY <1>1, <2>2, Zenon DEF IInv, OrderInv, TypeOK, ast_sched_runq
    <3>2. \A u \in heap : ent'[u].when \in Int /\ ent'[u].when >= -MaxLate /\ ent'[u].tie \in Nat
      BY <1>1, <2>1, <3>1, Zenon DEF IInv, ThreadInv
    <3>3. PICK s \in heap : Popped(heap, ent', 1, s)
      <4>1. runq_loop(heap, ent', 1)
        BY <2>2, Zenon DEF ast_sched_runq
      <4>2. ~NonePopped(heap)
        BY DEF NonePopped
      <4> QED BY <3>2, <4>1, <4>2, LoopPops
    <3>4. executing' = s
      BY <3>3, Zenon DEF Popped
    <3>5. 1 \in Int /\ 1 <= 1 /\ \A u \in heap : ent'[u].when \in Int /\ ent'[u].tie \in Nat
      BY <3>2
    <3>6. /\ ent'[s].when <= 0
          /\ \A u \in heap' : \/ ent'[s].when < ent'[u].when
                              \/ ent'[s].when = ent'[u].when /\ ent'[s].seq < ent'[u].seq
      BY <3>1, <3>3, <3>5, PopsFirst, Zenon
    <3> QED BY <3>4, <3>6, Zenon
  <2>3. CASE runq_return /\ ~stale
    <3>1. PICK h : Looped(h) /\ Ordered(h, ent', tie_breaker', scheds')
      BY <1>1, <2>3, ReturnOrdered
    <3>2. PICK s \in h : Popped(h, ent', limit, s)
      BY <3>1 DEF Looped, NonePopped
    <3>3. executing' = s /\ h \subseteq heap' \union {executing'}
      BY <3>2, Zenon DEF Popped
    <3>4. h \subseteq Structs
      BY <1>1, <3>3, Zenon DEF IInv, TypeOK, ThreadInv
    <3>5. limit \in Int /\ limit <= 1
      BY <1>1, Zenon DEF IInv, TypeOK, ThreadInv
    <3>6. \A u \in h : ent'[u].when \in Int /\ ent'[u].tie \in Nat
      BY <2>1, <3>4, Zenon
    <3>7. /\ ent'[s].when <= 0
          /\ \A u \in heap' : \/ ent'[s].when < ent'[u].when
                              \/ ent'[s].when = ent'[u].when /\ ent'[s].seq < ent'[u].seq
      BY <3>1, <3>2, <3>5, <3>6, PopsFirst, Zenon
    <3> QED BY <3>3, <3>7, Zenon
  <2>4. CASE UNCHANGED rpc
    BY <2>4, Zenon
  <2>5. ASSUME Step PROVE ast_sched_runq \/ runq_return \/ UNCHANGED rpc
    <3>1. ~sched_run /\ ~sched_wakes /\ \A again, clears \in BOOLEAN : ~callback(again, clears)
      BY Zenon DEF sched_run, sched_wakes, callback
    <3>2. sched_thread_destroy \/ tick => UNCHANGED rpc
      BY Zenon DEF sched_thread_destroy, tick, thread
    <3>3. ASSUME NEW o \in Owners,
                 \/ \E s \in Structs, n \in 0 .. IdIncrement, t \in Timings : ast_sched_add(o, s, n, t[1], t[2])
                 \/ add_returns(o) \/ sched_add_failed(o) \/ DEL_UNREF(o) \/ DelStep(o)
          PROVE  UNCHANGED rpc
      BY <3>3, Zenon DEF ast_sched_add, add_returns, sched_add_failed, DEL_UNREF, DelStep, del_running,
         del_not_found, del_woken, del_found, thread
    <3> QED BY <2>5, <3>1, <3>2, <3>3, Zenon DEF Step, ThreadStep
  <2> QED BY <1>1, <2>2, <2>3, <2>5, Zenon DEF Next, vars, thread
<1> QED BY <1>1, Invariance, PTL DEF Spec, RunsInOrder

=============================================================================
