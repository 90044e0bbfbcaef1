----------------------------- MODULE SchedOwners -----------------------------
(***************************************************************************)
(* The inductive invariant of the scheduler (module Sched) and the proof   *)
(* that every step keeps its part about owners: where structs and ids are, *)
(* who waits for which entry, and what each owner's reference is for.      *)
(***************************************************************************)
EXTENDS Sched, TLAPS

-----------------------------------------------------------------------------
(* Sequences without repetition                                            *)

Elems(q) == {q[i] : i \in DOMAIN q}
Distinct(q) == \A i, j \in DOMAIN q : i # j => q[i] # q[j]

\* What appending does to the elements of a sequence without repetitions (a release).
LEMMA AppendElems ==
    ASSUME NEW S, NEW q \in Seq(S), NEW x
    PROVE  /\ Elems(Append(q, x)) = Elems(q) \union {x}
           /\ Distinct(q) /\ x \notin Elems(q) => Distinct(Append(q, x))
<1>1. /\ Len(Append(q, x)) = Len(q) + 1 /\ DOMAIN Append(q, x) = 1 .. Len(q) + 1
      /\ DOMAIN q = 1 .. Len(q) /\ Len(q) \in Nat
  OBVIOUS
<1>2. \A i \in 1 .. Len(q) + 1 : Append(q, x)[i] = IF i <= Len(q) THEN q[i] ELSE x
  OBVIOUS
<1>3. Elems(Append(q, x)) \subseteq Elems(q) \union {x}
  BY DEF Elems
<1>4. \A e \in Elems(q) : e \in Elems(Append(q, x))
  <2> TAKE e \in Elems(q)
  <2>1. PICK i \in 1 .. Len(q) : e = q[i]
    BY DEF Elems
  <2> QED BY DEF Elems
<1>5. x \in Elems(Append(q, x))
  <2>1. Len(q) + 1 \in DOMAIN Append(q, x) /\ Append(q, x)[Len(q) + 1] = x
    BY <1>1
  <2> QED BY <2>1 DEF Elems
<1>6. ASSUME Distinct(q), x \notin Elems(q) PROVE Distinct(Append(q, x))
  <2>1. \A i \in 1 .. Len(q) : q[i] # x
    BY <1>6 DEF Elems
  <2> QED BY <1>6, <2>1 DEF Distinct
<1> QED BY <1>3, <1>4, <1>5, <1>6

\* The same for putting an element in front.
LEMMA ConsElems ==
    ASSUME NEW S, NEW q \in Seq(S), NEW x \in S
    PROVE  /\ <<x>> \o q \in Seq(S) /\ Len(<<x>> \o q) = Len(q) + 1
           /\ Elems(<<x>> \o q) = Elems(q) \union {x}
           /\ Distinct(q) /\ x \notin Elems(q) => Distinct(<<x>> \o q)
<1>1. /\ Len(<<x>> \o q) = Len(q) + 1 /\ DOMAIN (<<x>> \o q) = 1 .. Len(q) + 1
      /\ DOMAIN q = 1 .. Len(q) /\ Len(q) \in Nat /\ <<x>> \o q \in Seq(S)
  OBVIOUS
<1>2. \A i \in 1 .. Len(q) + 1 : (<<x>> \o q)[i] = IF i = 1 THEN x ELSE q[i - 1]
  OBVIOUS
<1>3. Elems(<<x>> \o q) \subseteq Elems(q) \union {x}
  BY <1>2 DEF Elems
<1>4. \A e \in Elems(q) : e \in Elems(<<x>> \o q)
  <2> TAKE e \in Elems(q)
  <2>1. PICK i \in 1 .. Len(q) : e = q[i]
    BY DEF Elems
  <2>2. i + 1 \in 1 .. Len(q) + 1 /\ (<<x>> \o q)[i + 1] = e
    BY <2>1
  <2> QED BY <2>2, <1>1, Zenon DEF Elems
<1>5. x \in Elems(<<x>> \o q)
  BY DEF Elems
<1>6. ASSUME Distinct(q), x \notin Elems(q) PROVE Distinct(<<x>> \o q)
  <2>1. \A i \in 1 .. Len(q) : q[i] # x
    BY <1>6 DEF Elems
  <2> QED BY <1>6, <2>1 DEF Distinct
<1> QED BY <1>3, <1>4, <1>5, <1>6

\* What taking the first element leaves.
LEMMA TailElems ==
    ASSUME NEW S, NEW q \in Seq(S), q # <<>>
    PROVE  /\ Head(q) \in S /\ Head(q) \in Elems(q)
           /\ Tail(q) \in Seq(S) /\ Len(Tail(q)) = Len(q) - 1
           /\ Distinct(q) => Distinct(Tail(q)) /\ Elems(Tail(q)) = Elems(q) \ {Head(q)}
<1>1. /\ Len(q) \in Nat \ {0} /\ DOMAIN q = 1 .. Len(q) /\ Head(q) = q[1] /\ q[1] \in S
      /\ Len(Tail(q)) = Len(q) - 1 /\ DOMAIN Tail(q) = 1 .. Len(q) - 1 /\ Tail(q) \in Seq(S)
  OBVIOUS
<1>2. \A i \in 1 .. Len(q) - 1 : Tail(q)[i] = q[i + 1]
  OBVIOUS
<1>3. Head(q) \in Elems(q)
  BY DEF Elems
<1>4. ASSUME Distinct(q) PROVE Distinct(Tail(q)) /\ Elems(Tail(q)) = Elems(q) \ {Head(q)}
  <2>1. \A i, j \in 1 .. Len(q) : i # j => q[i] # q[j]
    BY <1>4 DEF Distinct
  <2>2. Distinct(Tail(q))
    BY <1>1, <2>1 DEF Distinct
  <2>3. Elems(Tail(q)) \subseteq Elems(q) \ {Head(q)}
    BY <2>1 DEF Elems
  <2>4. \A e \in Elems(q) \ {Head(q)} : e \in Elems(Tail(q))
    <3> TAKE e \in Elems(q) \ {Head(q)}
    <3>1. PICK i \in 1 .. Len(q) : e = q[i] /\ i # 1
      BY DEF Elems
    <3>2. i - 1 \in 1 .. Len(q) - 1 /\ Tail(q)[i - 1] = e
      BY <3>1
    <3> QED BY <3>2, <1>1, Zenon DEF Elems
  <2> QED BY <2>2, <2>3, <2>4
<1> QED BY <1>3, <1>4

\* The ids that add_ids makes.
LEMMA NewIds ==
    ASSUME NEW m \in Nat, NEW n \in Nat \ {0}
    PROVE  LET q == [i \in 1 .. n |-> m + i] IN
           /\ q \in Seq(1 .. m + n) /\ q # <<>>
           /\ Distinct(q) /\ Elems(q) = (m + 1) .. (m + n)
<1> DEFINE q == [i \in 1 .. n |-> m + i]
<1>1. q \in Seq(1 .. m + n) /\ Len(q) = n /\ DOMAIN q = 1 .. n
  OBVIOUS
<1>2. q # <<>>
  BY <1>1
<1>3. Distinct(q)
  BY DEF Distinct
<1>4. \A e \in (m + 1) .. (m + n) : e \in Elems(q)
  <2> TAKE e \in (m + 1) .. (m + n)
  <2>1. e - m \in 1 .. n /\ q[e - m] = e
    OBVIOUS
  <2> QED BY DEF Elems
<1>5. Elems(q) \subseteq (m + 1) .. (m + n)
  BY DEF Elems
<1> QED BY <1>1, <1>3, <1>4, <1>5, Zenon

-----------------------------------------------------------------------------
(* The inductive invariant                                                 *)

\* An entry is executing while the thread is in a callback or back from it; times
\* are bounded from below; a deleter that has attempts left has not given up.
ThreadInv ==
    /\ executing # None <=> rpc \in {"callback", "returned"}
    /\ limit <= 1
    /\ \A s \in Structs : ent[s].when >= -MaxLate
    /\ \A o \in Owners : opc[o] # "gone" => del[o].count < MaxTries

\* The tie breakers order the entries h as the calls of schedule() were made.
Ordered(h, e, breaker, calls) ==
    /\ \A s \in h : e[s].tie <= breaker /\ e[s].seq < calls
    /\ \A s, u \in h : s # u =>
        \/ e[s].tie < e[u].tie /\ e[s].seq < e[u].seq
        \/ e[u].tie < e[s].tie /\ e[u].seq < e[s].seq

OrderInv == Ordered(heap, ent, tie_breaker, scheds)

\* An entry that is marked as deleted has its deleter waiting for it.
MarkInv ==
    /\ \A s \in heap : ~ent[s].deleted /\ ~ent[s].rescheduled
    /\ executing # None =>
        /\ ~ent[executing].rescheduled
        /\ ent[executing].deleted => \E o \in Owners : Waiting(o) /\ del[o].s = executing
    /\ \A o \in Owners : Waiting(o) =>
        /\ del[o].s \in Structs
        /\ ent[del[o].s].id = del[o].id /\ ent[del[o].s].data = o

\* The callback of s will still run, is running, or has asked to be run again.
Pending(s) == s \in heap \/ (s = executing /\ (rpc = "callback" \/ res # 0))

\* An owner has at most one pending entry, whose id it is about to store or has
\* in its field, and for which it holds one reference.
OwnInv ==
    /\ \A s \in Live : ent[s].data \in Owners
    /\ \A s, u \in Structs : Pending(s) /\ Pending(u) /\ ent[s].data = ent[u].data => s = u
    /\ \A s \in Structs : Pending(s) =>
        /\ refs[ent[s].data] = 1
        /\ IF opc[ent[s].data] = "added" THEN del[ent[s].data].id = ent[s].id
           ELSE field[ent[s].data] = ent[s].id
    /\ \A o \in Owners : opc[o] \in {"del", "wait"} => field[o] \in {del[o].id, -1}
    /\ \A o \in Owners : Waiting(o) => \A s \in Live : ent[s].data = o => s = del[o].s

\* The thread of o is being told, or has been told, that the entry it deleted
\* could not be cancelled; the reference of the callback is left behind.
Left(o) ==
    /\ field[o] # -1
    /\ \/ Waiting(o) /\ ent[del[o].s].rescheduled
       \/ opc[o] \in {"again", "del", "gone"} /\ \A s \in Live : ent[s].data # o

RefInv ==
    \A o \in Owners :
        /\ refs[o] \in {0, 1}
        /\ refs[o] = 1 => Left(o) \/ \E s \in Structs : Pending(s) /\ ent[s].data = o

OwnersInv == Conserved /\ MarkInv /\ OwnInv /\ RefInv

IInv == TypeOK /\ ThreadInv /\ OrderInv /\ NoOversleep /\ (~stale => OwnersInv)

-----------------------------------------------------------------------------
(* What the steps do                                                       *)

\* What BoundsAssumption says of the constants.
LEMMA Constants ==
    /\ IdIncrement \in Nat \ {0} /\ MaxTries \in Nat \ {0} /\ MaxCache \in Nat
    /\ MaxScheds \in Nat /\ MaxLate \in Nat /\ None \notin Structs /\ None \notin Int
BY BoundsAssumption

\* What the head of the loop of ast_sched_runq does.
Popped(h, e, lim, s) ==
    /\ heap' = h \ {s} /\ executing' = s /\ rpc' = "callback" /\ limit' = lim
    /\ e[s].when < lim
    /\ \A u \in h : ~Before(u, s, e)

NonePopped(h) == heap' = h /\ executing' = None /\ rpc' = "top" /\ limit' = 0

\* The loop goes on with the heap h.
Looped(h) == NonePopped(h) \/ \E u \in h : Popped(h, ent', limit, u)

\* The three ways in which runq_return leaves the entry it ran.
HandedOver ==
    /\ ent[executing].deleted
    /\ ent' = [ent EXCEPT ![executing].rescheduled = (res # 0)]
    /\ Looped(heap)
    /\ UNCHANGED <<schedc, unallocated, id_queue, id_queue_size, tie_breaker, scheds>>

ScheduledAgain ==
    /\ ~ent[executing].deleted /\ res # 0
    /\ \E w \in Int : w >= 0 /\ ent' = [ent EXCEPT ![executing].when = w, ![executing].tie = NextTie,
                                                   ![executing].seq = scheds]
    /\ tie_breaker' = NextTie /\ scheds' = scheds + 1
    /\ Looped(heap \union {executing})
    /\ UNCHANGED <<schedc, unallocated, id_queue, id_queue_size>>

Released ==
    /\ ~ent[executing].deleted /\ res = 0
    /\ sched_release(executing)
    /\ Looped(heap)
    /\ UNCHANGED <<tie_breaker, scheds>>

\* The queue that set_sched_id takes an id from.
LEMMA AddedIds ==
    ASSUME TypeOK, NEW n \in Nat, n = 0 <=> id_queue # <<>>
    PROVE  /\ add_ids(n) \in Seq(1 .. id_queue_size + n) /\ add_ids(n) # <<>>
           /\ Elems(add_ids(n)) = Elems(id_queue) \union ((id_queue_size + 1) .. (id_queue_size + n))
           /\ Distinct(id_queue) => Distinct(add_ids(n))
<1>1. id_queue_size \in Nat /\ id_queue \in Seq(1 .. id_queue_size)
  BY Zenon DEF TypeOK, Ids
<1>2. CASE id_queue # <<>>
  <2>1. n = 0 /\ add_ids(n) = id_queue
    BY <1>2 DEF add_ids
  <2>2. (id_queue_size + 1) .. (id_queue_size + n) = {} /\ id_queue_size + n = id_queue_size
    BY <1>1, <2>1
  <2> QED BY <1>1, <2>1
<1>3. CASE id_queue = <<>>
  <2>1. n \in Nat \ {0} /\ add_ids(n) = [i \in 1 .. n |-> id_queue_size + i]
    BY <1>3 DEF add_ids
  <2>2. Elems(id_queue) = {}
    BY <1>3 DEF Elems
  <2> QED BY <1>1, <2>1, <2>2, NewIds, Zenon
<1> QED BY <1>2, <1>3, Zenon

\* What an add takes: a struct and an id that nobody has.
LEMMA AddTakes ==
    ASSUME IInv, NEW o \in Owners, NEW s \in Structs, NEW n \in 0 .. IdIncrement, NEW t \in Timings,
           ast_sched_add(o, s, n, t[1], t[2])
    PROVE  /\ id_queue_size' = id_queue_size + n /\ id_queue_size' \in Nat
           /\ ent'[s].id \in 1 .. id_queue_size' /\ ent'[s].id = Head(add_ids(n))
           /\ id_queue' \in Seq(1 .. id_queue_size') /\ id_queue' = Tail(add_ids(n))
           /\ del' = [del EXCEPT ![o].id = ent'[s].id]
           /\ schedc' \in Seq(Structs) /\ Len(schedc') <= MaxCache /\ unallocated' \subseteq Structs
           /\ \E e : /\ ent' = [ent EXCEPT ![s] = e] /\ e \in Entry' /\ e.when >= 0 /\ e.data = o
                     /\ e.tie = NextTie /\ e.seq = scheds /\ ~e.deleted /\ ~e.rescheduled
<1>t. TypeOK
  BY DEF IInv
<1>1. n \in Nat /\ (n = 0 <=> id_queue # <<>>) /\ sched_alloc(s)
  BY DEF ast_sched_add
<1>2. id_queue_size \in Nat /\ id_queue_size' = id_queue_size + n
  BY <1>t, Zenon DEF ast_sched_add, TypeOK
<1>3. add_ids(n) \in Seq(1 .. id_queue_size') /\ add_ids(n) # <<>>
  BY <1>t, <1>1, <1>2, AddedIds, Zenon
<1>4. Head(add_ids(n)) \in 1 .. id_queue_size' /\ Tail(add_ids(n)) \in Seq(1 .. id_queue_size')
  BY <1>3, TailElems, Zenon
<1>5. id_queue' = Tail(add_ids(n)) /\ del' = [del EXCEPT ![o].id = Head(add_ids(n))]
  BY Zenon DEF ast_sched_add
<1> DEFINE e == [id |-> Head(add_ids(n)), data |-> o, when |-> sched_settime(0, t[1]), tie |-> NextTie,
                 resched |-> t[1], variable |-> t[2], seq |-> scheds, deleted |-> FALSE, rescheduled |-> FALSE]
<1>6. ent' = [ent EXCEPT ![s] = e]
  BY Zenon DEF ast_sched_add
<1>7. NextTie \in Nat /\ sched_settime(0, t[1]) \in Nat /\ scheds \in Nat /\ t[1] \in Nat /\ t[2] \in BOOLEAN
  BY <1>t, BoundsAssumption DEF NextTie, sched_settime, TypeOK
<1>8. e \in Entry' /\ e.when >= 0
  BY <1>4, <1>7 DEF Entry, Ids
<1>9. schedc' \in Seq(Structs) /\ Len(schedc') <= MaxCache /\ unallocated' \subseteq Structs
  <2>1. CASE schedc # <<>>
    <3>1. schedc' = Tail(schedc) /\ unallocated' = unallocated
      BY <1>1, <2>1, Zenon DEF sched_alloc
    <3> QED BY Constants, <1>t, <2>1, <3>1 DEF TypeOK
  <2>2. CASE schedc = <<>>
    BY <1>1, <1>t, <2>2, Zenon DEF sched_alloc, TypeOK
  <2> QED BY <2>1, <2>2
<1>10. ent'[s] = e
  BY <1>t, <1>6, Zenon DEF TypeOK
<1>11. e.id = Head(add_ids(n)) /\ e.data = o /\ e.tie = NextTie /\ e.seq = scheds /\ ~e.deleted /\ ~e.rescheduled
  OBVIOUS
<1> HIDE DEF e
<1>12. \E x : /\ ent' = [ent EXCEPT ![s] = x] /\ x \in Entry' /\ x.when >= 0 /\ x.data = o
              /\ x.tie = NextTie /\ x.seq = scheds /\ ~x.deleted /\ ~x.rescheduled
  BY <1>6, <1>8, <1>11, Zenon
<1>13. id_queue_size' \in Nat
  BY <1>2
<1> QED BY <1>2, <1>4, <1>5, <1>9, <1>10, <1>11, <1>12, <1>13, Zenon

-----------------------------------------------------------------------------
(* Where structs and ids are                                               *)

\* The structs in use, the cache and the allocator share out the structs; the
\* queue and the structs in use share out the ids 1 .. m.
Shares(live, e, q, m, cache, un) ==
    /\ Distinct(q) /\ Distinct(cache)
    /\ \A s, u \in live : s # u => e[s].id # e[u].id
    /\ \A s \in live : e[s].id \in 1 .. m /\ e[s].id \notin Elems(q)
    /\ Elems(q) \subseteq 1 .. m
    /\ \A i \in 1 .. m : i \in Elems(q) \/ \E s \in live : e[s].id = i
    /\ live \intersect Elems(cache) = {}
    /\ un \intersect (live \union Elems(cache)) = {}
    /\ Structs = live \union Elems(cache) \union un

Shared == Shares(Live, ent, id_queue, id_queue_size, schedc, unallocated)

\* A struct in a waiting deleter's hands is in no other's, and marked.
Hands ==
    /\ executing \notin heap
    /\ \A o \in Owners : Waiting(o) =>
        /\ del[o].s \notin heap /\ ent[del[o].s].deleted
        /\ \A q \in Owners : q # o /\ Waiting(q) => del[q].s # del[o].s

\* Conserved, in terms of the sets that share out the structs and the ids.
LEMMA ConservedParts ==
    ~stale => (Conserved <=> Shared /\ Hands)
<1> SUFFICES ASSUME ~stale PROVE Conserved <=> Shared /\ Hands
  OBVIOUS
<1>1. ASSUME Conserved PROVE Shared /\ Hands
  <2>1. Hands
    BY <1>1, Zenon DEF Conserved, StructsConserved, Hands
  <2>2. /\ Distinct(schedc) /\ Live \intersect Elems(schedc) = {}
        /\ unallocated \intersect (Live \union Elems(schedc)) = {}
        /\ Structs = Live \union Elems(schedc) \union unallocated
    BY <1>1, Zenon DEF Conserved, StructsConserved, Distinct, Elems
  <2>3. /\ Distinct(id_queue) /\ \A s, u \in Live : s # u => ent[s].id # ent[u].id
        /\ Elems(id_queue) \intersect {ent[s].id : s \in Live} = {}
        /\ Ids = Elems(id_queue) \union {ent[s].id : s \in Live}
    BY <1>1, Zenon DEF Conserved, IdsConserved, Distinct, Elems
  <2>4. Shared
    BY <2>2, <2>3 DEF Shared, Shares, Ids
  <2> QED BY <2>1, <2>4
<1>2. ASSUME Shared, Hands PROVE Conserved
  <2>1. StructsConserved
    BY <1>2, Zenon DEF Shared, Shares, Hands, StructsConserved, Distinct, Elems
  <2>2. /\ Distinct(id_queue) /\ \A s, u \in Live : s # u => ent[s].id # ent[u].id
        /\ Elems(id_queue) \intersect {ent[s].id : s \in Live} = {}
        /\ Ids = Elems(id_queue) \union {ent[s].id : s \in Live}
    BY <1>2 DEF Shared, Shares, Ids
  <2>3. IdsConserved
    BY <2>2, Zenon DEF IdsConserved, Distinct, Elems
  <2> QED BY <2>1, <2>3 DEF Conserved
<1> QED BY <1>1, <1>2

\* Structs in use keep their ids.
LEMMA SharesKept ==
    ASSUME NEW live, NEW e, NEW f, NEW q, NEW m, NEW cache, NEW un,
           Shares(live, e, q, m, cache, un), \A s \in live : f[s].id = e[s].id
    PROVE  Shares(live, f, q, m, cache, un)
BY DEF Shares

\* A struct that is not in use is taken, with the first of the ids.
LEMMA SharesTake ==
    ASSUME NEW live, NEW e, NEW f, NEW q, NEW m \in Nat, NEW n \in Nat, NEW cache, NEW un,
           Shares(live, e, q, m, cache, un),
           NEW ids \in Seq(1 .. m + n), ids # <<>>, Distinct(ids), Elems(ids) = Elems(q) \union ((m + 1) .. (m + n)),
           NEW s \in Structs, s \notin live, f[s].id = Head(ids), \A u \in live : f[u].id = e[u].id,
           NEW cache2, NEW un2, Distinct(cache2),
           Elems(cache2) \intersect un2 = {}, Elems(cache2) \union un2 = (Elems(cache) \union un) \ {s}
    PROVE  Shares(live \union {s}, f, Tail(ids), m + n, cache2, un2)
<1>1. /\ Distinct(Tail(ids)) /\ Elems(Tail(ids)) = Elems(ids) \ {Head(ids)}
      /\ Head(ids) \in 1 .. m + n /\ Head(ids) \in Elems(ids)
  BY TailElems
<1>2. 1 .. m + n = (1 .. m) \union ((m + 1) .. (m + n)) /\ (1 .. m) \intersect ((m + 1) .. (m + n)) = {}
  OBVIOUS
<1>3. \A u \in live : f[u].id \in 1 .. m /\ f[u].id \notin Elems(ids)
  BY <1>2, Zenon DEF Shares
<1>4. \A u, v \in live \union {s} : u # v => f[u].id # f[v].id
  BY <1>1, <1>3 DEF Shares
<1>5. \A u \in live \union {s} : f[u].id \in 1 .. m + n /\ f[u].id \notin Elems(Tail(ids))
  BY <1>1, <1>2, <1>3
<1>6. Elems(Tail(ids)) \subseteq 1 .. m + n
  BY <1>1, <1>2, Zenon DEF Shares
<1>7. \A i \in 1 .. m + n : i \in Elems(Tail(ids)) \/ \E u \in live \union {s} : f[u].id = i
  BY <1>1, <1>2, Zenon DEF Shares
<1>8. /\ (live \union {s}) \intersect Elems(cache2) = {}
      /\ un2 \intersect ((live \union {s}) \union Elems(cache2)) = {}
      /\ Structs = (live \union {s}) \union Elems(cache2) \union un2
  BY DEF Shares
<1> QED BY <1>1, <1>4, <1>5, <1>6, <1>7, <1>8, Zenon DEF Shares

\* A struct in use is released: its id joins the queue, and it the cache or the
\* allocator.
LEMMA SharesRelease ==
    ASSUME NEW live, NEW e, NEW f, NEW S, NEW q \in Seq(S), NEW m \in Nat, NEW cache, NEW un,
           Shares(live, e, q, m, cache, un),
           NEW s \in live, \A u \in live \ {s} : f[u].id = e[u].id,
           NEW cache2, NEW un2, Distinct(cache2),
           Elems(cache2) \intersect un2 = {}, Elems(cache2) \union un2 = (Elems(cache) \union un) \union {s}
    PROVE  Shares(live \ {s}, f, Append(q, e[s].id), m, cache2, un2)
<1>0. e[s].id \in 1 .. m /\ e[s].id \notin Elems(q) /\ Distinct(q)
  BY Zenon DEF Shares
<1>1. Distinct(Append(q, e[s].id)) /\ Elems(Append(q, e[s].id)) = Elems(q) \union {e[s].id}
  BY <1>0, AppendElems
<1>2. \A u, v \in live \ {s} : u # v => f[u].id # f[v].id
  BY DEF Shares
<1>3. \A u \in live \ {s} : f[u].id \in 1 .. m /\ f[u].id \notin Elems(q) \union {e[s].id}
  BY DEF Shares
<1>4. Elems(q) \union {e[s].id} \subseteq 1 .. m
  BY <1>0, Zenon DEF Shares
<1>5. \A i \in 1 .. m : i \in Elems(q) \union {e[s].id} \/ \E u \in live \ {s} : f[u].id = i
  BY DEF Shares
<1>6. /\ (live \ {s}) \intersect Elems(cache2) = {}
      /\ un2 \intersect ((live \ {s}) \union Elems(cache2)) = {}
      /\ Structs = (live \ {s}) \union Elems(cache2) \union un2
  BY DEF Shares
<1> QED BY <1>1, <1>2, <1>3, <1>4, <1>5, <1>6, Zenon DEF Shares

-----------------------------------------------------------------------------
(* Frames                                                                  *)

Parted == Shared /\ Hands /\ MarkInv /\ OwnInv /\ RefInv

\* While no id is stale the invariant is the conjunction of its parts.
LEMMA OwnersParts == ~stale => (OwnersInv <=> Parted)
BY ConservedParts DEF OwnersInv, Parted

\* The same of the next state.
LEMMA OwnersPartsNext == ~stale' => (OwnersInv' <=> Parted')
BY OwnersParts, PTL

\* What the parts say, one fact at a time.  An entry in the heap is not marked.
LEMMA Unmarked == Parted => \A s \in heap : ~ent[s].deleted /\ ~ent[s].rescheduled
BY Zenon DEF Parted, MarkInv

\* An executing entry is marked deleted only for somebody who waits for it.
LEMMA RunningMarked ==
    Parted /\ executing # None =>
        /\ ~ent[executing].rescheduled
        /\ ent[executing].deleted => \E o \in Owners : Waiting(o) /\ del[o].s = executing
BY Zenon DEF Parted, MarkInv

\* A deleter waits for the entry that it looked up, which is its own.
LEMMA WaitedFor ==
    Parted => \A o \in Owners : Waiting(o) =>
                /\ del[o].s \in Structs
                /\ ent[del[o].s].id = del[o].id /\ ent[del[o].s].data = o
BY Zenon DEF Parted, MarkInv

\* That entry is out of the heap, marked, and waited for by nobody else.
LEMMA WaitedAlone ==
    Parted => \A o \in Owners : Waiting(o) =>
                /\ del[o].s \notin heap /\ ent[del[o].s].deleted
                /\ \A q \in Owners : q # o /\ Waiting(q) => del[q].s # del[o].s
BY Zenon DEF Parted, Hands

\* Every live entry belongs to an owner.
LEMMA Owned == Parted => \A s \in Live : ent[s].data \in Owners
BY Zenon DEF Parted, OwnInv

\* An owner has at most one entry that is still to run.
LEMMA PendingOnce ==
    Parted => \A s, u \in Structs : Pending(s) /\ Pending(u) /\ ent[s].data = ent[u].data => s = u
BY Zenon DEF Parted, OwnInv

\* Whoever has one has a reference and knows its id.
LEMMA PendingKnown ==
    Parted => \A s \in Structs : Pending(s) =>
                /\ refs[ent[s].data] = 1
                /\ IF opc[ent[s].data] = "added" THEN del[ent[s].data].id = ent[s].id
                   ELSE field[ent[s].data] = ent[s].id
BY Zenon DEF Parted, OwnInv

\* While an owner deletes, its field holds the id being deleted or nothing.
LEMMA FieldDeleted ==
    Parted => \A o \in Owners : opc[o] \in {"del", "wait"} => field[o] \in {del[o].id, -1}
BY Zenon DEF Parted, OwnInv

\* A deleter that waits has no entry besides the one it waits for.
LEMMA WaitsForLast ==
    Parted => \A o \in Owners : Waiting(o) => \A s \in Live : ent[s].data = o => s = del[o].s
BY Zenon DEF Parted, OwnInv

\* The structs in the hands of waiting deleters.
Held == {s \in Structs : \E o \in Owners : Waiting(o) /\ del[o].s = s}

\* The structs in use: in the heap, running, or held by a waiting deleter.
LEMMA LiveParts ==
    /\ Live = heap \union {s \in Structs : s = executing} \union Held
    /\ Live' = heap' \union {s \in Structs : s = executing'} \union Held'
BY Zenon DEF Live, Held

\* What a step leaves of a struct but its time, and of the owners but o.
Same(s) == /\ ent'[s].id = ent[s].id /\ ent'[s].data = ent[s].data
           /\ ent'[s].deleted = ent[s].deleted /\ ent'[s].rescheduled = ent[s].rescheduled

OthersKept(o) ==
    \A q \in Owners \ {o} : /\ opc'[q] = opc[q] /\ del'[q] = del[q]
                            /\ field'[q] = field[q] /\ refs'[q] = refs[q]

\* A step that no deleter takes part in keeps the structs they hold.
LEMMA HeldKept ==
    ASSUME UNCHANGED <<opc, del>> \/ \E o \in Owners : OthersKept(o) /\ ~Waiting(o) /\ ~Waiting(o)'
    PROVE  Held' = Held
BY DEF Held, Waiting, OthersKept

\* A step that moves entries only among the structs in use keeps the sharing.
LEMMA SharedKept ==
    ASSUME Shared, Live' = Live, \A s \in Live : ent'[s].id = ent[s].id,
           UNCHANGED <<id_queue, id_queue_size, schedc, unallocated>>
    PROVE  Shared'
<1>1. Shares(Live, ent', id_queue, id_queue_size, schedc, unallocated)
  BY SharesKept, Zenon DEF Shared
<1> QED BY <1>1, Zenon DEF Shared

\* sched_release moves the struct and its id.
LEMMA SharedRelease ==
    ASSUME TypeOK, Shared, NEW s \in Structs, s \in Live, sched_release(s), Live' = Live \ {s}
    PROVE  Shared' /\ ent' = [ent EXCEPT ![s] = NoEntry] /\ \A u \in Structs \ {s} : ent'[u] = ent[u]
<1>1. /\ id_queue \in Seq(Ids) /\ id_queue_size \in Nat /\ schedc \in Seq(Structs)
      /\ Live \subseteq Structs /\ ent = [u \in Structs |-> ent[u]]
  BY Zenon DEF TypeOK, Live
<1>2. ent' = [ent EXCEPT ![s] = NoEntry] /\ \A u \in Structs \ {s} : ent'[u] = ent[u]
  BY <1>1, Zenon DEF sched_release
<1>3. id_queue' = Append(id_queue, ent[s].id) /\ id_queue_size' = id_queue_size
  BY DEF sched_release, Shared, Shares
<1>4. s \notin Elems(schedc) /\ s \notin unallocated /\ Distinct(schedc) /\ Elems(schedc) \intersect unallocated = {}
  BY Zenon DEF Shared, Shares
<1>5. /\ Distinct(schedc') /\ Elems(schedc') \intersect unallocated' = {}
      /\ Elems(schedc') \union unallocated' = (Elems(schedc) \union unallocated) \union {s}
  <2>1. CASE schedc' = <<s>> \o schedc /\ unallocated' = unallocated
    <3>1. Elems(schedc') = Elems(schedc) \union {s} /\ Distinct(schedc')
      BY <1>1, <1>4, <2>1, ConsElems
    <3> QED BY <1>4, <2>1, <3>1, Zenon
  <2>2. CASE schedc' = schedc /\ unallocated' = unallocated \union {s}
    BY <1>4, <2>2, Zenon
  <2> QED BY <2>1, <2>2, Zenon DEF sched_release
<1>6. Shares(Live \ {s}, ent', id_queue', id_queue_size, schedc', unallocated')
  <2>1. \A u \in Live \ {s} : ent'[u].id = ent[u].id
    BY <1>2
  <2> QED BY <1>1, <1>3, <1>5, <2>1, SharesRelease, Zenon DEF Shared
<1> QED BY <1>2, <1>3, <1>6, Zenon DEF Shared

\* A step that leaves the entries in use, those pending and the owners.
LEMMA OwnKept ==
    ASSUME OwnInv, RefInv, Live' = Live, UNCHANGED <<opc, del, field, refs>>,
           \A s \in Structs : Same(s) /\ (Pending(s)' <=> Pending(s)), Live \subseteq Structs,
           \A o \in Owners : Waiting(o) => del[o].s \in Structs
    PROVE  OwnInv' /\ RefInv'
<1>1. OwnInv'
  BY DEF OwnInv, Same, Waiting
<1>2. \A o \in Owners : Left(o) => Left(o)'
  BY Zenon DEF Left, Same, Waiting
<1>3. RefInv'
  <2> SUFFICES ASSUME NEW o \in Owners
               PROVE  refs'[o] \in {0, 1} /\ (refs'[o] = 1 => Left(o)' \/ \E s \in Structs : Pending(s)' /\ ent'[s].data = o)
    BY Zenon DEF RefInv
  <2> QED BY <1>2 DEF RefInv, Same
<1> QED BY <1>1, <1>3

-----------------------------------------------------------------------------
(* The steps of the scheduler's thread                                     *)

\* A step that changes nothing of this but times.
LEMMA QuietStep ==
    ASSUME TypeOK, Parted, UNCHANGED <<heap, executing, opc, del, field, refs>>,
           UNCHANGED <<id_queue, id_queue_size, schedc, unallocated>>,
           \A s \in Structs : Same(s) /\ (Pending(s)' <=> Pending(s))
    PROVE  Parted'
<1>1. Live' = Live /\ Live \subseteq Structs /\ executing \in Structs \union {None} /\ heap \subseteq Structs
  BY Zenon DEF Live, Waiting, TypeOK
<1>2. \A o \in Owners : Waiting(o) => del[o].s \in Structs
  BY Zenon DEF Parted, MarkInv
<1>3. OwnInv' /\ RefInv'
  BY <1>1, <1>2, OwnKept, Zenon DEF Parted
<1>4. Shared'
  BY <1>1, SharedKept, Zenon DEF Parted, Same
<1>5. Hands'
  BY <1>2, Zenon DEF Parted, Hands, Same, Waiting
<1>6. MarkInv'
  BY Unmarked, RunningMarked, WaitedFor, <1>1, Zenon DEF MarkInv, Same, Waiting
<1> QED BY <1>3, <1>4, <1>5, <1>6, Zenon DEF Parted

\* The loop of ast_sched_runq goes on with the heap h.
Goes(h) ==
    \/ NonePopped(h)
    \/ \E u \in h : heap' = h \ {u} /\ executing' = u /\ rpc' = "callback"

\* The head of the loop moves an entry from the heap to the callback, at most.
LEMMA LoopLive ==
    ASSUME NEW h \in SUBSET Structs, Goes(h)
    PROVE  /\ heap' \union {s \in Structs : s = executing'} = h
           /\ heap' \subseteq h /\ executing' \notin heap' /\ executing' \in h \union {None}
           /\ \A s \in Structs : Pending(s)' <=> s \in h
<1>1. CASE NonePopped(h)
  BY Constants, <1>1 DEF NonePopped, Pending
<1>2. ASSUME NEW u \in h, heap' = h \ {u}, executing' = u, rpc' = "callback"
      PROVE  /\ heap' \union {s \in Structs : s = executing'} = h
             /\ heap' \subseteq h /\ executing' \notin heap' /\ executing' \in h \union {None}
             /\ \A s \in Structs : Pending(s)' <=> s \in h
  BY <1>2 DEF Pending
<1> QED BY <1>1, <1>2, Zenon DEF Goes

\* It keeps the marks where they belong.
LEMMA MarkLoop ==
    ASSUME NEW h \in SUBSET Structs, Goes(h), UNCHANGED <<opc, del>>, Hands, MarkInv,
           \A s \in h : ~ent'[s].deleted /\ ~ent'[s].rescheduled,
           \A o \in Owners : Waiting(o) => /\ del[o].s \notin h /\ ent'[del[o].s].deleted
                                           /\ ent'[del[o].s].id = del[o].id /\ ent'[del[o].s].data = o
    PROVE  MarkInv' /\ Hands'
<1>1. heap' \subseteq h /\ executing' \notin heap' /\ executing' \in h \union {None}
  BY LoopLive, Zenon
<1>2. MarkInv'
  BY <1>1, Zenon DEF MarkInv, Waiting
<1>3. Hands'
  BY <1>1 DEF Hands, Waiting
<1> QED BY <1>2, <1>3, Zenon

\* A step that adds no entry and leaves the owners alone keeps what they know.
LEMMA OwnLess ==
    ASSUME Parted, UNCHANGED <<opc, del, field, refs>>, Live' \subseteq Live,
           \A s \in Live' : ent'[s].data = ent[s].data,
           \A s \in Structs : Pending(s)' => /\ Pending(s)
                                            /\ ent'[s].data = ent[s].data /\ ent'[s].id = ent[s].id
    PROVE  OwnInv'
<1>1. \A s \in Live' : ent'[s].data \in Owners
  BY Owned, Zenon
<1>2. \A s, u \in Structs : Pending(s)' /\ Pending(u)' /\ ent'[s].data = ent'[u].data => s = u
  BY PendingOnce, Zenon
<1>3. \A s \in Structs : Pending(s)' =>
        /\ refs'[ent'[s].data] = 1
        /\ IF opc'[ent'[s].data] = "added" THEN del'[ent'[s].data].id = ent'[s].id
           ELSE field'[ent'[s].data] = ent'[s].id
  BY PendingKnown, Zenon
<1>4. \A o \in Owners : opc'[o] \in {"del", "wait"} => field'[o] \in {del'[o].id, -1}
  BY FieldDeleted, Zenon
<1>5. \A o \in Owners : Waiting(o)' => \A s \in Live' : ent'[s].data = o => s = del'[o].s
  BY WaitsForLast, Zenon DEF Waiting
<1> QED BY <1>1, <1>2, <1>3, <1>4, <1>5, Zenon DEF OwnInv

\* The head of the loop of ast_sched_runq.
LEMMA OwnersRunq ==
    ASSUME TypeOK, ThreadInv, Parted, ast_sched_runq, Goes(heap)
    PROVE  Parted'
<1>1. /\ executing = None /\ heap \in SUBSET Structs /\ ent' = ent /\ UNCHANGED <<opc, del, field, refs>>
      /\ UNCHANGED <<id_queue, id_queue_size, schedc, unallocated>>
  BY Zenon DEF ast_sched_runq, ThreadInv, TypeOK, owner
<1>2. Live' = Live /\ Live \subseteq Structs
  <2>1. heap' \union {s \in Structs : s = executing'} = heap /\ Held' = Held /\ {s \in Structs : s = executing} = {}
    BY Constants, <1>1, LoopLive, HeldKept
  <2> QED BY <1>1, <2>1, LiveParts, Zenon DEF Held
<1>3. \A s \in Structs : Same(s) /\ (Pending(s)' <=> Pending(s))
  <2>1. \A s \in Structs : Pending(s) <=> s \in heap
    BY Constants, <1>1, Zenon DEF Pending
  <2> QED BY <1>1, <2>1, LoopLive, Zenon DEF Same
<1>4. OwnInv' /\ RefInv'
  BY <1>1, <1>2, <1>3, OwnKept, Zenon DEF Parted, MarkInv
<1>5. Shared'
  BY <1>1, <1>2, SharedKept, Zenon DEF Parted
<1>6. MarkInv' /\ Hands'
  BY <1>1, MarkLoop, Zenon DEF Parted, MarkInv, Hands
<1> QED BY <1>4, <1>5, <1>6 DEF Parted

\* The entry that runs is in use, and in no heap.
LEMMA Running ==
    ASSUME TypeOK, ThreadInv, Parted, rpc \in {"callback", "returned"}
    PROVE  /\ executing \in Structs /\ executing \notin heap /\ executing \in Live
           /\ ent[executing].data \in Owners /\ Live \subseteq Structs
<1>1. executing \in Structs /\ Live \subseteq Structs
  BY Zenon DEF TypeOK, ThreadInv, Live
<1>2. executing \in Live
  BY <1>1 DEF Live
<1> QED BY <1>1, <1>2, Zenon DEF Parted, Hands, OwnInv

\* The callback, which drops its reference unless it asks to be run again.
LEMMA OwnersCallback ==
    ASSUME TypeOK, ThreadInv, Parted, NEW again \in BOOLEAN, NEW clears \in BOOLEAN, callback(again, clears)
    PROVE  Parted'
<1>1. /\ rpc = "callback" /\ rpc' = "returned" /\ res' = IF again THEN 1 ELSE 0
      /\ UNCHANGED <<heap, executing, opc, del, ent, id_queue, id_queue_size, schedc, unallocated>>
  BY Zenon DEF callback, entries
<1>2. /\ executing \in Structs /\ executing \notin heap /\ executing \in Live
      /\ ent[executing].data \in Owners /\ Live \subseteq Structs
  BY <1>1, Running, Zenon
<1>3. CASE again
  <2>1. UNCHANGED <<refs, field>>
    BY <1>3, Zenon DEF callback
  <2>2. \A s \in Structs : Same(s) /\ (Pending(s)' <=> Pending(s))
    BY <1>1, <1>3 DEF Same, Pending
  <2> QED BY <1>1, <2>1, <2>2, QuietStep, Zenon
<1>4. CASE ~again
  <2> DEFINE o == ent[executing].data
  <2>1. /\ refs' = [refs EXCEPT ![o] = @ - 1]
        /\ field' = field \/ field' = [field EXCEPT ![o] = -1]
    BY <1>4, Zenon DEF callback
  <2> HIDE DEF o
  <2>2. o \in Owners /\ o = ent[executing].data
    BY <1>2 DEF o
  <2>3. Live' = Live
    BY <1>1, Zenon DEF Live, Waiting
  <2>4. Shared' /\ Hands' /\ MarkInv'
    <3>1. Shared'
      BY <1>1, <2>3, SharedKept, Zenon DEF Parted
    <3> QED BY Unmarked, RunningMarked, WaitedAlone, <1>1, <3>1, Zenon DEF Parted, Hands, MarkInv, Waiting
  <2>5. Pending(executing) /\ \A s \in Structs : Pending(s)' <=> Pending(s) /\ s # executing
    BY <1>1, <1>2, <1>4, Zenon DEF Pending
  <2>6. refs[o] = 1 /\ \A s \in Structs : Pending(s)' => ent[s].data # o
    BY <1>2, <2>2, <2>5, Zenon DEF Parted, OwnInv
  <2>7. refs'[o] = 0 /\ \A q \in Owners \ {o} : refs'[q] = refs[q] /\ field'[q] = field[q]
    BY <2>1, <2>2, <2>6 DEF TypeOK
  <2>8. field'[o] = field[o] \/ field'[o] = -1
    BY <2>1, <2>2, Zenon DEF TypeOK
  <2>9. OwnInv'
    <3>1. /\ \A s \in Live : ent'[s].data \in Owners
          /\ \A s, u \in Structs : Pending(s)' /\ Pending(u)' /\ ent'[s].data = ent'[u].data => s = u
      BY <1>1, <2>5, Zenon DEF Parted, OwnInv
    <3>2. \A s \in Structs : Pending(s)' =>
            /\ refs'[ent'[s].data] = 1
            /\ IF opc'[ent'[s].data] = "added" THEN del'[ent'[s].data].id = ent'[s].id
               ELSE field'[ent'[s].data] = ent'[s].id
      <4> SUFFICES ASSUME NEW s \in Structs, Pending(s)'
                   PROVE  /\ refs'[ent[s].data] = 1
                          /\ IF opc[ent[s].data] = "added" THEN del[ent[s].data].id = ent[s].id
                             ELSE field'[ent[s].data] = ent[s].id
        BY <1>1, Zenon
      <4>1. ent[s].data \in Owners \ {o}
        <5>1. s \in Live
          BY <2>5, Zenon DEF Pending, Live
        <5> QED BY <5>1, <2>6, Zenon DEF Parted, OwnInv
      <4> QED BY <2>5, <2>7, <4>1, Zenon DEF Parted, OwnInv
    <3>3. \A q \in Owners : opc'[q] \in {"del", "wait"} => field'[q] \in {del'[q].id, -1}
      BY <1>1, <2>7, <2>8, Zenon DEF Parted, OwnInv
    <3>4. \A q \in Owners : Waiting(q)' => \A s \in Live' : ent'[s].data = q => s = del'[q].s
      BY <1>1, <2>3, Zenon DEF Parted, OwnInv, Waiting
    <3> QED BY <2>3, <3>1, <3>2, <3>3, <3>4, Zenon DEF OwnInv
  <2>10. RefInv'
    <3> SUFFICES ASSUME NEW q \in Owners
                 PROVE  refs'[q] \in {0, 1} /\ (refs'[q] = 1 => Left(q)' \/ \E s \in Structs : Pending(s)' /\ ent'[s].data = q)
      BY Zenon DEF RefInv
    <3>1. CASE q = o
      BY <2>7, <3>1
    <3>2. CASE q # o
      <4>1. refs'[q] = refs[q] /\ field'[q] = field[q]
        BY <2>7, <3>2, Zenon
      <4>2. Left(q) => Left(q)'
        BY <1>1, <2>3, <4>1, Zenon DEF Left, Waiting
      <4>3. \A s \in Structs : Pending(s) /\ ent[s].data = q => Pending(s)' /\ ent'[s].data = q
        BY <1>1, <2>2, <2>5, <3>2, Zenon
      <4> QED BY <4>1, <4>2, <4>3, Zenon DEF Parted, RefInv
    <3> QED BY <3>1, <3>2, Zenon
  <2> QED BY <2>4, <2>9, <2>10 DEF Parted
<1> QED BY <1>3, <1>4

\* The lock is held again after a callback.
LEMMA OwnersReturn ==
    ASSUME TypeOK, ThreadInv, Parted, rpc = "returned", UNCHANGED <<opc, del, field, refs>>,
           HandedOver \/ ScheduledAgain \/ Released
    PROVE  Parted'
<1>1. /\ executing \in Structs /\ executing \notin heap /\ executing \in Live
      /\ ent[executing].data \in Owners /\ Live \subseteq Structs /\ heap \in SUBSET Structs
  BY Running, Zenon DEF TypeOK
<1>2. Held' = Held /\ \A h : Looped(h) => Goes(h)
  BY HeldKept, Zenon DEF Looped, Goes, Popped
<1>3. ent \in [Structs -> Entry] /\ ent[executing] \in Entry
  BY <1>1, Zenon DEF TypeOK
<1>4. \A s \in Structs : Pending(s) <=> s \in heap \/ (s = executing /\ res # 0)
  BY DEF Pending
<1>5. \A o \in Owners : Waiting(o) => del[o].s \in Structs /\ del[o].s \notin heap /\ ent[del[o].s].deleted
  BY Zenon DEF Parted, Hands, MarkInv
<1>6. CASE HandedOver
  <2>1. /\ Goes(heap) /\ ent[executing].deleted
        /\ UNCHANGED <<id_queue, id_queue_size, schedc, unallocated>>
    BY <1>2, <1>6, Zenon DEF HandedOver
  <2>2. /\ \A s \in Structs \ {executing} : ent'[s] = ent[s]
        /\ ent'[executing] = [ent[executing] EXCEPT !.rescheduled = (res # 0)]
    BY <1>1, <1>3, <1>6, Zenon DEF HandedOver
  <2>3. /\ \A s \in Structs \ {executing} : Same(s)
        /\ \A s \in Structs : ent'[s].id = ent[s].id /\ ent'[s].data = ent[s].data /\ ent'[s].deleted = ent[s].deleted
        /\ ent'[executing].rescheduled = (res # 0)
    BY <1>3, <2>2 DEF Same, Entry
  <2>4. PICK w \in Owners : Waiting(w) /\ del[w].s = executing
    BY Constants, <1>1, <2>1, Zenon DEF Parted, MarkInv
  <2>5. Live' = Live
    <3>1. executing \in Held
      BY <1>1, <2>4, Zenon DEF Held
    <3> QED BY <1>1, <1>2, <2>1, <3>1, LiveParts, LoopLive
  <2>6. \A s \in Structs : Pending(s)' <=> s \in heap
    BY <1>1, <2>1, LoopLive, Zenon
  <2>7. Shared'
    BY <1>1, <2>1, <2>3, <2>5, SharedKept, Zenon DEF Parted
  <2>8. MarkInv' /\ Hands'
    <3>1. \A s \in heap : ~ent'[s].deleted /\ ~ent'[s].rescheduled
      BY <1>1, <2>3, Zenon DEF Parted, MarkInv, Same
    <3>2. \A o \in Owners : Waiting(o) => /\ del[o].s \notin heap /\ ent'[del[o].s].deleted
                                          /\ ent'[del[o].s].id = del[o].id /\ ent'[del[o].s].data = o
      <4>1. \A o \in Owners : Waiting(o) => /\ del[o].s \in Structs \ heap /\ ent[del[o].s].deleted
                                            /\ ent[del[o].s].id = del[o].id /\ ent[del[o].s].data = o
        BY WaitedFor, WaitedAlone, Zenon
      <4> QED BY <2>3, <4>1, Zenon
    <3> QED BY <1>1, <2>1, <3>1, <3>2, MarkLoop, Zenon DEF Parted
  <2>9. OwnInv'
    <3>1. \A s \in Structs : Pending(s)' => /\ Pending(s)
                                           /\ ent'[s].data = ent[s].data /\ ent'[s].id = ent[s].id
      BY <2>3, <2>6, Zenon DEF Pending
    <3>2. \A s \in Live' : s \in Live /\ ent'[s].data = ent[s].data
      BY <1>1, <2>3, <2>5, Zenon
    <3> QED BY <1>1, <3>1, <3>2, OwnLess, Zenon
  <2>10. RefInv'
    <3> SUFFICES ASSUME NEW o \in Owners
                 PROVE  refs'[o] \in {0, 1} /\ (refs'[o] = 1 => Left(o)' \/ \E s \in Structs : Pending(s)' /\ ent'[s].data = o)
      BY Zenon DEF RefInv
    <3>1. ASSUME Left(o) PROVE Left(o)'
      <4>1. Waiting(o) /\ ent[del[o].s].rescheduled => ent'[del[o].s].rescheduled
        <5>1. ~ent[executing].rescheduled
          BY <1>1, Constants, RunningMarked, Zenon
        <5>2. \A s \in Structs : ent[s].rescheduled => ent'[s].rescheduled = ent[s].rescheduled
          BY <2>3, <5>1, Zenon DEF Same
        <5> QED BY WaitedFor, <5>2, Zenon
      <4> QED BY <1>1, <2>3, <2>5, <3>1, <4>1, Zenon DEF Left, Waiting
    <3>2. ASSUME NEW s \in Structs, Pending(s), ent[s].data = o
          PROVE  Left(o)' \/ \E u \in Structs : Pending(u)' /\ ent'[u].data = o
      <4>1. CASE s \in heap
        BY <2>3, <2>6, <3>2, <4>1, Zenon
      <4>2. CASE s = executing /\ res # 0
        <5>1. w = o
          BY <2>4, <3>2, <4>2, Zenon DEF Parted, MarkInv
        <5>2. field[o] = ent[executing].id
          BY <2>4, <3>2, <4>2, <5>1, Zenon DEF Parted, OwnInv, Waiting
        <5>3. field[o] # -1
          BY <1>1, <5>2 DEF Parted, Shared, Shares
        <5> QED BY <2>3, <2>4, <4>2, <5>1, <5>3, Zenon DEF Left, Waiting
      <4> QED BY <1>4, <3>2, <4>1, <4>2, Zenon
    <3> QED BY <3>1, <3>2, Zenon DEF Parted, RefInv
  <2> QED BY <2>7, <2>8, <2>9, <2>10 DEF Parted
<1>7. CASE ScheduledAgain
  <2>1. /\ Goes(heap \union {executing}) /\ ~ent[executing].deleted /\ res # 0
        /\ UNCHANGED <<id_queue, id_queue_size, schedc, unallocated>>
    BY <1>2, <1>7, Zenon DEF ScheduledAgain
  <2>2. \A s \in Structs : Same(s)
    <3>1. PICK x \in Int : ent' = [ent EXCEPT ![executing].when = x, ![executing].tie = NextTie, ![executing].seq = scheds]
      BY <1>7, Zenon DEF ScheduledAgain
    <3>2. /\ \A s \in Structs \ {executing} : ent'[s] = ent[s]
          /\ ent'[executing] = [ent[executing] EXCEPT !.when = x, !.tie = NextTie, !.seq = scheds]
      BY <1>1, <1>3, <3>1, Zenon
    <3> HIDE DEF NextTie
    <3>3. Same(executing)
      BY <3>2 DEF Same
    <3> QED BY <3>2, <3>3, Zenon DEF Same
  <2>3. \A s \in Structs : Pending(s)' <=> Pending(s)
    BY <1>1, <1>4, <2>1, LoopLive
  <2>4. Live' = Live
    <3>1. heap' \union {s \in Structs : s = executing'} = heap \union {s \in Structs : s = executing}
      BY <1>1, <2>1, LoopLive
    <3> QED BY <1>2, <3>1, LiveParts, Zenon
  <2>5. Shared'
    BY <1>1, <2>1, <2>2, <2>4, SharedKept, Zenon DEF Parted, Same
  <2>6. OwnInv' /\ RefInv'
    BY <1>1, <1>5, <2>2, <2>3, <2>4, OwnKept, Zenon DEF Parted
  <2>7. MarkInv' /\ Hands'
    <3>1. \A s \in heap \union {executing} : ~ent'[s].deleted /\ ~ent'[s].rescheduled
      BY Unmarked, RunningMarked, Constants, <1>1, <2>1, <2>2 DEF Same
    <3>2. \A o \in Owners : Waiting(o) => /\ del[o].s \notin heap \union {executing} /\ ent'[del[o].s].deleted
                                          /\ ent'[del[o].s].id = del[o].id /\ ent'[del[o].s].data = o
      <4>1. \A o \in Owners : Waiting(o) => /\ del[o].s \in Structs \ (heap \union {executing}) /\ ent[del[o].s].deleted
                                            /\ ent[del[o].s].id = del[o].id /\ ent[del[o].s].data = o
        BY WaitedFor, WaitedAlone, <2>1, Zenon
      <4> QED BY <2>2, <4>1, Zenon DEF Same
    <3>3. heap \union {executing} \in SUBSET Structs
      BY <1>1, Zenon
    <3> QED BY <1>1, <2>1, <3>1, <3>2, <3>3, MarkLoop, Zenon DEF Parted
  <2> QED BY <2>5, <2>6, <2>7 DEF Parted
<1>8. CASE Released
  <2>1. Goes(heap) /\ sched_release(executing) /\ ~ent[executing].deleted /\ res = 0
    BY <1>2, <1>8, Zenon DEF Released
  <2>2. Live' = Live \ {executing}
    <3>1. executing \notin Held
      BY <1>5, <2>1, Zenon DEF Held
    <3> QED BY <1>1, <1>2, <2>1, <3>1, LiveParts, LoopLive
  <2>3. Shared' /\ \A s \in Structs \ {executing} : ent'[s] = ent[s]
    BY <1>1, <2>1, <2>2, SharedRelease, Zenon DEF Parted
  <2>4. \A s \in Structs : (Pending(s)' <=> Pending(s)) /\ (Pending(s) <=> s \in heap)
    BY <1>1, <1>4, <2>1, LoopLive, Zenon
  <2>5. \A o \in Owners : Waiting(o) => del[o].s # executing
    BY <1>5, <2>1, Zenon
  <2>6. MarkInv' /\ Hands'
    <3>1. \A s \in heap : ~ent'[s].deleted /\ ~ent'[s].rescheduled
      BY Constants, <1>1, <2>3, Zenon DEF Parted, MarkInv
    <3>2. \A o \in Owners : Waiting(o) => /\ del[o].s \notin heap /\ ent'[del[o].s].deleted
                                          /\ ent'[del[o].s].id = del[o].id /\ ent'[del[o].s].data = o
      BY Unmarked, WaitedFor, <1>5, <2>3, <2>5, Zenon
    <3> QED BY <1>1, <2>1, <3>1, <3>2, MarkLoop, Zenon DEF Parted
  <2>7. OwnInv'
    <3>1. \A s \in Structs : Pending(s)' => /\ Pending(s)
                                           /\ ent'[s].data = ent[s].data /\ ent'[s].id = ent[s].id
      BY <1>1, <2>3, <2>4, Zenon
    <3>2. \A s \in Live' : s \in Live /\ ent'[s].data = ent[s].data
      BY <1>1, <2>2, <2>3, Zenon
    <3> QED BY <1>1, <3>1, <3>2, OwnLess, Zenon
  <2>8. RefInv'
    <3> SUFFICES ASSUME NEW o \in Owners
                 PROVE  refs'[o] \in {0, 1} /\ (refs'[o] = 1 => Left(o)' \/ \E s \in Structs : Pending(s)' /\ ent'[s].data = o)
      BY Zenon DEF RefInv
    <3>1. ASSUME Left(o) PROVE Left(o)'
      BY <1>1, <1>5, <2>2, <2>3, <2>5, <3>1, Zenon DEF Left, Waiting
    <3>2. \A s \in Structs : Pending(s) /\ ent[s].data = o => Pending(s)' /\ ent'[s].data = o
      BY <1>1, <2>3, <2>4, Zenon
    <3> QED BY <3>1, <3>2, Zenon DEF Parted, RefInv
  <2> QED BY <2>3, <2>6, <2>7, <2>8, Zenon DEF Parted
<1> QED BY <1>6, <1>7, <1>8

-----------------------------------------------------------------------------
(* The steps of an owner                                                   *)

\* An owner that does not wait changes only its own locals.
Alone(o) ==
    /\ OthersKept(o) /\ ~Waiting(o) /\ ~Waiting(o)'
    /\ UNCHANGED <<heap, executing, rpc, res, ent, refs, id_queue, id_queue_size, schedc, unallocated>>
    /\ \A s \in Structs : Pending(s) /\ ent[s].data = o =>
         IF opc'[o] = "added" THEN del'[o].id = ent[s].id ELSE field'[o] = ent[s].id
    /\ opc'[o] = "del" => field'[o] \in {del'[o].id, -1}
    /\ Left(o) => Left(o)'

\* Such a step keeps what concerns the owners.
LEMMA OwnerAlone ==
    ASSUME TypeOK, Parted, NEW o \in Owners, Alone(o)
    PROVE  Parted'
<1>a. OthersKept(o) /\ ~Waiting(o) /\ ~Waiting(o)'
  BY Zenon DEF Alone
<1>b. UNCHANGED <<heap, executing, rpc, res, ent, refs>>
  BY Zenon DEF Alone
<1>c. UNCHANGED <<id_queue, id_queue_size, schedc, unallocated>>
  BY Zenon DEF Alone
<1>d. \A s \in Structs : Pending(s) /\ ent[s].data = o =>
        IF opc'[o] = "added" THEN del'[o].id = ent[s].id ELSE field'[o] = ent[s].id
  BY Zenon DEF Alone
<1>e. (opc'[o] = "del" => field'[o] \in {del'[o].id, -1}) /\ (Left(o) => Left(o)')
  BY Zenon DEF Alone
<1>1. Live' = Live /\ Live \subseteq Structs
  BY <1>a, <1>b, HeldKept, LiveParts, Zenon DEF Held, TypeOK
<1>2. \A s \in Structs : Pending(s)' <=> Pending(s)
  BY <1>b DEF Pending
<1>3. Shared'
  BY <1>b, <1>c, <1>1, SharedKept, Zenon DEF Parted
<1>4. \A q \in Owners : Waiting(q) \/ Waiting(q)' => q # o /\ Waiting(q) /\ Waiting(q)' /\ del'[q] = del[q]
  BY <1>a, Zenon DEF OthersKept, Waiting
<1>5. Hands'
  BY <1>b, <1>4 DEF Parted, Hands
<1>6. MarkInv'
  BY Unmarked, RunningMarked, WaitedFor, <1>b, <1>4, Zenon DEF MarkInv
<1>7. OwnInv'
  <2>1. /\ \A s \in Live' : ent'[s].data \in Owners
        /\ \A s, u \in Structs : Pending(s)' /\ Pending(u)' /\ ent'[s].data = ent'[u].data => s = u
    BY <1>b, <1>1, <1>2, Zenon DEF Parted, OwnInv
  <2>2. \A s \in Structs : Pending(s)' =>
          /\ refs'[ent'[s].data] = 1
          /\ IF opc'[ent'[s].data] = "added" THEN del'[ent'[s].data].id = ent'[s].id
             ELSE field'[ent'[s].data] = ent'[s].id
    <3> SUFFICES ASSUME NEW s \in Structs, Pending(s)
                 PROVE  /\ refs[ent[s].data] = 1
                        /\ IF opc'[ent[s].data] = "added" THEN del'[ent[s].data].id = ent[s].id
                           ELSE field'[ent[s].data] = ent[s].id
      BY <1>b, <1>2, Zenon
    <3>1. ent[s].data \in Owners
      <4>1. s \in Live
        BY DEF Pending, Live
      <4> QED BY <4>1, Zenon DEF Parted, OwnInv
    <3> QED BY PendingKnown, <1>a, <1>d, <3>1 DEF OthersKept
  <2>3. \A q \in Owners : opc'[q] \in {"del", "wait"} => field'[q] \in {del'[q].id, -1}
    BY <1>a, <1>e, Zenon DEF Parted, OwnInv, OthersKept, Waiting
  <2>4. \A q \in Owners : Waiting(q)' => \A s \in Live' : ent'[s].data = q => s = del'[q].s
    BY WaitsForLast, <1>b, <1>1, <1>4
  <2> QED BY <2>1, <2>2, <2>3, <2>4, Zenon DEF OwnInv
<1>8. RefInv'
  <2>1. \A q \in Owners : Left(q) => Left(q)'
    BY <1>a, <1>b, <1>e, <1>1, Zenon DEF Left, OthersKept, Waiting
  <2> QED BY <1>b, <1>2, <2>1, Zenon DEF Parted, RefInv
<1> QED BY <1>3, <1>5, <1>6, <1>7, <1>8 DEF Parted

\* ast_sched_add returns and the id is stored.
LEMMA OwnersAddReturns ==
    ASSUME TypeOK, Parted, NEW o \in Owners, add_returns(o)
    PROVE  Parted'
<1>1. /\ opc[o] = "added" /\ UNCHANGED <<heap, executing, rpc, res, ent, refs, id_queue, id_queue_size, schedc, unallocated>>
      /\ opc'[o] = "idle" /\ field'[o] = del[o].id
  BY Zenon DEF add_returns, entries, thread, TypeOK
<1>2. OthersKept(o)
  BY DEF add_returns, OthersKept
<1>3. \A s \in Structs : Pending(s) /\ ent[s].data = o => field'[o] = ent[s].id
  BY <1>1, Zenon DEF Parted, OwnInv
<1>4. ~Left(o) /\ ~Waiting(o) /\ ~Waiting(o)'
  BY <1>1, Zenon DEF Left, Waiting
<1>8. Alone(o)
  BY <1>1, <1>2, <1>3, <1>4, Zenon DEF Alone
<1> QED BY <1>8, OwnerAlone

\* The while condition of AST_SCHED_DEL_UNREF.
LEMMA OwnersDelUnref ==
    ASSUME TypeOK, Parted, NEW o \in Owners, DEL_UNREF(o)
    PROVE  Parted'
<1>1. /\ opc[o] \in {"idle", "again"}
      /\ UNCHANGED <<heap, executing, rpc, res, ent, field, refs, id_queue, id_queue_size, schedc, unallocated>>
      /\ opc'[o] = IF field[o] = -1 THEN "idle" ELSE "del"
  BY Zenon DEF DEL_UNREF, MayUse, Goto, entries, thread, TypeOK
<1>2. OthersKept(o)
  BY Zenon DEF DEL_UNREF, Goto, OthersKept, TypeOK
<1>3. del'[o].id = field[o]
  BY Zenon DEF DEL_UNREF, TypeOK, Locals
<1>4. \A s \in Structs : Pending(s) /\ ent[s].data = o => field[o] = ent[s].id
  BY <1>1, Zenon DEF Parted, OwnInv
<1>5. ~Waiting(o) /\ ~Waiting(o)'
  BY <1>1, Zenon DEF Waiting
<1>6. Live' = Live
  BY <1>1, <1>2, <1>5, HeldKept, LiveParts, Zenon
<1>7. Left(o) => Left(o)'
  BY <1>1, <1>6, Zenon DEF Left, Waiting
<1>8. Alone(o)
  BY <1>1, <1>2, <1>3, <1>4, <1>5, <1>7, Zenon DEF Alone
<1> QED BY <1>8, OwnerAlone

\* The id is neither in the heap nor running.
LEMMA OwnersNotFound ==
    ASSUME TypeOK, Parted, NEW o \in Owners, del_not_found(o)
    PROVE  Parted'
<1>1. /\ opc[o] = "del" /\ opc'[o] \in {"again", "gone"}
      /\ UNCHANGED <<heap, executing, rpc, res, ent, field, refs, id_queue, id_queue_size, schedc, unallocated>>
  BY Zenon DEF del_not_found, DelFailed, Goto, entries, thread, TypeOK
<1>2. OthersKept(o)
  BY Zenon DEF del_not_found, DelFailed, Goto, OthersKept, TypeOK
<1>3. \A s \in Structs : Pending(s) /\ ent[s].data = o => field[o] = ent[s].id
  BY <1>1, Zenon DEF Parted, OwnInv
<1>4. ~Waiting(o) /\ ~Waiting(o)'
  BY <1>1 DEF Waiting
<1>5. Live' = Live
  BY <1>1, <1>2, <1>4, HeldKept, LiveParts, Zenon
<1>6. Left(o) => Left(o)'
  BY <1>1, <1>5, Zenon DEF Left, Waiting
<1>8. Alone(o)
  BY <1>1, <1>2, <1>3, <1>4, <1>6, Zenon DEF Alone
<1> QED BY <1>8, OwnerAlone

\* A failed add moves at most a struct from the allocator to the cache.
LEMMA OwnersAddFailed ==
    ASSUME TypeOK, Parted, NEW o \in Owners, sched_add_failed(o)
    PROVE  Parted'
<1>1. UNCHANGED <<heap, executing, rpc, res, ent, opc, del, field, refs, id_queue, id_queue_size>>
  BY Zenon DEF sched_add_failed, thread, owner
<1>2. /\ Live' = Live /\ Live \subseteq Structs
      /\ \A s \in Structs : Same(s) /\ (Pending(s)' <=> Pending(s))
  BY <1>1, Zenon DEF Live, Waiting, Same, Pending, TypeOK
<1>3. Hands' /\ MarkInv'
  <2>1. Hands'
    BY <1>1, Zenon DEF Parted, Hands, Waiting
  <2> QED BY <1>1, <2>1, Zenon DEF Parted, MarkInv, Waiting
<1>4. OwnInv' /\ RefInv'
  BY <1>1, <1>2, OwnKept, Zenon DEF Parted, MarkInv
<1>5. Shared'
  <2>1. CASE UNCHANGED <<schedc, unallocated>>
    BY <1>1, <1>2, <2>1, SharedKept, Zenon DEF Parted
  <2>2. ASSUME schedc = <<>>, NEW s \in unallocated, schedc' = <<s>>, unallocated' = unallocated \ {s}
        PROVE  Shared'
    <3>1. Elems(schedc) = {} /\ Elems(schedc') = {s} /\ Distinct(schedc')
      BY <2>2 DEF Elems, Distinct
    <3>2. Shares(Live, ent, id_queue, id_queue_size, schedc', unallocated')
      BY <2>2, <3>1 DEF Parted, Shared, Shares
    <3> QED BY <1>1, <1>2, <3>2, Zenon DEF Shared
  <2> QED BY <2>1, <2>2, Zenon DEF sched_add_failed
<1> QED BY <1>3, <1>4, <1>5 DEF Parted

\* An add takes a struct and an id that are nobody's.
LEMMA SharedAdd ==
    ASSUME IInv, Parted, NEW o \in Owners, NEW s \in Structs, NEW n \in 0 .. IdIncrement, NEW t \in Timings,
           ast_sched_add(o, s, n, t[1], t[2])
    PROVE  s \notin Live /\ (Live' = Live \union {s} => Shared')
<1>t. TypeOK /\ Shared
  BY DEF IInv, Parted
<1>1. n \in Nat /\ (n = 0 <=> id_queue # <<>>) /\ sched_alloc(s) /\ id_queue_size \in Nat
  BY <1>t DEF ast_sched_add, TypeOK
<1>2. /\ id_queue_size' = id_queue_size + n /\ id_queue' = Tail(add_ids(n)) /\ ent'[s].id = Head(add_ids(n))
  BY <1>t, Zenon DEF ast_sched_add, TypeOK
<1>3. \A u \in Structs \ {s} : ent'[u] = ent[u]
  BY <1>t, Zenon DEF ast_sched_add, TypeOK
<1>4. /\ add_ids(n) \in Seq(1 .. id_queue_size + n) /\ add_ids(n) # <<>> /\ Distinct(add_ids(n))
      /\ Elems(add_ids(n)) = Elems(id_queue) \union ((id_queue_size + 1) .. (id_queue_size + n))
  BY <1>1, <1>t, AddedIds, Zenon DEF Shared, Shares
<1>5. /\ s \in Elems(schedc) \union unallocated /\ Distinct(schedc') /\ Elems(schedc') \intersect unallocated' = {}
      /\ Elems(schedc') \union unallocated' = (Elems(schedc) \union unallocated) \ {s}
  <2>0. Distinct(schedc) /\ Elems(schedc) \intersect unallocated = {} /\ schedc \in Seq(Structs)
    BY <1>t, Zenon DEF Shared, Shares, TypeOK
  <2>1. CASE schedc # <<>>
    <3>1. s = Head(schedc) /\ schedc' = Tail(schedc) /\ unallocated' = unallocated
      BY <1>1, <2>1, Zenon DEF sched_alloc
    <3>2. Head(schedc) \in Elems(schedc) /\ Distinct(Tail(schedc)) /\ Elems(Tail(schedc)) = Elems(schedc) \ {Head(schedc)}
      BY <2>0, <2>1, TailElems, Zenon
    <3> QED BY <2>0, <3>1, <3>2, Zenon
  <2>2. CASE schedc = <<>>
    <3>1. s \in unallocated /\ schedc' = schedc /\ unallocated' = unallocated \ {s}
      BY <1>1, <2>2, Zenon DEF sched_alloc
    <3>2. Elems(schedc) = {}
      BY <2>2 DEF Elems
    <3> QED BY <2>0, <3>1, Zenon
  <2> QED BY <2>1, <2>2, Zenon
<1>6. s \notin Live /\ Live \subseteq Structs
  BY <1>5, <1>t, Zenon DEF Shared, Shares
<1>7. Shares(Live \union {s}, ent', Tail(add_ids(n)), id_queue_size + n, schedc', unallocated')
  <2>1. \A u \in Live : ent'[u].id = ent[u].id
    BY <1>3, <1>6, Zenon
  <2> QED BY Constants, <1>1, <1>2, <1>4, <1>5, <1>6, <1>t, <2>1, SharesTake, Zenon DEF Shared
<1> QED BY <1>2, <1>6, <1>7, Zenon DEF Shared

\* ast_sched_add_variable, under the lock.
LEMMA OwnersAdd ==
    ASSUME IInv, Parted, NEW o \in Owners, NEW s \in Structs, NEW n \in 0 .. IdIncrement, NEW t \in Timings,
           ast_sched_add(o, s, n, t[1], t[2])
    PROVE  Parted'
<1>t. TypeOK
  BY DEF IInv
<1>1. /\ opc[o] = "idle" /\ field[o] = -1 /\ opc'[o] = "added" /\ field' = field /\ refs'[o] = refs[o] + 1
      /\ heap' = heap \union {s} /\ UNCHANGED <<executing, rpc, res>> /\ OthersKept(o)
  BY <1>t, Zenon DEF ast_sched_add, MayUse, OthersKept, thread, TypeOK
<1>2. \A u \in Structs \ {s} : ent'[u] = ent[u]
  BY <1>t, Zenon DEF ast_sched_add, TypeOK
<1>3. ent'[s].data = o /\ ~ent'[s].deleted /\ ~ent'[s].rescheduled
  <2>1. \E e : ent' = [ent EXCEPT ![s] = e] /\ e.data = o /\ ~e.deleted /\ ~e.rescheduled
    BY AddTakes
  <2> QED BY <1>t, <2>1, Zenon DEF TypeOK
<1>4. del'[o].id = ent'[s].id
  <2>1. del' = [del EXCEPT ![o].id = ent'[s].id]
    BY AddTakes
  <2> QED BY <1>t, <2>1 DEF TypeOK
<1>5. ~Waiting(o) /\ ~Waiting(o)' /\ \A q \in Owners \ {o} : (Waiting(q)' <=> Waiting(q)) /\ del'[q] = del[q]
  BY <1>1, Zenon DEF Waiting, OthersKept
<1>6. Live' = Live \union {s} /\ s \notin Live /\ Live \subseteq Structs
  <2>1. Held' = Held
    BY <1>1, <1>5, HeldKept, Zenon
  <2> QED BY <1>1, <1>t, <2>1, LiveParts, SharedAdd, Zenon DEF Held, TypeOK
<1>7. Shared'
  BY <1>6, SharedAdd, Zenon
<1>8. s # executing /\ s \notin heap /\ \A q \in Owners : Waiting(q) => del[q].s \in Structs \ {s}
  BY <1>6, Zenon DEF Live, Parted, MarkInv
<1>9. Hands'
  BY <1>1, <1>2, <1>5, <1>8 DEF Parted, Hands
<1>10. MarkInv'
  <2>1. \A u \in heap' : ~ent'[u].deleted /\ ~ent'[u].rescheduled
    BY Unmarked, <1>1, <1>2, <1>3, <1>t, Zenon DEF TypeOK
  <2>2. executing' # None => /\ ~ent'[executing'].rescheduled
                             /\ ent'[executing'].deleted => \E q \in Owners : Waiting(q)' /\ del'[q].s = executing'
    <3>1. executing # None => ent'[executing] = ent[executing]
      BY <1>2, <1>8, <1>t, Zenon DEF TypeOK
    <3> QED BY RunningMarked, <1>1, <1>5, <3>1
  <2>3. \A q \in Owners : Waiting(q)' => /\ del'[q].s \in Structs
                                         /\ ent'[del'[q].s].id = del'[q].id /\ ent'[del'[q].s].data = q
    BY WaitedFor, <1>2, <1>5, <1>8
  <2> QED BY <2>1, <2>2, <2>3, Zenon DEF MarkInv
<1>11. \A u \in Structs : Pending(u)' <=> Pending(u) \/ u = s
  BY <1>1, Zenon DEF Pending
<1>12. \A u \in Structs : Pending(u) => u # s /\ ent[u].data \in Owners \ {o}
  <2> SUFFICES ASSUME NEW u \in Structs, Pending(u) PROVE u # s /\ ent[u].data \in Owners \ {o}
    OBVIOUS
  <2>1. u \in Live /\ ent[u].data \in Owners /\ ent[u].id # -1
    <3>1. u \in Live
      BY Zenon DEF Pending, Live
    <3>2. ent[u].id \in 1 .. id_queue_size
      BY <3>1, Zenon DEF Parted, Shared, Shares
    <3>3. id_queue_size \in Nat
      BY <1>t, Zenon DEF TypeOK
    <3>4. ent[u].id # -1
      BY <3>2, <3>3
    <3> QED BY <3>1, <3>4, Owned, Zenon
  <2>2. ent[u].data # o
    BY <1>1, <2>1, Zenon DEF Parted, OwnInv
  <2> QED BY <1>6, <2>1, <2>2, Zenon
<1>13. refs[o] = 0
  BY <1>1, <1>12, Zenon DEF Parted, RefInv, Left
<1>14. OwnInv'
  <2>1. \A u \in Live' : ent'[u].data \in Owners
    BY <1>2, <1>3, <1>6, Zenon DEF Parted, OwnInv
  <2>2. \A u, v \in Structs : Pending(u)' /\ Pending(v)' /\ ent'[u].data = ent'[v].data => u = v
    BY PendingOnce, <1>2, <1>3, <1>11, <1>12
  <2>3. ASSUME NEW u \in Structs, Pending(u)'
        PROVE  /\ refs'[ent'[u].data] = 1
               /\ IF opc'[ent'[u].data] = "added" THEN del'[ent'[u].data].id = ent'[u].id
                  ELSE field'[ent'[u].data] = ent'[u].id
    <3>1. CASE u = s
      BY <1>1, <1>3, <1>4, <1>13, <3>1
    <3>2. CASE u # s
      <4>1. Pending(u) /\ ent'[u] = ent[u] /\ ent[u].data \in Owners \ {o}
        BY <1>2, <1>11, <1>12, <2>3, <3>2, Zenon
      <4> QED BY PendingKnown, <1>1, <4>1 DEF OthersKept
    <3> QED BY <3>1, <3>2, Zenon
  <2>4. \A q \in Owners : opc'[q] \in {"del", "wait"} => field'[q] \in {del'[q].id, -1}
    BY <1>1, Zenon DEF Parted, OwnInv, OthersKept
  <2>5. \A q \in Owners : Waiting(q)' => \A u \in Live' : ent'[u].data = q => u = del'[q].s
    BY WaitsForLast, <1>2, <1>3, <1>5, <1>6
  <2> QED BY <2>1, <2>2, <2>3, <2>4, <2>5, Zenon DEF OwnInv
<1>15. RefInv'
  <2> SUFFICES ASSUME NEW q \in Owners
               PROVE  refs'[q] \in {0, 1} /\ (refs'[q] = 1 => Left(q)' \/ \E u \in Structs : Pending(u)' /\ ent'[u].data = q)
    BY Zenon DEF RefInv
  <2>1. CASE q = o
    BY <1>1, <1>3, <1>11, <1>13, <2>1
  <2>2. CASE q # o
    <3>1. Left(q) => Left(q)'
      <4>1. /\ opc'[q] = opc[q] /\ field'[q] = field[q] /\ del'[q] = del[q]
            /\ Waiting(q)' <=> Waiting(q)
        BY <1>1, <1>5, <2>2, Zenon DEF OthersKept
      <4>2. Waiting(q) => ent'[del[q].s] = ent[del[q].s]
        BY <1>2, <1>8, Zenon
      <4>3. \A u \in Live' : ent'[u].data = q => u \in Live /\ ent[u].data = q
        BY <1>2, <1>3, <1>6, <2>2, Zenon
      <4> QED BY <4>1, <4>2, <4>3, Zenon DEF Left
    <3>2. \A u \in Structs : Pending(u) /\ ent[u].data = q => Pending(u)' /\ ent'[u].data = q
      BY <1>2, <1>11, <1>12, Zenon
    <3>3. refs'[q] = refs[q]
      BY <1>1, <2>2, Zenon DEF OthersKept
    <3> QED BY <3>1, <3>2, <3>3, Zenon DEF Parted, RefInv
  <2> QED BY <2>1, <2>2, Zenon
<1> QED BY <1>7, <1>9, <1>10, <1>14, <1>15, Zenon DEF Parted

\* A deleter finds its entry running: it marks it and waits.
LEMMA OwnersRunning ==
    ASSUME TypeOK, Parted, NEW o \in Owners, del_running(o), ~stale'
    PROVE  Parted'
<1>1. /\ opc[o] = "del" /\ NotInHeap(o) /\ opc'[o] = "wait" /\ OthersKept(o)
      /\ UNCHANGED <<heap, executing, rpc, res, field, refs, id_queue, id_queue_size, schedc, unallocated>>
  BY Zenon DEF del_running, Goto, OthersKept, thread, TypeOK
<1>2. executing \in Structs /\ ent[executing].id = del[o].id /\ ent[executing].data = o
  BY Zenon DEF del_running, Executing, TypeOK
<1>3. del'[o].s = executing /\ del'[o].id = del[o].id
  BY DEF del_running, TypeOK
<1>4. /\ \A s \in Structs \ {executing} : ent'[s] = ent[s]
      /\ ent'[executing] = [ent[executing] EXCEPT !.deleted = TRUE]
  BY <1>2, Zenon DEF del_running, TypeOK
<1>5. /\ \A s \in Structs : /\ ent'[s].id = ent[s].id /\ ent'[s].data = ent[s].data
                            /\ ent'[s].rescheduled = ent[s].rescheduled
                            /\ ent[s].deleted => ent'[s].deleted
      /\ ent'[executing].deleted
  <2>1. ent[executing] \in Entry
    BY <1>2, Zenon DEF TypeOK
  <2>2. /\ ent'[executing].id = ent[executing].id /\ ent'[executing].data = ent[executing].data
        /\ ent'[executing].rescheduled = ent[executing].rescheduled /\ ent'[executing].deleted
    BY <1>4
  <2> QED BY <1>4, <2>2, Zenon
<1>6. ~Waiting(o) /\ Waiting(o)' /\ \A q \in Owners \ {o} : (Waiting(q)' <=> Waiting(q)) /\ del'[q] = del[q]
  BY <1>1, Zenon DEF Waiting, OthersKept
<1>7. \A q \in Owners : Waiting(q) => q # o /\ del[q].s \in Structs \ {executing}
  BY <1>2, <1>6 DEF Parted, MarkInv
<1>8. Live' = Live /\ executing \in Live /\ executing \notin heap /\ Live \subseteq Structs
  <2>1. Held' = Held \union {executing}
    BY <1>2, <1>3, <1>6 DEF Held
  <2> QED BY <1>1, <1>2, <2>1, LiveParts, Zenon DEF Parted, Hands, TypeOK, Held
<1>9. Shared'
  BY <1>1, <1>5, <1>8, SharedKept, Zenon DEF Parted
<1>10. Hands'
  <2>1. \A q \in Owners : Waiting(q)' => del'[q].s \notin heap /\ ent'[del'[q].s].deleted
    BY <1>3, <1>5, <1>6, <1>7, Zenon DEF Parted, Hands
  <2>2. \A q, r \in Owners : q # r /\ Waiting(q)' /\ Waiting(r)' => del'[r].s # del'[q].s
    BY <1>3, <1>6, <1>7 DEF Parted, Hands
  <2> QED BY <1>1, <1>8, <2>1, <2>2, Zenon DEF Hands
<1>11. MarkInv'
  <2>1. \A s \in heap : ~ent'[s].deleted /\ ~ent'[s].rescheduled
    BY <1>4, <1>8, Zenon DEF Parted, MarkInv, TypeOK
  <2>2. ~ent'[executing].rescheduled
    BY Constants, <1>2, <1>5, Zenon DEF Parted, MarkInv
  <2>3. \A q \in Owners : Waiting(q)' => /\ del'[q].s \in Structs
                                         /\ ent'[del'[q].s].id = del'[q].id /\ ent'[del'[q].s].data = q
    <3>1. \A q \in Owners \ {o} : Waiting(q)' => /\ del'[q].s \in Structs
                                               /\ ent[del'[q].s].id = del'[q].id /\ ent[del'[q].s].data = q
      BY WaitedFor, <1>6, Zenon
    <3>2. \A q \in Owners : Waiting(q)' => /\ del'[q].s \in Structs
                                         /\ ent[del'[q].s].id = del'[q].id /\ ent[del'[q].s].data = q
      BY <1>2, <1>3, <3>1, Zenon
    <3> QED BY <1>5, <3>2, Zenon
  <2> QED BY <1>1, <1>3, <1>6, <2>1, <2>2, <2>3, Zenon DEF MarkInv
<1>12. \A s \in Structs : Pending(s)' <=> Pending(s)
  BY <1>1, Zenon DEF Pending
<1>13. \A s \in Live : ent[s].data = o => s = executing
  <2> SUFFICES ASSUME NEW s \in Live, ent[s].data = o, s # executing PROVE FALSE
    BY Zenon
  <2>1. CASE s \in heap
    <3>1. field[o] = ent[s].id
      BY <1>1, <1>8, <2>1, Zenon DEF Parted, OwnInv, Pending
    <3>2. field[o] \in {del[o].id, -1}
      BY <1>1, Zenon DEF Parted, OwnInv
    <3>3. ent[s].id # -1
      <4>1. ent[s].id \in 1 .. id_queue_size /\ id_queue_size \in Nat
        BY Zenon DEF Parted, Shared, Shares, TypeOK
      <4> QED BY <4>1
    <3> QED BY <1>1, <2>1, <3>1, <3>2, <3>3, Zenon DEF NotInHeap
  <2>2. CASE s \in Held
    BY <1>6, <2>2 DEF Held, Parted, MarkInv
  <2> QED BY <2>1, <2>2, LiveParts, Zenon
<1>14. OwnInv'
  <2>1. /\ \A s \in Live' : ent'[s].data \in Owners
        /\ \A s, u \in Structs : Pending(s)' /\ Pending(u)' /\ ent'[s].data = ent'[u].data => s = u
    BY Owned, PendingOnce, <1>5, <1>8, <1>12
  <2>2. ASSUME NEW s \in Structs, Pending(s)'
        PROVE  /\ refs'[ent'[s].data] = 1
               /\ IF opc'[ent'[s].data] = "added" THEN del'[ent'[s].data].id = ent'[s].id
                  ELSE field'[ent'[s].data] = ent'[s].id
    <3>1. Pending(s) /\ ent[s].data \in Owners
      <4>1. Pending(s) /\ s \in Live
        BY <1>12, <2>2, Zenon DEF Pending, Live
      <4> QED BY <4>1, Zenon DEF Parted, OwnInv
    <3> QED BY PendingKnown, <1>1, <1>5, <3>1 DEF OthersKept
  <2>3. \A q \in Owners : opc'[q] \in {"del", "wait"} => field'[q] \in {del'[q].id, -1}
    BY <1>1, <1>3, Zenon DEF Parted, OwnInv, OthersKept
  <2>4. \A q \in Owners : Waiting(q)' => \A s \in Live' : ent'[s].data = q => s = del'[q].s
    BY WaitsForLast, <1>3, <1>5, <1>6, <1>8, <1>13
  <2> QED BY <2>1, <2>2, <2>3, <2>4, Zenon DEF OwnInv
<1>15. RefInv'
  <2>1. \A q \in Owners : Left(q) => Left(q)'
    <3> SUFFICES ASSUME NEW q \in Owners, Left(q) PROVE Left(q)'
      OBVIOUS
    <3>1. q # o
      BY <1>1, <1>2, <1>8, Zenon DEF Left, Waiting
    <3>2. field'[q] = field[q] /\ opc'[q] = opc[q] /\ del'[q] = del[q] /\ (Waiting(q)' <=> Waiting(q))
      BY <1>1, <1>6, <3>1, Zenon DEF OthersKept
    <3>3. Waiting(q) => del[q].s \in Structs
      BY <1>7, Zenon
    <3> QED BY <1>5, <1>8, <3>2, <3>3, Zenon DEF Left
  <2>2. RefInv /\ refs' = refs
    BY <1>1, Zenon DEF Parted
  <2>3. \A q \in Owners : (\E s \in Structs : Pending(s) /\ ent[s].data = q)
                            => \E s \in Structs : Pending(s)' /\ ent'[s].data = q
    BY <1>5, <1>12, Zenon
  <2> QED BY <2>1, <2>2, <2>3 DEF RefInv
<1> QED BY <1>9, <1>10, <1>11, <1>14, <1>15 DEF Parted

\* An owner gives up a struct of its own, its pending entry or one that it was
\* left, and ends with no entry in use.
GivesUp(o, s) ==
    /\ s \in Live \ {executing} /\ ent[s].data = o /\ sched_release(s) /\ OthersKept(o)
    /\ UNCHANGED <<executing, rpc, res>> /\ heap' = heap \ {s} /\ Live' = Live \ {s}
    /\ ~Waiting(o)' /\ (Waiting(o) => del[o].s = s)
    /\ \A q \in Owners : Waiting(q) => q = o \/ del[q].s # s
    /\ \A u \in Structs : Pending(u) /\ u # s => ent[u].data # o
    /\ opc'[o] \notin {"del", "wait"} /\ refs'[o] \in {0, 1} /\ (refs'[o] = 1 => Left(o)')

\* Giving up an entry keeps the invariant.
LEMMA OwnersGiveUp ==
    ASSUME TypeOK, Parted, NEW o \in Owners, NEW s, GivesUp(o, s)
    PROVE  Parted'
<1>a. OthersKept(o) /\ ent[s].data = o
  BY Zenon DEF GivesUp
<1>b. UNCHANGED <<executing, rpc, res>> /\ heap' = heap \ {s} /\ s # executing
  BY Zenon DEF GivesUp
<1>c. ~Waiting(o)' /\ (Waiting(o) => del[o].s = s) /\ \A q \in Owners : Waiting(q) => q = o \/ del[q].s # s
  BY Zenon DEF GivesUp
<1>d. \A u \in Structs : Pending(u) /\ u # s => ent[u].data # o
  BY Zenon DEF GivesUp
<1>e. opc'[o] \notin {"del", "wait"} /\ refs'[o] \in {0, 1} /\ (refs'[o] = 1 => Left(o)')
  BY Zenon DEF GivesUp
<1>0. s \in Structs /\ Live \subseteq Structs /\ Live' = Live \ {s} /\ s \in Live
  BY Zenon DEF GivesUp, Live, TypeOK
<1>2. Shared' /\ \A u \in Structs \ {s} : ent'[u] = ent[u]
  BY <1>0, SharedRelease, Zenon DEF Parted, GivesUp
<1>3. \A q \in Owners : Waiting(q)' => q # o /\ Waiting(q) /\ del'[q] = del[q] /\ del[q].s \in Structs \ {s}
  BY RunningMarked, WaitedFor, <1>a, <1>c, Zenon DEF Waiting, OthersKept
<1>4. Hands'
  BY <1>b, <1>2, <1>3 DEF Parted, Hands
<1>5. MarkInv'
  <2>1. \A u \in heap' : ~ent'[u].deleted /\ ~ent'[u].rescheduled
    BY <1>b, <1>2, Zenon DEF Parted, MarkInv, TypeOK
  <2>2. executing # None => /\ ~ent'[executing].rescheduled
                            /\ ent'[executing].deleted => \E q \in Owners : Waiting(q)' /\ del'[q].s = executing
    <3>1. executing # None => ent'[executing] = ent[executing]
      BY <1>b, <1>2, Zenon DEF TypeOK
    <3>2. \A q \in Owners : Waiting(q) /\ del[q].s = executing => Waiting(q)' /\ del'[q].s = executing
      BY <1>a, <1>b, <1>c, Zenon DEF Waiting, OthersKept
    <3> QED BY <3>1, <3>2, Zenon DEF Parted, MarkInv
  <2>3. \A q \in Owners : Waiting(q)' => /\ del'[q].s \in Structs
                                         /\ ent'[del'[q].s].id = del'[q].id /\ ent'[del'[q].s].data = q
    BY WaitedFor, <1>2, <1>3
  <2> QED BY <1>b, <2>1, <2>2, <2>3, Zenon DEF MarkInv
<1>6. \A u \in Structs : Pending(u)' <=> Pending(u) /\ u # s
  BY <1>b DEF Pending
<1>7. \A u \in Structs : Pending(u)' => ent'[u] = ent[u] /\ ent[u].data \in Owners \ {o}
  <2> SUFFICES ASSUME NEW u \in Structs, Pending(u)' PROVE ent'[u] = ent[u] /\ ent[u].data \in Owners \ {o}
    OBVIOUS
  <2>1. Pending(u) /\ u # s /\ u \in Live
    BY <1>b, Zenon DEF Pending, Live
  <2> QED BY <1>d, <1>2, <2>1, Zenon DEF Parted, OwnInv
<1>8. OwnInv'
  <2>1. \A u \in Live' : ent'[u].data \in Owners
    BY <1>0, <1>2, Zenon DEF Parted, OwnInv
  <2>2. \A u, v \in Structs : Pending(u)' /\ Pending(v)' /\ ent'[u].data = ent'[v].data => u = v
    BY <1>d, <1>e, <1>6, <1>7, Zenon DEF Parted, OwnInv
  <2>3. \A u \in Structs : Pending(u)' =>
          /\ refs'[ent'[u].data] = 1
          /\ IF opc'[ent'[u].data] = "added" THEN del'[ent'[u].data].id = ent'[u].id
             ELSE field'[ent'[u].data] = ent'[u].id
    BY PendingKnown, <1>a, <1>6, <1>7 DEF OthersKept
  <2>4. \A q \in Owners : opc'[q] \in {"del", "wait"} => field'[q] \in {del'[q].id, -1}
    BY <1>a, <1>e, Zenon DEF Parted, OwnInv, OthersKept
  <2>5. \A q \in Owners : Waiting(q)' => \A u \in Live' : ent'[u].data = q => u = del'[q].s
    BY WaitsForLast, <1>0, <1>2, <1>3
  <2> QED BY <2>1, <2>2, <2>3, <2>4, <2>5, Zenon DEF OwnInv
<1>9. ASSUME NEW q \in Owners, q # o
      PROVE  refs'[q] \in {0, 1} /\ (refs'[q] = 1 => Left(q)' \/ \E u \in Structs : Pending(u)' /\ ent'[u].data = q)
  <2>1. refs'[q] = refs[q] /\ field'[q] = field[q] /\ opc'[q] = opc[q] /\ del'[q] = del[q]
    BY <1>a, <1>9, Zenon DEF OthersKept
  <2>2. Left(q) => Left(q)'
    <3>1. Waiting(q) => ent'[del[q].s] = ent[del[q].s]
      BY <1>a, <1>2, <1>9, Zenon DEF Parted, MarkInv
    <3> QED BY <1>0, <1>2, <2>1, <3>1, Zenon DEF Left, Waiting
  <2>3. ASSUME NEW u \in Structs, Pending(u), ent[u].data = q
        PROVE  Left(q)' \/ \E v \in Structs : Pending(v)' /\ ent'[v].data = q
    <3>1. CASE u # s
      BY <1>2, <1>6, <2>3, <3>1, Zenon
    <3>2. CASE u = s
      BY <1>a, <1>9, <2>3, <3>2, Zenon
    <3> QED BY <3>1, <3>2, Zenon
  <2> QED BY <2>1, <2>2, <2>3, Zenon DEF Parted, RefInv
<1>10. RefInv'
  BY <1>e, <1>9, Zenon DEF RefInv
<1> QED BY <1>2, <1>4, <1>5, <1>8, <1>10, Zenon DEF Parted

\* A deleter finds its entry in the heap and releases it.
LEMMA OwnersFound ==
    ASSUME TypeOK, Parted, NEW o \in Owners, NEW s \in Structs, del_found(o, s), ~stale'
    PROVE  Parted'
<1>1. /\ opc[o] = "del" /\ opc'[o] = "idle" /\ s \in heap /\ ent[s].data = o /\ heap' = heap \ {s}
      /\ refs'[o] = refs[o] - 1 /\ sched_release(s) /\ UNCHANGED <<executing, rpc, res>> /\ OthersKept(o)
  BY Zenon DEF del_found, Goto, OthersKept, thread, TypeOK
<1>2. ~Waiting(o) /\ ~Waiting(o)'
  BY <1>1, Zenon DEF Waiting
<1>3. s \in Live \ {executing} /\ \A q \in Owners : Waiting(q) => del[q].s # s
  BY <1>1, Zenon DEF Live, Parted, Hands
<1>4. Live' = Live \ {s}
  <2>1. Held' = Held /\ s \notin Held
    BY <1>1, <1>2, <1>3, HeldKept, Zenon DEF Held
  <2> QED BY <1>1, <1>3, <2>1, LiveParts, Zenon
<1>5. Pending(s) /\ refs[o] = 1 /\ \A u \in Structs : Pending(u) /\ u # s => ent[u].data # o
  BY <1>1, Zenon DEF Pending, Parted, OwnInv
<1>6. refs'[o] = 0
  BY <1>1, <1>5
<1>7. GivesUp(o, s)
  <2>1. refs'[o] \in {0, 1} /\ refs'[o] # 1
    BY <1>6
  <2> QED BY <1>1, <1>2, <1>3, <1>4, <1>5, <2>1, Zenon DEF GivesUp
<1> QED BY <1>7, OwnersGiveUp

\* A deleter that waited goes on when the callback has returned.
LEMMA OwnersWoken ==
    ASSUME TypeOK, Parted, NEW o \in Owners, del_woken(o)
    PROVE  Parted'
<1> DEFINE s == del[o].s
<1>1. opc[o] = "wait" /\ UNCHANGED <<heap, executing, rpc, res, field, refs>>
  BY Zenon DEF del_woken, thread
<1>2. CASE Executing(o)
  <2>1. UNCHANGED <<ent, schedc, unallocated, id_queue, id_queue_size, opc, del>>
    BY <1>2, Zenon DEF del_woken
  <2>2. \A u \in Structs : Same(u) /\ (Pending(u)' <=> Pending(u))
    BY <1>1, <2>1, Zenon DEF Same, Pending
  <2> QED BY <1>1, <2>1, <2>2, QuietStep, Zenon
<1>3. CASE ~Executing(o)
  <2>1. sched_release(s) /\ IF ent[s].rescheduled THEN DelFailed(o) ELSE Goto(o, "idle") /\ del' = [del EXCEPT ![o] = NotDeleting]
    BY <1>3, Zenon DEF del_woken
  <2>2. OthersKept(o)
    BY <1>1, <2>1, Zenon DEF DelFailed, Goto, OthersKept, TypeOK
  <2>3. opc'[o] \in {"again", "gone", "idle"} /\ (ent[s].rescheduled => opc'[o] # "idle")
    BY <2>1, Zenon DEF DelFailed, Goto, TypeOK
  <2>4. Waiting(o) /\ ~Waiting(o)'
    BY <1>1, <2>3, Zenon DEF Waiting
  <2>5. s \in Structs /\ ent[s].data = o /\ ent[s].id = del[o].id /\ s \notin heap /\ del[o].s = s
    BY <2>4, Zenon DEF Parted, MarkInv, Hands
  <2>6. s # executing
    BY Constants, <1>3, <2>5, Zenon DEF Executing
  <2>7. s \in Live \ {executing} /\ \A q \in Owners : Waiting(q) => q = o \/ del[q].s # s
    BY <2>4, <2>5, <2>6, Zenon DEF Live, Parted, Hands
  <2>8. Live' = Live \ {s}
    <3>1. Held' = Held \ {s}
      BY <2>2, <2>4, <2>7 DEF Held, OthersKept, Waiting
    <3> QED BY <1>1, <2>5, <2>6, <3>1, LiveParts, Zenon
  <2>9. \A u \in Live : ent[u].data = o => u = s
    BY <2>4, Zenon DEF Parted, OwnInv
  <2>10. ~Pending(s) /\ \A u \in Structs : Pending(u) => ent[u].data # o
    BY <2>5, <2>6, <2>9, Zenon DEF Pending, Live
  <2>11. refs[o] = 1 => Left(o)'
    <3> SUFFICES ASSUME refs[o] = 1 PROVE Left(o)'
      OBVIOUS
    <3>1. Left(o)
      BY <2>10, Zenon DEF Parted, RefInv
    <3>2. field[o] # -1 /\ ent[s].rescheduled
      BY <1>1, <3>1, Zenon DEF Left
    <3>3. \A u \in Structs \ {s} : ent'[u] = ent[u]
      BY <2>1, Zenon DEF sched_release, TypeOK
    <3>4. \A u \in Live' : ent'[u].data # o
      <4>1. Live \subseteq Structs
        BY Zenon DEF Live, TypeOK
      <4> QED BY <2>8, <2>9, <3>3, <4>1, Zenon
    <3> QED BY <1>1, <2>3, <3>2, <3>4, Zenon DEF Left
  <2>12. refs'[o] \in {0, 1} /\ refs'[o] = refs[o] /\ heap' = heap \ {s}
    BY <1>1, <2>5, Zenon DEF Parted, RefInv
  <2> HIDE DEF s
  <2>13. GivesUp(o, s)
    BY <1>1, <2>1, <2>2, <2>3, <2>4, <2>5, <2>7, <2>8, <2>10, <2>11, <2>12, Zenon DEF GivesUp
  <2> QED BY <2>13, OwnersGiveUp
<1> QED BY <1>2, <1>3

=============================================================================
