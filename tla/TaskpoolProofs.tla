---------------------------- MODULE TaskpoolProofs ----------------------------
(***************************************************************************)
(* Proofs about the pool (module Taskpool), for any number of workers, any *)
(* clients and any options.                                                *)
(***************************************************************************)
EXTENDS Taskpool, FiniteSetTheorems, TLAPS

-----------------------------------------------------------------------------
(* Vectors                                                                 *)

\* A removal takes one element out and keeps the others apart.
LEMMA Removed ==
    ASSUME NEW S, NEW v \in Seq(S), NEW i \in DOMAIN v, Distinct(v)
    PROVE  LET r == RemoveUnordered(v, i) IN
           /\ r \in Seq(S) /\ Len(r) = Len(v) - 1
           /\ Distinct(r) /\ Elems(r) = Elems(v) \ {v[i]}
<1> DEFINE n == Len(v)
           r == RemoveUnordered(v, i)
<1>1. n \in Nat /\ i \in 1 .. n /\ DOMAIN v = 1 .. n /\ \A j \in 1 .. n : v[j] \in S
  OBVIOUS
<1>2. /\ r \in [1 .. n - 1 -> S] /\ r \in Seq(S) /\ Len(r) = n - 1 /\ DOMAIN r = 1 .. n - 1
      /\ \A j \in 1 .. n - 1 : r[j] = IF j = i THEN v[n] ELSE v[j]
  BY <1>1 DEF RemoveUnordered
<1>3. \A j, k \in 1 .. n : j # k => v[j] # v[k]
  BY <1>1 DEF Distinct
<1> HIDE DEF n, r
<1>4. Distinct(r)
  BY <1>1, <1>2, <1>3 DEF Distinct
<1>5. Elems(r) \subseteq Elems(v) \ {v[i]}
  <2> SUFFICES ASSUME NEW j \in 1 .. n - 1 PROVE r[j] \in Elems(v) \ {v[i]}
    BY <1>2 DEF Elems
  <2>1. PICK k \in 1 .. n : r[j] = v[k] /\ k # i
    BY <1>1, <1>2
  <2> QED BY <1>1, <1>3, <2>1, Zenon DEF Elems
<1>6. Elems(v) \ {v[i]} \subseteq Elems(r)
  <2> SUFFICES ASSUME NEW j \in 1 .. n, j # i PROVE \E k \in 1 .. n - 1 : r[k] = v[j]
    BY <1>1, <1>2 DEF Elems
  <2>1. CASE j = n
    <3>1. i \in 1 .. n - 1 /\ r[i] = v[j]
      BY <1>1, <1>2, <2>1
    <3> QED BY <3>1, Zenon
  <2>2. CASE j # n
    <3>1. j \in 1 .. n - 1 /\ r[j] = v[j]
      BY <1>1, <1>2, <2>2
    <3> QED BY <3>1, Zenon
  <2> QED BY <2>1, <2>2
<1> QED BY <1>2, <1>4, <1>5, <1>6, Zenon DEF n, r

\* A tail is without the head, and keeps the others apart.
LEMMA TailOf ==
    ASSUME NEW S, NEW v \in Seq(S), v # <<>>, Distinct(v)
    PROVE  /\ Head(v) \in Elems(v) /\ Tail(v) \in Seq(S) /\ Len(Tail(v)) = Len(v) - 1
           /\ Distinct(Tail(v)) /\ Elems(Tail(v)) = Elems(v) \ {Head(v)}
<1> DEFINE n == Len(v)
           r == Tail(v)
<1>1. n \in Nat /\ n > 0 /\ DOMAIN v = 1 .. n /\ Head(v) = v[1]
  OBVIOUS
<1>2. /\ r \in Seq(S) /\ Len(r) = n - 1 /\ DOMAIN r = 1 .. n - 1
      /\ \A j \in 1 .. n - 1 : r[j] = v[j + 1]
  BY <1>1
<1>3. \A j, k \in 1 .. n : j # k => v[j] # v[k]
  BY <1>1 DEF Distinct
<1> HIDE DEF n, r
<1>4. Distinct(r)
  BY <1>1, <1>2, <1>3 DEF Distinct
<1>5. Elems(r) \subseteq Elems(v) \ {v[1]}
  <2> SUFFICES ASSUME NEW j \in 1 .. n - 1 PROVE r[j] \in Elems(v) \ {v[1]}
    BY <1>2 DEF Elems
  <2>1. j + 1 \in 1 .. n /\ j + 1 # 1 /\ 1 \in 1 .. n
    BY <1>1
  <2>2. r[j] = v[j + 1] /\ j + 1 \in DOMAIN v
    BY <1>1, <1>2, <2>1
  <2>3. v[j + 1] # v[1]
    BY <1>3, <2>1, Zenon
  <2>4. v[j + 1] \in Elems(v)
    BY <2>2, Zenon DEF Elems
  <2> QED BY <2>2, <2>3, <2>4, Zenon
<1>6. Elems(v) \ {v[1]} \subseteq Elems(r)
  <2> SUFFICES ASSUME NEW j \in 1 .. n, v[j] # v[1] PROVE v[j] \in Elems(r)
    BY <1>1 DEF Elems
  <2>1. j - 1 \in DOMAIN r /\ r[j - 1] = v[j]
    BY <1>1, <1>2
  <2> QED BY <2>1, Zenon DEF Elems
<1>7. v[1] \in Elems(v)
  BY <1>1 DEF Elems
<1> QED BY <1>1, <1>2, <1>4, <1>5, <1>6, <1>7, Zenon DEF n, r

\* A queue holds its head and what its tail holds; what can only be last in the
\* queue can only be last in the tail, and alone when it is the head.
LEMMA HeadAndTail ==
    ASSUME NEW S, NEW q \in Seq(S), q # <<>>
    PROVE  /\ Head(q) \in S /\ Tail(q) \in Seq(S)
           /\ \A t : (\E i \in DOMAIN q : q[i] = t)
                    <=> (Head(q) = t \/ \E i \in DOMAIN Tail(q) : Tail(q)[i] = t)
           /\ \A t : (\A i \in DOMAIN q : q[i] = t => i = Len(q)) =>
                  /\ \A i \in DOMAIN Tail(q) : Tail(q)[i] = t => i = Len(Tail(q))
                  /\ Head(q) = t => Tail(q) = <<>>
<1> DEFINE n == Len(q)
           r == Tail(q)
<1>1. n \in Nat /\ n > 0 /\ DOMAIN q = 1 .. n /\ Head(q) = q[1] /\ q[1] \in S
  OBVIOUS
<1>2. /\ r \in Seq(S) /\ Len(r) = n - 1 /\ DOMAIN r = 1 .. n - 1 /\ (n = 1 => r = <<>>)
      /\ \A j \in 1 .. n - 1 : r[j] = q[j + 1]
  BY <1>1
<1> HIDE DEF n, r
<1>3. \A j \in 1 .. n - 1 : j + 1 \in 1 .. n /\ q[j + 1] = r[j]
  BY <1>1, <1>2
<1>4. \A j \in 1 .. n : j = 1 \/ \E k \in 1 .. n - 1 : r[k] = q[j]
  <2> SUFFICES ASSUME NEW j \in 1 .. n, j # 1 PROVE \E k \in 1 .. n - 1 : r[k] = q[j]
    OBVIOUS
  <2>1. j - 1 \in 1 .. n - 1 /\ r[j - 1] = q[j]
    BY <1>1, <1>2
  <2> QED BY <2>1, Zenon
<1>5. 1 \in 1 .. n
  BY <1>1
<1>6. ASSUME NEW t PROVE (\E i \in 1 .. n : q[i] = t) <=> (q[1] = t \/ \E i \in 1 .. n - 1 : r[i] = t)
  BY <1>3, <1>4, <1>5, Zenon
<1>7. ASSUME NEW t, \A i \in 1 .. n : q[i] = t => i = n
      PROVE  (\A i \in 1 .. n - 1 : r[i] = t => i = n - 1) /\ (q[1] = t => r = <<>>)
  <2>1. ASSUME NEW i \in 1 .. n - 1, r[i] = t PROVE i = n - 1
    <3>1. i + 1 = n
      BY <1>3, <1>7, <2>1, Zenon
    <3> QED BY <1>1, <3>1
  <2>2. q[1] = t => r = <<>>
    BY <1>2, <1>5, <1>7, Zenon
  <2> QED BY <2>1, <2>2
<1> QED BY <1>1, <1>2, <1>6, <1>7, Zenon DEF n, r

\* Two vectors that share nothing, one after the other.
LEMMA Joins ==
    ASSUME NEW S, NEW v \in Seq(S), NEW s \in Seq(S),
           Distinct(v), Distinct(s), Elems(v) \intersect Elems(s) = {}
    PROVE  /\ v \o s \in Seq(S) /\ Len(v \o s) = Len(v) + Len(s)
           /\ Distinct(v \o s) /\ \A x : x \in Elems(v \o s) <=> x \in Elems(v) \/ x \in Elems(s)
<1> DEFINE m == Len(v)
           n == Len(s)
           r == v \o s
<1>0. n \in Nat /\ DOMAIN s = 1 .. n
  OBVIOUS
<1>10. Elems(s) = {s[i] : i \in 1 .. n} /\ \A i, j \in 1 .. n : i # j => s[i] # s[j]
  BY <1>0, Zenon DEF Elems, Distinct
<1>1. m \in Nat /\ DOMAIN v = 1 .. m /\ s \in Seq(S) /\ Len(s) = n
  OBVIOUS
<1>2. /\ r \in Seq(S) /\ Len(r) = m + n /\ DOMAIN r = 1 .. m + n
      /\ \A j \in 1 .. m : r[j] = v[j]
      /\ \A j \in 1 .. m + n : j > m => r[j] = s[j - m]
  BY <1>0, <1>1
<1>3. \A j, k \in 1 .. m : j # k => v[j] # v[k]
  BY <1>1 DEF Distinct
<1>4. \A j \in 1 .. m, k \in 1 .. n : v[j] # s[k]
  BY <1>0, <1>1 DEF Elems
<1> HIDE DEF m, n, r
<1>5. Distinct(r)
  <2> SUFFICES ASSUME NEW j \in 1 .. m + n, NEW k \in 1 .. m + n, j < k PROVE r[j] # r[k]
    BY <1>0, <1>1, <1>2 DEF Distinct
  <2>1. CASE k <= m
    BY <1>0, <1>1, <1>2, <1>3, <2>1
  <2>2. CASE j <= m /\ k > m
    <3>1. j \in 1 .. m /\ k - m \in 1 .. n /\ r[j] = v[j] /\ r[k] = s[k - m]
      BY <1>0, <1>1, <1>2, <2>2
    <3> QED BY <1>4, <3>1, Zenon
  <2>3. CASE j > m
    <3>1. j - m \in 1 .. n /\ k - m \in 1 .. n /\ j - m # k - m /\ r[j] = s[j - m] /\ r[k] = s[k - m]
      BY <1>0, <1>1, <1>2, <2>3
    <3> QED BY <1>10, <3>1, Zenon
  <2> QED BY <1>0, <1>1, <2>1, <2>2, <2>3
<1>6. Elems(r) \subseteq Elems(v) \union {s[i] : i \in 1 .. n}
  <2> SUFFICES ASSUME NEW j \in 1 .. m + n PROVE r[j] \in Elems(v) \union {s[i] : i \in 1 .. n}
    BY <1>2 DEF Elems
  <2>1. CASE j <= m
    <3>1. j \in DOMAIN v /\ r[j] = v[j]
      BY <1>0, <1>1, <1>2, <2>1
    <3> QED BY <3>1, Zenon DEF Elems
  <2>2. CASE j > m
    <3>1. j - m \in 1 .. n /\ r[j] = s[j - m]
      BY <1>0, <1>1, <1>2, <2>2
    <3> QED BY <3>1, Zenon
  <2> QED BY <1>0, <1>1, <2>1, <2>2
<1>7. \A i \in 1 .. m : i \in DOMAIN r /\ r[i] = v[i]
  BY <1>0, <1>1, <1>2
<1>8. \A i \in 1 .. n : m + i \in DOMAIN r /\ r[m + i] = s[i]
  BY <1>0, <1>1, <1>2
<1>9. Elems(v) \union {s[i] : i \in 1 .. n} \subseteq Elems(r)
  BY <1>1, <1>7, <1>8 DEF Elems
<1> QED BY <1>2, <1>5, <1>6, <1>9, <1>10, Zenon DEF m, n, r

-----------------------------------------------------------------------------
(* Workers for a pool that grows                                           *)

\* What OptionsAssumption says of the constants.
LEMMA Constants ==
    /\ MaxWorkers \in Nat /\ DefaultThreshold \in Nat
    /\ Clients \intersect Workers = {} /\ None \notin Pushers /\ None \notin {"start", "task", "stop"}
    /\ ShrinkThread \notin Pushers \union {ShutdownThread} /\ ShutdownThread \notin Pushers
    /\ Workers \subseteq Pushers
BY OptionsAssumption, Zenon DEF Pushers

\* Sets of workers are finite.
LEMMA WorkersFinite ==
    ASSUME NEW S \in SUBSET Workers
    PROVE  IsFiniteSet(S) /\ Cardinality(S) \in Nat
<1>1. IsFiniteSet(Workers)
  BY Constants, FS_Interval DEF Workers
<1> QED BY <1>1, FS_Subset, FS_CardinalityType, Zenon

\* Fresh finds n different workers when as many are unused.
LEMMA FreshWorkers ==
    ASSUME NEW n \in Nat, n <= Cardinality(Unused)
    PROVE  /\ Fresh(n) \in [1 .. n -> Unused]
           /\ \A i, j \in 1 .. n : i # j => Fresh(n)[i] # Fresh(n)[j]
<1>1. IsFiniteSet(Unused) /\ Cardinality(Unused) \in Nat
  BY WorkersFinite, Zenon DEF Unused
<1>2. PICK f \in [1 .. Cardinality(Unused) -> Unused] : \A i, j \in 1 .. Cardinality(Unused) : f[i] = f[j] => i = j
  <2>1. Bijection(1 .. Cardinality(Unused), Unused) # {}
    BY <1>1, FS_CardinalityType, Zenon DEF ExistsBijection
  <2> QED BY <2>1, Zenon DEF Bijection, Injection, IsInjective
<1> DEFINE g == [i \in 1 .. n |-> f[i]]
<1>3. g \in [1 .. n -> Unused] /\ \A i, j \in 1 .. n : i # j => g[i] # g[j]
  BY <1>1, <1>2
<1> HIDE DEF g
<1> QED BY <1>3, Zenon DEF Fresh

\* n different workers are n workers.
LEMMA DistinctCount ==
    ASSUME NEW n \in Nat, NEW S, NEW s \in [1 .. n -> S], \A i, j \in 1 .. n : i # j => s[i] # s[j]
    PROVE  LET T == {s[i] : i \in 1 .. n} IN IsFiniteSet(T) /\ Cardinality(T) = n
<1> DEFINE T == {s[i] : i \in 1 .. n}
<1>1. s \in Bijection(1 .. n, T)
  <2>1. s \in [1 .. n -> T] /\ \A t \in T : \E i \in 1 .. n : s[i] = t
    OBVIOUS
  <2>2. IsInjective(s)
    BY Zenon DEF IsInjective
  <2> HIDE DEF T
  <2> QED BY <2>1, <2>2, Zenon DEF Bijection, Injection, Surjection
<1>2. IsFiniteSet(1 .. n) /\ Cardinality(1 .. n) = n
  BY FS_Interval
<1> HIDE DEF T
<1>3. ExistsBijection(1 .. n, T)
  BY <1>1, Zenon DEF ExistsBijection
<1>4. IsFiniteSet(T) /\ Cardinality(T) = n
  BY <1>2, <1>3, FS_Bijection, Zenon
<1> QED BY <1>4 DEF T

-----------------------------------------------------------------------------
(* Selectors                                                               *)

\* A set of naturals that is not empty has a least element.
LEMMA LeastNat ==
    ASSUME NEW T \in SUBSET Nat, T # {}
    PROVE  \E x \in T : \A y \in T : x <= y
<1> DEFINE R == OpToRel(<, Nat)
<1>1. IsWellFoundedOn(R, Nat)
  BY NatLessThanWellFounded, Zenon
<1>2. PICK x \in T : \A y \in T : ~(<<y, x>> \in R)
  <2> HIDE DEF R
  <2> QED BY <1>1, WFMin, Zenon
<1>3. \A y \in T : y < x => <<y, x>> \in R
  BY DEF OpToRel
<1>4. \A y \in T : ~(y < x)
  BY <1>2, <1>3, Zenon
<1> HIDE <1>1, <1>2, <1>3 DEF R
<1> QED BY <1>4

\* The next index is valid for vector v.
Valid(v, n) == n \in Nat /\ (v # <<>> => n < Len(v))

\* A selector finds a worker of the vector and leaves a valid index behind.
LEMMA Selected ==
    ASSUME NEW v \in Seq(Workers), NEW n, Valid(v, n), NEW choice, queue \in [Workers -> Seq({"start", "task", "stop"})]
    PROVE  LET s == Select(v, n, choice) IN
           /\ IF v = <<>> THEN s.w = choice ELSE s.w \in Elems(v)
           /\ Valid(v, s.num)
<1> DEFINE s == Select(v, n, choice)
<1> SUFFICES (IF v = <<>> THEN s.w = choice ELSE s.w \in Elems(v)) /\ Valid(v, s.num)
  OBVIOUS
<1>1. CASE v = <<>>
  BY <1>1 DEF Select, Valid
<1>2. CASE v # <<>> /\ opts.sequential
  <2>1. /\ s = sequential_selector(v, n) /\ n \in Nat /\ n < Len(v) /\ Len(v) \in Nat
        /\ n + 1 \in DOMAIN v
    BY <1>2 DEF Select, Valid
  <2> HIDE DEF s
  <2>2. s.w = v[n + 1] /\ s.num = IF n + 1 = Len(v) THEN 0 ELSE n + 1
    BY <2>1 DEF sequential_selector
  <2>3. s.w \in Elems(v)
    BY <2>1, <2>2, Zenon DEF Elems
  <2>4. s.num \in Nat /\ s.num < Len(v)
    BY <2>1, <2>2
  <2> QED BY <1>2, <2>3, <2>4, Zenon DEF Valid
<1>3. CASE v # <<>> /\ ~opts.sequential
  <2> DEFINE empty == {i \in DOMAIN v : Size(v[i]) = 0}
             first == CHOOSE i \in empty : \A j \in empty : i <= j
             least == CHOOSE i \in DOMAIN v : \A j \in DOMAIN v :
                        Size(v[i]) < Size(v[j]) \/ (Size(v[i]) = Size(v[j]) /\ i <= j)
             last == IF empty = {} THEN Len(v) + 1 ELSE first
             grow == \E i \in 1 .. last - 1 : Full(v[i])
             sizes == {Size(v[i]) : i \in DOMAIN v}
  <2>0. DOMAIN v \in SUBSET Nat /\ DOMAIN v # {} /\ \A i \in DOMAIN v : v[i] \in Workers /\ Size(v[i]) \in Nat
    <3>1. DOMAIN v = 1 .. Len(v) /\ Len(v) \in Nat /\ Len(v) # 0 /\ \A i \in DOMAIN v : v[i] \in Workers
      BY <1>3
    <3>2. \A w \in Workers : Size(w) \in Nat
      BY DEF Size
    <3>3. 1 .. Len(v) \subseteq Nat /\ 1 \in 1 .. Len(v)
      BY <3>1
    <3> QED BY <3>1, <3>2, <3>3, Zenon
  <2>1. s = least_full_selector(v, n)
    BY <1>3, Zenon DEF Select
  <2>2. least_full_selector(v, n) =
            [w |-> IF empty = {} THEN v[least] ELSE v[last], num |-> n, grow |-> grow]
    BY DEF least_full_selector
  <2>3. CASE empty # {}
    <3>1. empty \in SUBSET Nat /\ empty \subseteq DOMAIN v
      BY <2>0, Zenon
    <3> HIDE DEF empty, least, grow, s
    <3>2. \E i \in empty : \A j \in empty : i <= j
      BY <2>3, <3>1, LeastNat, Zenon
    <3>3. first \in empty
      BY <3>2, Zenon
    <3>4. last = first
      BY <2>3, Zenon
    <3> HIDE DEF first, last
    <3>5. s.w = v[first] /\ s.num = n
      BY <2>1, <2>2, <2>3, <3>4
    <3> QED BY <1>3, <3>1, <3>3, <3>5, Zenon DEF Elems
  <2>4. CASE empty = {}
    <3>1. PICK m \in sizes : \A k \in sizes : m <= k
      <4>1. sizes \in SUBSET Nat /\ sizes # {}
        BY <2>0, Zenon
      <4> HIDE DEF sizes
      <4> QED BY <4>1, LeastNat, Zenon
    <3> DEFINE smallest == {i \in DOMAIN v : Size(v[i]) = m}
    <3>2. PICK i \in smallest : \A j \in smallest : i <= j
      <4>1. smallest \in SUBSET Nat /\ smallest # {}
        BY <2>0, <3>1, Zenon
      <4> HIDE DEF smallest
      <4> QED BY <4>1, LeastNat, Zenon
    <3> HIDE DEF empty, first, least, last, grow, s
    <3>3. ASSUME NEW j \in DOMAIN v PROVE Size(v[i]) < Size(v[j]) \/ (Size(v[i]) = Size(v[j]) /\ i <= j)
      <4>1. m = Size(v[i]) /\ m <= Size(v[j]) /\ (Size(v[j]) = m => i <= j)
        BY <3>1, <3>2, Zenon
      <4>2. Size(v[i]) \in Nat /\ Size(v[j]) \in Nat
        BY <2>0, <3>2, Zenon
      <4> HIDE DEF smallest, sizes
      <4> QED BY <4>1, <4>2
    <3>4. i \in DOMAIN v
      BY <3>2, Zenon
    <3>5. least \in DOMAIN v
      BY <3>3, <3>4, Zenon DEF least
    <3> HIDE DEF smallest, sizes
    <3>6. s.w = v[least] /\ s.num = n
      BY <2>1, <2>2, <2>4
    <3> QED BY <1>3, <3>5, <3>6, Zenon DEF Elems
  <2> QED BY <2>3, <2>4, Zenon
<1> QED BY <1>1, <1>2, <1>3, Zenon

-----------------------------------------------------------------------------
(* The inductive invariant                                                 *)

VecInv ==
    /\ static \in Seq(Workers) /\ dynamic \in Seq(Workers)
    /\ Distinct(static) /\ Distinct(dynamic) /\ Elems(static) \intersect Elems(dynamic) = {}

WorkTypes ==
    /\ refs \in [Workers -> Nat]
    /\ queue \in [Workers -> Seq({"start", "task", "stop"})]
    /\ cur \in [Workers -> {"start", "task", "stop", None}]
    /\ state \in [Workers -> {"unused", "up", "stopping", "detached", "ended"}]

PushTypes ==
    /\ pc \in [Pushers -> {"idle", "lock", "selected", "join"}]
    /\ sel \in [Pushers -> Workers \union {None}]
    /\ pushes \in 0 .. opts.pushes

ControlTypes ==
    /\ num \in [static : Nat, dynamic : Nat] /\ idle \subseteq Workers
    /\ shrink \in {"scheduled", "fired", "scan", "join", "return", "gone"}
    /\ idx \in Nat /\ victim \in Workers \union {None} /\ joined \in Workers \union {None}
    /\ shut \in {"up", "del", "wait", "clean", "join", "done"}
    /\ removed \in BOOLEAN /\ shutting_down \in BOOLEAN /\ busy_removed \in BOOLEAN /\ leaked \in BOOLEAN

OptsInv ==
    /\ opts.inc \in Nat /\ opts.max \in Nat /\ opts.threshold \in Nat /\ opts.pushes \in Nat
    /\ opts.sequential \in BOOLEAN

\* The vectors hold a reference to w, unless the shrink callback has dropped it
\* and waits for the thread of w.
Kept(w) == w \in Elems(static) \union Elems(dynamic) /\ ~(shrink = "join" /\ w = victim)

\* The pushers that hold one, from the choice of w until the task is queued.
Holders(w) == {a \in Pushers : pc[a] = "selected" /\ sel[a] = w}

\* Every reference to a worker is accounted for.
RefsInv ==
    \A w \in Workers : /\ IsFiniteSet(Holders(w))
                       /\ refs[w] = Cardinality(Holders(w)) + (IF Kept(w) THEN 1 ELSE 0)

\* A worker pushes only from within a task.
PushInv ==
    /\ \A a \in Pushers : pc[a] \in {"selected", "join"} => sel[a] \in Workers
    /\ \A w \in Workers : pc[w] # "idle" => cur[w] = "task"

\* StopIsLast for one worker, which has no stop task before its last reference
\* goes.
StopOf(w) ==
    /\ \A i \in DOMAIN queue[w] : queue[w][i] = "stop" => i = Len(queue[w])
    /\ cur[w] = "stop" => queue[w] = <<>>
    /\ state[w] \in {"unused", "ended"} => queue[w] = <<>> /\ cur[w] = None
    /\ state[w] # "up" <=> refs[w] = 0
    /\ state[w] = "up" => ~StopLeft(w)

StopInv == \A w \in Workers : StopOf(w)

\* Without a busy worker removed, and before the shutdown, nobody joins a worker
\* but the shrink callback, which joins one that has nothing but its stop task.
BusyInv ==
    ~busy_removed /\ shut = "up" =>
        /\ \A a \in Pushers : pc[a] # "join" /\ (pc[a] = "selected" => Kept(sel[a]))
        /\ shrink = "join" =>
            cur[victim] # "task" /\ \A i \in DOMAIN queue[victim] : queue[victim][i] # "task"

\* How far the shrink callback and the shutdown can be at a time.
LifeInv ==
    /\ shutting_down <=> shut # "up"
    /\ shrink \in {"scan", "join"} => shut = "up"
    /\ shut \in {"clean", "join", "done"} => shrink = "gone"
    /\ shrink = "join" => idx + 1 \in DOMAIN dynamic /\ victim = dynamic[idx + 1]
    /\ removed => shrink \in {"scan", "join"}
    /\ leaked => shrink = "gone"
    /\ shut = "join" => joined \in Workers

\* The next indices are valid, but for the dynamic one after a removal.
NumInv ==
    shut = "up" => Valid(static, num.static) /\ (~removed => Valid(dynamic, num.dynamic))

\* The workers that refer to the pool, and the other references to it.
Referring == {w \in Workers : state[w] = "up" \/ StopLeft(w)}
Others == (IF shut = "done" THEN 0 ELSE 1) + (IF shrink # "gone" \/ leaked THEN 1 ELSE 0)

\* What does not depend on the callback's and the shutdown's progress.
Core ==
    /\ VecInv /\ WorkTypes /\ PushTypes /\ OptsInv /\ SizeBound
    /\ RefsInv /\ PushInv /\ StopInv /\ BusyInv

Control == ControlTypes /\ LifeInv /\ NumInv

IInv == Core /\ Control /\ PoolRefsExact

\* The references to the pool, in those terms.
LEMMA PoolRefs == PoolRefsExact <=> prefs = Others + Cardinality(Referring)
BY Zenon DEF PoolRefsExact, Others, Referring

\* The same of the next state.
LEMMA PoolRefsNext == PoolRefsExact' <=> prefs' = Others' + Cardinality(Referring)'
BY Zenon DEF PoolRefsExact, Others, Referring

\* Both are numbers.
LEMMA ReferringCount == Cardinality(Referring) \in Nat /\ Others \in 0 .. 2
<1>1. Cardinality(Referring) \in Nat
  BY WorkersFinite, Zenon DEF Referring
<1> QED BY <1>1 DEF Others

\* The type invariant follows.
LEMMA TypeFollows == IInv => TypeOK
<1> SUFFICES ASSUME IInv PROVE TypeOK
  OBVIOUS
<1>1. prefs \in Nat
  <2>1. prefs = Others + Cardinality(Referring)
    BY PoolRefs, Zenon DEF IInv
  <2> QED BY <2>1, ReferringCount
<1>2. Unlocked /\ ~shutting_down =>
        /\ static # <<>> => num.static < Len(static)
        /\ dynamic # <<>> => num.dynamic < Len(dynamic)
  BY Zenon DEF IInv, Control, LifeInv, NumInv, Valid, Unlocked
<1>3. {removed, shutting_down, busy_removed, leaked} \subseteq BOOLEAN
  BY Zenon DEF IInv, Control, ControlTypes
<1> QED BY <1>1, <1>2, <1>3, Zenon DEF IInv, Core, Control, VecInv, WorkTypes, PushTypes, ControlTypes, TypeOK

\* And so does StopIsLast.
LEMMA StopFollows == StopInv => StopIsLast
BY Zenon DEF StopInv, StopOf, StopIsLast

\* Nobody joins or waits in a circle before that.
LEMMA NoCircle ==
    ASSUME IInv, ~busy_removed, ~shutting_down
    PROVE  ~Deadlocked
<1>1. /\ shut = "up"
      /\ \A a \in Pushers : pc[a] # "join"
      /\ shrink = "join" => cur[victim] # "task" /\ victim \in Workers
  <2>1. shut = "up"
    BY Zenon DEF IInv, Control, LifeInv
  <2>2. shrink = "join" => victim \in Workers
    BY DEF IInv, Control, LifeInv, Core, VecInv
  <2> QED BY <2>1, <2>2, Zenon DEF IInv, Core, BusyInv
<1>2. shrink = "join" => pc[victim] = "idle"
  BY <1>1, Zenon DEF IInv, Core, PushInv
<1>3. \A b \in Threads : ~(shrink = "join" /\ Waits(victim, b))
  BY <1>1, <1>2, Constants, Zenon DEF Waits, Threads, Pushers
<1>4. \A a, b \in Threads : Waits(a, b) => b = ShrinkThread \/ (a = ShrinkThread /\ shrink = "join" /\ b = victim)
  BY <1>1, Zenon DEF Waits
<1>5. SUFFICES ASSUME NEW S \in SUBSET Waiting, S # {}, \A a \in S : \E b \in S : Waits(a, b) PROVE FALSE
  BY Zenon DEF Deadlocked
<1>6. \A a \in S : a \in Threads
  BY Zenon DEF Waiting
<1>7. ShrinkThread \in S => FALSE
  <2> SUFFICES ASSUME ShrinkThread \in S PROVE FALSE
    OBVIOUS
  <2>1. PICK b \in S : Waits(ShrinkThread, b)
    BY <1>5, Zenon
  <2>2. b = victim /\ shrink = "join"
    BY <2>1, <1>1, Constants, Zenon DEF Waits
  <2>3. PICK d \in S : Waits(b, d)
    BY <1>5, Zenon
  <2> QED BY <1>3, <1>6, <2>2, <2>3, Zenon
<1> QED BY <1>4, <1>5, <1>6, <1>7, Zenon

-----------------------------------------------------------------------------
(* Steps of the callback and of the shutdown that drop no worker           *)

\* They leave the vectors, the workers and the pushers alone.
CoreSame ==
    /\ UNCHANGED <<opts, static, dynamic, refs, queue, cur, state, pc, sel, pushes, victim, busy_removed>>
    /\ shrink' = "join" <=> shrink = "join"
    /\ shut' = "up" => shut = "up"

\* And with them what is said of those.
LEMMA CoreKept ==
    ASSUME Core, CoreSame
    PROVE  Core' /\ Referring' = Referring
<1>1. VecInv' /\ WorkTypes' /\ PushTypes' /\ OptsInv' /\ SizeBound' /\ PushInv'
  <2>1. VecInv'
    <3>1. VecInv /\ static' = static /\ dynamic' = dynamic
      BY Zenon DEF Core, CoreSame
    <3> QED BY <3>1 DEF VecInv, Elems, Distinct
  <2>2. WorkTypes'
    BY Zenon DEF Core, CoreSame, WorkTypes
  <2>3. PushTypes' /\ OptsInv' /\ SizeBound'
    BY Zenon DEF Core, CoreSame, PushTypes, OptsInv, SizeBound
  <2>4. PushInv'
    BY Zenon DEF Core, CoreSame, PushInv
  <2> QED BY <2>1, <2>2, <2>3, <2>4, Zenon
<1>2. \A w : (Kept(w)' <=> Kept(w)) /\ Holders(w)' = Holders(w) /\ (StopLeft(w)' <=> StopLeft(w))
  BY Zenon DEF CoreSame, Kept, Holders, Elems, StopLeft
<1>3. RefsInv'
  BY <1>2, Zenon DEF Core, CoreSame, RefsInv
<1>4. StopInv'
  BY <1>2, Zenon DEF Core, CoreSame, StopInv, StopOf
<1>5. BusyInv'
  BY <1>2, Zenon DEF Core, CoreSame, BusyInv
<1>6. Referring' = Referring
  BY <1>2, Zenon DEF CoreSame, Referring
<1> QED BY <1>1, <1>3, <1>4, <1>5, <1>6, Zenon DEF Core

\* When those steps also keep the references to the pool exact.
LEMMA ControlStep ==
    ASSUME IInv, CoreSame, Control', prefs' - prefs = Others' - Others, prefs' \in Int
    PROVE  IInv'
<1>1. Core' /\ Referring' = Referring
  BY CoreKept, Zenon DEF IInv
<1>2. prefs = Others + Cardinality(Referring)
  BY PoolRefs, Zenon DEF IInv
<1>3. prefs' = Others' + Cardinality(Referring)
  <2>1. Others' \in 0 .. 2
    BY DEF Others
  <2> QED BY <1>2, <2>1, ReferringCount
<1> QED BY <1>1, <1>3, PoolRefsNext, Zenon DEF IInv

\* The types of what they read.
LEMMA ControlFacts ==
    ASSUME IInv
    PROVE  /\ prefs \in Nat /\ Others \in 0 .. 2 /\ Others' \in 0 .. 2
           /\ num \in [static : Nat, dynamic : Nat] /\ idx \in Nat /\ idle \subseteq Workers
           /\ static \in Seq(Workers) /\ dynamic \in Seq(Workers)
<1>1. prefs = Others + Cardinality(Referring)
  BY PoolRefs, Zenon DEF IInv
<1>2. prefs \in Nat /\ Others \in 0 .. 2
  BY <1>1, ReferringCount
<1>3. Others' \in 0 .. 2
  BY DEF Others
<1> QED BY <1>2, <1>3, Zenon DEF IInv, Core, Control, ControlTypes, VecInv

\* The callback starts.
LEMMA KeepsFires == ASSUME IInv, shrink_fires PROVE IInv'
<1>1. CoreSame
  BY Zenon DEF shrink_fires, CoreSame, pool, work, push, shutdown
<1>2. Control'
  BY Zenon DEF IInv, Control, ControlTypes, LifeInv, NumInv, Valid, shrink_fires, pool, shutdown
<1>3. prefs' = prefs /\ Others' = Others
  BY Zenon DEF shrink_fires, Others, shutdown
<1> QED BY <1>1, <1>2, <1>3, ControlFacts, ControlStep

\* It takes the lock, or gives up its reference to a pool that shuts down.
LEMMA KeepsLocks == ASSUME IInv, shrink_locks PROVE IInv'
<1>0. /\ shutting_down <=> shut # "up"
      /\ leaked = FALSE /\ shutting_down \in BOOLEAN
  BY Zenon DEF IInv, Control, ControlTypes, LifeInv, shrink_locks
<1>1. CoreSame
  BY Zenon DEF shrink_locks, CoreSame, pool, work, push, shutdown
<1>2. Control'
  <2>1. ControlTypes'
    BY Zenon DEF IInv, Control, ControlTypes, shrink_locks, pool, shutdown
  <2>2. LifeInv'
    BY <1>0, Zenon DEF IInv, Control, LifeInv, shrink_locks, pool, shutdown
  <2>3. NumInv'
    BY Zenon DEF IInv, Control, LifeInv, NumInv, Valid, shrink_locks, pool, shutdown
  <2> QED BY <2>1, <2>2, <2>3, Zenon DEF Control
<1>3. CASE shutting_down
  <2>1. prefs' = prefs - 1 /\ Others' = Others - 1
    BY <1>0, <1>3 DEF shrink_locks, Others, shutdown
  <2> QED BY <1>1, <1>2, <2>1, ControlFacts, ControlStep
<1>4. CASE ~shutting_down
  <2>1. prefs' = prefs /\ Others' = Others
    BY <1>4, Zenon DEF shrink_locks, Others, shutdown
  <2> QED BY <1>1, <1>2, <2>1, ControlFacts, ControlStep
<1> QED BY <1>3, <1>4, Zenon

\* It passes a worker that is not idle.
LEMMA KeepsKeeps == ASSUME IInv, shrink_keeps PROVE IInv'
<1>0. idx' \in Nat
  BY ControlFacts DEF shrink_keeps
<1>1. CoreSame
  BY Zenon DEF shrink_keeps, CoreSame, pool, work, push, shutdown
<1>2. Control'
  BY <1>0, Zenon DEF IInv, Control, ControlTypes, LifeInv, NumInv, Valid, shrink_keeps, pool, shutdown
<1>3. prefs' = prefs /\ Others' = Others
  BY Zenon DEF shrink_keeps, Others, shutdown
<1> QED BY <1>1, <1>2, <1>3, ControlFacts, ControlStep

\* At the end of its loop it makes the next index valid.
LEMMA KeepsDone == ASSUME IInv, shrink_done PROVE IInv'
<1>1. CoreSame
  BY Zenon DEF shrink_done, CoreSame, pool, work, push, shutdown
<1>2. /\ num' \in [static : Nat, dynamic : Nat] /\ num'.static = num.static
      /\ num'.dynamic \in Nat
      /\ removed /\ num.dynamic >= Len(dynamic) => num'.dynamic = 0
      /\ ~(removed /\ num.dynamic >= Len(dynamic)) => num' = num
  BY ControlFacts DEF shrink_done
<1>3. NumInv'
  <2> SUFFICES ASSUME shut = "up" PROVE Valid(static, num'.static) /\ Valid(dynamic, num'.dynamic)
    BY Zenon DEF NumInv, Valid, shrink_done, shutdown
  <2>1. Valid(static, num.static) /\ (~removed => Valid(dynamic, num.dynamic))
    BY Zenon DEF IInv, Control, NumInv
  <2>2. Len(dynamic) \in Nat /\ (dynamic # <<>> => Len(dynamic) > 0) /\ num.dynamic \in Nat
    BY ControlFacts
  <2>3. CASE removed
    <3>1. dynamic # <<>> => num'.dynamic < Len(dynamic)
      BY <1>2, <2>2, <2>3
    <3> QED BY <1>2, <2>1, <3>1, Zenon DEF Valid
  <2>4. CASE ~removed
    BY <1>2, <2>1, <2>4, Zenon
  <2> QED BY <2>3, <2>4, Zenon
<1>4. ControlTypes' /\ LifeInv'
  <2>1. 0 \in Nat
    OBVIOUS
  <2> QED BY <1>2, <2>1, Zenon DEF IInv, Control, ControlTypes, LifeInv, shrink_done, shutdown
<1>5. prefs' = prefs /\ Others' = Others
  BY Zenon DEF shrink_done, Others, shutdown
<1>6. Control'
  BY <1>3, <1>4, Zenon DEF Control
<1> QED BY <1>1, <1>5, <1>6, ControlFacts, ControlStep

\* It returns, to be scheduled again or deleted by the shutdown.
LEMMA KeepsReturns == ASSUME IInv, shrink_returns PROVE IInv'
<1>1. CoreSame
  BY Zenon DEF shrink_returns, CoreSame, pool, work, push
<1>2. Control'
  BY Zenon DEF IInv, Control, ControlTypes, LifeInv, NumInv, Valid, shrink_returns, pool
<1>3. prefs' = prefs /\ Others' = Others
  BY Zenon DEF IInv, Control, LifeInv, shrink_returns, Others
<1> QED BY <1>1, <1>2, <1>3, ControlFacts, ControlStep

\* A worker becomes idle.
LEMMA KeepsTime == ASSUME NEW w \in Workers, IInv, time_passes(w) PROVE IInv'
<1>1. CoreSame
  BY Zenon DEF time_passes, CoreSame, work, push, shrinker, shutdown
<1>2. Control'
  BY Zenon DEF IInv, Control, ControlTypes, LifeInv, NumInv, Valid, time_passes, shrinker, shutdown
<1>3. prefs' = prefs /\ Others' = Others
  BY Zenon DEF time_passes, Others, shrinker, shutdown
<1> QED BY <1>1, <1>2, <1>3, ControlFacts, ControlStep

\* The shutdown begins, when the callback does not hold the lock.
LEMMA KeepsBegins == ASSUME IInv, shutdown_begins PROVE IInv'
<1>1. CoreSame
  BY Zenon DEF shutdown_begins, CoreSame, pool, work, push, shrinker
<1>2. Control'
  BY Zenon DEF IInv, Control, ControlTypes, LifeInv, NumInv, Unlocked, shutdown_begins, pool, shrinker
<1>3. prefs' = prefs /\ Others' = Others
  BY Zenon DEF shutdown_begins, Others, shrinker
<1> QED BY <1>1, <1>2, <1>3, ControlFacts, ControlStep

\* It deletes the scheduled callback and drops its reference, or waits for it.
LEMMA KeepsDel == ASSUME IInv, shutdown_del PROVE IInv'
<1>0. /\ shut = "del" /\ (shutting_down <=> shut # "up") /\ (leaked => shrink = "gone")
      /\ shrink \in {"scheduled", "fired", "scan", "join", "return", "gone"}
      /\ shrink \notin {"scan", "join"} /\ leaked \in BOOLEAN
      /\ UNCHANGED <<opts, pool, work, push, idx, removed, victim, busy_removed, joined, shutting_down, leaked>>
  BY Zenon DEF IInv, Control, ControlTypes, LifeInv, shutdown_del
<1>1. \/ shrink = "scheduled" /\ shut' = "clean" /\ shrink' = "gone" /\ prefs' = prefs - 1
      \/ shrink = "gone" /\ shut' = "clean" /\ shrink' = shrink /\ prefs' = prefs
      \/ shut' = "wait" /\ shrink' = shrink /\ prefs' = prefs
  BY <1>0 DEF shutdown_del
<1>2. CoreSame
  BY <1>0, <1>1, Zenon DEF CoreSame, pool, work, push
<1>3. Control'
  <2>1. ControlTypes'
    BY <1>0, <1>1, Zenon DEF IInv, Control, ControlTypes, pool
  <2>2. LifeInv'
    BY <1>0, <1>1, Zenon DEF IInv, Control, LifeInv, pool
  <2>3. NumInv'
    BY <1>1, Zenon DEF NumInv
  <2> QED BY <2>1, <2>2, <2>3, Zenon DEF Control
<1>4. prefs' - prefs = Others' - Others /\ prefs' \in Int
  <2>1. prefs \in Nat
    BY ControlFacts, Zenon
  <2> QED BY <1>0, <1>1, <2>1 DEF Others
<1> QED BY <1>2, <1>3, <1>4, ControlStep, Zenon

\* The callback that it waits for is over.
LEMMA KeepsWaited == ASSUME IInv, shutdown_waited PROVE IInv'
<1>1. CoreSame
  BY Zenon DEF shutdown_waited, CoreSame, pool, work, push, shrinker
<1>2. Control'
  BY Zenon DEF IInv, Control, ControlTypes, LifeInv, NumInv, shutdown_waited, pool, shrinker
<1>3. prefs' = prefs /\ Others' = Others
  BY Zenon DEF shutdown_waited, Others, shrinker
<1> QED BY <1>1, <1>2, <1>3, ControlFacts, ControlStep

\* It drops the creator's reference.
LEMMA KeepsShutdownDone == ASSUME IInv, shutdown_done PROVE IInv'
<1>1. CoreSame
  BY Zenon DEF shutdown_done, CoreSame, pool, work, push, shrinker
<1>2. Control'
  BY Zenon DEF IInv, Control, ControlTypes, LifeInv, NumInv, shutdown_done, pool, shrinker
<1>3. prefs' = prefs - 1 /\ Others' = Others - 1
  BY DEF shutdown_done, Others, shrinker
<1> QED BY <1>1, <1>2, <1>3, ControlFacts, ControlStep

-----------------------------------------------------------------------------
(* What a step leaves alone                                                *)

\* A step that leaves the vectors alone.
LEMMA VectorsSame ==
    ASSUME Core, UNCHANGED <<opts, static, dynamic>>
    PROVE  VecInv' /\ OptsInv' /\ SizeBound'
<1>1. VecInv /\ static' = static /\ dynamic' = dynamic
  BY Zenon DEF Core
<1>2. VecInv'
  BY <1>1 DEF VecInv, Elems, Distinct
<1> QED BY <1>2, Zenon DEF Core, OptsInv, SizeBound

\* A step that leaves the workers alone.
LEMMA WorkersSame ==
    ASSUME Core, UNCHANGED <<refs, queue, cur, state>>
    PROVE  WorkTypes' /\ StopInv' /\ Referring' = Referring
<1>1. \A w : StopLeft(w)' <=> StopLeft(w)
  BY Zenon DEF StopLeft
<1>2. WorkTypes'
  BY Zenon DEF Core, WorkTypes
<1> QED BY <1>1, <1>2, Zenon DEF Core, StopInv, StopOf, Referring

\* A step that gives nobody a reference and drops none.
LEMMA RefsSame ==
    ASSUME Core, UNCHANGED <<refs, static, dynamic, shrink, victim>>,
           \A w \in Workers : Holders(w)' = Holders(w)
    PROVE  RefsInv' /\ \A w : Kept(w)' <=> Kept(w)
<1>1. \A w : Kept(w)' <=> Kept(w)
  BY Zenon DEF Kept, Elems
<1> QED BY <1>1, Zenon DEF Core, RefsInv

\* A step of neither the callback nor the shutdown.
LEMMA ControlSame ==
    ASSUME Control, UNCHANGED <<num, idle, static, dynamic>>, UNCHANGED shrinker, UNCHANGED shutdown
    PROVE  Control' /\ Others' = Others
<1>1. ControlTypes'
  BY Zenon DEF Control, ControlTypes, shrinker, shutdown
<1>2. LifeInv'
  BY Zenon DEF Control, LifeInv, shrinker, shutdown
<1>3. NumInv'
  BY Zenon DEF Control, NumInv, Valid, shrinker, shutdown
<1>4. Others' = Others
  BY Zenon DEF Others, shrinker, shutdown
<1> QED BY <1>1, <1>2, <1>3, <1>4, Zenon DEF Control

\* The parts together, for a step that changes the number of workers that refer to the pool by k.
LEMMA Assembled ==
    ASSUME IInv, Core', Control', Others' = Others, NEW k \in Int, prefs' = prefs + k,
           Cardinality(Referring)' = Cardinality(Referring) + k
    PROVE  IInv'
<1>1. prefs = Others + Cardinality(Referring)
  BY PoolRefs, Zenon DEF IInv
<1>2. prefs' = Others' + Cardinality(Referring)'
  BY <1>1, ReferringCount
<1> QED BY <1>2, PoolRefsNext, Zenon DEF IInv

\* The state of a worker whose thread ends or has been joined.
LEMMA StateMoved ==
    ASSUME Core, NEW w \in Workers, NEW x \in {"unused", "ended"},
           state[w] \in {"stopping", "detached", "ended"}, queue[w] = <<>>, cur[w] = None,
           state' = [state EXCEPT ![w] = x], UNCHANGED <<refs, queue, cur>>
    PROVE  WorkTypes' /\ StopInv' /\ Referring' = Referring
<1>1. \A v : StopLeft(v)' <=> StopLeft(v)
  BY Zenon DEF StopLeft
<1>2. WorkTypes'
  BY DEF Core, WorkTypes
<1>3. state'[w] = x /\ \A v \in Workers : v # w => state'[v] = state[v]
  BY DEF Core, WorkTypes
<1>4. state[w] # "up" /\ state'[w] # "up"
  BY <1>3
<1>5. ASSUME NEW v \in Workers PROVE StopOf(v)'
  <2>1. StopOf(v)
    BY Zenon DEF Core, StopInv
  <2>2. CASE v = w
    BY <1>1, <1>4, <2>1, <2>2, Zenon DEF StopOf
  <2>3. CASE v # w
    BY <1>1, <1>3, <2>1, <2>3, Zenon DEF StopOf
  <2> QED BY <2>2, <2>3, Zenon
<1>6. Referring' = Referring
  BY <1>1, <1>3, <1>4, Zenon DEF Referring
<1> QED BY <1>2, <1>5, <1>6, Zenon DEF StopInv

-----------------------------------------------------------------------------
(* Entering and leaving ast_taskpool_push                                  *)

\* A pusher that comes to the lock or returns without a worker.
LEMMA PcMoved ==
    ASSUME Core, NEW a \in Pushers, NEW x \in {"idle", "lock"}, pc[a] \in {"idle", "lock"},
           pc' = [pc EXCEPT ![a] = x], x = "lock" => (a \in Workers => cur[a] = "task"),
           pushes' \in 0 .. opts.pushes, UNCHANGED sel,
           UNCHANGED <<opts, static, dynamic, refs, queue, cur, state, shrink, victim, shut, busy_removed>>
    PROVE  Core' /\ Referring' = Referring
<1>1. VecInv' /\ OptsInv' /\ SizeBound' /\ WorkTypes' /\ StopInv' /\ Referring' = Referring
  BY VectorsSame, WorkersSame, Zenon
<1>2. pc'[a] = x /\ \A b \in Pushers : b # a => pc'[b] = pc[b]
  BY DEF Core, PushTypes
<1>3. PushTypes'
  BY DEF Core, PushTypes
<1>4. ASSUME NEW w \in Workers PROVE Holders(w)' = Holders(w)
  BY <1>2 DEF Holders
<1>5. RefsInv' /\ \A w : Kept(w)' <=> Kept(w)
  BY <1>4, RefsSame, Zenon
<1>6. PushInv'
  <2>1. \A b \in Pushers : pc'[b] \in {"selected", "join"} => b # a
    BY <1>2, Zenon
  <2>2. \A w \in Workers : w = a /\ pc'[w] # "idle" => cur[w] = "task"
    BY <1>2, Zenon
  <2> QED BY <1>2, <2>1, <2>2, Constants, Zenon DEF Core, PushInv
<1>7. BusyInv'
  BY <1>2, <1>5, Zenon DEF Core, BusyInv
<1> QED BY <1>1, <1>3, <1>5, <1>6, <1>7, Zenon DEF Core

\* A client or a task calls it.
LEMMA KeepsCalled == ASSUME NEW a \in Pushers, IInv, push_called(a) PROVE IInv'
<1>1. Core /\ Control
  BY Zenon DEF IInv
<1>2. pushes' \in 0 .. opts.pushes
  BY DEF IInv, Core, PushTypes, OptsInv, push_called
<1>3. Core' /\ Referring' = Referring
  <2>1. /\ pc[a] = "idle" /\ pc' = [pc EXCEPT ![a] = "lock"] /\ (a \in Workers => cur[a] = "task")
        /\ UNCHANGED sel
        /\ UNCHANGED <<opts, static, dynamic, refs, queue, cur, state, shrink, victim, shut, busy_removed>>
    BY Zenon DEF push_called, pool, work, shrinker, shutdown
  <2> QED BY <1>1, <1>2, <2>1, PcMoved, Zenon
<1>4. Control' /\ Others' = Others
  BY <1>1, ControlSame, Zenon DEF push_called, pool
<1>5. prefs' = prefs + 0 /\ Cardinality(Referring)' = Cardinality(Referring) + 0
  BY <1>3, ControlFacts, ReferringCount DEF push_called
<1> QED BY <1>3, <1>4, <1>5, Assembled

\* The pool shuts down.
LEMMA KeepsRefused == ASSUME NEW a \in Pushers, IInv, push_refused(a) PROVE IInv'
<1>1. Core /\ Control
  BY Zenon DEF IInv
<1>2. pushes' \in 0 .. opts.pushes
  BY Zenon DEF IInv, Core, PushTypes, push_refused
<1>3. Core' /\ Referring' = Referring
  <2>1. /\ pc[a] = "lock" /\ pc' = [pc EXCEPT ![a] = "idle"] /\ UNCHANGED sel
        /\ UNCHANGED <<opts, static, dynamic, refs, queue, cur, state, shrink, victim, shut, busy_removed>>
    BY Zenon DEF push_refused, pool, work, shrinker, shutdown
  <2>2. "idle" \in {"idle", "lock"} /\ pc[a] \in {"idle", "lock"} /\ "idle" # "lock"
    BY <2>1
  <2> QED BY <1>1, <1>2, <2>1, <2>2, PcMoved, Zenon
<1>4. Control' /\ Others' = Others
  BY <1>1, ControlSame, Zenon DEF push_refused, pool
<1>5. prefs' = prefs + 0 /\ Cardinality(Referring)' = Cardinality(Referring) + 0
  BY <1>3, ControlFacts, ReferringCount DEF push_refused
<1> QED BY <1>3, <1>4, <1>5, Assembled

\* The pusher's join returns: it held no reference any more.
LEMMA KeepsJoined == ASSUME NEW a \in Pushers, IInv, push_joined(a) PROVE IInv'
<1>0. PICK w \in Workers : w = sel[a]
  BY Zenon DEF IInv, Core, PushInv, push_joined
<1>1. Core /\ Control
  BY Zenon DEF IInv
<1>2. pc[a] = "join" /\ w \in Workers /\ state[w] = "ended" /\ queue[w] = <<>> /\ cur[w] = None
  <2>1. pc[a] = "join" /\ state[w] = "ended"
    BY <1>0, Zenon DEF push_joined, Joined
  <2> QED BY <1>0, <2>1, Zenon DEF IInv, Core, StopInv, StopOf
<1>3. /\ state' = [state EXCEPT ![w] = "unused"]
      /\ pc' = [pc EXCEPT ![a] = "idle"] /\ sel' = [sel EXCEPT ![a] = None]
      /\ UNCHANGED <<opts, pool, queue, cur, pushes, shrinker, shutdown, prefs>>
  BY <1>0, Zenon DEF push_joined, Joined
<1>4. WorkTypes' /\ StopInv' /\ Referring' = Referring
  <2>1. /\ state[w] \in {"stopping", "detached", "ended"} /\ "unused" \in {"unused", "ended"}
        /\ UNCHANGED <<refs, queue, cur>>
    BY <1>2, <1>3 DEF pool
  <2> QED BY <1>1, <1>2, <1>3, <2>1, StateMoved, Zenon
<1>5. VecInv' /\ OptsInv' /\ SizeBound'
  BY <1>1, <1>3, VectorsSame, Zenon DEF pool
<1>6. pc'[a] = "idle" /\ \A b \in Pushers : b # a => pc'[b] = pc[b] /\ sel'[b] = sel[b]
  BY <1>3 DEF IInv, Core, PushTypes
<1>7. PushTypes'
  BY <1>3 DEF IInv, Core, PushTypes
<1>8. ASSUME NEW v \in Workers PROVE Holders(v)' = Holders(v)
  BY <1>2, <1>6 DEF Holders
<1>9. RefsInv' /\ \A v : Kept(v)' <=> Kept(v)
  BY <1>1, <1>3, <1>8, RefsSame, Zenon DEF pool, shrinker
<1>10. PushInv'
  BY <1>3, <1>6, Constants, Zenon DEF IInv, Core, PushInv
<1>11. BusyInv'
  BY <1>3, <1>6, <1>9, Zenon DEF IInv, Core, BusyInv, shrinker, shutdown
<1>12. Core'
  BY <1>4, <1>5, <1>7, <1>9, <1>10, <1>11, Zenon DEF Core
<1>13. Control' /\ Others' = Others
  BY <1>1, <1>3, ControlSame, Zenon DEF pool
<1>14. prefs' = prefs + 0 /\ Cardinality(Referring)' = Cardinality(Referring) + 0
  BY <1>3, <1>4, ControlFacts, ReferringCount
<1> QED BY <1>12, <1>13, <1>14, Assembled

-----------------------------------------------------------------------------
(* The threads of the workers                                              *)

\* The pushers are left alone.
LEMMA PushersSame ==
    ASSUME Core, UNCHANGED push, UNCHANGED <<opts, refs, static, dynamic, shrink, victim>>
    PROVE  PushTypes' /\ RefsInv' /\ \A w : Kept(w)' <=> Kept(w)
<1>1. PushTypes'
  BY Zenon DEF Core, PushTypes, push
<1>2. \A w : Holders(w)' = Holders(w)
  BY Zenon DEF Holders, push
<1> QED BY <1>1, <1>2, RefsSame, Zenon

\* A thread ends, with nothing left to do.
LEMMA KeepsEnds == ASSUME NEW w \in Workers, IInv, thread_ends(w) PROVE IInv'
<1>1. Core /\ Control
  BY Zenon DEF IInv
<1> DEFINE x == IF state[w] = "detached" THEN "unused" ELSE "ended"
<1>2. /\ state[w] \in {"stopping", "detached"} /\ queue[w] = <<>> /\ cur[w] = None
      /\ state' = [state EXCEPT ![w] = x] /\ x \in {"unused", "ended"}
      /\ UNCHANGED <<opts, pool, queue, cur, push, shrinker, shutdown, prefs>>
  BY DEF thread_ends
<1> HIDE DEF x
<1>3. WorkTypes' /\ StopInv' /\ Referring' = Referring
  <2>1. state[w] \in {"stopping", "detached", "ended"} /\ UNCHANGED <<refs, queue, cur>>
    BY <1>2, Zenon DEF pool
  <2> QED BY <1>1, <1>2, <2>1, StateMoved, Zenon
<1>4. VecInv' /\ OptsInv' /\ SizeBound'
  BY <1>1, <1>2, VectorsSame, Zenon DEF pool
<1>5. PushTypes' /\ RefsInv' /\ \A v : Kept(v)' <=> Kept(v)
  BY <1>1, <1>2, PushersSame, Zenon DEF pool, shrinker
<1>6. PushInv' /\ BusyInv'
  BY <1>2, <1>5, Zenon DEF IInv, Core, PushInv, BusyInv, push, shrinker, shutdown
<1>7. Core'
  BY <1>3, <1>4, <1>5, <1>6, Zenon DEF Core
<1>8. Control' /\ Others' = Others
  BY <1>1, <1>2, ControlSame, Zenon DEF pool
<1>9. prefs' = prefs + 0 /\ Cardinality(Referring)' = Cardinality(Referring) + 0
  BY <1>2, <1>3, ControlFacts, ReferringCount
<1> QED BY <1>7, <1>8, <1>9, Assembled

\* The shutdown has joined a thread.
LEMMA KeepsShutdownJoined == ASSUME IInv, shutdown_joined PROVE IInv'
<1>1. Core /\ Control
  BY Zenon DEF IInv
<1>0. PICK w \in Workers : w = joined
  BY Zenon DEF IInv, Control, LifeInv, shutdown_joined
<1>2. state[w] = "ended" /\ queue[w] = <<>> /\ cur[w] = None
  BY <1>0, Zenon DEF IInv, Core, Control, LifeInv, StopInv, StopOf, shutdown_joined, Joined
<1>3. /\ shut = "join" /\ shut' = "clean" /\ joined' = None
      /\ state' = [state EXCEPT ![w] = "unused"]
      /\ UNCHANGED <<opts, pool, queue, cur, push, shrinker, shutting_down, leaked, prefs>>
  BY <1>0, Zenon DEF shutdown_joined, Joined
<1>4. WorkTypes' /\ StopInv' /\ Referring' = Referring
  <2>1. /\ state[w] \in {"stopping", "detached", "ended"} /\ "unused" \in {"unused", "ended"}
        /\ UNCHANGED <<refs, queue, cur>>
    BY <1>2, <1>3 DEF pool
  <2> QED BY <1>1, <1>2, <1>3, <2>1, StateMoved, Zenon
<1>5. VecInv' /\ OptsInv' /\ SizeBound'
  BY <1>1, <1>3, VectorsSame, Zenon DEF pool
<1>6. PushTypes' /\ RefsInv' /\ \A v : Kept(v)' <=> Kept(v)
  BY <1>1, <1>3, PushersSame, Zenon DEF pool, shrinker
<1>7. PushInv' /\ BusyInv'
  BY <1>3, <1>6, Zenon DEF IInv, Core, PushInv, BusyInv, push
<1>8. Core'
  BY <1>4, <1>5, <1>6, <1>7, Zenon DEF Core
<1>9. Control'
  <2>1. ControlTypes'
    BY <1>3, Zenon DEF IInv, Control, ControlTypes, pool, shrinker
  <2>2. LifeInv' /\ NumInv'
    BY <1>3, Zenon DEF IInv, Control, LifeInv, NumInv, pool, shrinker
  <2> QED BY <2>1, <2>2, Zenon DEF Control
<1>10. Others' = Others
  BY <1>3, Zenon DEF Others, shrinker
<1>11. prefs' = prefs + 0 /\ Cardinality(Referring)' = Cardinality(Referring) + 0
  BY <1>3, <1>4, ControlFacts, ReferringCount
<1> QED BY <1>8, <1>9, <1>10, <1>11, Assembled

\* The first task goes from the queue to the thread.
LEMMA KeepsExecute == ASSUME NEW w \in Workers, IInv, execute(w) PROVE IInv'
<1>1. Core /\ Control
  BY Zenon DEF IInv
<1>2. /\ state[w] \in {"up", "stopping", "detached"} /\ cur[w] = None /\ queue[w] # <<>>
      /\ cur' = [cur EXCEPT ![w] = Head(queue[w])] /\ queue' = [queue EXCEPT ![w] = Tail(queue[w])]
      /\ UNCHANGED <<opts, pool, state, push, shrinker, shutdown, prefs>>
  BY Zenon DEF execute
<1>3. /\ cur'[w] = Head(queue[w]) /\ queue'[w] = Tail(queue[w])
      /\ \A v \in Workers : v # w => cur'[v] = cur[v] /\ queue'[v] = queue[v]
  BY <1>2 DEF IInv, Core, WorkTypes
<1> DEFINE q == queue[w]
<1>4. q \in Seq({"start", "task", "stop"}) /\ q # <<>>
  BY <1>2, Zenon DEF IInv, Core, WorkTypes
<1>5. /\ Head(q) \in {"start", "task", "stop"} /\ Tail(q) \in Seq({"start", "task", "stop"})
      /\ \A t : (\E i \in DOMAIN q : q[i] = t)
               <=> (Head(q) = t \/ \E i \in DOMAIN Tail(q) : Tail(q)[i] = t)
      /\ \A t : (\A i \in DOMAIN q : q[i] = t => i = Len(q)) =>
             /\ \A i \in DOMAIN Tail(q) : Tail(q)[i] = t => i = Len(Tail(q))
             /\ Head(q) = t => Tail(q) = <<>>
  <2> HIDE DEF q
  <2> QED BY <1>4, HeadAndTail, Zenon
<1>6. WorkTypes'
  <2>1. Head(q) \in {"start", "task", "stop", None}
    BY <1>5, Zenon
  <2>2. cur' \in [Workers -> {"start", "task", "stop", None}] /\ queue' \in [Workers -> Seq({"start", "task", "stop"})]
    BY <1>2, <1>5, <2>1 DEF IInv, Core, WorkTypes
  <2> QED BY <1>2, <2>2, Zenon DEF IInv, Core, WorkTypes, pool
<1>7. StopOf(w) /\ \A i \in DOMAIN q : q[i] = "stop" => i = Len(q)
  BY Zenon DEF IInv, Core, StopInv, StopOf
<1>8. \A i \in DOMAIN Tail(q) : Tail(q)[i] = "stop" => i = Len(Tail(q))
  BY <1>5, <1>7, Zenon
<1>9. StopLeft(w)' <=> StopLeft(w)
  <2>1. StopLeft(w) <=> \E i \in DOMAIN q : q[i] = "stop"
    BY <1>2, Constants, Zenon DEF StopLeft
  <2>2. StopLeft(w)' <=> Head(q) = "stop" \/ \E i \in DOMAIN Tail(q) : Tail(q)[i] = "stop"
    BY <1>3, Zenon DEF StopLeft
  <2> HIDE DEF q
  <2> QED BY <1>5, <2>1, <2>2, Zenon
<1>10. Head(q) = "stop" => Tail(q) = <<>>
  BY <1>5, <1>7, Zenon
<1> HIDE DEF q
<1>11. \A v \in Workers : StopLeft(v)' <=> StopLeft(v)
  BY <1>3, <1>9, Zenon DEF StopLeft
<1>12. ASSUME NEW v \in Workers PROVE StopOf(v)'
  <2>1. StopOf(v)
    BY <1>1, Zenon DEF Core, StopInv
  <2>2. UNCHANGED <<state, refs>>
    BY <1>2, Zenon DEF pool
  <2>3. CASE v = w
    <3>1. queue'[v] = Tail(q) /\ cur'[v] = Head(q) /\ state[v] \notin {"unused", "ended"}
      BY <1>2, <1>3, <2>3, Zenon DEF q
    <3> QED BY <1>8, <1>9, <1>10, <2>1, <2>2, <2>3, <3>1, Zenon DEF StopOf
  <2>4. CASE v # w
    BY <1>3, <1>11, <2>1, <2>2, <2>4, Zenon DEF StopOf
  <2> QED BY <2>3, <2>4, Zenon
<1>13. Referring' = Referring
  BY <1>2, <1>11, Zenon DEF Referring
<1>14. VecInv' /\ OptsInv' /\ SizeBound'
  BY <1>1, <1>2, VectorsSame, Zenon DEF pool
<1>15. PushTypes' /\ RefsInv' /\ \A v : Kept(v)' <=> Kept(v)
  BY <1>1, <1>2, PushersSame, Zenon DEF pool, shrinker
<1>16. PushInv'
  <2>1. pc[w] = "idle"
    BY <1>1, <1>2, Constants, Zenon DEF Core, PushInv
  <2> QED BY <1>1, <1>2, <1>3, <2>1, Zenon DEF Core, PushInv, push
<1>17. BusyInv'
  <2> SUFFICES ASSUME ~busy_removed, shut = "up"
               PROVE  /\ \A a \in Pushers : pc[a] # "join" /\ (pc[a] = "selected" => Kept(sel[a]))
                      /\ shrink = "join" =>
                            cur'[victim] # "task" /\ \A i \in DOMAIN queue'[victim] : queue'[victim][i] # "task"
    BY <1>2, <1>15, Zenon DEF BusyInv, push, shrinker, shutdown
  <2>1. /\ \A a \in Pushers : pc[a] # "join" /\ (pc[a] = "selected" => Kept(sel[a]))
        /\ shrink = "join" =>
            cur[victim] # "task" /\ \A i \in DOMAIN queue[victim] : queue[victim][i] # "task"
    BY <1>1, Zenon DEF Core, BusyInv
  <2>2. shrink = "join" => victim \in Workers
    BY DEF IInv, Control, LifeInv, Core, VecInv
  <2>3. CASE victim = w /\ shrink = "join"
    <3>1. ~ \E i \in DOMAIN q : q[i] = "task"
      BY <2>1, <2>3, Zenon DEF q
    <3>2. Head(q) # "task" /\ \A i \in DOMAIN Tail(q) : Tail(q)[i] # "task"
      BY <1>5, <3>1, Zenon
    <3>3. cur'[victim] = Head(q) /\ queue'[victim] = Tail(q)
      BY <1>3, <2>3, Zenon DEF q
    <3> QED BY <2>1, <3>2, <3>3, Zenon
  <2>4. CASE victim # w /\ shrink = "join"
    BY <1>3, <2>1, <2>2, <2>4, Zenon
  <2> QED BY <2>1, <2>3, <2>4, Zenon
<1>18. Core'
  BY <1>6, <1>12, <1>14, <1>15, <1>16, <1>17, Zenon DEF Core, StopInv
<1>19. Control' /\ Others' = Others
  BY <1>1, <1>2, ControlSame, Zenon DEF pool
<1>20. prefs' = prefs + 0 /\ Cardinality(Referring)' = Cardinality(Referring) + 0
  BY <1>2, <1>13, ControlFacts, ReferringCount
<1> QED BY <1>18, <1>19, <1>20, Assembled

\* With the stop task the worker's reference to the pool goes.
LEMMA KeepsTask == ASSUME NEW w \in Workers, IInv, task_returns(w) PROVE IInv'
<1>1. Core /\ Control
  BY Zenon DEF IInv
<1>2. /\ cur[w] # None /\ pc[w] = "idle" /\ cur' = [cur EXCEPT ![w] = None]
      /\ prefs' = (IF cur[w] = "stop" THEN prefs - 1 ELSE prefs)
      /\ UNCHANGED <<opts, pool, queue, state, push, shrinker, shutdown>>
  BY Zenon DEF task_returns
<1>3. cur'[w] = None /\ \A v \in Workers : v # w => cur'[v] = cur[v]
  BY <1>2 DEF IInv, Core, WorkTypes
<1>4. WorkTypes'
  BY <1>1, <1>2 DEF Core, WorkTypes, pool
<1>5. StopOf(w)
  BY <1>1, Zenon DEF Core, StopInv
<1>6. /\ \A v \in Workers : v # w => (StopLeft(v)' <=> StopLeft(v))
      /\ cur[w] # "stop" => (StopLeft(w)' <=> StopLeft(w))
      /\ StopLeft(w)' => StopLeft(w)
  BY <1>2, <1>3, Constants, Zenon DEF StopLeft
<1>7. cur[w] = "stop" => ~StopLeft(w)' /\ StopLeft(w) /\ state[w] # "up"
  <2> SUFFICES ASSUME cur[w] = "stop" PROVE ~StopLeft(w)' /\ StopLeft(w) /\ state[w] # "up"
    OBVIOUS
  <2>1. StopLeft(w) /\ state[w] # "up" /\ queue[w] = <<>>
    BY <1>5, Zenon DEF StopOf, StopLeft
  <2>2. ~StopLeft(w)'
    BY <1>2, <1>3, <2>1, Constants DEF StopLeft
  <2> QED BY <2>1, <2>2
<1>8. ASSUME NEW v \in Workers PROVE StopOf(v)'
  <2>1. StopOf(v) /\ UNCHANGED <<state, refs, queue>>
    BY <1>1, <1>2, Zenon DEF Core, StopInv, pool
  <2>2. CASE v = w
    BY <1>3, <1>6, <2>1, <2>2, Constants, Zenon DEF StopOf
  <2>3. CASE v # w
    BY <1>3, <1>6, <2>1, <2>3, Zenon DEF StopOf
  <2> QED BY <2>2, <2>3, Zenon
<1>9. VecInv' /\ OptsInv' /\ SizeBound'
  BY <1>1, <1>2, VectorsSame, Zenon DEF pool
<1>10. PushTypes' /\ RefsInv' /\ \A v : Kept(v)' <=> Kept(v)
  BY <1>1, <1>2, PushersSame, Zenon DEF pool, shrinker
<1>11. PushInv'
  BY <1>1, <1>2, <1>3, Zenon DEF Core, PushInv, push
<1>12. BusyInv'
  <2>1. shrink = "join" => victim \in Workers
    BY DEF IInv, Control, LifeInv, Core, VecInv
  <2>2. shrink = "join" /\ cur[victim] # "task" => cur'[victim] # "task"
    BY <1>3, <2>1, Constants, Zenon
  <2> QED BY <1>1, <1>2, <1>10, <2>2, Zenon DEF Core, BusyInv, push, shrinker, shutdown
<1>13. Core'
  BY <1>4, <1>8, <1>9, <1>10, <1>11, <1>12, Zenon DEF Core, StopInv
<1>14. Control' /\ Others' = Others
  BY <1>1, <1>2, ControlSame, Zenon DEF pool
<1>15. CASE cur[w] = "stop"
  <2>1. Referring' = Referring \ {w} /\ w \in Referring
    BY <1>2, <1>6, <1>7, <1>15, Zenon DEF Referring
  <2>2. IsFiniteSet(Referring)
    BY WorkersFinite, Zenon DEF Referring
  <2>3. Cardinality(Referring)' = Cardinality(Referring) - 1
    BY <2>1, <2>2, FS_RemoveElement, Zenon
  <2>4. prefs' = prefs + (-1) /\ Cardinality(Referring)' = Cardinality(Referring) + (-1)
    BY <1>2, <1>15, <2>3, ControlFacts, ReferringCount
  <2> QED BY <1>13, <1>14, <2>4, Assembled
<1>16. CASE cur[w] # "stop"
  <2>1. Referring' = Referring
    BY <1>2, <1>6, <1>16, Zenon DEF Referring
  <2>2. prefs' = prefs + 0 /\ Cardinality(Referring)' = Cardinality(Referring) + 0
    BY <1>2, <1>16, <2>1, ControlFacts, ReferringCount
  <2> QED BY <1>13, <1>14, <2>2, Assembled
<1> QED BY <1>15, <1>16, Zenon

-----------------------------------------------------------------------------
(* Dropping a reference                                                    *)

\* What is queued last is last, and only there when it was not in the queue.
LEMMA Appended ==
    ASSUME NEW S, NEW q \in Seq(S), NEW e \in S
    PROVE  /\ Append(q, e) \in Seq(S) /\ \E i \in DOMAIN Append(q, e) : Append(q, e)[i] = e
           /\ \A t : t # e /\ (\A i \in DOMAIN q : q[i] # t) =>
                \A i \in DOMAIN Append(q, e) : Append(q, e)[i] # t
           /\ (\A i \in DOMAIN q : q[i] # e) =>
                \A i \in DOMAIN Append(q, e) : Append(q, e)[i] = e => i = Len(Append(q, e))
<1> DEFINE n == Len(q)
           r == Append(q, e)
<1>1. n \in Nat /\ DOMAIN q = 1 .. n
  OBVIOUS
<1>2. r \in Seq(S) /\ Len(r) = n + 1 /\ DOMAIN r = 1 .. n + 1 /\ r[n + 1] = e /\ \A j \in 1 .. n : r[j] = q[j]
  BY <1>1
<1> HIDE DEF n, r
<1>3. n + 1 \in 1 .. n + 1 /\ \A i \in 1 .. n + 1 : i \in 1 .. n \/ i = n + 1
  BY <1>1
<1> QED BY <1>1, <1>2, <1>3, Zenon DEF r

\* The worker that loses a reference gets its stop task with the last one, and
\* refers to the pool as before.
LEMMA Dropped ==
    ASSUME Core, NEW w \in Workers, NEW a, NEW q, q \in {queue[w], Append(queue[w], "task")}, refs[w] # 0,
           Drop(w, a), queue' = [queue EXCEPT ![w] = Stopped(w, q)], UNCHANGED cur
    PROVE  /\ WorkTypes' /\ StopInv' /\ Referring' = Referring
           /\ refs'[w] = refs[w] - 1 /\ \A v \in Workers : v # w => refs'[v] = refs[v]
           /\ queue'[w] = Stopped(w, q) /\ \A v \in Workers : v # w => queue'[v] = queue[v]
<1> DEFINE T == {"start", "task", "stop"}
           Q == Seq(T)
<1>1. /\ refs \in [Workers -> Nat] /\ queue \in [Workers -> Q]
      /\ state \in [Workers -> {"unused", "up", "stopping", "detached", "ended"}]
      /\ refs[w] \in Nat /\ queue[w] \in Q
  BY Zenon DEF Core, WorkTypes
<1>2. StopOf(w) /\ state[w] = "up" /\ ~StopLeft(w)
  BY Zenon DEF Core, StopInv, StopOf
<1>3. cur[w] # "stop" /\ \A i \in DOMAIN queue[w] : queue[w][i] # "stop"
  BY <1>2, Zenon DEF StopLeft
<1>4. q \in Q /\ \A i \in DOMAIN q : q[i] # "stop"
  <2>1. "task" # "stop" /\ "task" \in T
    OBVIOUS
  <2> HIDE DEF T
  <2>2. Append(queue[w], "task") \in Q /\ \A i \in DOMAIN Append(queue[w], "task") : Append(queue[w], "task")[i] # "stop"
    BY <1>1, <1>3, <2>1, Appended
  <2> QED BY <1>1, <1>3, <2>2, Zenon
<1> DEFINE r == Append(q, "stop")
<1>5. /\ r \in Q /\ \E i \in DOMAIN r : r[i] = "stop"
      /\ \A i \in DOMAIN r : r[i] = "stop" => i = Len(r)
  <2>1. "stop" \in T
    OBVIOUS
  <2> HIDE DEF T
  <2> QED BY <1>4, <2>1, Appended, Zenon
<1>6. /\ refs'[w] = refs[w] - 1 /\ \A v \in Workers : v # w => refs'[v] = refs[v]
      /\ refs' \in [Workers -> Nat]
  BY <1>1 DEF Drop
<1>7. Stopped(w, q) = (IF refs[w] = 1 THEN r ELSE q) /\ Stopped(w, q) \in Q
  BY <1>4, <1>5, Zenon DEF Stopped
<1>8. queue'[w] = Stopped(w, q) /\ (\A v \in Workers : v # w => queue'[v] = queue[v]) /\ queue' \in [Workers -> Q]
  <2> HIDE DEF Q
  <2> QED BY <1>1, <1>7, Zenon
<1> HIDE DEF r, Q, T
<1>9. /\ state' \in [Workers -> {"unused", "up", "stopping", "detached", "ended"}]
      /\ state'[w] = (IF refs[w] = 1 THEN IF a = w THEN "detached" ELSE "stopping" ELSE "up")
      /\ \A v \in Workers : v # w => state'[v] = state[v]
  BY <1>1, <1>2 DEF Drop
<1>10. WorkTypes'
  BY <1>6, <1>8, <1>9, Zenon DEF Core, WorkTypes, Q, T
<1>11. /\ \A v \in Workers : v # w => (StopLeft(v)' <=> StopLeft(v))
       /\ StopLeft(w)' <=> refs[w] = 1
  <2>1. StopLeft(w)' <=> refs[w] = 1
    BY <1>3, <1>4, <1>5, <1>7, <1>8, Zenon DEF StopLeft
  <2> QED BY <1>8, <2>1, Zenon DEF StopLeft
<1>12. StopOf(w)'
  <2>1. \A i \in DOMAIN queue'[w] : queue'[w][i] = "stop" => i = Len(queue'[w])
    BY <1>4, <1>5, <1>7, <1>8, Zenon
  <2>2. state'[w] \notin {"unused", "ended"} /\ (state'[w] # "up" <=> refs[w] = 1)
    BY <1>9
  <2>3. refs'[w] = 0 <=> refs[w] = 1
    BY <1>1, <1>6
  <2> QED BY <1>3, <1>11, <2>1, <2>2, <2>3, Zenon DEF StopOf
<1>13. ASSUME NEW v \in Workers PROVE StopOf(v)'
  <2>1. StopOf(v)
    BY Zenon DEF Core, StopInv
  <2>2. CASE v # w
    BY <1>6, <1>8, <1>9, <1>11, <2>1, <2>2, Zenon DEF StopOf
  <2> QED BY <1>12, <2>2, Zenon
<1>14. Referring' = Referring
  <2>1. w \in Referring /\ (state'[w] = "up" \/ StopLeft(w)')
    BY <1>2, <1>9, <1>11, Zenon DEF Referring
  <2> QED BY <1>9, <1>11, <2>1, Zenon DEF Referring
<1> QED BY <1>6, <1>8, <1>10, <1>13, <1>14, Zenon DEF StopInv

\* The vectors' reference is one, and each pusher's another.
LEMMA Counted ==
    ASSUME Core, NEW w \in Workers
    PROVE  /\ refs[w] \in Nat /\ (Kept(w) => refs[w] >= 1)
           /\ \A a \in Holders(w) : refs[w] >= 1 /\ (Kept(w) => refs[w] >= 2)
<1>1. /\ IsFiniteSet(Holders(w)) /\ refs[w] = Cardinality(Holders(w)) + (IF Kept(w) THEN 1 ELSE 0)
  BY Zenon DEF Core, RefsInv
<1>2. Cardinality(Holders(w)) \in Nat
  BY <1>1, FS_CardinalityType, Zenon
<1>3. ASSUME NEW a \in Holders(w) PROVE Cardinality(Holders(w)) >= 1
  <2>1. Cardinality(Holders(w)) # 0
    BY <1>1, <1>3, FS_EmptySet, Zenon
  <2> QED BY <1>2, <2>1
<1> HIDE DEF Kept, Holders
<1>4. refs[w] \in Nat /\ (Kept(w) => refs[w] >= 1)
  BY <1>1, <1>2
<1>5. ASSUME NEW a \in Holders(w) PROVE refs[w] >= 1 /\ (Kept(w) => refs[w] >= 2)
  BY <1>1, <1>2, <1>3, <1>5
<1> QED BY <1>4, <1>5

\* The pusher's reference goes, after the task is queued.
LEMMA KeepsPush == ASSUME NEW a \in Pushers, NEW queued \in BOOLEAN, IInv, push_task(a, queued) PROVE IInv'
<1>0. PICK w \in Workers : w = sel[a]
  BY Zenon DEF IInv, Core, PushInv, push_task
<1> DEFINE q == IF queued THEN Append(queue[w], "task") ELSE queue[w]
<1>1. Core /\ Control
  BY Zenon DEF IInv
<1>2. /\ pc[a] = "selected" /\ Drop(w, a) /\ queue' = [queue EXCEPT ![w] = Stopped(w, q)]
      /\ UNCHANGED <<opts, static, dynamic, num, idle, cur, pushes, shrinker, shutdown, prefs>>
      /\ q \in {queue[w], Append(queue[w], "task")}
      /\ IF MustJoin(w, a)
          THEN pc' = [pc EXCEPT ![a] = "join"] /\ sel' = sel
          ELSE pc' = [pc EXCEPT ![a] = "idle"] /\ sel' = [sel EXCEPT ![a] = None]
  BY <1>0, Zenon DEF push_task
<1>3. w \in Workers /\ a \in Holders(w)
  BY <1>0, <1>2, Zenon DEF Holders
<1>4. refs[w] \in Nat /\ refs[w] >= 1 /\ (Kept(w) => refs[w] >= 2)
  BY <1>1, <1>3, Counted, Zenon
<1> HIDE DEF q
<1>5. /\ WorkTypes' /\ StopInv' /\ Referring' = Referring
      /\ refs'[w] = refs[w] - 1 /\ \A v \in Workers : v # w => refs'[v] = refs[v]
      /\ \A v \in Workers : v # w => queue'[v] = queue[v]
  <2>1. refs[w] # 0 /\ UNCHANGED cur
    BY <1>2, <1>4
  <2> QED BY <1>1, <1>2, <1>3, <2>1, Dropped, Zenon
<1>6. /\ pc'[a] \in {"idle", "join"} /\ (pc'[a] = "join" => sel'[a] = w /\ refs[w] = 1)
      /\ \A b \in Pushers : b # a => pc'[b] = pc[b] /\ sel'[b] = sel[b]
      /\ pc' \in [Pushers -> {"idle", "lock", "selected", "join"}] /\ sel' \in [Pushers -> Workers \union {None}]
  <2>1. pc \in [Pushers -> {"idle", "lock", "selected", "join"}] /\ sel \in [Pushers -> Workers \union {None}]
    BY <1>1, Zenon DEF Core, PushTypes
  <2> QED BY <1>0, <1>2, <2>1 DEF MustJoin
<1>7. VecInv' /\ OptsInv' /\ SizeBound'
  BY <1>1, <1>2, VectorsSame, Zenon
<1>8. PushTypes'
  BY <1>1, <1>2, <1>6, Zenon DEF Core, PushTypes
<1>9. Holders(w)' = Holders(w) \ {a} /\ \A v \in Workers : v # w => Holders(v)' = Holders(v)
  BY <1>0, <1>2, <1>6 DEF Holders
<1>10. \A v : Kept(v)' <=> Kept(v)
  BY <1>2, Zenon DEF Kept, Elems, shrinker
<1>11. RefsInv'
  <2> SUFFICES ASSUME NEW v \in Workers
               PROVE  IsFiniteSet(Holders(v)') /\ refs'[v] = Cardinality(Holders(v)') + (IF Kept(v) THEN 1 ELSE 0)
    BY <1>10, Zenon DEF RefsInv
  <2>1. IsFiniteSet(Holders(v)) /\ refs[v] = Cardinality(Holders(v)) + (IF Kept(v) THEN 1 ELSE 0)
    BY <1>1, Zenon DEF Core, RefsInv
  <2>2. CASE v = w
    <3>1. IsFiniteSet(Holders(v) \ {a}) /\ Cardinality(Holders(v) \ {a}) = Cardinality(Holders(v)) - 1
      BY <1>3, <2>1, <2>2, FS_RemoveElement, Zenon
    <3>2. Cardinality(Holders(v)) \in Nat
      BY <2>1, FS_CardinalityType, Zenon
    <3>3. refs'[v] = refs[v] - 1 /\ Holders(v)' = Holders(v) \ {a}
      BY <1>5, <1>9, <2>2, Zenon
    <3> HIDE DEF Kept, Holders
    <3> QED BY <2>1, <3>1, <3>2, <3>3
  <2>3. CASE v # w
    BY <1>5, <1>9, <2>1, <2>3, Zenon
  <2> QED BY <2>2, <2>3, Zenon
<1>12. PushInv'
  <2>1. \A b \in Pushers : pc'[b] \in {"selected", "join"} => sel'[b] \in Workers
    BY <1>1, <1>3, <1>6, Zenon DEF Core, PushInv
  <2>2. \A v \in Workers : pc'[v] # "idle" => cur[v] = "task"
    BY <1>1, <1>2, <1>6, Constants, Zenon DEF Core, PushInv
  <2> QED BY <1>2, <2>1, <2>2, Zenon DEF PushInv
<1>13. BusyInv'
  <2> SUFFICES ASSUME ~busy_removed, shut = "up"
               PROVE  /\ \A b \in Pushers : pc'[b] # "join" /\ (pc'[b] = "selected" => Kept(sel'[b]))
                      /\ shrink = "join" =>
                            cur[victim] # "task" /\ \A i \in DOMAIN queue'[victim] : queue'[victim][i] # "task"
    BY <1>2, <1>10, Zenon DEF BusyInv, shrinker, shutdown
  <2>1. /\ \A b \in Pushers : pc[b] # "join" /\ (pc[b] = "selected" => Kept(sel[b]))
        /\ shrink = "join" =>
            cur[victim] # "task" /\ \A i \in DOMAIN queue[victim] : queue[victim][i] # "task"
    BY <1>1, Zenon DEF Core, BusyInv
  <2>2. refs[w] # 1 /\ Kept(w)
    <3>1. Kept(w)
      BY <1>0, <1>2, <2>1, Zenon
    <3> QED BY <1>4, <3>1
  <2>3. shrink = "join" => victim # w /\ victim \in Workers
    <3>1. shrink = "join" => victim # w
      BY <2>2, Zenon DEF Kept
    <3>2. shrink = "join" => victim \in Workers
      BY DEF IInv, Control, LifeInv, Core, VecInv
    <3> QED BY <3>1, <3>2, Zenon
  <2>4. pc'[a] = "idle"
    BY <1>6, <2>2, Zenon
  <2> QED BY <1>5, <1>6, <2>1, <2>3, <2>4, Zenon
<1>14. Core'
  BY <1>5, <1>7, <1>8, <1>11, <1>12, <1>13, Zenon DEF Core
<1>15. Control' /\ Others' = Others
  BY <1>1, <1>2, ControlSame, Zenon
<1>16. prefs' = prefs + 0 /\ Cardinality(Referring)' = Cardinality(Referring) + 0
  <2>1. prefs' = prefs /\ Referring' = Referring
    BY <1>2, <1>5, Zenon
  <2> QED BY <2>1, ControlFacts, ReferringCount
<1> QED BY <1>14, <1>15, <1>16, Assembled

\* The vectors' reference goes.
LEMMA Released ==
    ASSUME Core, NEW w \in Workers, Kept(w), ~Kept(w)', \A v \in Workers : v # w => (Kept(v)' <=> Kept(v)),
           UNCHANGED <<opts, push, cur>>,
           refs'[w] = refs[w] - 1, \A v \in Workers : v # w => refs'[v] = refs[v]
    PROVE  RefsInv' /\ PushTypes' /\ PushInv'
<1>1. \A v : Holders(v)' = Holders(v)
  BY Zenon DEF Holders, push
<1>2. PushTypes' /\ PushInv'
  BY Zenon DEF Core, PushTypes, PushInv, push
<1>3. ASSUME NEW v \in Workers
      PROVE  IsFiniteSet(Holders(v)') /\ refs'[v] = Cardinality(Holders(v)') + (IF Kept(v)' THEN 1 ELSE 0)
  <2>1. IsFiniteSet(Holders(v)) /\ refs[v] = Cardinality(Holders(v)) + (IF Kept(v) THEN 1 ELSE 0)
    BY Zenon DEF Core, RefsInv
  <2>2. CASE v = w
    <3>1. Cardinality(Holders(v)) \in Nat
      BY <2>1, FS_CardinalityType, Zenon
    <3>2. refs[v] = Cardinality(Holders(v)) + 1 /\ refs'[v] = refs[v] - 1
      BY <2>1, <2>2, Zenon
    <3>3. refs'[v] = Cardinality(Holders(v)) + 0
      <4> HIDE DEF Holders
      <4> QED BY <3>1, <3>2
    <3> QED BY <1>1, <2>1, <2>2, <3>3, Zenon
  <2>3. CASE v # w
    BY <1>1, <2>1, <2>3, Zenon
  <2> QED BY <2>2, <2>3, Zenon
<1> QED BY <1>2, <1>3, Zenon DEF RefsInv

\* A vector that loses a worker stays well-formed, whichever it is.
LEMMA Shrunk ==
    ASSUME Core, NEW w, UNCHANGED opts,
           \/ /\ static' = static /\ dynamic' \in Seq(Workers) /\ Len(dynamic') = Len(dynamic) - 1
              /\ Distinct(dynamic') /\ Elems(dynamic') = Elems(dynamic) \ {w}
           \/ /\ dynamic' = dynamic /\ static' \in Seq(Workers) /\ Len(static') = Len(static) - 1
              /\ Distinct(static') /\ Elems(static') = Elems(static) \ {w}
    PROVE  VecInv' /\ OptsInv' /\ SizeBound'
<1>1. /\ static \in Seq(Workers) /\ dynamic \in Seq(Workers) /\ Distinct(static) /\ Distinct(dynamic)
      /\ Elems(static) \intersect Elems(dynamic) = {}
  BY Zenon DEF Core, VecInv
<1>2. /\ static' \in Seq(Workers) /\ dynamic' \in Seq(Workers) /\ Distinct(static') /\ Distinct(dynamic')
      /\ Elems(static') \intersect Elems(dynamic') = {}
  BY <1>1
<1>3. VecInv'
  BY <1>2, Zenon DEF VecInv, Distinct, Elems
<1>4. OptsInv' /\ opts.max \in Nat
  BY Zenon DEF Core, OptsInv
<1>5. SizeBound'
  <2>1. Len(static) \in Nat /\ Len(dynamic) \in Nat
    BY <1>1
  <2>2. Len(static') + Len(dynamic') <= Len(static) + Len(dynamic) /\ Len(static') \in Nat /\ Len(dynamic') \in Nat
    BY <1>2, <2>1
  <2>3. opts.inc > 0 /\ opts.max > 0 => Len(static) + Len(dynamic) <= opts.max
    BY Zenon DEF Core, SizeBound
  <2>4. opts.inc > 0 /\ opts.max > 0 => Len(static') + Len(dynamic') <= opts.max
    BY <1>4, <2>1, <2>2, <2>3
  <2> QED BY <2>4, Zenon DEF SizeBound
<1> QED BY <1>3, <1>4, <1>5, Zenon

\* The callback drops the vector's reference to an idle worker.  When it is the
\* last, the worker stays in the vector until it is joined.
LEMMA KeepsRemoves == ASSUME IInv, shrink_removes PROVE IInv'
<1>1. Core /\ Control
  BY Zenon DEF IInv
<1>2. idx + 1 \in DOMAIN dynamic /\ dynamic[idx + 1] \in Workers
  BY ControlFacts DEF shrink_removes
<1>3. PICK w \in Workers : w = dynamic[idx + 1]
  BY <1>2, Zenon
<1>4. /\ shrink = "scan" /\ Drop(w, ShrinkThread) /\ queue' = [queue EXCEPT ![w] = Stopped(w, queue[w])]
      /\ busy_removed' = (busy_removed \/ queue[w] # <<>> \/ cur[w] # None \/ refs[w] > 1)
      /\ IF MustJoin(w, ShrinkThread)
          THEN shrink' = "join" /\ victim' = w /\ UNCHANGED <<dynamic, removed>>
          ELSE dynamic' = RemoveUnordered(dynamic, idx + 1) /\ removed' = TRUE /\ UNCHANGED <<shrink, victim>>
      /\ UNCHANGED <<opts, static, num, idle, cur, push, idx, shutdown, prefs>>
  BY <1>3, Zenon DEF shrink_removes
<1>5. w \in Elems(dynamic) /\ w \notin Elems(static) /\ Kept(w)
  <2>1. w \in Elems(dynamic)
    BY <1>2, <1>3, Zenon DEF Elems
  <2>2. w \notin Elems(static)
    BY <1>1, <2>1, Zenon DEF Core, VecInv
  <2> QED BY <1>4, <2>1, <2>2 DEF Kept
<1>6. refs[w] \in Nat /\ refs[w] >= 1 /\ \A a \in Holders(w) : refs[w] >= 2
  BY <1>1, <1>5, Counted, Zenon
<1>7. /\ WorkTypes' /\ StopInv' /\ Referring' = Referring
      /\ refs'[w] = refs[w] - 1 /\ \A v \in Workers : v # w => refs'[v] = refs[v]
      /\ queue'[w] = Stopped(w, queue[w])
  <2>1. refs[w] # 0 /\ UNCHANGED cur
    BY <1>4, <1>6
  <2>2. queue[w] \in {queue[w], Append(queue[w], "task")}
    OBVIOUS
  <2> QED BY <1>1, <1>4, <2>1, <2>2, Dropped, Zenon
<1>8. ShrinkThread # w /\ (MustJoin(w, ShrinkThread) <=> refs[w] = 1)
  BY Constants, Zenon DEF MustJoin
<1>9. prefs' = prefs + 0 /\ Cardinality(Referring)' = Cardinality(Referring) + 0
  <2>1. prefs' = prefs /\ Referring' = Referring
    BY <1>4, <1>7, Zenon
  <2> QED BY <2>1, ControlFacts, ReferringCount
<1>10. shut = "up" /\ shut' = "up"
  BY <1>1, <1>4, Zenon DEF Control, LifeInv, shutdown
<1>11. CASE refs[w] = 1
  <2>1. shrink' = "join" /\ victim' = w /\ UNCHANGED <<dynamic, removed>>
    BY <1>4, <1>8, <1>11, Zenon
  <2>2. VecInv' /\ OptsInv' /\ SizeBound'
    BY <1>1, <1>4, <2>1, VectorsSame, Zenon
  <2>3. ~Kept(w)' /\ \A v \in Workers : v # w => (Kept(v)' <=> Kept(v))
    BY <1>4, <2>1 DEF Kept, Elems
  <2>4. RefsInv' /\ PushTypes' /\ PushInv'
    BY <1>1, <1>4, <1>5, <1>7, <2>3, Released, Zenon
  <2>5. BusyInv'
    <3> SUFFICES ASSUME ~busy_removed'
                 PROVE  /\ \A a \in Pushers : pc[a] # "join" /\ (pc[a] = "selected" => Kept(sel[a])')
                        /\ cur[w] # "task" /\ \A i \in DOMAIN queue'[w] : queue'[w][i] # "task"
      BY <1>4, <2>1, Zenon DEF BusyInv, push
    <3>1. ~busy_removed /\ queue[w] = <<>> /\ cur[w] = None
      BY <1>4, Zenon
    <3>2. \A a \in Pushers : pc[a] # "join" /\ (pc[a] = "selected" => Kept(sel[a]) /\ sel[a] \in Workers)
      BY <1>1, <1>10, <3>1, Zenon DEF Core, BusyInv, PushInv
    <3>3. Holders(w) = {}
      BY <1>6, <1>11
    <3>4. \A a \in Pushers : pc[a] = "selected" => Kept(sel[a])'
      <4> SUFFICES ASSUME NEW a \in Pushers, pc[a] = "selected" PROVE Kept(sel[a])'
        OBVIOUS
      <4>1. sel[a] # w /\ sel[a] \in Workers /\ Kept(sel[a])
        BY <3>2, <3>3, Zenon DEF Holders
      <4>2. PICK v \in Workers : v = sel[a] /\ v = sel'[a]
        BY <1>4, <4>1, Zenon DEF push
      <4> QED BY <2>3, <4>1, <4>2, Zenon
    <3>5. queue'[w] = <<"stop">>
      BY <1>7, <1>11, <3>1 DEF Stopped
    <3>6. cur[w] # "task" /\ \A i \in DOMAIN queue'[w] : queue'[w][i] # "task"
      <4>1. cur[w] # "task"
        BY <3>1, Constants, Zenon
      <4> QED BY <3>5, <4>1
    <3> QED BY <3>2, <3>4, <3>6, Zenon
  <2>6. Core'
    BY <1>7, <2>2, <2>4, <2>5, Zenon DEF Core
  <2>7. Control'
    <3>1. ControlTypes'
      BY <1>1, <1>4, <2>1, Zenon DEF Control, ControlTypes, shutdown
    <3>2. LifeInv'
      <4>1. idx' + 1 \in DOMAIN dynamic' /\ victim' = dynamic'[idx' + 1]
        BY <1>2, <1>3, <1>4, <2>1, Zenon
      <4> QED BY <1>1, <1>4, <1>10, <2>1, <4>1, Zenon DEF Control, LifeInv, shutdown
    <3>3. NumInv'
      BY <1>1, <1>4, <2>1, Zenon DEF Control, NumInv, Valid, shutdown
    <3> QED BY <3>1, <3>2, <3>3, Zenon DEF Control
  <2>8. Others' = Others
    BY <1>4, <2>1 DEF Others, shutdown
  <2> QED BY <1>9, <2>6, <2>7, <2>8, Assembled
<1>12. CASE refs[w] # 1
  <2>1. dynamic' = RemoveUnordered(dynamic, idx + 1) /\ removed' = TRUE /\ UNCHANGED <<shrink, victim>>
    BY <1>4, <1>8, <1>12, Zenon
  <2>2. dynamic' \in Seq(Workers) /\ Len(dynamic') = Len(dynamic) - 1 /\ Distinct(dynamic')
        /\ Elems(dynamic') = Elems(dynamic) \ {w}
    <3>1. dynamic \in Seq(Workers) /\ Distinct(dynamic)
      BY <1>1, Zenon DEF Core, VecInv
    <3> QED BY <1>2, <1>3, <2>1, <3>1, Removed, Zenon
  <2>3. VecInv' /\ OptsInv' /\ SizeBound'
    BY <1>1, <1>4, <2>2, Shrunk, Zenon
  <2>4. ~Kept(w)' /\ \A v \in Workers : v # w => (Kept(v)' <=> Kept(v))
    <3>1. Elems(static)' = Elems(static) /\ Elems(dynamic)' = Elems(dynamic) \ {w}
      BY <1>4, <2>2, Zenon DEF Elems
    <3> QED BY <1>4, <1>5, <2>1, <3>1 DEF Kept
  <2>5. RefsInv' /\ PushTypes' /\ PushInv'
    BY <1>1, <1>4, <1>5, <1>7, <2>4, Released, Zenon
  <2>6. BusyInv'
    <3>1. refs[w] > 1
      BY <1>6, <1>12
    <3> QED BY <1>4, <3>1, Zenon DEF BusyInv
  <2>7. Core'
    BY <1>7, <2>3, <2>5, <2>6, Zenon DEF Core
  <2>8. Control'
    <3>1. ControlTypes'
      <4>1. busy_removed' \in BOOLEAN
        BY <1>4, Zenon
      <4> QED BY <1>1, <1>4, <2>1, <4>1, Zenon DEF Control, ControlTypes, shutdown
    <3>2. LifeInv'
      BY <1>1, <1>4, <1>10, <2>1 DEF Control, LifeInv, shutdown
    <3>3. NumInv'
      BY <1>1, <1>4, <2>1, Zenon DEF Control, NumInv, Valid, shutdown
    <3> QED BY <3>1, <3>2, <3>3, Zenon DEF Control
  <2>9. Others' = Others
    BY <1>4, <2>1, Zenon DEF Others, shutdown
  <2> QED BY <1>9, <2>7, <2>8, <2>9, Assembled
<1> QED BY <1>11, <1>12, Zenon

\* The thread has been joined and the worker leaves the vector.
LEMMA KeepsShrinkJoined == ASSUME IInv, shrink_joined PROVE IInv'
<1>1. Core /\ Control
  BY Zenon DEF IInv
<1>2. idx + 1 \in DOMAIN dynamic /\ victim = dynamic[idx + 1] /\ victim \in Workers /\ shut = "up"
  BY ControlFacts DEF shrink_joined, IInv, Control, LifeInv
<1>3. PICK w \in Workers : w = victim
  BY <1>2, Zenon
<1>4. /\ shrink = "join" /\ state[w] = "ended" /\ state' = [state EXCEPT ![w] = "unused"]
      /\ dynamic' = RemoveUnordered(dynamic, idx + 1)
      /\ removed' = TRUE /\ shrink' = "scan" /\ victim' = None
      /\ UNCHANGED <<opts, static, num, refs, idle, queue, cur, push, idx, busy_removed, shutdown, prefs>>
  BY <1>3, Zenon DEF shrink_joined, Joined
<1>5. queue[w] = <<>> /\ cur[w] = None
  BY <1>1, <1>4, Zenon DEF Core, StopInv, StopOf
<1>6. WorkTypes' /\ StopInv' /\ Referring' = Referring
  <2>1. /\ state[w] \in {"stopping", "detached", "ended"} /\ "unused" \in {"unused", "ended"}
        /\ UNCHANGED <<refs, queue, cur>>
    BY <1>4
  <2> QED BY <1>1, <1>4, <1>5, <2>1, StateMoved, Zenon
<1>7. dynamic' \in Seq(Workers) /\ Len(dynamic') = Len(dynamic) - 1 /\ Distinct(dynamic')
      /\ Elems(dynamic') = Elems(dynamic) \ {w}
  <2>1. dynamic \in Seq(Workers) /\ Distinct(dynamic)
    BY <1>1, Zenon DEF Core, VecInv
  <2> QED BY <1>2, <1>3, <1>4, <2>1, Removed, Zenon
<1>8. VecInv' /\ OptsInv' /\ SizeBound'
  BY <1>1, <1>4, <1>7, Shrunk, Zenon
<1>9. ASSUME NEW v PROVE Kept(v)' <=> Kept(v)
  <2>1. w \in Elems(dynamic)
    BY <1>2, <1>3, Zenon DEF Elems
  <2>2. w \notin Elems(static)
    BY <1>1, <2>1, Zenon DEF Core, VecInv
  <2>3. Elems(static)' = Elems(static) /\ Elems(dynamic)' = Elems(dynamic) \ {w}
    BY <1>4, <1>7, Zenon DEF Elems
  <2> QED BY <1>3, <1>4, <2>2, <2>3 DEF Kept
<1>10. \A v : Holders(v)' = Holders(v)
  BY <1>4, Zenon DEF Holders, push
<1>11. RefsInv'
  BY <1>1, <1>4, <1>9, <1>10, Zenon DEF Core, RefsInv
<1>12. PushTypes' /\ PushInv'
  BY <1>1, <1>4, Zenon DEF Core, PushTypes, PushInv, push
<1>13. BusyInv'
  BY <1>1, <1>4, <1>9 DEF Core, BusyInv, push, shutdown
<1>14. Core'
  BY <1>6, <1>8, <1>11, <1>12, <1>13, Zenon DEF Core
<1>15. Control'
  <2>1. ControlTypes'
    BY <1>1, <1>4, Zenon DEF Control, ControlTypes, shutdown
  <2>2. LifeInv'
    BY <1>1, <1>2, <1>4 DEF Control, LifeInv, shutdown
  <2>3. NumInv'
    BY <1>1, <1>4, Zenon DEF Control, NumInv, Valid, shutdown
  <2> QED BY <2>1, <2>2, <2>3, Zenon DEF Control
<1>16. Others' = Others
  BY <1>4 DEF Others, shutdown
<1>17. prefs' = prefs + 0 /\ Cardinality(Referring)' = Cardinality(Referring) + 0
  <2>1. prefs' = prefs /\ Referring' = Referring
    BY <1>4, <1>6, Zenon
  <2> QED BY <2>1, ControlFacts, ReferringCount
<1> QED BY <1>14, <1>15, <1>16, <1>17, Assembled

\* The shutdown drops the vectors' reference to a worker.
LEMMA KeepsCleans == ASSUME IInv, shutdown_cleans PROVE IInv'
<1>1. Core /\ Control
  BY Zenon DEF IInv
<1>2. /\ static \in Seq(Workers) /\ dynamic \in Seq(Workers) /\ Distinct(static) /\ Distinct(dynamic)
      /\ Elems(static) \intersect Elems(dynamic) = {}
  BY <1>1, Zenon DEF Core, VecInv
<1>3. PICK w \in Workers : w = IF static # <<>> THEN Head(static) ELSE Head(dynamic)
  BY <1>2 DEF shutdown_cleans
<1>4. /\ shut = "clean" /\ (static # <<>> \/ dynamic # <<>>)
      /\ Drop(w, ShutdownThread) /\ queue' = [queue EXCEPT ![w] = Stopped(w, queue[w])]
      /\ IF static # <<>>
          THEN static' = Tail(static) /\ UNCHANGED dynamic
          ELSE dynamic' = Tail(dynamic) /\ UNCHANGED static
      /\ \/ shut' = "join" /\ joined' = w
         \/ UNCHANGED <<shut, joined>>
      /\ UNCHANGED <<opts, num, idle, cur, push, shrinker, shutting_down, leaked, prefs>>
  BY <1>3, Zenon DEF shutdown_cleans
<1>5. shrink = "gone" /\ shrink' = "gone"
  BY <1>1, <1>4, Zenon DEF Control, LifeInv, shrinker
<1>6. \/ /\ static' = static /\ dynamic' \in Seq(Workers) /\ Len(dynamic') = Len(dynamic) - 1
         /\ Distinct(dynamic') /\ Elems(dynamic') = Elems(dynamic) \ {w} /\ w \in Elems(dynamic)
      \/ /\ dynamic' = dynamic /\ static' \in Seq(Workers) /\ Len(static') = Len(static) - 1
         /\ Distinct(static') /\ Elems(static') = Elems(static) \ {w} /\ w \in Elems(static)
  <2>1. CASE static # <<>>
    <3>1. w = Head(static) /\ static' = Tail(static) /\ dynamic' = dynamic
      BY <1>3, <1>4, <2>1, Zenon
    <3>2. /\ Head(static) \in Elems(static) /\ Tail(static) \in Seq(Workers) /\ Len(Tail(static)) = Len(static) - 1
          /\ Distinct(Tail(static)) /\ Elems(Tail(static)) = Elems(static) \ {Head(static)}
      BY <1>2, <2>1, TailOf, Zenon
    <3> QED BY <3>1, <3>2, Zenon
  <2>2. CASE static = <<>>
    <3>1. w = Head(dynamic) /\ dynamic' = Tail(dynamic) /\ static' = static /\ dynamic # <<>>
      BY <1>3, <1>4, <2>2, Zenon
    <3>2. /\ Head(dynamic) \in Elems(dynamic) /\ Tail(dynamic) \in Seq(Workers)
          /\ Len(Tail(dynamic)) = Len(dynamic) - 1
          /\ Distinct(Tail(dynamic)) /\ Elems(Tail(dynamic)) = Elems(dynamic) \ {Head(dynamic)}
      BY <1>2, <3>1, TailOf, Zenon
    <3> QED BY <3>1, <3>2, Zenon
  <2> QED BY <2>1, <2>2, Zenon
<1>7. VecInv' /\ OptsInv' /\ SizeBound'
  BY <1>1, <1>4, <1>6, Shrunk, Zenon
<1>8. Kept(w) /\ ~Kept(w)' /\ \A v \in Workers : v # w => (Kept(v)' <=> Kept(v))
  <2>1. Elems(static)' = Elems(static') /\ Elems(dynamic)' = Elems(dynamic')
    BY Zenon DEF Elems
  <2>2. Elems(static)' \union Elems(dynamic)' = (Elems(static) \union Elems(dynamic)) \ {w}
    BY <1>2, <1>6, <2>1
  <2>3. w \in Elems(static) \union Elems(dynamic)
    BY <1>6, Zenon
  <2>4. shrink # "join" /\ shrink' # "join"
    BY <1>5
  <2> QED BY <2>2, <2>3, <2>4 DEF Kept
<1>9. refs[w] \in Nat /\ refs[w] >= 1
  BY <1>1, <1>8, Counted, Zenon
<1>10. /\ WorkTypes' /\ StopInv' /\ Referring' = Referring
       /\ refs'[w] = refs[w] - 1 /\ \A v \in Workers : v # w => refs'[v] = refs[v]
  <2>1. refs[w] # 0 /\ UNCHANGED cur
    BY <1>4, <1>9
  <2>2. queue[w] \in {queue[w], Append(queue[w], "task")}
    OBVIOUS
  <2> QED BY <1>1, <1>4, <2>1, <2>2, Dropped, Zenon
<1>11. RefsInv' /\ PushTypes' /\ PushInv'
  BY <1>1, <1>4, <1>8, <1>10, Released, Zenon
<1>12. shut' \in {"clean", "join"} /\ shut' # "up"
  BY <1>4
<1>13. BusyInv' /\ NumInv'
  BY <1>12, Zenon DEF BusyInv, NumInv
<1>14. Core'
  BY <1>7, <1>10, <1>11, <1>13, Zenon DEF Core
<1>15. ControlTypes'
  BY <1>1, <1>4, <1>12, Zenon DEF Control, ControlTypes, shrinker
<1>16. LifeInv'
  BY <1>1, <1>4, <1>5, <1>12 DEF Control, LifeInv, shrinker
<1>17. Others' = Others
  BY <1>4, <1>12 DEF Others, shrinker
<1>18. prefs' = prefs + 0 /\ Cardinality(Referring)' = Cardinality(Referring) + 0
  <2>1. prefs' = prefs /\ Referring' = Referring
    BY <1>4, <1>10, Zenon
  <2> QED BY <2>1, ControlFacts, ReferringCount
<1>19. Control'
  BY <1>13, <1>15, <1>16, Zenon DEF Control
<1> QED BY <1>14, <1>17, <1>18, <1>19, Assembled

-----------------------------------------------------------------------------
(* Choosing a worker                                                       *)

\* An unused worker is in no vector, held by nobody and has nothing to do.
LEMMA Untouched ==
    ASSUME IInv, shrink # "join", NEW v \in Workers, state[v] = "unused"
    PROVE  /\ refs[v] = 0 /\ queue[v] = <<>> /\ cur[v] = None /\ ~StopLeft(v) /\ v \notin Referring
           /\ v \notin Elems(static) /\ v \notin Elems(dynamic) /\ ~Kept(v)
<1>1. StopOf(v) /\ Core
  BY Zenon DEF IInv, Core, StopInv
<1>2. refs[v] = 0 /\ queue[v] = <<>> /\ cur[v] = None
  BY <1>1 DEF StopOf
<1>3. ~StopLeft(v)
  BY <1>2, Constants DEF StopLeft
<1>4. ~Kept(v)
  <2>1. Kept(v) => refs[v] >= 1
    BY <1>1, Counted, Zenon
  <2> QED BY <1>2, <2>1
<1>5. v \notin Referring
  BY <1>3 DEF Referring
<1> QED BY <1>2, <1>3, <1>4, <1>5, Zenon DEF Kept

\* What ast_taskpool_push does with a choice w, and with workers added to the pool.
Grants(a, w, added) ==
    /\ pc[a] = "lock" /\ Unlocked /\ ~shutting_down
    /\ added \subseteq Unused
    /\ w = None \/ (w \in Workers /\ w \in Elems(static) \union Elems(dynamic) \union added)
    /\ Chosen(a, w, added)
    /\ state' = [v \in Workers |-> IF v \in added THEN "up" ELSE state[v]]
    /\ queue' = [v \in Workers |-> IF v \in added THEN <<"start">> ELSE queue[v]]
    /\ Elems(static)' = Elems(static) /\ Elems(dynamic)' = Elems(dynamic) \union added
    /\ UNCHANGED <<opts, cur, pushes, shrinker, shutdown>>

\* The references to v then.
Granted(v, w, added) == (IF v \in added THEN 1 ELSE refs[v]) + (IF v = w THEN 1 ELSE 0)

\* The references, of the vectors and of the pusher.
LEMMA GrantsRefs ==
    ASSUME IInv, NEW a \in Pushers, NEW w, NEW added, Grants(a, w, added)
    PROVE  /\ RefsInv' /\ \A v \in Workers : Kept(v)' <=> Kept(v) \/ v \in added
           /\ \A v \in Workers : refs'[v] = Granted(v, w, added)
           /\ refs' \in [Workers -> Nat] /\ shrink # "join"
<1>1. /\ shrink # "join" /\ shrink' # "join" /\ Core
  BY Zenon DEF IInv, Grants, Unlocked, shrinker
<1>2. \A v \in added : /\ v \in Workers /\ state[v] = "unused"
  BY Zenon DEF Grants, Unused
<1>3. \A v \in Workers : refs[v] \in Nat
  BY <1>1 DEF Core, WorkTypes
<1>4. \A v \in Workers : refs'[v] = Granted(v, w, added)
  BY Zenon DEF Grants, Chosen, Granted
<1>5. refs' \in [Workers -> Nat]
  BY <1>3 DEF Grants, Chosen
<1>6. \A v \in Workers : Kept(v)' <=> Kept(v) \/ v \in added
  BY <1>1, Zenon DEF Kept, Grants
<1>7. /\ pc'[a] = (IF w = None THEN "idle" ELSE "selected") /\ sel'[a] = w
      /\ \A b \in Pushers : b # a => pc'[b] = pc[b] /\ sel'[b] = sel[b]
  BY <1>1 DEF Core, PushTypes, Grants, Chosen
<1>8. ASSUME NEW v \in Workers
      PROVE  IsFiniteSet(Holders(v)') /\ refs'[v] = Cardinality(Holders(v)') + (IF Kept(v)' THEN 1 ELSE 0)
  <2>1. /\ IsFiniteSet(Holders(v)) /\ refs[v] = Cardinality(Holders(v)) + (IF Kept(v) THEN 1 ELSE 0)
    BY <1>1, Zenon DEF Core, RefsInv
  <2>2. Cardinality(Holders(v)) \in Nat
    BY <2>1, FS_CardinalityType, Zenon
  <2>3. a \notin Holders(v)
    BY DEF Holders, Grants
  <2>4. v \in added => refs[v] = 0 /\ ~Kept(v)
    BY <1>1, <1>2, Untouched, Zenon
  <2>5. Holders(v)' = IF v = w THEN Holders(v) \union {a} ELSE Holders(v)
    <3>1. v # None
      BY Constants, Zenon
    <3>2. Holders(v)' = {b \in Pushers : pc'[b] = "selected" /\ sel'[b] = v}
      BY Zenon DEF Holders
    <3>3. \A b \in Pushers : b # a => (pc'[b] = "selected" /\ sel'[b] = v <=> b \in Holders(v))
      BY <1>7, Zenon DEF Holders
    <3>4. pc'[a] = "selected" /\ sel'[a] = v <=> v = w
      BY <1>7, <3>1
    <3>5. \A b : b \in Holders(v) => b \in Pushers
      BY Zenon DEF Holders
    <3> HIDE DEF Holders
    <3> QED BY <2>3, <3>2, <3>3, <3>4, <3>5
  <2>6. /\ IsFiniteSet(Holders(v)')
        /\ Cardinality(Holders(v)') = Cardinality(Holders(v)) + (IF v = w THEN 1 ELSE 0)
    <3>1. IsFiniteSet(Holders(v) \union {a}) /\ Cardinality(Holders(v) \union {a}) = Cardinality(Holders(v)) + 1
      BY <2>1, <2>3, FS_AddElement, Zenon
    <3>2. Cardinality(Holders(v)) = Cardinality(Holders(v)) + 0
      BY <2>2
    <3> QED BY <2>1, <2>5, <3>1, <3>2, Zenon
  <2>7. refs'[v] = Cardinality(Holders(v)') + (IF Kept(v)' THEN 1 ELSE 0)
    <3> DEFINE c == Cardinality(Holders(v))
               x == IF v = w THEN 1 ELSE 0
    <3>1. CASE v \in added
      <4>1. c = 0 /\ refs'[v] = 1 + x /\ Kept(v)' /\ Cardinality(Holders(v)') = c + x
        <5>1. c = 0
          <6> HIDE DEF Kept, Holders
          <6> QED BY <2>1, <2>2, <2>4, <3>1
        <5> QED BY <1>4, <1>6, <2>6, <3>1, <5>1, Zenon DEF Granted
      <4>2. x \in Nat
        OBVIOUS
      <4> HIDE DEF c, x, Kept, Holders
      <4> QED BY <4>1, <4>2
    <3>2. CASE v \notin added
      <4>1. /\ refs[v] = c + (IF Kept(v) THEN 1 ELSE 0) /\ refs'[v] = refs[v] + x /\ (Kept(v)' <=> Kept(v))
            /\ Cardinality(Holders(v)') = c + x /\ c \in Nat
        BY <1>4, <1>6, <2>1, <2>2, <2>6, <3>2, Zenon DEF Granted
      <4>2. x \in Nat
        OBVIOUS
      <4> HIDE DEF c, x, Kept, Holders
      <4> QED BY <4>1, <4>2
    <3> QED BY <3>1, <3>2, Zenon
  <2> QED BY <2>6, <2>7, Zenon
<1> QED BY <1>1, <1>4, <1>5, <1>6, <1>8, Zenon DEF RefsInv

\* The workers that are added get their start task and refer to the pool.
LEMMA GrantsWork ==
    ASSUME IInv, NEW a \in Pushers, NEW w, NEW added, Grants(a, w, added)
    PROVE  /\ WorkTypes' /\ StopInv'
           /\ Referring' = Referring \union added /\ Referring \intersect added = {}
<1>1. /\ \A v \in Workers : refs'[v] = Granted(v, w, added)
      /\ refs' \in [Workers -> Nat] /\ shrink # "join"
  BY GrantsRefs, Zenon
<1>2. Core /\ added \subseteq Workers /\ cur' = cur /\ \A v \in added : state[v] = "unused"
  BY Zenon DEF IInv, Grants, Unused
<1>3. \A v \in added : refs[v] = 0 /\ queue[v] = <<>> /\ cur[v] = None /\ v \notin Referring
  BY <1>1, <1>2, Untouched, Zenon
<1>4. \A v \in Workers : /\ state'[v] = IF v \in added THEN "up" ELSE state[v]
                         /\ queue'[v] = IF v \in added THEN <<"start">> ELSE queue[v]
  BY Zenon DEF Grants
<1>5. WorkTypes'
  <2>1. <<"start">> \in Seq({"start", "task", "stop"})
    OBVIOUS
  <2>2. state' \in [Workers -> {"unused", "up", "stopping", "detached", "ended"}]
    BY <1>2, Zenon DEF Core, WorkTypes, Grants
  <2>3. queue' \in [Workers -> Seq({"start", "task", "stop"})]
    BY <1>2, <2>1, Zenon DEF Core, WorkTypes, Grants
  <2> QED BY <1>1, <1>2, <2>2, <2>3, Zenon DEF Core, WorkTypes
<1>6. \A v \in added : ~StopLeft(v)'
  <2> SUFFICES ASSUME NEW v \in added PROVE ~StopLeft(v)'
    OBVIOUS
  <2>1. cur'[v] # "stop" /\ queue'[v] = <<"start">>
    BY <1>2, <1>3, <1>4, Constants, Zenon
  <2> QED BY <2>1 DEF StopLeft
<1>7. \A v \in Workers : v \notin added => (StopLeft(v)' <=> StopLeft(v))
  BY <1>2, <1>4, Zenon DEF StopLeft
<1>8. ASSUME NEW v \in Workers PROVE StopOf(v)'
  <2>1. CASE v \in added
    <3>1. queue'[v] = <<"start">> /\ cur'[v] # "stop" /\ state'[v] = "up" /\ ~StopLeft(v)'
      BY <1>2, <1>3, <1>4, <1>6, <2>1, Constants, Zenon
    <3>2. refs'[v] # 0
      BY <1>1, <2>1 DEF Granted
    <3> QED BY <3>1, <3>2 DEF StopOf, StopLeft
  <2>2. CASE v \notin added
    <3>1. StopOf(v) /\ queue'[v] = queue[v] /\ cur'[v] = cur[v] /\ state'[v] = state[v]
      BY <1>2, <1>4, <2>2, Zenon DEF Core, StopInv
    <3>2. refs'[v] = 0 <=> refs[v] = 0
      <4>1. refs[v] \in Nat /\ refs'[v] = refs[v] + (IF v = w THEN 1 ELSE 0)
        BY <1>1, <1>2, <2>2, Zenon DEF Core, WorkTypes, Granted
      <4>2. CASE v = w
        <5>1. Kept(v)
          BY <1>1, <2>2, <4>2, Constants, Zenon DEF Grants, Kept
        <5>2. refs[v] >= 1
          BY <1>2, <5>1, Counted, Zenon
        <5> QED BY <4>1, <5>2
      <4>3. CASE v # w
        BY <4>1, <4>3
      <4> QED BY <4>2, <4>3, Zenon
    <3> QED BY <1>7, <2>2, <3>1, <3>2, Zenon DEF StopOf
  <2> QED BY <2>1, <2>2, Zenon
<1>9. Referring' = Referring \union added /\ Referring \intersect added = {}
  <2>1. \A v \in Workers : (state'[v] = "up" \/ StopLeft(v)') <=> (v \in Referring \/ v \in added)
    BY <1>4, <1>7, Zenon DEF Referring
  <2>2. Referring' = {v \in Workers : state'[v] = "up" \/ StopLeft(v)'} /\ Referring \subseteq Workers
    BY Zenon DEF Referring
  <2> HIDE DEF Referring
  <2> QED BY <1>2, <1>3, <2>1, <2>2, Zenon
<1> QED BY <1>5, <1>8, <1>9, Zenon DEF StopInv

\* The pusher goes on with the worker, which it may join only after the shrink has removed it.
LEMMA GrantsPush ==
    ASSUME IInv, NEW a \in Pushers, NEW w, NEW added, Grants(a, w, added)
    PROVE  PushTypes' /\ PushInv' /\ BusyInv' /\ OptsInv'
<1>1. /\ shrink # "join" /\ shrink' = shrink
      /\ \A v \in Workers : Kept(v)' <=> Kept(v) \/ v \in added
  <2>1. shrink' = shrink
    BY Zenon DEF Grants, shrinker
  <2> QED BY <2>1, GrantsRefs, Zenon
<1>2. Core /\ w \in Workers \union {None} /\ pc[a] = "lock" /\ UNCHANGED <<opts, cur, pushes, shut, busy_removed>>
  BY Zenon DEF IInv, Grants, shrinker, shutdown
<1>3. /\ pc'[a] = (IF w = None THEN "idle" ELSE "selected") /\ sel'[a] = w
      /\ \A b \in Pushers : b # a => pc'[b] = pc[b] /\ sel'[b] = sel[b]
      /\ pc' \in [Pushers -> {"idle", "lock", "selected", "join"}] /\ sel' \in [Pushers -> Workers \union {None}]
  BY <1>2 DEF Core, PushTypes, Grants, Chosen
<1>4. PushTypes' /\ OptsInv'
  BY <1>2, <1>3, Zenon DEF Core, PushTypes, OptsInv
<1>5. pc'[a] # "join" /\ (pc'[a] = "selected" => w \in Workers)
  BY <1>2, <1>3, Zenon
<1>6. PushInv'
  <2>1. \A b \in Pushers : pc'[b] \in {"selected", "join"} => sel'[b] \in Workers
    BY <1>2, <1>3, <1>5, Zenon DEF Core, PushInv
  <2>2. \A v \in Workers : pc'[v] # "idle" => cur'[v] = "task"
    BY <1>2, <1>3, Constants, Zenon DEF Core, PushInv
  <2> QED BY <2>1, <2>2, Zenon DEF PushInv
<1>7. BusyInv'
  <2> SUFFICES ASSUME ~busy_removed, shut = "up", NEW b \in Pushers
               PROVE  pc'[b] # "join" /\ (pc'[b] = "selected" => Kept(sel[b])')
    BY <1>1, <1>2, Zenon DEF BusyInv
  <2>1. CASE b = a
    <3>1. w \in Workers => Kept(w)'
      <4> SUFFICES ASSUME w \in Workers PROVE Kept(w)'
        OBVIOUS
      <4>1. w \in Elems(static)' \union Elems(dynamic)'
        BY Constants, Zenon DEF Grants
      <4> QED BY <1>1, <4>1, Zenon DEF Kept
    <3>2. Kept(w)' => Kept(sel[b])'
      BY <1>3, <2>1, Zenon DEF Kept
    <3> QED BY <1>5, <2>1, <3>1, <3>2, Zenon
  <2>2. CASE b # a
    <3>1. pc'[b] = pc[b] /\ sel'[b] = sel[b] /\ pc[b] # "join" /\ (pc[b] = "selected" => Kept(sel[b]) /\ sel[b] \in Workers)
      BY <1>2, <1>3, <2>2, Zenon DEF Core, BusyInv, PushInv
    <3>2. ASSUME pc[b] = "selected" PROVE Kept(sel[b])'
      <4>1. PICK v \in Workers : v = sel[b] /\ v = sel'[b] /\ Kept(v)
        BY <3>1, <3>2, Zenon
      <4> QED BY <1>1, <4>1, Zenon DEF Kept
    <3> QED BY <3>1, <3>2, Zenon
  <2> QED BY <2>1, <2>2, Zenon
<1> QED BY <1>4, <1>6, <1>7, Zenon

\* A static worker is chosen.
LEMMA KeepsStatic == ASSUME NEW a \in Pushers, IInv, push_static(a) PROVE IInv'
<1> DEFINE s == Select(static, num.static, None)
<1>1. /\ pc[a] = "lock" /\ Unlocked /\ ~shutting_down
      /\ Chosen(a, s.w, {}) /\ num' = [num EXCEPT !.static = s.num]
      /\ UNCHANGED <<opts, static, dynamic, idle, work, pushes, shrinker, shutdown, prefs>>
  BY Zenon DEF push_static
<1>2. Core /\ Control /\ shut = "up" /\ ~removed
  BY <1>1, Zenon DEF IInv, Control, LifeInv, Unlocked
<1>3. Valid(static, num.static) /\ Valid(dynamic, num.dynamic)
  BY <1>2, Zenon DEF Control, NumInv
<1>4. static \in Seq(Workers) /\ queue \in [Workers -> Seq({"start", "task", "stop"})]
  BY <1>2, Zenon DEF Core, VecInv, WorkTypes
<1>5. (s.w = None \/ s.w \in Elems(static)) /\ Valid(static, s.num)
  BY <1>3, <1>4, Selected, Zenon
<1>6. PICK w : w = s.w
  OBVIOUS
<1> HIDE DEF s
<1>7. Elems(static) \subseteq Workers
  BY <1>4 DEF Elems
<1>8. Grants(a, w, {})
  <2>1. state' = [v \in Workers |-> state[v]] /\ queue' = [v \in Workers |-> queue[v]]
    BY <1>1, <1>2 DEF Core, WorkTypes, work
  <2>2. state' = [v \in Workers |-> IF v \in {} THEN "up" ELSE state[v]]
        /\ queue' = [v \in Workers |-> IF v \in {} THEN <<"start">> ELSE queue[v]]
    BY <2>1
  <2>3. Elems(static)' = Elems(static) /\ Elems(dynamic)' = Elems(dynamic) \union {}
    BY <1>1 DEF Elems
  <2>4. {} \subseteq Unused
    OBVIOUS
  <2>5. w = None \/ (w \in Workers /\ w \in Elems(static) \union Elems(dynamic) \union {})
    BY <1>5, <1>6, <1>7
  <2> QED BY <1>1, <1>6, <2>2, <2>3, <2>4, <2>5, Zenon DEF Grants, work
<1>9. Core' /\ Referring' = Referring \union {}
  BY <1>1, <1>2, <1>8, GrantsRefs, GrantsWork, GrantsPush, VectorsSame, Zenon DEF Core
<1>10. Control'
  <2>1. num' \in [static : Nat, dynamic : Nat] /\ num'.static = s.num /\ num'.dynamic = num.dynamic
    <3>1. s.num \in Nat /\ num \in [static : Nat, dynamic : Nat]
      BY <1>2, <1>5, Zenon DEF Valid, Control, ControlTypes
    <3> QED BY <1>1, <3>1
  <2>2. ControlTypes'
    BY <1>1, <1>2, <2>1, Zenon DEF Control, ControlTypes, shrinker, shutdown
  <2>3. LifeInv'
    BY <1>1, <1>2, Zenon DEF Control, LifeInv, shrinker, shutdown
  <2>4. NumInv'
    BY <1>1, <1>3, <1>5, <2>1, Zenon DEF NumInv, Valid
  <2> QED BY <2>2, <2>3, <2>4, Zenon DEF Control
<1>11. Others' = Others
  BY <1>1, Zenon DEF Others, shrinker, shutdown
<1>12. prefs' = prefs + 0 /\ Cardinality(Referring)' = Cardinality(Referring) + 0
  <2>1. prefs' = prefs /\ Referring' = Referring
    BY <1>1, <1>9
  <2> QED BY <2>1, ControlFacts, ReferringCount
<1> QED BY <1>9, <1>10, <1>11, <1>12, Assembled

\* The pool grows by workers of its own, by no more than max_size allows, and the
\* next index stays within the vector.
LEMMA KeepsDynamic ==
    ASSUME NEW a \in Pushers, NEW n \in 0 .. MaxWorkers, IInv, push_dynamic(a, n)
    PROVE  IInv'
<1> DEFINE s == Select(static, num.static, None)
           d == Select(dynamic, num.dynamic, s.w)
           c == IF n > 0 THEN Fresh(n)[1] ELSE d.w
<1>0. n \in Nat
  BY Constants
<1>1. /\ pc[a] = "lock" /\ Unlocked /\ ~shutting_down /\ opts.inc # 0
      /\ n <= (IF d.grow THEN NumToAdd ELSE 0) /\ n <= Cardinality(Unused)
      /\ taskpool_dynamic_pool_grow(n, d) /\ Chosen(a, c, {Fresh(n)[i] : i \in 1 .. n})
      /\ idle' = idle \ ({c} \union {Fresh(n)[i] : i \in 1 .. n})
      /\ UNCHANGED <<opts, static, cur, pushes, shrinker, shutdown>>
  BY Zenon DEF push_dynamic
<1>2. PICK f : f = Fresh(n)
  OBVIOUS
<1> DEFINE added == {f[i] : i \in 1 .. n}
<1>3. f \in [1 .. n -> Unused] /\ \A i, j \in 1 .. n : i # j => f[i] # f[j]
  <2> HIDE DEF d, c
  <2> QED BY <1>0, <1>1, <1>2, FreshWorkers, Zenon
<1>4. /\ dynamic' = dynamic \o f
      /\ num' = [num EXCEPT !.static = s.num,
                            !.dynamic = IF n = 0 THEN d.num ELSE IF n = 1 THEN 0 ELSE Len(dynamic) + 1]
      /\ state' = [v \in Workers |-> IF v \in added THEN "up" ELSE state[v]]
      /\ queue' = [v \in Workers |-> IF v \in added THEN <<"start">> ELSE queue[v]]
      /\ prefs' = prefs + n
  <2> HIDE DEF d, c
  <2> QED BY <1>1, <1>2, Zenon DEF taskpool_dynamic_pool_grow
<1>5. Core /\ Control /\ shut = "up" /\ ~removed /\ shrink # "join"
  BY <1>1, Zenon DEF IInv, Control, LifeInv, Unlocked
<1>6. Valid(static, num.static) /\ Valid(dynamic, num.dynamic)
  BY <1>5, Zenon DEF Control, NumInv
<1>7. /\ static \in Seq(Workers) /\ dynamic \in Seq(Workers) /\ queue \in [Workers -> Seq({"start", "task", "stop"})]
      /\ Distinct(static) /\ Distinct(dynamic) /\ Elems(static) \intersect Elems(dynamic) = {}
  BY <1>5, Zenon DEF Core, VecInv, WorkTypes
<1>8. (s.w = None \/ s.w \in Elems(static)) /\ Valid(static, s.num)
  BY <1>6, <1>7, Selected, Zenon
<1> HIDE DEF s
<1>9. (d.w = s.w \/ d.w \in Elems(dynamic)) /\ Valid(dynamic, d.num)
  BY <1>6, <1>7, Selected, Zenon
<1> HIDE DEF d
<1>10. added \subseteq Unused /\ Unused \subseteq Workers
  BY <1>3, Zenon DEF Unused
<1>11. \A v \in added : v \notin Elems(static) /\ v \notin Elems(dynamic)
  <2>1. \A v \in Unused : v \in Workers /\ state[v] = "unused"
    BY Zenon DEF Unused
  <2> HIDE DEF added
  <2> QED BY <1>5, <1>10, <2>1, Untouched, Zenon
<1>12. /\ dynamic' \in Seq(Workers) /\ Len(dynamic') = Len(dynamic) + n
       /\ Distinct(dynamic') /\ Elems(dynamic') = Elems(dynamic) \union added
  <2>1. f \in Seq(Workers) /\ Len(f) = n /\ DOMAIN f = 1 .. n
    BY <1>0, <1>3, <1>10
  <2>2. Distinct(f) /\ Elems(f) = added
    BY <1>3, <2>1, Zenon DEF Distinct, Elems
  <2> HIDE DEF added
  <2>3. Elems(dynamic) \intersect Elems(f) = {}
    BY <1>11, <2>2, Zenon
  <2>4. /\ dynamic \o f \in Seq(Workers) /\ Len(dynamic \o f) = Len(dynamic) + Len(f)
        /\ Distinct(dynamic \o f)
        /\ \A x : x \in Elems(dynamic \o f) <=> x \in Elems(dynamic) \/ x \in Elems(f)
    BY <1>7, <2>1, <2>2, <2>3, Joins, Zenon
  <2>5. Elems(dynamic \o f) = Elems(dynamic) \union added
    BY <2>2, <2>4, Zenon
  <2> QED BY <1>4, <2>1, <2>4, <2>5, Zenon
<1>13. IsFiniteSet(added) /\ Cardinality(added) = n
  BY <1>0, <1>3, DistinctCount, Zenon
<1>14. PICK w : w = c
  OBVIOUS
<1>15. w = None \/ (w \in Workers /\ w \in Elems(static) \union Elems(dynamic) \union added)
  <2>1. Elems(static) \subseteq Workers /\ Elems(dynamic) \subseteq Workers
    BY <1>7 DEF Elems
  <2>2. CASE n > 0
    <3>1. 1 \in 1 .. n
      BY <1>0, <2>2
    <3>2. w \in added
      BY <1>2, <1>14, <2>2, <3>1, Zenon
    <3> QED BY <1>10, <3>2, Zenon
  <2>3. CASE ~(n > 0)
    <3>1. w = d.w
      BY <1>14, <2>3, Zenon
    <3> QED BY <1>8, <1>9, <2>1, <3>1, Zenon
  <2> QED BY <2>2, <2>3, Zenon
<1>16. Chosen(a, w, added) /\ idle' \subseteq idle
  BY <1>1, <1>2, <1>14, Zenon
<1> HIDE DEF added, c
<1>17. Elems(static)' = Elems(static) /\ Elems(dynamic)' = Elems(dynamic) \union added
  BY <1>1, <1>12, Zenon DEF Elems
<1>18. Grants(a, w, added)
  BY <1>1, <1>4, <1>10, <1>15, <1>16, <1>17, Zenon DEF Grants
<1>19. VecInv'
  <2>1. /\ static' \in Seq(Workers) /\ Distinct(static') /\ Elems(static') \intersect Elems(dynamic') = {}
    BY <1>1, <1>7, <1>11, <1>12
  <2> QED BY <1>12, <2>1, Zenon DEF VecInv, Distinct, Elems
<1>20. SizeBound'
  <2>1. /\ opts.inc \in Nat /\ opts.max \in Nat /\ Len(static) \in Nat /\ Len(dynamic) \in Nat
        /\ opts.inc > 0 /\ opts.max > 0 => Len(static) + Len(dynamic) <= opts.max
    BY <1>5, <1>7 DEF Core, OptsInv, SizeBound
  <2>2. n = 0 \/ n <= NumToAdd
    BY <1>0, <1>1
  <2>3. opts.inc > 0 /\ opts.max > 0 => Len(static) + (Len(dynamic) + n) <= opts.max
    BY <1>0, <2>1, <2>2 DEF NumToAdd
  <2> QED BY <1>1, <1>12, <2>3, Zenon DEF SizeBound
<1>21. Core' /\ Referring' = Referring \union added /\ Referring \intersect added = {}
  <2>1. RefsInv'
    BY <1>18, GrantsRefs, Zenon
  <2>2. WorkTypes' /\ StopInv' /\ Referring' = Referring \union added /\ Referring \intersect added = {}
    BY <1>18, GrantsWork, Zenon
  <2>3. PushTypes' /\ PushInv' /\ BusyInv' /\ OptsInv'
    BY <1>18, GrantsPush, Zenon
  <2> QED BY <1>19, <1>20, <2>1, <2>2, <2>3, Zenon DEF Core
<1>22. Control'
  <2> DEFINE m == IF n = 0 THEN d.num ELSE IF n = 1 THEN 0 ELSE Len(dynamic) + 1
  <2>1. Valid(dynamic', m)
    <3>1. Len(dynamic) \in Nat /\ d.num \in Nat /\ (dynamic # <<>> => d.num < Len(dynamic)) /\ (Len(dynamic) # 0 <=> dynamic # <<>>)
      BY <1>7, <1>9 DEF Valid
    <3>2. dynamic' # <<>> <=> Len(dynamic') # 0
      BY <1>12
    <3>3. m \in Nat /\ (Len(dynamic') # 0 => m < Len(dynamic'))
      BY <1>0, <1>12, <3>1
    <3> QED BY <3>2, <3>3, Zenon DEF Valid
  <2>2. s.num \in Nat /\ m \in Nat /\ num \in [static : Nat, dynamic : Nat]
    BY <1>5, <1>8, <2>1, Zenon DEF Valid, Control, ControlTypes
  <2> HIDE DEF m
  <2>3. num' = [num EXCEPT !.static = s.num, !.dynamic = m]
    BY <1>4, Zenon DEF m
  <2>4. num' \in [static : Nat, dynamic : Nat] /\ num'.static = s.num /\ num'.dynamic = m
    BY <2>2, <2>3
  <2>5. ControlTypes'
    BY <1>1, <1>5, <1>16, <2>4, Zenon DEF Control, ControlTypes, shrinker, shutdown
  <2>6. LifeInv'
    BY <1>1, <1>5, Zenon DEF Control, LifeInv, shrinker, shutdown
  <2>7. NumInv'
    BY <1>1, <1>8, <2>1, <2>4, Zenon DEF NumInv, Valid
  <2> QED BY <2>5, <2>6, <2>7, Zenon DEF Control
<1>23. Others' = Others
  BY <1>1, Zenon DEF Others, shrinker, shutdown
<1>24. Cardinality(Referring)' = Cardinality(Referring) + n
  <2>1. IsFiniteSet(Referring)
    BY WorkersFinite, Zenon DEF Referring
  <2>2. Cardinality(Referring \union added) = Cardinality(Referring) + Cardinality(added) - Cardinality({})
    BY <1>13, <1>21, <2>1, FS_Union, Zenon
  <2>3. Cardinality({}) = 0
    BY FS_EmptySet, Zenon
  <2> HIDE DEF Referring
  <2> QED BY <1>0, <1>13, <1>21, <2>2, <2>3, ReferringCount
<1>25. prefs' = prefs + n /\ n \in Int
  BY <1>0, <1>4
<1> QED BY <1>21, <1>22, <1>23, <1>24, <1>25, Assembled, Zenon

-----------------------------------------------------------------------------
(* The pool that ast_taskpool_create returns                               *)

\* The adjusted options: a pool that grows is not created larger than max_size.
LEMMA Options ==
    ASSUME NEW o \in RawOptions
    PROVE  LET p == Adjusted(o) IN
           /\ p.inc \in Nat /\ p.max \in Nat /\ p.min \in Nat /\ p.initial \in Nat
           /\ p.threshold \in Nat /\ p.pushes \in Nat /\ p.sequential \in BOOLEAN
           /\ p.inc > 0 /\ p.max > 0 => p.min <= p.initial /\ p.initial <= p.max
<1>1. /\ o \in [initial : Nat, min : Nat, max : Nat, inc : Nat, threshold : Nat, sequential : BOOLEAN, pushes : Nat]
      /\ DefaultThreshold \in Nat
  BY OptionsAssumption, Zenon
<1> DEFINE initial == IF o.initial < o.min THEN o.min ELSE o.initial
           max == IF o.max # 0 /\ initial > o.max THEN initial ELSE o.max
           min1 == IF o.min = 0 THEN 1 ELSE o.min
           max1 == IF max = 0 THEN min1 ELSE max
           first == IF min1 # max1 THEN max1 ELSE initial
           least == IF o.threshold = 0 THEN DefaultThreshold ELSE o.threshold
           p == Adjusted(o)
<1>2. /\ o.initial \in Nat /\ o.min \in Nat /\ o.max \in Nat /\ o.inc \in Nat /\ o.threshold \in Nat
      /\ o.pushes \in Nat /\ o.sequential \in BOOLEAN
  BY <1>1
<1>3. /\ initial \in Nat /\ max \in Nat /\ max1 \in Nat /\ first \in Nat /\ least \in Nat
      /\ o.min <= initial /\ (max > 0 => initial <= max)
  BY <1>1, <1>2
<1>4. CASE o.inc = 0
  <2>1. p = [o EXCEPT !.min = max1, !.max = max1, !.initial = first]
    BY <1>4 DEF Adjusted
  <2> HIDE DEF p, max1, first
  <2>2. /\ p.inc = 0 /\ p.max = max1 /\ p.min = max1 /\ p.initial = first
        /\ p.threshold = o.threshold /\ p.pushes = o.pushes /\ p.sequential = o.sequential
    BY <1>1, <1>4, <2>1
  <2> QED BY <1>2, <1>3, <2>2 DEF p
<1>5. CASE o.inc # 0
  <2>1. p = [o EXCEPT !.initial = initial, !.max = max, !.threshold = least]
    BY <1>5 DEF Adjusted
  <2> HIDE DEF p, initial, max, least
  <2>2. /\ p.inc = o.inc /\ p.max = max /\ p.min = o.min /\ p.initial = initial
        /\ p.threshold = least /\ p.pushes = o.pushes /\ p.sequential = o.sequential
    BY <1>1, <2>1
  <2> QED BY <1>2, <1>3, <2>2 DEF p
<1> QED BY <1>4, <1>5, Zenon

\* The pool satisfies the invariant when it has been created.
LEMMA Starts == Init => IInv
<1> SUFFICES ASSUME Init PROVE IInv
  OBVIOUS
<1>1. /\ opts.inc \in Nat /\ opts.max \in Nat /\ opts.min \in Nat /\ opts.initial \in Nat
      /\ opts.threshold \in Nat /\ opts.pushes \in Nat /\ opts.sequential \in BOOLEAN
      /\ opts.inc > 0 /\ opts.max > 0 => opts.min <= opts.initial /\ opts.initial <= opts.max
  <2>1. PICK o \in RawOptions : opts = Adjusted(o)
    BY Zenon DEF Init
  <2> QED BY <2>1, Options, Zenon
<1> DEFINE m == opts.min
           k == IF opts.initial > opts.min THEN opts.initial - opts.min ELSE 0
<1>2. /\ m \in Nat /\ k \in Nat /\ 1 .. (opts.initial - opts.min) = 1 .. k /\ Created(opts) = 1 .. m + k
      /\ opts.inc > 0 /\ opts.max > 0 => m + k <= opts.max
  BY <1>1 DEF Created
<1>3. /\ static = [i \in 1 .. m |-> i] /\ dynamic = [i \in 1 .. k |-> m + i] /\ 1 .. m + k \subseteq Workers
  BY <1>2, Zenon DEF Init
<1>4. /\ num = [static |-> 0, dynamic |-> 0] /\ idle = {} /\ cur = [w \in Workers |-> None]
      /\ refs = [w \in Workers |-> IF w \in 1 .. m + k THEN 1 ELSE 0]
      /\ queue = [w \in Workers |-> IF w \in 1 .. m + k THEN <<"start">> ELSE <<>>]
      /\ state = [w \in Workers |-> IF w \in 1 .. m + k THEN "up" ELSE "unused"]
      /\ pc = [a \in Pushers |-> "idle"] /\ sel = [a \in Pushers |-> None]
      /\ shrink = (IF opts.inc > 0 THEN "scheduled" ELSE "gone")
      /\ idx = 0 /\ removed = FALSE /\ victim = None /\ shut = "up" /\ joined = None
      /\ shutting_down = FALSE /\ pushes = 0 /\ busy_removed = FALSE /\ leaked = FALSE
      /\ prefs = 1 + Cardinality(1 .. m + k) + (IF opts.inc > 0 THEN 1 ELSE 0)
  BY <1>2, Zenon DEF Init
<1> HIDE DEF m, k
<1>5. /\ static \in Seq(Workers) /\ Len(static) = m /\ DOMAIN static = 1 .. m
      /\ dynamic \in Seq(Workers) /\ Len(dynamic) = k /\ DOMAIN dynamic = 1 .. k
  <2>1. \A i \in 1 .. m : i \in Workers
    BY <1>2, <1>3
  <2>2. \A i \in 1 .. k : m + i \in Workers
    BY <1>2, <1>3
  <2> QED BY <1>2, <1>3, <2>1, <2>2
<1>6. Elems(static) = 1 .. m /\ Elems(dynamic) = m + 1 .. m + k
  <2>1. Elems(static) = 1 .. m
    BY <1>2, <1>3, <1>5 DEF Elems
  <2>2. Elems(dynamic) \subseteq m + 1 .. m + k
    BY <1>2, <1>3, <1>5 DEF Elems
  <2>3. ASSUME NEW x \in m + 1 .. m + k PROVE x \in Elems(dynamic)
    <3>1. x - m \in 1 .. k /\ dynamic[x - m] = x
      BY <1>2, <1>3
    <3> QED BY <1>5, <3>1, Zenon DEF Elems
  <2> QED BY <2>1, <2>2, <2>3, Zenon
<1>7. VecInv
  <2>1. Distinct(static) /\ Distinct(dynamic)
    BY <1>2, <1>3, <1>5 DEF Distinct
  <2>2. Elems(static) \intersect Elems(dynamic) = {}
    BY <1>2, <1>6
  <2> QED BY <1>5, <2>1, <2>2, Zenon DEF VecInv
<1>8. WorkTypes
  <2>1. <<>> \in Seq({"start", "task", "stop"}) /\ <<"start">> \in Seq({"start", "task", "stop"})
    OBVIOUS
  <2>2. queue \in [Workers -> Seq({"start", "task", "stop"})]
    BY <1>4, <2>1, Zenon
  <2>3. refs \in [Workers -> Nat] /\ cur \in [Workers -> {"start", "task", "stop", None}]
        /\ state \in [Workers -> {"unused", "up", "stopping", "detached", "ended"}]
    BY <1>4
  <2> QED BY <2>2, <2>3, Zenon DEF WorkTypes
<1>9. PushTypes /\ OptsInv /\ SizeBound
  <2>1. PushTypes
    BY <1>1, <1>4 DEF PushTypes
  <2>2. OptsInv
    BY <1>1, Zenon DEF OptsInv
  <2>3. SizeBound
    BY <1>2, <1>5, Zenon DEF SizeBound
  <2> QED BY <2>1, <2>2, <2>3
<1>10. PushInv /\ BusyInv
  <2>1. \A a \in Pushers : pc[a] = "idle"
    BY <1>4, Zenon
  <2>2. PushInv
    BY <2>1, Constants, Zenon DEF PushInv
  <2>3. shrink # "join"
    BY <1>4
  <2> QED BY <2>1, <2>2, <2>3, Zenon DEF BusyInv
<1>11. RefsInv
  <2> SUFFICES ASSUME NEW w \in Workers
               PROVE  IsFiniteSet(Holders(w)) /\ refs[w] = Cardinality(Holders(w)) + (IF Kept(w) THEN 1 ELSE 0)
    BY Zenon DEF RefsInv
  <2>1. Holders(w) = {}
    BY <1>4 DEF Holders
  <2>2. IsFiniteSet({}) /\ Cardinality({}) = 0
    BY FS_EmptySet, Zenon
  <2>3. Kept(w) <=> w \in 1 .. m + k
    BY <1>2, <1>4, <1>6 DEF Kept
  <2>4. refs[w] = IF w \in 1 .. m + k THEN 1 ELSE 0
    BY <1>4, Zenon
  <2> HIDE DEF Kept, Holders
  <2> QED BY <2>1, <2>2, <2>3, <2>4
<1>12. \A w \in Workers : ~StopLeft(w)
  <2>1. ASSUME NEW w \in Workers PROVE cur[w] # "stop" /\ \A i \in DOMAIN queue[w] : queue[w][i] # "stop"
    <3>1. cur[w] # "stop"
      BY <1>4, Constants, Zenon
    <3>2. queue[w] \in {<<"start">>, <<>>}
      BY <1>4, Zenon
    <3> QED BY <3>1, <3>2
  <2> QED BY <2>1, Zenon DEF StopLeft
<1>13. StopInv
  <2> SUFFICES ASSUME NEW w \in Workers PROVE StopOf(w)
    BY Zenon DEF StopInv
  <2>1. cur[w] = None /\ None # "stop"
    BY <1>4, Constants, Zenon
  <2>2. CASE w \in 1 .. m + k
    <3>1. queue[w] = <<"start">> /\ state[w] = "up" /\ refs[w] = 1
      BY <1>4, <2>2, Zenon
    <3> QED BY <1>12, <2>1, <3>1 DEF StopOf
  <2>3. CASE w \notin 1 .. m + k
    <3>1. queue[w] = <<>> /\ state[w] = "unused" /\ refs[w] = 0
      BY <1>4, <2>3, Zenon
    <3> QED BY <2>1, <3>1 DEF StopOf
  <2> QED BY <2>2, <2>3, Zenon
<1>14. Core
  BY <1>7, <1>8, <1>9, <1>10, <1>11, <1>13, Zenon DEF Core
<1>15. Control
  <2>1. ControlTypes
    <3>1. num \in [static : Nat, dynamic : Nat] /\ 0 \in Nat
      BY <1>4
    <3> QED BY <1>4, <3>1, Zenon DEF ControlTypes
  <2>2. LifeInv
    BY <1>4 DEF LifeInv
  <2>3. NumInv
    BY <1>4, <1>5 DEF NumInv, Valid
  <2> QED BY <2>1, <2>2, <2>3, Zenon DEF Control
<1>16. PoolRefsExact
  <2>1. Referring = 1 .. m + k
    <3>1. \A w \in Workers : state[w] = "up" <=> w \in 1 .. m + k
      BY <1>4
    <3>2. \A w \in Workers : (state[w] = "up" \/ StopLeft(w)) <=> w \in 1 .. m + k
      BY <1>12, <3>1, Zenon
    <3> QED BY <1>3, <3>2, Zenon DEF Referring
  <2>2. Others = 1 + (IF opts.inc > 0 THEN 1 ELSE 0)
    BY <1>4 DEF Others
  <2>3. Cardinality(1 .. m + k) \in Nat
    BY <1>3, WorkersFinite, Zenon
  <2>4. prefs = Others + Cardinality(Referring)
    BY <1>4, <2>1, <2>2, <2>3
  <2> QED BY <2>4, PoolRefs, Zenon
<1> QED BY <1>14, <1>15, <1>16, Zenon DEF IInv

-----------------------------------------------------------------------------
(* Every step keeps the invariant                                          *)

\* A step of something else.
LEMMA Stutters == ASSUME IInv, UNCHANGED vars PROVE IInv'
<1>1. CoreSame /\ UNCHANGED <<num, idle, static, dynamic>> /\ UNCHANGED shrinker /\ UNCHANGED shutdown /\ prefs' = prefs
  BY Zenon DEF vars, CoreSame, pool, work, push, shrinker, shutdown
<1>2. Control' /\ Others' = Others
  BY <1>1, ControlSame, Zenon DEF IInv
<1> QED BY <1>1, <1>2, ControlFacts, ControlStep

\* One action at a time.
LEMMA Steps == IInv /\ [Next]_vars => IInv'
<1> SUFFICES ASSUME IInv, [Next]_vars PROVE IInv'
  OBVIOUS
<1>1. ASSUME NEW a \in Pushers, push_called(a) \/ PushStep(a) PROVE IInv'
  <2>1. CASE push_called(a)
    BY <2>1, KeepsCalled, Zenon
  <2>2. CASE push_refused(a)
    BY <2>2, KeepsRefused, Zenon
  <2>3. CASE push_static(a)
    BY <2>3, KeepsStatic, Zenon
  <2>4. CASE push_joined(a)
    BY <2>4, KeepsJoined, Zenon
  <2>5. CASE \E n \in 0 .. MaxWorkers : push_dynamic(a, n)
    BY <2>5, KeepsDynamic, Zenon
  <2>6. CASE \E queued \in BOOLEAN : push_task(a, queued)
    BY <2>6, KeepsPush, Zenon
  <2> QED BY <1>1, <2>1, <2>2, <2>3, <2>4, <2>5, <2>6, Zenon DEF PushStep
<1>2. ASSUME NEW w \in Workers, WorkerStep(w) \/ time_passes(w) PROVE IInv'
  BY <1>2, KeepsExecute, KeepsTask, KeepsEnds, KeepsTime, Zenon DEF WorkerStep
<1>3. ASSUME shrink_fires \/ ShrinkStep PROVE IInv'
  BY <1>3, KeepsFires, KeepsLocks, KeepsKeeps, KeepsRemoves, KeepsShrinkJoined, KeepsDone, KeepsReturns, Zenon
     DEF ShrinkStep
<1>4. ASSUME shutdown_begins \/ ShutdownStep PROVE IInv'
  BY <1>4, KeepsBegins, KeepsDel, KeepsWaited, KeepsCleans, KeepsShutdownJoined, KeepsShutdownDone, Zenon
     DEF ShutdownStep
<1>5. CASE Next
  BY <1>1, <1>2, <1>3, <1>4, <1>5, Zenon DEF Next
<1> QED BY <1>5, Stutters, Zenon

-----------------------------------------------------------------------------
(* Theorems                                                                *)

\* The invariant holds of every pool: through pushes, growth, shrinking and
\* shutdown, with any number of workers and clients.
THEOREM Invariance == Spec => []IInv
BY Starts, Steps, PTL DEF Spec

\* No worker is in the vectors twice, and whenever the lock is free the next index
\* of each vector is one that sequential_selector may read.
THEOREM TypeCorrect == Spec => []TypeOK
BY Invariance, TypeFollows, PTL

\* taskpool_dynamic_pool_grow never takes the pool beyond max_size.
THEOREM Bounded == Spec => []SizeBound
<1>1. IInv => SizeBound
  BY Zenon DEF IInv, Core
<1> QED BY <1>1, Invariance, PTL

\* Nothing is queued behind the stop task that taskpool_taskprocessor_dtor queues,
\* nor for a worker that nobody references.
THEOREM StopLast == Spec => []StopIsLast
<1>1. IInv => StopIsLast
  BY StopFollows, Zenon DEF IInv, Core
<1> QED BY <1>1, Invariance, PTL

\* The references to the pool are exactly its creator's, the callback's and one
\* for each worker from its creation to the end of its stop task.
THEOREM PoolReferences == Spec => []PoolRefsExact
<1>1. IInv => PoolRefsExact
  BY Zenon DEF IInv
<1> QED BY <1>1, Invariance, PTL

\* Threads wait for each other in a circle only after the shrink callback removed
\* a busy worker, or once ast_taskpool_shutdown has begun.
THEOREM DeadlockOnlyBusy == Spec => []DeadlockOnlyIfBusy
<1>1. IInv => DeadlockOnlyIfBusy
  BY NoCircle, Zenon DEF DeadlockOnlyIfBusy
<1> QED BY <1>1, Invariance, PTL

=============================================================================
