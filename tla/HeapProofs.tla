------------------------------ MODULE HeapProofs ------------------------------
(***************************************************************************)
(* Proofs about the array heap (module Heap), for any set of elements, any *)
(* keys and any length of the array.                                       *)
(***************************************************************************)
EXTENDS Heap, NaturalsInduction, WellFoundedInduction, TLAPS

-----------------------------------------------------------------------------
(* The tree in the array                                                   *)

\* The parent of a node comes before it, and has it as its left or right child.
LEMMA Parents ==
    ASSUME NEW i \in Nat, i > 1
    PROVE  /\ parent_node(i) \in Nat /\ parent_node(i) >= 1 /\ parent_node(i) < i
           /\ i = left_node(parent_node(i)) \/ i = right_node(parent_node(i))
BY DEF parent_node, left_node, right_node

\* A node is the parent of its children.
LEMMA Children ==
    ASSUME NEW i \in Nat, i > 0
    PROVE  /\ parent_node(left_node(i)) = i /\ parent_node(right_node(i)) = i
           /\ left_node(i) \in Nat /\ right_node(i) \in Nat
           /\ left_node(i) > i /\ right_node(i) > i
BY DEF parent_node, left_node, right_node

\* A set of natural numbers that is not empty has a least element.
LEMMA LeastNat ==
    ASSUME NEW T \in SUBSET Nat, T # {}
    PROVE  \E x \in T : \A y \in T : x <= y
<1> DEFINE R == OpToRel(<, Nat)
<1>1. IsWellFoundedOn(R, Nat)
  BY NatLessThanWellFounded, Zenon
<1>2. PICK x \in T : \A y \in T : ~(<<y, x>> \in R)
  <2> HIDE DEF R
  <2> QED BY <1>1, WFMin, Zenon
<1>3. \A y \in T : y < x => <<y, x>> \in R
  BY DEF OpToRel
<1>4. \A y \in T : ~(y < x)
  BY <1>2, <1>3, Zenon
<1> HIDE <1>1, <1>2, <1>3 DEF R
<1> QED BY <1>4

-----------------------------------------------------------------------------
(* The inductive invariant                                                 *)

K(i) == key[heap[i]]

\* The node i does not come out before its parent.
Sorted(i) == K(parent_node(i)) <= K(i)

\* While a loop runs only the node at may come out before its parent (bubble_up
\* after a push), after its children (max_heapify), or either (bubble_up in a
\* removal).
Exempt(i) ==
    \/ pc \in {"push", "remove"} /\ i = at
    \/ pc \in {"remove", "heapify"} /\ parent_node(i) = at

\* Its children do not come out before its parent, so that a swap with either
\* sorts all the others.  A removal of the last element leaves the loops nothing
\* to do.
OrderInv ==
    /\ \A i \in 2 .. cur_len : ~Exempt(i) => Sorted(i)
    /\ pc # "idle" /\ at > 1 =>
        \A i \in 2 .. cur_len : parent_node(i) = at => K(parent_node(at)) <= K(i)
    /\ pc \in {"remove", "heapify"} /\ at > cur_len /\ at > 1 => Sorted(at)

IInv == TypeOK /\ IndexExact /\ OrderInv

\* The keys are numbers wherever the array has an element.
LEMMA Keys == ASSUME TypeOK, NEW i \in DOMAIN heap PROVE heap[i] \in Elements /\ K(i) \in Int
BY KeyAssumption DEF TypeOK, K

\* The array, by its length.
LEMMA Array ==
    ASSUME TypeOK
    PROVE  /\ DOMAIN heap = 1 .. Len(heap) /\ Len(heap) \in Nat
           /\ 1 .. cur_len \subseteq DOMAIN heap
BY DEF TypeOK

\* The comparison of two nodes.
LEMMA Compares ==
    ASSUME TypeOK, NEW i \in DOMAIN heap, NEW j \in DOMAIN heap
    PROVE  (cmp_fn(heap[i], heap[j]) < 0 <=> K(j) < K(i)) /\ (cmp_fn(heap[i], heap[j]) > 0 <=> K(i) < K(j))
<1>1. K(i) \in Int /\ K(j) \in Int
  BY Keys
<1> QED BY <1>1 DEF cmp_fn, K

\* A sorted array has nothing that comes out before its root.
LEMMA RootFirst ==
    ASSUME TypeOK, \A i \in 2 .. cur_len : Sorted(i), NEW k \in 1 .. cur_len
    PROVE  K(1) <= K(k)
<1> DEFINE T == {i \in 1 .. cur_len : ~(K(1) <= K(i))}
<1>1. T = {}
  <2> SUFFICES ASSUME T # {} PROVE FALSE
    OBVIOUS
  <2>1. cur_len \in Nat /\ \A i \in 1 .. cur_len : K(i) \in Int
    BY Array, Keys, Zenon DEF TypeOK
  <2>2. PICK x \in T : \A y \in T : x <= y
    <3>1. T \in SUBSET Nat
      BY <2>1
    <3> HIDE DEF T
    <3> QED BY <3>1, LeastNat, Zenon
  <2>3. x \in Nat /\ x > 1 /\ x \in 2 .. cur_len /\ ~(K(1) <= K(x))
    BY <2>1
  <2>4. parent_node(x) \in 1 .. cur_len /\ parent_node(x) < x
    BY <2>1, <2>3, Parents
  <2>5. K(1) <= K(parent_node(x))
    BY <2>1, <2>2, <2>4
  <2>6. K(parent_node(x)) <= K(x)
    BY <2>3 DEF Sorted
  <2>7. 1 \in 1 .. cur_len
    BY <2>1, <2>3
  <2> HIDE DEF T
  <2> QED BY <2>1, <2>3, <2>4, <2>5, <2>6, <2>7
<1> QED BY <1>1, Zenon

-----------------------------------------------------------------------------
(* Swapping two nodes                                                      *)

\* A swap exchanges two elements with their stored indices, and nothing else.
LEMMA Swaps ==
    ASSUME TypeOK, IndexExact, NEW i \in 1 .. cur_len, NEW j \in 1 .. cur_len, i # j,
           heap_swap(i, j), UNCHANGED <<cur_len, avail_len, pc, popped>>, at' \in 1 .. cur_len
    PROVE  /\ TypeOK' /\ IndexExact' /\ Members' = Members
           /\ K(i)' = K(j) /\ K(j)' = K(i)
           /\ \A k \in 1 .. cur_len : k # i /\ k # j => K(k)' = K(k)
<1>1. /\ heap \in Seq(Elements) /\ cur_len \in Nat /\ i \in DOMAIN heap /\ j \in DOMAIN heap
      /\ DOMAIN heap = 1 .. Len(heap) /\ Len(heap) \in Nat /\ 1 .. cur_len \subseteq DOMAIN heap
      /\ heap[i] \in Elements /\ heap[j] \in Elements /\ index \in [Elements -> Nat]
  BY Array, Keys, Zenon DEF TypeOK
<1>2. heap' = [heap EXCEPT ![i] = heap[j], ![j] = heap[i]]
  BY Zenon DEF heap_swap
<1>3. /\ heap' \in Seq(Elements) /\ Len(heap') = Len(heap) /\ DOMAIN heap' = DOMAIN heap
      /\ heap'[i] = heap[j] /\ heap'[j] = heap[i]
      /\ \A k \in DOMAIN heap : k # i /\ k # j => heap'[k] = heap[k]
  BY <1>1, <1>2
<1>4. \A k, l \in 1 .. cur_len : k # l => heap[k] # heap[l]
  BY Zenon DEF IndexExact
<1>5. /\ index' \in [Elements -> Nat] /\ index'[heap[j]] = i /\ index'[heap[i]] = j
      /\ \A e \in Elements : e # heap[i] /\ e # heap[j] => index'[e] = index[e]
  <2>1. PICK e \in Elements, f \in Elements : e = heap[i] /\ f = heap[j] /\ e # f
    BY <1>1, <1>4, Zenon
  <2>2. index' = [index EXCEPT ![f] = i, ![e] = j] /\ i \in Nat /\ j \in Nat
    BY <1>1, <2>1 DEF heap_swap
  <2>3. /\ index' \in [Elements -> Nat] /\ index'[f] = i /\ index'[e] = j
        /\ \A g \in Elements : g # e /\ g # f => index'[g] = index[g]
    BY <1>1, <2>1, <2>2
  <2> QED BY <2>1, <2>3, Zenon
<1>9. cur_len' = cur_len /\ avail_len' = avail_len /\ pc' = pc /\ popped' = popped
  OBVIOUS
<1>6. TypeOK'
  <2>1. at' \in Nat /\ at' \in DOMAIN heap
    BY <1>1
  <2> QED BY <1>3, <1>5, <1>9, <2>1, Zenon DEF TypeOK
<1>7. IndexExact'
  <2> SUFFICES ASSUME NEW k \in 1 .. cur_len PROVE index'[heap'[k]] = k
    BY Zenon DEF IndexExact
  <2>1. k \in DOMAIN heap /\ heap[k] \in Elements /\ index[heap[k]] = k
    BY <1>1, Keys, Zenon DEF IndexExact
  <2> QED BY <1>3, <1>4, <1>5, <2>1, Zenon
<1>8. Members' = Members
  <2>1. ASSUME NEW k \in 1 .. cur_len PROVE \E l \in 1 .. cur_len : heap'[l] = heap[k]
    <3>1. k \in DOMAIN heap
      BY <1>1, Zenon
    <3> QED BY <1>3, <3>1, Zenon
  <2>2. ASSUME NEW k \in 1 .. cur_len PROVE \E l \in 1 .. cur_len : heap[l] = heap'[k]
    <3>1. k \in DOMAIN heap
      BY <1>1, Zenon
    <3> QED BY <1>3, <3>1, Zenon
  <2>3. Members' = {heap'[k] : k \in 1 .. cur_len}
    BY <1>9 DEF Members
  <2> QED BY <2>1, <2>2, <2>3 DEF Members
<1> QED BY <1>1, <1>3, <1>6, <1>7, <1>8, Zenon DEF K

-----------------------------------------------------------------------------
(* The loops                                                               *)

\* Where a loop is.
LEMMA Position ==
    ASSUME TypeOK, pc # "idle"
    PROVE  /\ at \in Nat /\ at >= 1 /\ at \in DOMAIN heap
           /\ at <= cur_len + 1 /\ (pc = "push" => at <= cur_len)
BY DEF TypeOK

\* bubble_up moves the node that comes out before its parent up by one row.
LEMMA KeepsBubble == ASSUME IInv, bubble_up PROVE IInv' /\ Members' = Members
<1>0. PICK a \in Nat, n \in Nat : a = at /\ n = cur_len
  BY Zenon DEF IInv, TypeOK
<1> DEFINE p == parent_node(a)
<1>1. /\ TypeOK /\ IndexExact /\ OrderInv /\ pc \in {"push", "remove"} /\ pc # "idle" /\ Above
      /\ heap_swap(a, p) /\ at' = p /\ UNCHANGED <<cur_len, avail_len, pc, popped>>
  BY <1>0 DEF IInv, bubble_up
<1>2. a > 1 /\ a \in DOMAIN heap /\ a <= n + 1 /\ (pc = "push" => a <= n)
  BY <1>0, <1>1, Position DEF Above
<1>3. p \in Nat /\ p >= 1 /\ p < a /\ p \in 1 .. n
  BY <1>2, Parents
<1>4. p \in DOMAIN heap /\ K(a) < K(p)
  <2>1. p \in DOMAIN heap
    BY <1>0, <1>1, <1>3, Array, Zenon
  <2> QED BY <1>0, <1>1, <1>2, <2>1, Compares, Zenon DEF Above
<1>5. a \in 1 .. n /\ a \in 2 .. n
  <2>1. K(a) \in Int /\ K(p) \in Int
    BY <1>1, <1>2, <1>4, Keys, Zenon
  <2>2. a > n => Sorted(a)
    BY <1>0, <1>1, <1>2 DEF OrderInv
  <2> QED BY <1>2, <1>4, <2>1, <2>2 DEF Sorted
<1>6. /\ TypeOK' /\ IndexExact' /\ Members' = Members
      /\ K(a)' = K(p) /\ K(p)' = K(a)
      /\ \A k \in 1 .. n : k # a /\ k # p => K(k)' = K(k)
  <2>1. p \in 1 .. cur_len /\ a \in 1 .. cur_len /\ a # p /\ at' \in 1 .. cur_len
    BY <1>0, <1>1, <1>3, <1>5
  <2> HIDE DEF p
  <2> QED BY <1>0, <1>1, <2>1, Swaps
<1>7. \A k \in 1 .. n : K(k) \in Int
  BY <1>0, <1>1, Array, Keys, Zenon
<1>8. /\ \A k \in 2 .. n : k # a /\ parent_node(k) # a => K(parent_node(k)) <= K(k)
      /\ \A k \in 2 .. n : parent_node(k) = a => K(p) <= K(k)
  <2>1. \A k \in 2 .. n : k # a /\ parent_node(k) # a => ~Exempt(k)
    BY <1>0, Zenon DEF Exempt
  <2>2. a > 1 /\ at > 1
    BY <1>0, <1>2
  <2> QED BY <1>0, <1>1, <2>1, <2>2, Zenon DEF OrderInv, Sorted
<1>9. \A k \in 2 .. n : parent_node(k) \in 1 .. n /\ parent_node(k) < k /\ k \in 1 .. n
  BY Parents
<1>10. ASSUME NEW i \in 2 .. n, i # p PROVE Sorted(i)'
  <2> DEFINE j == parent_node(i)
  <2>0. j \in 1 .. n /\ j < i /\ i \in 1 .. n
    BY <1>9
  <2> SUFFICES K(j)' <= K(i)'
    BY Zenon DEF Sorted
  <2>1. CASE i = a
    BY <1>4, <1>6, <1>7, <1>3, <1>5, <2>1
  <2>2. CASE i # a /\ j = p
    <3>1. K(p) <= K(i) /\ K(i)' = K(i)
      BY <1>10, <1>3, <1>6, <1>8, <2>0, <2>2
    <3> HIDE DEF p, j
    <3> QED BY <1>3, <1>4, <1>5, <1>6, <1>7, <2>0, <2>2, <3>1
  <2>3. CASE i # a /\ j = a
    <3>1. K(p) <= K(i) /\ K(i)' = K(i)
      BY <1>10, <1>6, <1>8, <2>0, <2>3
    <3> HIDE DEF p, j
    <3> QED BY <1>6, <2>3, <3>1
  <2>4. CASE i # a /\ j # p /\ j # a
    <3>1. K(j) <= K(i) /\ K(i)' = K(i) /\ K(j)' = K(j)
      BY <1>10, <1>6, <1>8, <2>0, <2>4
    <3> QED BY <3>1
  <2> QED BY <2>1, <2>2, <2>3, <2>4
<1>11. ASSUME p > 1, NEW i \in 2 .. n, parent_node(i) = p PROVE K(parent_node(p))' <= K(i)'
  <2> DEFINE g == parent_node(p)
  <2>1. p \in 2 .. n /\ g \in 1 .. n /\ g < p /\ i \in 1 .. n /\ p < i
    BY <1>3, <1>9, <1>11
  <2>2. K(g) <= K(p) /\ K(g)' = K(g)
    BY <1>3, <1>6, <1>8, <2>1
  <2>3. i # a => K(p) <= K(i) /\ K(i)' = K(i)
    BY <1>3, <1>6, <1>8, <1>11, <2>1
  <2> HIDE DEF p, g
  <2> QED BY <1>3, <1>5, <1>6, <1>7, <2>1, <2>2, <2>3 DEF g
<1>12. OrderInv'
  <2>1. n' = n /\ cur_len' = n /\ pc' = pc /\ at' = p /\ p <= n
    BY <1>0, <1>1, <1>3
  <2>2. \A i \in 2 .. n : ~Exempt(i)' => i # p
    BY <1>1, <2>1, Zenon DEF Exempt
  <2> HIDE DEF p
  <2>3. ~(at' > cur_len')
    BY <1>3, <2>1
  <2> QED BY <1>10, <1>11, <2>1, <2>2, <2>3, Zenon DEF OrderInv
<1> QED BY <1>6, <1>12, Zenon DEF IInv

\* Largest is the first to come out of a node and its children.
LEMMA LargestChild ==
    ASSUME TypeOK, pc = "heapify"
    PROVE  /\ Largest = at => \A i \in 2 .. cur_len : parent_node(i) = at => K(at) <= K(i)
           /\ Largest # at =>
                /\ Largest \in 2 .. cur_len /\ parent_node(Largest) = at /\ K(Largest) < K(at)
                /\ \A i \in 2 .. cur_len : parent_node(i) = at => K(Largest) <= K(i)
<1> DEFINE l == left_node(at)
           r == right_node(at)
           m == IF l <= cur_len /\ K(l) < K(at) THEN l ELSE at
           big == IF r <= cur_len /\ K(r) < K(m) THEN r ELSE m
<1>1. at \in Nat /\ at >= 1 /\ at \in DOMAIN heap /\ cur_len \in Nat
  BY Position DEF TypeOK
<1>2. /\ l \in Nat /\ r \in Nat /\ l > at /\ r > at /\ parent_node(l) = at /\ parent_node(r) = at
  BY <1>1, Children
<1>3. \A i \in 2 .. cur_len : parent_node(i) = at => i = l \/ i = r
  BY Parents
<1> HIDE DEF l, r
<1>4. /\ l <= cur_len => l \in 2 .. cur_len /\ l \in DOMAIN heap /\ K(l) \in Int
      /\ r <= cur_len => r \in 2 .. cur_len /\ r \in DOMAIN heap /\ K(r) \in Int
      /\ K(at) \in Int
  <2>1. (l <= cur_len => l \in 2 .. cur_len /\ l \in 1 .. cur_len) /\ (r <= cur_len => r \in 2 .. cur_len /\ r \in 1 .. cur_len)
    BY <1>1, <1>2
  <2> QED BY <1>1, <2>1, Array, Keys, Zenon
<1>5. Largest = big
  <2>1. l <= cur_len => (cmp_fn(heap[l], heap[at]) > 0 <=> K(l) < K(at))
    BY <1>1, <1>4, Compares, Zenon
  <2>2. m \in DOMAIN heap
    BY <1>1, <1>4
  <2>3. r <= cur_len => (cmp_fn(heap[r], heap[m]) > 0 <=> K(r) < K(m))
    <3> HIDE DEF m
    <3> QED BY <1>4, <2>2, Compares, Zenon
  <2>4. m = IF l <= cur_len /\ cmp_fn(heap[l], heap[at]) > 0 THEN l ELSE at
    BY <2>1
  <2>5. big = IF r <= cur_len /\ cmp_fn(heap[r], heap[m]) > 0 THEN r ELSE m
    <3> HIDE DEF m
    <3> QED BY <2>3
  <2> QED BY <2>4, <2>5, Zenon DEF Largest, l, r
<1>6. big = at => \A i \in 2 .. cur_len : parent_node(i) = at => K(at) <= K(i)
  BY <1>1, <1>2, <1>3, <1>4
<1>7. big # at =>
        /\ big \in 2 .. cur_len /\ parent_node(big) = at /\ K(big) < K(at)
        /\ \A i \in 2 .. cur_len : parent_node(i) = at => K(big) <= K(i)
  BY <1>1, <1>2, <1>3, <1>4
<1> HIDE DEF big
<1> QED BY <1>5, <1>6, <1>7, Zenon

\* max_heapify moves the node that comes out after one of its children down by
\* one row.
LEMMA KeepsHeapify == ASSUME IInv, max_heapify PROVE IInv' /\ Members' = Members
<1>0. PICK a \in Nat, n \in Nat : a = at /\ n = cur_len
  BY Zenon DEF IInv, TypeOK
<1>1. /\ TypeOK /\ IndexExact /\ OrderInv /\ pc = "heapify" /\ pc # "idle" /\ Largest # at
      /\ heap_swap(a, Largest) /\ at' = Largest /\ UNCHANGED <<cur_len, avail_len, pc, popped>>
  BY <1>0 DEF IInv, max_heapify
<1>2. PICK m \in 2 .. n : m = Largest /\ parent_node(m) = a
  BY <1>0, <1>1, LargestChild, Zenon
<1>3. K(m) < K(a) /\ \A i \in 2 .. n : parent_node(i) = a => K(m) <= K(i)
  BY <1>0, <1>1, <1>2, LargestChild, Zenon
<1>4. \A k \in 2 .. n : parent_node(k) \in 1 .. n /\ parent_node(k) < k /\ k \in 1 .. n
  BY Parents
<1>5. a \in 1 .. n /\ m \in 1 .. n /\ a < m
  BY <1>2, <1>4
<1>6. /\ TypeOK' /\ IndexExact' /\ Members' = Members
      /\ K(a)' = K(m) /\ K(m)' = K(a)
      /\ \A k \in 1 .. n : k # a /\ k # m => K(k)' = K(k)
  <2>1. m \in 1 .. cur_len /\ a \in 1 .. cur_len /\ a # m /\ at' \in 1 .. cur_len /\ heap_swap(a, m)
    BY <1>0, <1>1, <1>2, <1>5
  <2> QED BY <1>0, <1>1, <2>1, Swaps
<1>7. \A k \in 1 .. n : K(k) \in Int
  BY <1>0, <1>1, Array, Keys, Zenon
<1>8. /\ \A k \in 2 .. n : parent_node(k) # a => K(parent_node(k)) <= K(k)
      /\ a > 1 => K(parent_node(a)) <= K(m)
  <2>1. \A k \in 2 .. n : parent_node(k) # a => ~Exempt(k)
    BY <1>0, <1>1 DEF Exempt
  <2> QED BY <1>0, <1>1, <1>2, <2>1, Zenon DEF OrderInv, Sorted
<1>9. ASSUME NEW i \in 2 .. n, parent_node(i) # m PROVE Sorted(i)'
  <2> DEFINE j == parent_node(i)
  <2>0. j \in 1 .. n /\ j < i /\ i \in 1 .. n /\ j # m
    BY <1>4, <1>9
  <2> SUFFICES K(j)' <= K(i)'
    BY Zenon DEF Sorted
  <2>1. CASE i = m
    BY <1>2, <1>3, <1>5, <1>6, <1>7, <2>1
  <2>2. CASE i # m /\ j = a
    <3>1. K(m) <= K(i) /\ K(i)' = K(i)
      BY <1>3, <1>6, <2>0, <2>2
    <3> HIDE DEF j
    <3> QED BY <1>6, <2>2, <3>1
  <2>3. CASE i = a
    <3>1. K(j) <= K(m) /\ K(j)' = K(j)
      BY <1>6, <1>8, <2>0, <2>3
    <3> QED BY <1>6, <2>3, <3>1
  <2>4. CASE i # m /\ j # a /\ i # a
    <3>1. K(j) <= K(i) /\ K(i)' = K(i) /\ K(j)' = K(j)
      BY <1>6, <1>8, <2>0, <2>4
    <3> QED BY <3>1
  <2> QED BY <2>1, <2>2, <2>3, <2>4
<1>10. ASSUME NEW i \in 2 .. n, parent_node(i) = m PROVE K(parent_node(m))' <= K(i)'
  <2>1. i \in 1 .. n /\ m < i
    BY <1>4, <1>10
  <2>2. K(m) <= K(i) /\ K(i)' = K(i)
    BY <1>5, <1>6, <1>8, <1>10, <2>1
  <2> QED BY <1>2, <1>6, <2>2
<1>11. OrderInv'
  <2>1. cur_len' = n /\ pc' = pc /\ at' = m
    BY <1>0, <1>1, <1>2
  <2>2. \A i \in 2 .. n : ~Exempt(i)' => parent_node(i) # m
    BY <1>1, <2>1, Zenon DEF Exempt
  <2>3. ~(at' > cur_len')
    BY <1>5, <2>1
  <2> QED BY <1>9, <1>10, <2>1, <2>2, <2>3, Zenon DEF OrderInv
<1> QED BY <1>6, <1>11, Zenon DEF IInv

\* bubble_up ends where the node is sorted with its parent.
LEMMA KeepsBubbleReturns == ASSUME IInv, bubble_up_returns PROVE IInv' /\ Members' = Members
<1>1. /\ TypeOK /\ IndexExact /\ OrderInv /\ pc \in {"push", "remove"} /\ pc # "idle" /\ ~Above
      /\ heap' = heap /\ cur_len' = cur_len /\ avail_len' = avail_len /\ index' = index /\ popped' = popped
      /\ (pc = "push" => pc' = "idle" /\ at' = 0) /\ (pc = "remove" => pc' = "heapify" /\ at' = at)
  BY DEF IInv, bubble_up_returns
<1>2. at \in Nat /\ at >= 1 /\ at \in DOMAIN heap /\ at <= cur_len + 1 /\ cur_len \in Nat
  BY <1>1, Position DEF TypeOK
<1>3. at > 1 => Sorted(at)
  <2> SUFFICES ASSUME at > 1 PROVE Sorted(at)
    OBVIOUS
  <2>1. parent_node(at) \in 1 .. cur_len
    BY <1>2, Parents
  <2>2. parent_node(at) \in DOMAIN heap
    BY <1>1, <2>1, Array, Zenon
  <2>3. K(parent_node(at)) \in Int /\ K(at) \in Int /\ ~(K(at) < K(parent_node(at)))
    BY <1>1, <1>2, <2>2, Keys, Compares, Zenon DEF Above
  <2> QED BY <2>3 DEF Sorted
<1>4. \A i : Sorted(i)' <=> Sorted(i)
  BY <1>1, Zenon DEF Sorted, K
<1>5. \A i \in 2 .. cur_len : ~Exempt(i)' => Sorted(i)
  <2> SUFFICES ASSUME NEW i \in 2 .. cur_len, ~Exempt(i)' PROVE Sorted(i)
    OBVIOUS
  <2>1. CASE i = at
    BY <1>2, <1>3, <2>1
  <2>2. CASE i # at
    <3>1. ~Exempt(i)
      BY <1>1, <2>2 DEF Exempt
    <3> QED BY <1>1, <3>1, Zenon DEF OrderInv
  <2> QED BY <2>1, <2>2
<1>6. CASE pc = "push"
  <2>1. TypeOK'
    BY <1>1, <1>6 DEF TypeOK
  <2>2. OrderInv'
    BY <1>1, <1>4, <1>5, <1>6 DEF OrderInv
  <2> QED BY <1>1, <2>1, <2>2 DEF IInv, IndexExact, Members
<1>7. CASE pc = "remove"
  <2>1. TypeOK'
    BY <1>1, <1>7 DEF TypeOK
  <2>2. OrderInv'
    <3>1. pc' # "idle" /\ at' > 1 =>
            \A i \in 2 .. cur_len' : parent_node(i) = at' => K(parent_node(at))' <= K(i)'
      BY <1>1, <1>7, Zenon DEF OrderInv, K
    <3> QED BY <1>1, <1>3, <1>4, <1>5, <1>7, <3>1, Zenon DEF OrderInv
  <2> QED BY <1>1, <2>1, <2>2 DEF IInv, IndexExact, Members
<1> QED BY <1>1, <1>6, <1>7

\* max_heapify ends where the node is sorted with its children, and the array is.
LEMMA KeepsHeapifyReturns == ASSUME IInv, max_heapify_returns PROVE IInv' /\ Members' = Members
<1>1. /\ TypeOK /\ IndexExact /\ OrderInv /\ pc = "heapify" /\ Largest = at
      /\ heap' = SubSeq(heap, 1, cur_len) /\ pc' = "idle" /\ at' = 0
      /\ cur_len' = cur_len /\ avail_len' = avail_len /\ index' = index /\ popped' = popped
  BY DEF IInv, max_heapify_returns
<1>2. /\ heap \in Seq(Elements) /\ cur_len \in Nat /\ Len(heap) = cur_len + 1
  BY <1>1 DEF TypeOK
<1>3. /\ heap' \in Seq(Elements) /\ Len(heap') = cur_len
      /\ \A i \in 1 .. cur_len : heap'[i] = heap[i]
  BY <1>1, <1>2
<1>4. TypeOK'
  BY <1>1, <1>2, <1>3 DEF TypeOK
<1>5. IndexExact' /\ Members' = Members
  BY <1>1, <1>3 DEF IndexExact, Members
<1>6. \A i \in 2 .. cur_len : Sorted(i)
  <2> SUFFICES ASSUME NEW i \in 2 .. cur_len PROVE Sorted(i)
    OBVIOUS
  <2>1. CASE parent_node(i) = at
    BY <1>1, <2>1, LargestChild, Zenon DEF Sorted
  <2>2. CASE parent_node(i) # at
    <3>1. ~Exempt(i)
      BY <1>1, <2>2 DEF Exempt
    <3> QED BY <1>1, <3>1, Zenon DEF OrderInv
  <2> QED BY <2>1, <2>2
<1>7. \A i \in 2 .. cur_len : Sorted(i)'
  <2> SUFFICES ASSUME NEW i \in 2 .. cur_len PROVE Sorted(i)'
    OBVIOUS
  <2>1. i \in 1 .. cur_len /\ parent_node(i) \in 1 .. cur_len
    BY <1>2, Parents
  <2> QED BY <1>3, <1>6, <2>1, Zenon DEF Sorted, K
<1>8. OrderInv'
  BY <1>1, <1>7 DEF OrderInv
<1> QED BY <1>4, <1>5, <1>8, Zenon DEF IInv

-----------------------------------------------------------------------------
(* The operations                                                          *)

\* Between operations the array is a heap.
LEMMA IdleSorted == ASSUME IInv, pc = "idle" PROVE \A i \in 2 .. cur_len : Sorted(i)
BY DEF IInv, OrderInv, Exempt

\* A push appends the element, which is the only one that may be out of order.
LEMMA KeepsPush ==
    ASSUME NEW e \in Elements, IInv, ast_heap_push(e)
    PROVE  IInv' /\ Members' = Members \union {e}
<1>0. PICK n \in Nat : n = cur_len
  BY Zenon DEF IInv, TypeOK
<1>1. /\ TypeOK /\ IndexExact /\ pc = "idle" /\ e \notin Members
      /\ heap' = Append(heap, e) /\ cur_len' = n + 1 /\ index' = [index EXCEPT ![e] = n + 1]
      /\ avail_len' = (IF cur_len = avail_len THEN avail_len * 2 + 1 ELSE avail_len)
      /\ pc' = "push" /\ at' = n + 1 /\ popped' = {}
  BY <1>0 DEF IInv, ast_heap_push, grow_heap
<1>2. /\ heap \in Seq(Elements) /\ Len(heap) = n /\ index \in [Elements -> Nat]
      /\ avail_len \in Nat /\ n <= avail_len
  BY <1>0, <1>1 DEF TypeOK
<1>3. /\ heap' \in Seq(Elements) /\ Len(heap') = n + 1 /\ heap'[n + 1] = e
      /\ \A i \in 1 .. n : heap'[i] = heap[i] /\ heap[i] \in Elements
  BY <1>1, <1>2
<1>4. TypeOK'
  <2>1. avail_len' \in Nat /\ n + 1 <= avail_len'
    BY <1>0, <1>1, <1>2
  <2>2. index' \in [Elements -> Nat]
    BY <1>1, <1>2
  <2> QED BY <1>1, <1>3, <2>1, <2>2 DEF TypeOK
<1>5. IndexExact'
  <2> SUFFICES ASSUME NEW i \in 1 .. n + 1 PROVE index'[heap'[i]] = i
    BY <1>1 DEF IndexExact
  <2>1. CASE i \in 1 .. n
    <3>1. heap[i] # e /\ index[heap[i]] = i
      BY <1>0, <1>1, <2>1, Zenon DEF Members, IndexExact
    <3> QED BY <1>1, <1>2, <1>3, <2>1, <3>1
  <2>2. CASE i = n + 1
    BY <1>1, <1>2, <1>3, <2>2
  <2> QED BY <2>1, <2>2
<1>6. \A i \in 2 .. n + 1 : i # n + 1 => Sorted(i)'
  <2> SUFFICES ASSUME NEW i \in 2 .. n PROVE Sorted(i)'
    OBVIOUS
  <2>1. i \in 1 .. n /\ parent_node(i) \in 1 .. n
    BY Parents
  <2>2. Sorted(i)
    BY <1>0, <1>1, IdleSorted, Zenon
  <2> QED BY <1>3, <2>1, <2>2, Zenon DEF Sorted, K
<1>7. OrderInv'
  <2>1. \A i \in 2 .. n + 1 : ~Exempt(i)' => i # n + 1
    BY <1>1 DEF Exempt
  <2>2. \A i \in 2 .. n + 1 : parent_node(i) # n + 1
    BY Parents
  <2>3. \A i \in 2 .. n + 1 : ~Exempt(i)' => Sorted(i)'
    BY <1>6, <2>1, Zenon
  <2> QED BY <1>1, <2>2, <2>3 DEF OrderInv
<1>8. Members' = Members \union {e}
  <2>1. Members' = {heap'[i] : i \in 1 .. n + 1} /\ Members = {heap[i] : i \in 1 .. n}
    BY <1>0, <1>1 DEF Members
  <2> QED BY <1>3, <2>1
<1> QED BY <1>4, <1>5, <1>7, <1>8, Zenon DEF IInv

\* A removal puts the last element in the gap, which is the only node that may be
\* out of order with its parent and its children.
LEMMA KeepsRemoval ==
    ASSUME IInv, pc = "idle", NEW g \in 1 .. cur_len, heap_remove(g),
           avail_len' = avail_len, popped' \subseteq Elements
    PROVE  IInv' /\ Members' = Members \ {heap[g]}
<1>0. PICK n \in Nat : n = cur_len - 1 /\ cur_len = n + 1
  BY DEF IInv, TypeOK
<1>1. /\ TypeOK /\ IndexExact
      /\ heap' = [heap EXCEPT ![g] = heap[n + 1]] /\ cur_len' = n /\ index' = [index EXCEPT ![heap[n + 1]] = g]
      /\ pc' = "remove" /\ at' = g
  BY <1>0 DEF IInv, heap_remove, heap_set
<1>2. /\ heap \in Seq(Elements) /\ Len(heap) = n + 1 /\ index \in [Elements -> Nat]
      /\ avail_len \in Nat /\ n + 1 <= avail_len /\ g \in 1 .. n + 1 /\ DOMAIN heap = 1 .. n + 1
      /\ heap[n + 1] \in Elements
  BY <1>0, <1>1 DEF TypeOK
<1>3. /\ heap' \in Seq(Elements) /\ Len(heap') = n + 1 /\ heap'[g] = heap[n + 1]
      /\ \A i \in 1 .. n + 1 : heap[i] \in Elements /\ (i # g => heap'[i] = heap[i])
  BY <1>1, <1>2
<1>4. TypeOK'
  <2>1. index' \in [Elements -> Nat]
    BY <1>1, <1>2
  <2>2. n <= avail_len /\ g \in Nat /\ g \in DOMAIN heap'
    BY <1>2, <1>3
  <2> QED BY <1>1, <1>2, <1>3, <2>1, <2>2 DEF TypeOK
<1>5. \A i, j \in 1 .. n + 1 : i # j => heap[i] # heap[j]
  BY <1>0, <1>1, Zenon DEF IndexExact
<1>6. IndexExact'
  <2> SUFFICES ASSUME NEW i \in 1 .. n PROVE index'[heap'[i]] = i
    BY <1>1 DEF IndexExact
  <2>1. i \in 1 .. n + 1 /\ i # n + 1 /\ n + 1 \in 1 .. n + 1
    OBVIOUS
  <2>2. CASE i = g
    BY <1>1, <1>2, <1>3, <2>2
  <2>3. CASE i # g
    <3>1. heap'[i] = heap[i] /\ heap[i] \in Elements /\ heap[i] # heap[n + 1] /\ index[heap[i]] = i
      BY <1>0, <1>1, <1>3, <1>5, <2>1, <2>3, Zenon DEF IndexExact
    <3> QED BY <1>1, <1>2, <3>1
  <2> QED BY <2>2, <2>3
<1>7. \A i \in 2 .. n + 1 : /\ parent_node(i) \in 1 .. n + 1 /\ parent_node(i) < i
                            /\ i \in 1 .. n + 1 /\ Sorted(i)
  <2>1. \A i \in 2 .. n + 1 : Sorted(i)
    BY <1>0, IdleSorted, Zenon
  <2> QED BY <2>1, Parents
<1>8. \A i \in 1 .. n + 1 : K(i) \in Int
  <2>1. \A i \in 1 .. n + 1 : i \in DOMAIN heap
    BY <1>2
  <2> QED BY <1>1, <2>1, Keys, Zenon
<1>9. \A i \in 1 .. n + 1 : i # g => K(i)' = K(i)
  BY <1>3, Zenon DEF K
<1>10. \A i \in 2 .. n : i # g /\ parent_node(i) # g => Sorted(i)'
  <2> SUFFICES ASSUME NEW i \in 2 .. n, i # g, parent_node(i) # g PROVE Sorted(i)'
    OBVIOUS
  <2>1. i \in 2 .. n + 1
    OBVIOUS
  <2> QED BY <1>7, <1>9, <2>1, Zenon DEF Sorted
<1>11. ASSUME g > 1, NEW i \in 2 .. n, parent_node(i) = g PROVE K(parent_node(g))' <= K(i)'
  <2> DEFINE p == parent_node(g)
  <2>1. i \in 2 .. n + 1 /\ g \in 2 .. n + 1
    BY <1>2, <1>11
  <2>2. K(p) <= K(g) /\ K(g) <= K(i)
    BY <1>7, <1>11, <2>1, Zenon DEF Sorted
  <2>3. p \in 1 .. n + 1 /\ p # g /\ i \in 1 .. n + 1 /\ i # g
    BY <1>7, <1>11, <2>1
  <2>4. K(p)' = K(p) /\ K(i)' = K(i)
    BY <1>9, <2>3, Zenon
  <2> HIDE DEF p
  <2> QED BY <1>2, <1>8, <2>2, <2>3, <2>4 DEF p
<1>12. g > n /\ g > 1 => Sorted(g)'
  <2> SUFFICES ASSUME g > n, g > 1 PROVE Sorted(g)'
    OBVIOUS
  <2>1. g = n + 1 /\ g \in 2 .. n + 1
    BY <1>2
  <2>2. heap'[g] = heap[g] /\ parent_node(g) # g /\ Sorted(g) /\ parent_node(g) \in 1 .. n + 1
    BY <1>3, <1>7, <2>1
  <2> QED BY <1>9, <2>2, Zenon DEF Sorted, K
<1>13. OrderInv'
  <2>1. \A i \in 2 .. n : ~Exempt(i)' => i # g /\ parent_node(i) # g
    BY <1>1 DEF Exempt
  <2>2. \A i \in 2 .. n : ~Exempt(i)' => Sorted(i)'
    BY <1>10, <2>1, Zenon
  <2> QED BY <1>1, <1>11, <1>12, <2>2, Zenon DEF OrderInv
<1>14. Members' = Members \ {heap[g]}
  <2>1. Members' = {heap'[i] : i \in 1 .. n} /\ Members = {heap[i] : i \in 1 .. n + 1}
    BY <1>0, <1>1 DEF Members
  <2>2. ASSUME NEW i \in 1 .. n PROVE \E j \in 1 .. n + 1 : j # g /\ heap'[i] = heap[j]
    <3>1. i \in 1 .. n + 1 /\ n + 1 \in 1 .. n + 1 /\ i # n + 1
      OBVIOUS
    <3> QED BY <1>3, <3>1, Zenon
  <2>3. ASSUME NEW j \in 1 .. n + 1, j # g PROVE \E i \in 1 .. n : heap'[i] = heap[j]
    <3>1. j \in 1 .. n \/ (j = n + 1 /\ g \in 1 .. n)
      BY <1>2, <2>3
    <3> QED BY <1>3, <2>3, <3>1, Zenon
  <2>4. ASSUME NEW x
        PROVE  (\E i \in 1 .. n : x = heap'[i]) <=> (\E j \in 1 .. n + 1 : x = heap[j]) /\ x # heap[g]
    <3>1. ASSUME NEW i \in 1 .. n, x = heap'[i] PROVE (\E j \in 1 .. n + 1 : x = heap[j]) /\ x # heap[g]
      BY <1>2, <1>5, <2>2, <3>1, Zenon
    <3>2. ASSUME NEW j \in 1 .. n + 1, x = heap[j], x # heap[g] PROVE \E i \in 1 .. n : x = heap'[i]
      BY <2>3, <3>2, Zenon
    <3> QED BY <3>1, <3>2, Zenon
  <2> QED BY <2>1, <2>4
<1> QED BY <1>4, <1>6, <1>13, <1>14, Zenon DEF IInv

\* Removing an element of the heap removes that one: its stored index is its place.
LEMMA KeepsRemove ==
    ASSUME NEW e \in Elements, IInv, ast_heap_remove(e)
    PROVE  IInv' /\ e \in Members /\ Members' = Members \ {e} /\ popped' = {}
<1>1. PICK g \in 1 .. cur_len : heap[g] = e
  BY Zenon DEF ast_heap_remove, Members
<1>2. index[e] = g
  BY <1>1, Zenon DEF IInv, IndexExact
<1>3. pc = "idle" /\ heap_remove(g) /\ avail_len' = avail_len /\ popped' = {} /\ e \in Members
  BY <1>2, Zenon DEF ast_heap_remove
<1>4. IInv' /\ Members' = Members \ {heap[g]}
  BY <1>3, KeepsRemoval
<1> QED BY <1>1, <1>3, <1>4, Zenon

\* A pop removes the root, which nothing precedes.
LEMMA KeepsPop ==
    ASSUME IInv, ast_heap_pop
    PROVE  /\ IInv' /\ heap[1] \in Members /\ heap[1] \in Elements
           /\ \A f \in Members : ~EarlierKey(f, heap[1])
           /\ Members' = Members \ {heap[1]} /\ popped' = {heap[1]}
<1>1. /\ TypeOK /\ pc = "idle" /\ cur_len > 0 /\ heap_remove(1) /\ popped' = {heap[1]}
      /\ avail_len' = avail_len
  BY DEF IInv, ast_heap_pop
<1>2. 1 \in 1 .. cur_len
  BY <1>1 DEF TypeOK
<1>3. heap[1] \in Members /\ heap[1] \in Elements
  BY <1>1, <1>2, Array, Keys, Zenon DEF Members
<1>4. IInv' /\ Members' = Members \ {heap[1]}
  <2>1. popped' \subseteq Elements
    BY <1>1, <1>3
  <2> QED BY <1>1, <1>2, <2>1, KeepsRemoval
<1>5. ASSUME NEW k \in 1 .. cur_len PROVE ~EarlierKey(heap[k], heap[1])
  <2>1. K(1) <= K(k)
    BY <1>1, IdleSorted, RootFirst, Zenon
  <2>2. K(1) \in Int /\ K(k) \in Int
    BY <1>1, <1>2, Array, Keys, Zenon
  <2> QED BY <2>1, <2>2 DEF EarlierKey, K
<1> QED BY <1>1, <1>3, <1>4, <1>5, Zenon DEF Members

-----------------------------------------------------------------------------
(* Theorems                                                                *)

LEMMA Starts == Init => IInv
BY LenAssumption DEF Init, IInv, TypeOK, IndexExact, OrderInv

LEMMA Steps == IInv /\ [Next]_vars => IInv'
<1> SUFFICES ASSUME IInv, [Next]_vars PROVE IInv'
  OBVIOUS
<1>1. CASE UNCHANGED vars
  BY <1>1 DEF vars, IInv, TypeOK, IndexExact, OrderInv, Exempt, Sorted, K
<1>2. ASSUME NEW e \in Elements, ast_heap_push(e) PROVE IInv'
  BY <1>2, KeepsPush
<1>3. ASSUME NEW e \in Elements, heap_push_failed(e) PROVE IInv'
  BY <1>1, <1>3, Zenon DEF heap_push_failed
<1>4. ASSUME NEW e \in Elements, ast_heap_remove(e) PROVE IInv'
  BY <1>4, KeepsRemove
<1>5. CASE ast_heap_pop
  BY <1>5, KeepsPop
<1>6. CASE Loops
  BY <1>6, KeepsBubble, KeepsBubbleReturns, KeepsHeapify, KeepsHeapifyReturns, Zenon DEF Loops
<1> QED BY <1>1, <1>2, <1>3, <1>4, <1>5, <1>6, Zenon DEF Next

\* The invariant holds of every heap.
THEOREM Invariance == Spec => []IInv
BY Starts, Steps, PTL DEF Spec

\* Whatever is pushed, removed and popped, the array of _ast_heap_push and
\* _ast_heap_remove passes ast_heap_verify when they return, and the index stored in
\* each element is its place.
THEOREM StaysHeap == Spec => []WellFormed
<1>1. IInv => WellFormed
  <2> SUFFICES ASSUME IInv, pc = "idle" PROVE HeapOrder
    BY Zenon DEF WellFormed, IInv
  <2> SUFFICES ASSUME NEW i \in 2 .. cur_len PROVE cmp_fn(heap[parent_node(i)], heap[i]) >= 0
    BY Zenon DEF HeapOrder
  <2>1. Sorted(i) /\ TypeOK /\ cur_len \in Nat
    BY IdleSorted, Zenon DEF IInv, TypeOK
  <2>2. i \in 1 .. cur_len /\ parent_node(i) \in 1 .. cur_len
    BY <2>1, Parents
  <2>3. K(i) \in Int /\ K(parent_node(i)) \in Int
    BY <2>1, <2>2, Array, Keys, Zenon
  <2> QED BY <2>1, <2>3 DEF Sorted, cmp_fn, K
<1> QED BY <1>1, Invariance, PTL

\* ast_heap_push, ast_heap_remove and ast_heap_pop are the operations of a priority
\* queue: a pop returns an element that no other precedes, and the loops change
\* nothing of what is in the heap.
THEOREM Refinement == Spec => IsPriorityQueue
<1>1. Init => Queue!Init
  BY DEF Init, Queue!Init, Members
<1>2. IInv /\ [Next]_vars => [Queue!Next]_Queue!vars
  <2> SUFFICES ASSUME IInv, [Next]_vars PROVE [Queue!Next]_Queue!vars
    OBVIOUS
  <2>1. CASE UNCHANGED vars
    BY <2>1 DEF vars, Queue!vars, Members
  <2>2. ASSUME NEW e \in Elements, ast_heap_push(e) PROVE Queue!Next
    <3>1. e \notin Members /\ Members' = Members \union {e} /\ popped' = {}
      BY <2>2, KeepsPush, Zenon DEF ast_heap_push
    <3> QED BY <3>1, Zenon DEF Queue!Next, Queue!Push
  <2>3. ASSUME NEW e \in Elements, heap_push_failed(e) PROVE UNCHANGED vars
    BY <2>3, Zenon DEF heap_push_failed
  <2>4. ASSUME NEW e \in Elements, ast_heap_remove(e) PROVE Queue!Next
    <3>1. e \in Members /\ Members' = Members \ {e} /\ popped' = {}
      BY <2>4, KeepsRemove, Zenon
    <3> QED BY <3>1, Zenon DEF Queue!Next, Queue!Remove
  <2>5. CASE ast_heap_pop
    BY <2>5, KeepsPop, Zenon DEF Queue!Next, Queue!Pop
  <2>6. CASE Loops
    <3>1. Members' = Members
      BY <2>6, KeepsBubble, KeepsBubbleReturns, KeepsHeapify, KeepsHeapifyReturns, Zenon DEF Loops
    <3>2. popped' = popped
      BY <2>6 DEF Loops, bubble_up, bubble_up_returns, max_heapify, max_heapify_returns
    <3> QED BY <3>1, <3>2 DEF Queue!vars
  <2> QED BY <2>1, <2>2, <2>3, <2>4, <2>5, <2>6, Zenon DEF Next
<1> QED BY <1>1, <1>2, Invariance, PTL DEF Spec, IsPriorityQueue, Queue!Spec

=============================================================================
