--------------------------- MODULE NamedLocksProofs ---------------------------
(***************************************************************************)
(* Proofs about NamedLocks, for any set of pairs and keys and any finite   *)
(* set of threads.                                                         *)
(***************************************************************************)
EXTENDS NamedLocks, FiniteSetTheorems, TLAPS

\* Who holds which lock, and which locals are in use.
LockInv ==
    \A t \in Threads :
        /\ pc[t] \in {"find", "look", "found", "stale", "create"} <=> clock = t
        /\ key[t] # None <=> clock = t
        /\ cur[t] = None <=> pc[t] \in {"idle", "find", "create"}
        /\ cbs[t] # {} => pc[t] = "notify"
        /\ \A p \in Pairs : plock[p] = t <=> pc[t] = "unlink" /\ cur[t] = p

\* An object that is used is linked to its proxy, one that nobody uses is about to
\* be unlinked, and one thread at a time destroys it.
LifeInv ==
    /\ \A t \in Threads :
        /\ pc[t] \in {"found", "created", "cleanup", "holds", "put", "unlink"} => weakptr[cur[t]]
        /\ pc[t] \in {"stale", "notify"} => ~weakptr[cur[t]]
    /\ \A t, u \in Threads :
        cur[t] = cur[u] =>
            /\ pc[t] = "unlink" => pc[u] \notin {"found", "created", "cleanup", "holds", "put"}
            /\ pc[t] \in {"unlink", "notify"} /\ pc[u] \in {"unlink", "notify"} => t = u

\* What the container lists, which lock it does not list although it should, and
\* that every lock that is handed out takes itself off the container at its end.
ListInv ==
    /\ ContainerExact
    /\ \A p \in unlisted : weakptr[p]
    /\ \A p \in named_locks : weakptr[p] => Unlink \in destroyed_cb[p]
    /\ \A t \in Threads :
        /\ pc[t] = "look" => cur[t] \in named_locks
        /\ pc[t] = "create" => Matching(t) = {}
        /\ pc[t] \in {"found", "created", "holds"} => Unlink \in destroyed_cb[cur[t]]
        /\ weak[t] # None /\ weakptr[weak[t]] => Unlink \in destroyed_cb[weak[t]]

\* A subscriber keeps its weak reference until it is notified.
WeakInv ==
    /\ \A p \in Pairs : ~weakptr[p] => destroyed_cb[p] = {}
    /\ \A u \in Threads :
        /\ \A p \in Pairs : u \in destroyed_cb[p] => u \in expected /\ weak[u] = p
        /\ \A t \in Threads : u \in cbs[t] => u \in expected /\ weak[u] = cur[t]
        /\ u \in expected =>
            /\ weak[u] # None
            /\ u \in destroyed_cb[weak[u]] \/ \E t \in Threads : u \in cbs[t]

IInv == TypeOK /\ LockInv /\ LifeInv /\ ListInv /\ WeakInv /\ RefsExact

-----------------------------------------------------------------------------
(* What the invariant tells, in the pieces the proofs use                  *)

LEMMA Parts == IInv => TypeOK /\ LockInv /\ LifeInv /\ ListInv /\ WeakInv
BY DEF IInv

LEMMA Places == IInv => pc = [u \in Threads |-> pc[u]] /\ cur = [u \in Threads |-> cur[u]]
BY Zenon DEF IInv, TypeOK

LEMMA OtherLocals ==
    IInv => /\ key = [u \in Threads |-> key[u]] /\ cbs = [u \in Threads |-> cbs[u]]
            /\ weak = [u \in Threads |-> weak[u]]
BY Zenon DEF IInv, TypeOK

LEMMA Counters == IInv => ref \in [Pairs -> Int] /\ pref \in [Pairs -> Int]
BY Zenon DEF IInv, TypeOK

LEMMA Links ==
    IInv => /\ weakptr \in [Pairs -> BOOLEAN] /\ destroyed_cb = [p \in Pairs |-> destroyed_cb[p]]
            /\ named_locks \subseteq Pairs /\ unlisted \subseteq Pairs
BY Zenon DEF IInv, TypeOK

LEMMA Holders ==
    IInv => /\ plock = [p \in Pairs |-> plock[p]] /\ pkey = [p \in Pairs |-> pkey[p]]
            /\ clock \in Threads \union {None}
BY Zenon DEF IInv, TypeOK

LEMMA CurIsPair == IInv => \A u \in Threads : cur[u] \in Pairs \union {None}
BY Zenon DEF IInv, TypeOK

LEMMA WeakIsPair == IInv => \A u \in Threads : weak[u] \in Pairs \union {None}
BY Zenon DEF IInv, TypeOK

LEMMA KeyIsKey == IInv => \A u \in Threads : key[u] \in Keys \union {None}
BY Zenon DEF IInv, TypeOK

-----------------------------------------------------------------------------
(* Steps                                                                   *)

\* Every step keeps the types.
LEMMA TypeStep == IInv /\ [Next]_vars => TypeOK'
<1> SUFFICES ASSUME IInv, [Next]_vars PROVE TypeOK'
    OBVIOUS
<1>u. CASE UNCHANGED vars
    BY <1>u, Parts, Zenon DEF vars, pairs, container, locals, TypeOK
<1>1. ASSUME NEW t \in Threads, NEW p \in Pairs, weakproxy_find(t, p) PROVE TypeOK'
    BY <1>1, Parts DEF weakproxy_find, Goto, RefProxy, container, TypeOK
<1>2. ASSUME NEW t \in Threads, find_get_object(t) PROVE TypeOK'
    BY <1>2, Parts DEF find_get_object, Goto, get_object, RefObject, container, locals, TypeOK
<1>3. ASSUME NEW t \in Threads, found(t) PROVE TypeOK'
    BY <1>3, NoneAssumption, Parts DEF found, Goto, RefProxy, Unlock, LockInv, TypeOK
<1>4. ASSUME NEW t \in Threads, find_unlinks(t) PROVE TypeOK'
    BY <1>4, UnlinkAssumption, Parts DEF find_unlinks, Goto, RefProxy, LockInv, TypeOK
<1>5. ASSUME NEW t \in Threads, find_none(t) PROVE TypeOK'
    BY <1>5, Parts, Zenon DEF find_none, Goto, pairs, container, locals, TypeOK
<1>6. ASSUME NEW t \in Threads, NEW p \in Pairs, NEW linked \in BOOLEAN, named_lock_create(t, p, linked)
      PROVE  TypeOK'
    BY <1>6, Parts DEF named_lock_create, Goto, set_object, Unlock, TypeOK
<1>7. ASSUME NEW t \in Threads, created(t) PROVE TypeOK'
    BY <1>7, Parts DEF created, Goto, RefProxy, container, locals, LockInv, TypeOK
<1>8. ASSUME NEW t \in Threads, named_lock_get_failed(t) PROVE TypeOK'
    BY <1>8, Parts, Zenon DEF named_lock_get_failed, Goto, Unlock, pairs, TypeOK
<1>9. ASSUME NEW t \in Threads, NEW p \in Pairs, subscribe_failed(t, p) PROVE TypeOK'
    BY <1>9, Parts DEF subscribe_failed, Goto, set_object, Unlock, TypeOK
<1>10. ASSUME NEW t \in Threads, cleanup_proxy(t) PROVE TypeOK'
    BY <1>10, Parts DEF cleanup_proxy, Goto, RefProxy, container, locals, LockInv, TypeOK
<1>11. ASSUME NEW t \in Threads, put_ref(t) PROVE TypeOK'
    BY <1>11, UnlinkAssumption, NoneAssumption, Parts DEF put_ref, Goto, DropObject, RefObject, container,
       LockInv, TypeOK
<1>12. ASSUME NEW t \in Threads, put_unlink(t) PROVE TypeOK'
    BY <1>12, Parts DEF put_unlink, Goto, UnlinkObject, RefObject, DestroyedCallbacks, container, LockInv,
       TypeOK
<1>13. ASSUME NEW t \in Threads, named_lock_proxy_cb(t) PROVE TypeOK'
    BY <1>13, Parts DEF named_lock_proxy_cb, RefProxy, TypeOK
<1>14. ASSUME NEW t \in Threads, put_done(t) PROVE TypeOK'
    BY <1>14, Parts DEF put_done, Goto, RefProxy, container, LockInv, TypeOK
<1>15. ASSUME NEW t \in Threads, NEW u \in Threads, notify(t, u) PROVE TypeOK'
    BY <1>15, Parts, Zenon DEF notify, pairs, container, TypeOK
<1>16. ASSUME NEW t \in Threads, NEW k \in Keys, named_lock_get(t, k) PROVE TypeOK'
    BY <1>16, Parts, Zenon DEF named_lock_get, Goto, pairs, TypeOK
<1>17. ASSUME NEW t \in Threads, named_lock_put(t) PROVE TypeOK'
    BY <1>17, Parts, Zenon DEF named_lock_put, Goto, pairs, container, locals, TypeOK
<1>18. ASSUME NEW t \in Threads, get_weakproxy(t) PROVE TypeOK'
    BY <1>18, Parts DEF get_weakproxy, RefProxy, container, locals, LockInv, TypeOK
<1>19. ASSUME NEW t \in Threads, weakproxy_get_object(t) PROVE TypeOK'
    BY <1>19, Parts DEF weakproxy_get_object, Goto, get_object, RefObject, container, TypeOK
<1>20. ASSUME NEW t \in Threads, weakproxy_subscribe(t) PROVE TypeOK'
    BY <1>20, Parts DEF weakproxy_subscribe, subscribe, container, locals, TypeOK
<1>21. ASSUME NEW t \in Threads, weakproxy_unsubscribe(t) PROVE TypeOK'
    BY <1>21, Parts, Zenon DEF weakproxy_unsubscribe, unsubscribe, container, locals, TypeOK
<1>22. ASSUME NEW t \in Threads, weak_unref(t) PROVE TypeOK'
    BY <1>22, Parts DEF weak_unref, RefProxy, container, locals, TypeOK
<1>23. ASSUME NEW t \in Threads, NEW u \in Threads, bump(t, u) PROVE TypeOK'
    BY <1>23, NoneAssumption, Parts DEF bump, Goto, RefObject, container, LockInv, TypeOK
<1> QED BY <1>u, <1>1, <1>2, <1>3, <1>4, <1>5, <1>6, <1>7, <1>8, <1>9, <1>10, <1>11, <1>12, <1>13, <1>14,
           <1>15, <1>16, <1>17, <1>18, <1>19, <1>20, <1>21, <1>22, <1>23, Zenon DEF Next, GetStep, PutStep,
           Call

\* Every step keeps the owners of the locks and the use of the locals.
LEMMA LockStep == IInv /\ [Next]_vars => LockInv'
<1> SUFFICES ASSUME IInv, [Next]_vars PROVE LockInv'
    OBVIOUS
<1>u. CASE UNCHANGED vars
    BY <1>u, Parts DEF vars, pairs, container, locals, LockInv
<1>1. ASSUME NEW t \in Threads, NEW p \in Pairs, weakproxy_find(t, p) PROVE LockInv'
    BY <1>1, NoneAssumption, Parts, Places DEF weakproxy_find, Goto, container, LockInv
<1>2. ASSUME NEW t \in Threads, find_get_object(t) PROVE LockInv'
    BY <1>2, Parts DEF find_get_object, Goto, get_object, container, locals, LockInv
<1>3. ASSUME NEW t \in Threads, found(t) PROVE LockInv'
    BY <1>3, NoneAssumption, Parts, Places, OtherLocals DEF found, Goto, Unlock, LockInv
<1>4. ASSUME NEW t \in Threads, find_unlinks(t) PROVE LockInv'
    BY <1>4, Parts, Places DEF find_unlinks, Goto, LockInv
<1>5. ASSUME NEW t \in Threads, find_none(t) PROVE LockInv'
    BY <1>5, Parts DEF find_none, Goto, pairs, container, locals, LockInv
<1>6. ASSUME NEW t \in Threads, NEW p \in Pairs, NEW linked \in BOOLEAN, named_lock_create(t, p, linked)
      PROVE  LockInv'
    BY <1>6, NoneAssumption, Parts, Places, OtherLocals DEF named_lock_create, Goto, set_object, Unlock,
       LockInv
<1>7. ASSUME NEW t \in Threads, created(t) PROVE LockInv'
    BY <1>7, Parts DEF created, Goto, container, locals, LockInv
<1>8. ASSUME NEW t \in Threads, named_lock_get_failed(t) PROVE LockInv'
    BY <1>8, NoneAssumption, Parts, Places, OtherLocals DEF named_lock_get_failed, Goto, Unlock, pairs,
       LockInv
<1>9. ASSUME NEW t \in Threads, NEW p \in Pairs, subscribe_failed(t, p) PROVE LockInv'
    BY <1>9, NoneAssumption, Parts, Places, OtherLocals DEF subscribe_failed, Goto, set_object, Unlock,
       LockInv
<1>10. ASSUME NEW t \in Threads, cleanup_proxy(t) PROVE LockInv'
    BY <1>10, Parts DEF cleanup_proxy, Goto, container, locals, LockInv
<1>11. ASSUME NEW t \in Threads, put_ref(t) PROVE LockInv'
    BY <1>11, NoneAssumption, Parts, Places, Holders DEF put_ref, Goto, DropObject, container, LockInv
<1>12. ASSUME NEW t \in Threads, put_unlink(t) PROVE LockInv'
    BY <1>12, NoneAssumption, Parts, Places, Holders DEF put_unlink, Goto, UnlinkObject, container, LockInv
<1>13. ASSUME NEW t \in Threads, named_lock_proxy_cb(t) PROVE LockInv'
    BY <1>13, Parts DEF named_lock_proxy_cb, LockInv
<1>14. ASSUME NEW t \in Threads, put_done(t) PROVE LockInv'
    BY <1>14, Parts, Places DEF put_done, Goto, container, LockInv
<1>15. ASSUME NEW t \in Threads, NEW u \in Threads, notify(t, u) PROVE LockInv'
    BY <1>15, Parts DEF notify, pairs, container, LockInv
<1>16. ASSUME NEW t \in Threads, NEW k \in Keys, named_lock_get(t, k) PROVE LockInv'
    BY <1>16, UnlinkAssumption, NoneAssumption, Parts, Places, OtherLocals DEF named_lock_get, Goto, pairs,
       LockInv
<1>17. ASSUME NEW t \in Threads, named_lock_put(t) PROVE LockInv'
    BY <1>17, Parts DEF named_lock_put, Goto, pairs, container, locals, LockInv
<1>18. ASSUME NEW t \in Threads, get_weakproxy(t) PROVE LockInv'
    BY <1>18, Parts DEF get_weakproxy, container, locals, LockInv
<1>19. ASSUME NEW t \in Threads, weakproxy_get_object(t) PROVE LockInv'
    BY <1>19, Parts, Places DEF weakproxy_get_object, Goto, get_object, container, LockInv
<1>20. ASSUME NEW t \in Threads, weakproxy_subscribe(t) PROVE LockInv'
    BY <1>20, Parts DEF weakproxy_subscribe, subscribe, container, locals, LockInv
<1>21. ASSUME NEW t \in Threads, weakproxy_unsubscribe(t) PROVE LockInv'
    BY <1>21, Parts DEF weakproxy_unsubscribe, unsubscribe, container, locals, LockInv
<1>22. ASSUME NEW t \in Threads, weak_unref(t) PROVE LockInv'
    BY <1>22, Parts DEF weak_unref, container, locals, LockInv
<1>23. ASSUME NEW t \in Threads, NEW u \in Threads, bump(t, u) PROVE LockInv'
    BY <1>23, Parts, Places DEF bump, Goto, container, LockInv
<1> QED BY <1>u, <1>1, <1>2, <1>3, <1>4, <1>5, <1>6, <1>7, <1>8, <1>9, <1>10, <1>11, <1>12, <1>13, <1>14,
           <1>15, <1>16, <1>17, <1>18, <1>19, <1>20, <1>21, <1>22, <1>23, Zenon DEF Next, GetStep, PutStep,
           Call

-----------------------------------------------------------------------------
(* What the reference counters tell                                        *)

Lookers(p) == At(p, {"look", "found", "stale", "created", "cleanup"})
Keepers(p) == {t \in Threads : weak[t] = p}

LEMMA Finite ==
    ASSUME NEW S \in SUBSET Threads
    PROVE  /\ IsFiniteSet(S)
           /\ Cardinality(S) \in Nat
           /\ Cardinality(S) = 0 <=> S = {}
<1>1. IsFiniteSet(S)
    BY FiniteAssumption, FS_Subset
<1> QED BY <1>1, FS_CardinalityType, FS_EmptySet, Zenon

LEMMA Counts ==
    ASSUME NEW p
    PROVE  /\ Users(p) \in SUBSET Threads /\ Cardinality(Users(p)) \in Nat
           /\ Lookers(p) \in SUBSET Threads /\ Cardinality(Lookers(p)) \in Nat
           /\ Keepers(p) \in SUBSET Threads /\ Cardinality(Keepers(p)) \in Nat
<1>1. Users(p) \in SUBSET Threads /\ Lookers(p) \in SUBSET Threads /\ Keepers(p) \in SUBSET Threads
    BY Zenon DEF Users, Lookers, Keepers, At
<1> QED BY <1>1, Finite, Zenon

\* Memory that is taken for a new pair is not in use anywhere.
LEMMA UnusedIsFree ==
    ASSUME IInv, NEW p \in Pairs, Unused(p)
    PROVE  /\ ~weakptr[p] /\ p \notin named_locks /\ p \notin unlisted
           /\ \A t \in Threads : cur[t] # p /\ weak[t] # p
<1>1. /\ Cardinality(Users(p)) + One(weakptr[p]) = 0
      /\ Cardinality(Lookers(p)) + Cardinality(Keepers(p)) + One(p \in named_locks)
            + One(weakptr[p] \/ At(p, {"notify"}) # {}) = 0
    BY Zenon DEF Unused, IInv, RefsExact, Lookers, Keepers
<1>2. /\ ~weakptr[p] /\ p \notin named_locks /\ At(p, {"notify"}) = {}
      /\ Cardinality(Users(p)) = 0 /\ Cardinality(Lookers(p)) = 0 /\ Cardinality(Keepers(p)) = 0
    BY <1>1, Counts DEF One
<1>3. Users(p) = {} /\ Lookers(p) = {} /\ Keepers(p) = {}
    BY <1>2, Counts, Finite, Zenon
<1>4. ASSUME NEW t \in Threads PROVE cur[t] # p
    BY <1>2, <1>3, NoneAssumption DEF IInv, TypeOK, LockInv, LifeInv, Lookers, At
<1>5. p \notin unlisted
    BY <1>2, Zenon DEF IInv, ListInv
<1> QED BY <1>2, <1>3, <1>4, <1>5, Zenon DEF Keepers

\* The dropped reference is the last one of a user exactly if the counter is 2.
LEMMA LastUser ==
    ASSUME IInv, NEW p \in Pairs, NEW t \in Users(p)
    PROVE  ref[p] = 2 <=> Users(p) = {t}
<1>1. weakptr[p] /\ t \in Threads
    BY Zenon DEF IInv, LifeInv, Users, At
<1>2. ref[p] = Cardinality(Users(p)) + One(weakptr[p]) /\ One(weakptr[p]) = 1
    BY <1>1, Zenon DEF IInv, RefsExact, One
<1>3. IsFiniteSet(Users(p)) /\ Cardinality(Users(p)) \in Nat
    BY Counts, Finite, Zenon
<1>4. Cardinality(Users(p) \ {t}) = Cardinality(Users(p)) - 1
    BY <1>3, FS_RemoveElement, Zenon
<1>5. Cardinality(Users(p) \ {t}) = 0 <=> Users(p) \ {t} = {}
    BY Counts, Finite, Zenon
<1> QED BY <1>2, <1>3, <1>4, <1>5

\* One thread more, or less, in a set.
LEMMA CountStep ==
    ASSUME NEW S \in SUBSET Threads, NEW T \in SUBSET Threads, NEW t \in Threads,
           \A u \in Threads \ {t} : u \in S <=> u \in T
    PROVE  Cardinality(T) - One(t \in T) = Cardinality(S) - One(t \in S)
<1>1. ASSUME NEW U \in SUBSET Threads
      PROVE  Cardinality(U \ {t}) = Cardinality(U) - One(t \in U)
    <2>1. CASE t \in U
        BY Finite, FS_RemoveElement DEF One
    <2>2. CASE t \notin U
        <3>1. U \ {t} = U
            BY <2>2
        <3> QED BY <2>2, Finite DEF One
    <2> QED BY <2>1, <2>2, Zenon
<1>2. S \ {t} = T \ {t}
    OBVIOUS
<1> QED BY <1>1, Zenon

-----------------------------------------------------------------------------
(* The life of an object, the container and the notifications             *)

\* Every step keeps linked what is used, and has one destroyer per object.
LEMMA LifeStep == IInv /\ [Next]_vars => LifeInv'
<1> SUFFICES ASSUME IInv, [Next]_vars PROVE LifeInv'
    OBVIOUS
<1>u. CASE UNCHANGED vars
    BY <1>u, Parts, Zenon DEF vars, pairs, locals, LifeInv
<1>1. ASSUME NEW t \in Threads, NEW p \in Pairs, weakproxy_find(t, p) PROVE LifeInv'
    BY <1>1, Parts DEF weakproxy_find, Goto, LifeInv
<1>2. ASSUME NEW t \in Threads, find_get_object(t) PROVE LifeInv'
    BY <1>2, NoneAssumption, Parts, CurIsPair DEF find_get_object, Goto, get_object, locals, LifeInv, LockInv
<1>3. ASSUME NEW t \in Threads, found(t) PROVE LifeInv'
    BY <1>3, Parts DEF found, Goto, Unlock, LifeInv
<1>4. ASSUME NEW t \in Threads, find_unlinks(t) PROVE LifeInv'
    BY <1>4, UnlinkAssumption, NoneAssumption, Parts, Places, Zenon DEF find_unlinks, Goto, LifeInv
<1>5. ASSUME NEW t \in Threads, find_none(t) PROVE LifeInv'
    BY <1>5, Parts DEF find_none, Goto, pairs, locals, LifeInv
<1>6. ASSUME NEW t \in Threads, NEW p \in Pairs, NEW linked \in BOOLEAN, named_lock_create(t, p, linked)
      PROVE  LifeInv'
    BY <1>6, UnusedIsFree, Parts, Places, Links DEF named_lock_create, Goto, set_object, Unlock, LifeInv
<1>7. ASSUME NEW t \in Threads, created(t) PROVE LifeInv'
    BY <1>7, Parts DEF created, Goto, locals, LifeInv
<1>8. ASSUME NEW t \in Threads, named_lock_get_failed(t) PROVE LifeInv'
    BY <1>8, Parts DEF named_lock_get_failed, Goto, Unlock, pairs, LifeInv
<1>9. ASSUME NEW t \in Threads, NEW p \in Pairs, subscribe_failed(t, p) PROVE LifeInv'
    BY <1>9, UnusedIsFree, Parts, Places, Links DEF subscribe_failed, Goto, set_object, Unlock, LifeInv
<1>10. ASSUME NEW t \in Threads, cleanup_proxy(t) PROVE LifeInv'
    BY <1>10, Parts DEF cleanup_proxy, Goto, locals, LifeInv
<1>11. ASSUME NEW t \in Threads, put_ref(t) PROVE LifeInv'
    <2>1. cur[t] \in Pairs /\ t \in Users(cur[t])
        BY <1>11, Parts, CurIsPair, Zenon DEF put_ref, LockInv, Users, At
    <2>2. ref[cur[t]] = 2 => \A u \in Threads \ {t} :
            cur[u] = cur[t] => pc[u] \notin {"found", "created", "cleanup", "holds", "put"}
        BY <2>1, LastUser DEF Users, At
    <2> QED BY <1>11, <2>2, Parts, Places DEF put_ref, Goto, DropObject, LifeInv
<1>12. ASSUME NEW t \in Threads, put_unlink(t) PROVE LifeInv'
    BY <1>12, Parts, Places, Links, CurIsPair DEF put_unlink, Goto, UnlinkObject, LifeInv, LockInv
<1>13. ASSUME NEW t \in Threads, named_lock_proxy_cb(t) PROVE LifeInv'
    BY <1>13, Parts, Zenon DEF named_lock_proxy_cb, LifeInv
<1>14. ASSUME NEW t \in Threads, put_done(t) PROVE LifeInv'
    BY <1>14, Parts, Places, OtherLocals, Zenon DEF put_done, Goto, LifeInv
<1>15. ASSUME NEW t \in Threads, NEW u \in Threads, notify(t, u) PROVE LifeInv'
    BY <1>15, Parts, Zenon DEF notify, pairs, LifeInv
<1>16. ASSUME NEW t \in Threads, NEW k \in Keys, named_lock_get(t, k) PROVE LifeInv'
    BY <1>16, Parts DEF named_lock_get, Goto, pairs, LifeInv
<1>17. ASSUME NEW t \in Threads, named_lock_put(t) PROVE LifeInv'
    BY <1>17, Parts DEF named_lock_put, Goto, pairs, locals, LifeInv
<1>18. ASSUME NEW t \in Threads, get_weakproxy(t) PROVE LifeInv'
    BY <1>18, Parts, Zenon DEF get_weakproxy, locals, LifeInv
<1>19. ASSUME NEW t \in Threads, weakproxy_get_object(t) PROVE LifeInv'
    BY <1>19, NoneAssumption, Parts, Places, CurIsPair DEF weakproxy_get_object, Goto, get_object, LifeInv,
       LockInv
<1>20. ASSUME NEW t \in Threads, weakproxy_subscribe(t) PROVE LifeInv'
    BY <1>20, Parts, Zenon DEF weakproxy_subscribe, subscribe, locals, LifeInv
<1>21. ASSUME NEW t \in Threads, weakproxy_unsubscribe(t) PROVE LifeInv'
    BY <1>21, Parts, Zenon DEF weakproxy_unsubscribe, unsubscribe, locals, LifeInv
<1>22. ASSUME NEW t \in Threads, weak_unref(t) PROVE LifeInv'
    BY <1>22, Parts, Zenon DEF weak_unref, locals, LifeInv
<1>23. ASSUME NEW t \in Threads, NEW u \in Threads, bump(t, u) PROVE LifeInv'
    BY <1>23, Parts, Places DEF bump, Goto, LifeInv
<1> QED BY <1>u, <1>1, <1>2, <1>3, <1>4, <1>5, <1>6, <1>7, <1>8, <1>9, <1>10, <1>11, <1>12, <1>13, <1>14,
           <1>15, <1>16, <1>17, <1>18, <1>19, <1>20, <1>21, <1>22, <1>23, Zenon DEF Next, GetStep, PutStep,
           Call

\* Every step keeps the container exact.
LEMMA ListStep == IInv /\ [Next]_vars => ListInv'
<1> SUFFICES ASSUME IInv, [Next]_vars PROVE ListInv'
    OBVIOUS
<1>u. CASE UNCHANGED vars
    BY <1>u, Parts DEF vars, pairs, container, locals, ListInv, ContainerExact, Matching, At
<1>1. ASSUME NEW t \in Threads, NEW p \in Pairs, weakproxy_find(t, p) PROVE ListInv'
    BY <1>1, Parts, Places DEF weakproxy_find, Goto, container, ListInv, ContainerExact, Matching, At
<1>2. ASSUME NEW t \in Threads, find_get_object(t) PROVE ListInv'
    BY <1>2, Parts DEF find_get_object, Goto, get_object, container, locals, ListInv, ContainerExact,
       Matching, At
<1>3. ASSUME NEW t \in Threads, found(t) PROVE ListInv'
    BY <1>3, Parts DEF found, Goto, Unlock, ListInv, ContainerExact, LockInv, At
<1>4. ASSUME NEW t \in Threads, find_unlinks(t) PROVE ListInv'
    BY <1>4, Parts DEF find_unlinks, Goto, ListInv, ContainerExact, LifeInv, LockInv, At
<1>5. ASSUME NEW t \in Threads, find_none(t) PROVE ListInv'
    BY <1>5, Parts DEF find_none, Goto, pairs, container, locals, ListInv, ContainerExact, Matching, At
<1>6. ASSUME NEW t \in Threads, NEW p \in Pairs, NEW linked \in BOOLEAN, named_lock_create(t, p, linked)
      PROVE  ListInv'
    BY <1>6, UnusedIsFree, Parts, Places, Links, Holders DEF named_lock_create, Goto, set_object, Unlock,
       ListInv, ContainerExact, Matching, LockInv, At
<1>7. ASSUME NEW t \in Threads, created(t) PROVE ListInv'
    BY <1>7, Parts DEF created, Goto, container, locals, ListInv, ContainerExact, Matching, At
<1>8. ASSUME NEW t \in Threads, named_lock_get_failed(t) PROVE ListInv'
    BY <1>8, Parts, Places DEF named_lock_get_failed, Goto, Unlock, pairs, ListInv, ContainerExact, LockInv,
       At
<1>9. ASSUME NEW t \in Threads, NEW p \in Pairs, subscribe_failed(t, p) PROVE ListInv'
    BY <1>9, UnusedIsFree, Parts, Places, Links DEF subscribe_failed, Goto, set_object, Unlock, ListInv,
       ContainerExact, Matching, At
<1>10. ASSUME NEW t \in Threads, cleanup_proxy(t) PROVE ListInv'
    BY <1>10, Parts DEF cleanup_proxy, Goto, container, locals, ListInv, ContainerExact, Matching, At
<1>11. ASSUME NEW t \in Threads, put_ref(t) PROVE ListInv'
    BY <1>11, Parts, Places DEF put_ref, Goto, DropObject, container, ListInv, ContainerExact, Matching, At
<1>12. ASSUME NEW t \in Threads, put_unlink(t) PROVE ListInv'
    BY <1>12, Parts, Places, OtherLocals, Links DEF put_unlink, Goto, UnlinkObject, DestroyedCallbacks,
       container, ListInv, ContainerExact, Matching, LifeInv, At
<1>13. ASSUME NEW t \in Threads, named_lock_proxy_cb(t) PROVE ListInv'
    BY <1>13, NoneAssumption, Parts DEF named_lock_proxy_cb, ListInv, ContainerExact, LifeInv, LockInv, At
<1>14. ASSUME NEW t \in Threads, put_done(t) PROVE ListInv'
    BY <1>14, Parts DEF put_done, Goto, container, ListInv, ContainerExact, Matching, At
<1>15. ASSUME NEW t \in Threads, NEW u \in Threads, notify(t, u) PROVE ListInv'
    BY <1>15, UnlinkAssumption, Parts DEF notify, pairs, container, ListInv, ContainerExact, Matching, At
<1>16. ASSUME NEW t \in Threads, NEW k \in Keys, named_lock_get(t, k) PROVE ListInv'
    BY <1>16, Parts DEF named_lock_get, Goto, pairs, ListInv, ContainerExact, Matching, At
<1>17. ASSUME NEW t \in Threads, named_lock_put(t) PROVE ListInv'
    BY <1>17, Parts DEF named_lock_put, Goto, pairs, container, locals, ListInv, ContainerExact, Matching, At
<1>18. ASSUME NEW t \in Threads, get_weakproxy(t) PROVE ListInv'
    BY <1>18, Parts DEF get_weakproxy, container, locals, ListInv, ContainerExact, Matching, At
<1>19. ASSUME NEW t \in Threads, weakproxy_get_object(t) PROVE ListInv'
    BY <1>19, Parts, Places DEF weakproxy_get_object, Goto, get_object, container, ListInv, ContainerExact,
       Matching, At
<1>20. ASSUME NEW t \in Threads, weakproxy_subscribe(t) PROVE ListInv'
    BY <1>20, Parts DEF weakproxy_subscribe, subscribe, container, locals, ListInv, ContainerExact, Matching,
       At
<1>21. ASSUME NEW t \in Threads, weakproxy_unsubscribe(t) PROVE ListInv'
    BY <1>21, UnlinkAssumption, Parts DEF weakproxy_unsubscribe, unsubscribe, container, locals, ListInv,
       ContainerExact, Matching, At
<1>22. ASSUME NEW t \in Threads, weak_unref(t) PROVE ListInv'
    BY <1>22, Parts DEF weak_unref, container, locals, ListInv, ContainerExact, Matching, At
<1>23. ASSUME NEW t \in Threads, NEW u \in Threads, bump(t, u) PROVE ListInv'
    BY <1>23, Parts, Places DEF bump, Goto, container, ListInv, ContainerExact, Matching, At
<1> QED BY <1>u, <1>1, <1>2, <1>3, <1>4, <1>5, <1>6, <1>7, <1>8, <1>9, <1>10, <1>11, <1>12, <1>13, <1>14,
           <1>15, <1>16, <1>17, <1>18, <1>19, <1>20, <1>21, <1>22, <1>23, Zenon DEF Next, GetStep, PutStep,
           Call

\* Every step keeps one notification per subscriber.
LEMMA WeakStep == IInv /\ [Next]_vars => WeakInv'
<1> SUFFICES ASSUME IInv, [Next]_vars PROVE WeakInv'
    OBVIOUS
<1>u. CASE UNCHANGED vars
    BY <1>u, UnlinkAssumption, Parts, Zenon DEF vars, pairs, locals, WeakInv
<1>1. ASSUME NEW t \in Threads, NEW p \in Pairs, weakproxy_find(t, p) PROVE WeakInv'
    BY <1>1, Parts DEF weakproxy_find, WeakInv, LockInv
<1>2. ASSUME NEW t \in Threads, find_get_object(t) PROVE WeakInv'
    BY <1>2, Parts DEF find_get_object, get_object, locals, WeakInv
<1>3. ASSUME NEW t \in Threads, found(t) PROVE WeakInv'
    BY <1>3, Parts DEF found, WeakInv
<1>4. ASSUME NEW t \in Threads, find_unlinks(t) PROVE WeakInv'
    BY <1>4, Parts DEF find_unlinks, WeakInv, LockInv
<1>5. ASSUME NEW t \in Threads, find_none(t) PROVE WeakInv'
    BY <1>5, Parts DEF find_none, pairs, locals, WeakInv
<1>6. ASSUME NEW t \in Threads, NEW p \in Pairs, NEW linked \in BOOLEAN, named_lock_create(t, p, linked)
      PROVE  WeakInv'
    BY <1>6, UnusedIsFree, UnlinkAssumption, Parts, Links DEF named_lock_create, set_object, WeakInv, LockInv
<1>7. ASSUME NEW t \in Threads, created(t) PROVE WeakInv'
    BY <1>7, Parts DEF created, locals, WeakInv
<1>8. ASSUME NEW t \in Threads, named_lock_get_failed(t) PROVE WeakInv'
    BY <1>8, Parts DEF named_lock_get_failed, pairs, WeakInv
<1>9. ASSUME NEW t \in Threads, NEW p \in Pairs, subscribe_failed(t, p) PROVE WeakInv'
    BY <1>9, UnusedIsFree, Parts DEF subscribe_failed, set_object, WeakInv, LockInv
<1>10. ASSUME NEW t \in Threads, cleanup_proxy(t) PROVE WeakInv'
    BY <1>10, Parts DEF cleanup_proxy, locals, WeakInv
<1>11. ASSUME NEW t \in Threads, put_ref(t) PROVE WeakInv'
    BY <1>11, Parts, Places DEF put_ref, DropObject, WeakInv, LockInv
<1>12. ASSUME NEW t \in Threads, put_unlink(t) PROVE WeakInv'
    BY <1>12, Parts, OtherLocals, Links, CurIsPair, KeyIsKey DEF put_unlink, UnlinkObject,
       DestroyedCallbacks, WeakInv, LockInv
<1>13. ASSUME NEW t \in Threads, named_lock_proxy_cb(t) PROVE WeakInv'
    <2>1. UNCHANGED <<weakptr, destroyed_cb, cur, weak, expected>>
        BY <1>13, Zenon DEF named_lock_proxy_cb
    <2>2. \A v \in Threads, u \in Threads : u \in cbs'[v] <=> u \in cbs[v]
        BY <1>13, UnlinkAssumption, Parts DEF named_lock_proxy_cb
    <2> QED BY <2>1, <2>2, Parts DEF WeakInv
<1>14. ASSUME NEW t \in Threads, put_done(t) PROVE WeakInv'
    BY <1>14, Parts DEF put_done, WeakInv
<1>15. ASSUME NEW t \in Threads, NEW u \in Threads, notify(t, u) PROVE WeakInv'
    BY <1>15, Parts, OtherLocals DEF notify, pairs, WeakInv, LifeInv, LockInv
<1>16. ASSUME NEW t \in Threads, NEW k \in Keys, named_lock_get(t, k) PROVE WeakInv'
    BY <1>16, Parts DEF named_lock_get, pairs, WeakInv
<1>17. ASSUME NEW t \in Threads, named_lock_put(t) PROVE WeakInv'
    BY <1>17, Parts DEF named_lock_put, pairs, locals, WeakInv
<1>18. ASSUME NEW t \in Threads, get_weakproxy(t) PROVE WeakInv'
    BY <1>18, Parts DEF get_weakproxy, locals, WeakInv
<1>19. ASSUME NEW t \in Threads, weakproxy_get_object(t) PROVE WeakInv'
    BY <1>19, Parts DEF weakproxy_get_object, get_object, WeakInv, LockInv
<1>20. ASSUME NEW t \in Threads, weakproxy_subscribe(t) PROVE WeakInv'
    BY <1>20, Parts, Links, WeakIsPair DEF weakproxy_subscribe, subscribe, locals, WeakInv
<1>21. ASSUME NEW t \in Threads, weakproxy_unsubscribe(t) PROVE WeakInv'
    BY <1>21, Parts, Links, CurIsPair DEF weakproxy_unsubscribe, unsubscribe, locals, WeakInv, LifeInv,
       LockInv
<1>22. ASSUME NEW t \in Threads, weak_unref(t) PROVE WeakInv'
    BY <1>22, Parts DEF weak_unref, locals, WeakInv
<1>23. ASSUME NEW t \in Threads, NEW u \in Threads, bump(t, u) PROVE WeakInv'
    BY <1>23, Parts DEF bump, WeakInv, LockInv
<1> QED BY <1>u, <1>1, <1>2, <1>3, <1>4, <1>5, <1>6, <1>7, <1>8, <1>9, <1>10, <1>11, <1>12, <1>13, <1>14,
           <1>15, <1>16, <1>17, <1>18, <1>19, <1>20, <1>21, <1>22, <1>23, Zenon DEF Next, GetStep, PutStep,
           Call

-----------------------------------------------------------------------------
(* The counters                                                            *)

\* Somebody owns the object's reference to its proxy.
Owned(p) == weakptr[p] \/ \E t \in Threads : cur[t] = p /\ pc[t] = "notify"

\* A step of thread t keeps the counters of p exact if it changes them by as much
\* as it changes its own uses of p, the links and the container.
MatchedObject(p, t) ==
    ref'[p] - ref[p] =
        One(t \in Users(p)') - One(t \in Users(p)) + One(weakptr'[p]) - One(weakptr[p])
MatchedProxy(p, t) ==
    pref'[p] - pref[p] =
        One(t \in Lookers(p)') - One(t \in Lookers(p))
        + One(t \in Keepers(p)') - One(t \in Keepers(p))
        + One(p \in named_locks') - One(p \in named_locks)
        + One(Owned(p)') - One(Owned(p))

OthersIdle(t) ==
    \A v \in Threads \ {t} : pc'[v] = pc[v] /\ cur'[v] = cur[v] /\ weak'[v] = weak[v]

LEMMA OneType == \A b : One(b) \in Int
BY DEF One

LEMMA RefsMatched ==
    ASSUME IInv, TypeOK', NEW t \in Threads, OthersIdle(t),
           \A p \in Pairs : MatchedObject(p, t) /\ MatchedProxy(p, t)
    PROVE  RefsExact'
<1> SUFFICES ASSUME NEW p \in Pairs
             PROVE  /\ ref'[p] = Cardinality(Users(p)') + One(weakptr'[p])
                    /\ pref'[p] = Cardinality(Lookers(p)') + Cardinality(Keepers(p)')
                                    + One(p \in named_locks') + One(Owned(p)')
    BY Zenon DEF RefsExact, Lookers, Keepers, Owned, At
<1>1. /\ ref[p] = Cardinality(Users(p)) + One(weakptr[p])
      /\ pref[p] = Cardinality(Lookers(p)) + Cardinality(Keepers(p))
                    + One(p \in named_locks) + One(Owned(p))
    BY Zenon DEF IInv, RefsExact, Lookers, Keepers, Owned, At
<1>2. /\ Users(p)' \in SUBSET Threads /\ Cardinality(Users(p)') \in Nat
      /\ Lookers(p)' \in SUBSET Threads /\ Cardinality(Lookers(p)') \in Nat
      /\ Keepers(p)' \in SUBSET Threads /\ Cardinality(Keepers(p)') \in Nat
    <2>1. /\ Users(p)' \in SUBSET Threads
          /\ Lookers(p)' \in SUBSET Threads
          /\ Keepers(p)' \in SUBSET Threads
        BY Zenon DEF Users, Lookers, Keepers, At
    <2> QED BY <2>1, Finite, Zenon
<1>3. Cardinality(Users(p)') - One(t \in Users(p)')
        = Cardinality(Users(p)) - One(t \in Users(p))
    <2>1. \A v \in Threads \ {t} : v \in Users(p) <=> v \in Users(p)'
        BY Zenon DEF OthersIdle, Users, At
    <2> QED BY <2>1, <1>2, Counts, CountStep, Zenon
<1>4. Cardinality(Lookers(p)') - One(t \in Lookers(p)')
        = Cardinality(Lookers(p)) - One(t \in Lookers(p))
    <2>1. \A v \in Threads \ {t} : v \in Lookers(p) <=> v \in Lookers(p)'
        BY Zenon DEF OthersIdle, Lookers, At
    <2> QED BY <2>1, <1>2, Counts, CountStep, Zenon
<1>5. Cardinality(Keepers(p)') - One(t \in Keepers(p)')
        = Cardinality(Keepers(p)) - One(t \in Keepers(p))
    <2>1. \A v \in Threads \ {t} : v \in Keepers(p) <=> v \in Keepers(p)'
        BY Zenon DEF OthersIdle, Keepers
    <2> QED BY <2>1, <1>2, Counts, CountStep, Zenon
<1>6. MatchedObject(p, t) /\ MatchedProxy(p, t)
    OBVIOUS
<1>7. ref[p] \in Int /\ pref[p] \in Int /\ ref'[p] \in Int /\ pref'[p] \in Int
    BY Zenon DEF IInv, TypeOK
<1>8. ref'[p] = Cardinality(Users(p)') + One(weakptr'[p])
    <2>1. ref'[p] - ref[p] =
            One(t \in Users(p)') - One(t \in Users(p)) + One(weakptr'[p]) - One(weakptr[p])
        BY Zenon DEF MatchedObject
    <2>2. /\ Cardinality(Users(p)) \in Int /\ Cardinality(Users(p)') \in Int
        BY <1>2, Counts
    <2>3. /\ One(t \in Users(p)) \in Int /\ One(t \in Users(p)') \in Int
          /\ One(weakptr[p]) \in Int /\ One(weakptr'[p]) \in Int
        BY OneType, Zenon
    <2> DEFINE n == Cardinality(Users(p))  n1 == Cardinality(Users(p)')
               x == One(t \in Users(p))    x1 == One(t \in Users(p)')
               w == One(weakptr[p])        w1 == One(weakptr'[p])
               r == ref[p]                 r1 == ref'[p]
    <2>4. /\ r \in Int /\ r1 \in Int /\ n \in Int /\ n1 \in Int
          /\ x \in Int /\ x1 \in Int /\ w \in Int /\ w1 \in Int
        BY <1>7, <2>2, <2>3, Zenon
    <2>5. r = n + w /\ n1 - x1 = n - x /\ r1 - r = x1 - x + w1 - w
        BY <1>1, <1>3, <2>1, Zenon
    <2> HIDE DEF n, n1, x, x1, w, w1, r, r1
    <2>6. r1 = n1 + w1
        BY <2>4, <2>5
    <2> QED BY <2>6, Zenon DEF r1, n1, w1
<1>9. pref'[p] = Cardinality(Lookers(p)') + Cardinality(Keepers(p)')
                    + One(p \in named_locks') + One(Owned(p)')
    <2>1. pref'[p] - pref[p] =
            One(t \in Lookers(p)') - One(t \in Lookers(p))
            + One(t \in Keepers(p)') - One(t \in Keepers(p))
            + One(p \in named_locks') - One(p \in named_locks)
            + One(Owned(p)') - One(Owned(p))
        BY Zenon DEF MatchedProxy
    <2>2. /\ Cardinality(Lookers(p)) \in Int /\ Cardinality(Lookers(p)') \in Int
          /\ Cardinality(Keepers(p)) \in Int /\ Cardinality(Keepers(p)') \in Int
        BY <1>2, Counts
    <2>o. /\ One(t \in Lookers(p)) \in Int /\ One(t \in Lookers(p)') \in Int
          /\ One(t \in Keepers(p)) \in Int /\ One(t \in Keepers(p)') \in Int
          /\ One(p \in named_locks) \in Int /\ One(p \in named_locks') \in Int
          /\ One(Owned(p)) \in Int /\ One(Owned(p)') \in Int
        BY OneType, Zenon
    <2> DEFINE n == Cardinality(Lookers(p))  n1 == Cardinality(Lookers(p)')
               x == One(t \in Lookers(p))    x1 == One(t \in Lookers(p)')
               m == Cardinality(Keepers(p))  m1 == Cardinality(Keepers(p)')
               y == One(t \in Keepers(p))    y1 == One(t \in Keepers(p)')
               l == One(p \in named_locks)   l1 == One(p \in named_locks')
               o == One(Owned(p))            o1 == One(Owned(p)')
               r == pref[p]                  r1 == pref'[p]
    <2>3. /\ r \in Int /\ r1 \in Int
          /\ n \in Int /\ n1 \in Int /\ x \in Int /\ x1 \in Int /\ m \in Int /\ m1 \in Int
          /\ y \in Int /\ y1 \in Int /\ l \in Int /\ l1 \in Int /\ o \in Int /\ o1 \in Int
        BY <1>7, <2>2, <2>o, Zenon
    <2>4. /\ r = n + m + l + o /\ n1 - x1 = n - x /\ m1 - y1 = m - y
          /\ r1 - r = x1 - x + y1 - y + l1 - l + o1 - o
        BY <1>1, <1>4, <1>5, <2>1, Zenon
    <2> HIDE DEF n, n1, x, x1, m, m1, y, y1, l, l1, o, o1, r, r1
    <2>5. r1 = n1 + m1 + l1 + o1
        BY <2>3, <2>4
    <2> QED BY <2>5, Zenon DEF r1, n1, m1, l1, o1
<1> QED BY <1>8, <1>9, Zenon

\* Every step keeps the reference counters exact.
LEMMA RefsStep == IInv /\ [Next]_vars => RefsExact'
<1> SUFFICES ASSUME IInv, [Next]_vars PROVE RefsExact'
    OBVIOUS
<1>u. CASE UNCHANGED vars
    BY <1>u, Zenon DEF vars, pairs, container, locals, RefsExact, Users, At, IInv
<1>1. ASSUME NEW t \in Threads, NEW p \in Pairs, weakproxy_find(t, p) PROVE RefsExact'
    <2>1. OthersIdle(t)
        BY <1>1 DEF OthersIdle, weakproxy_find, Goto
    <2>2. ASSUME NEW q \in Pairs PROVE MatchedObject(q, t)
        BY <1>1, Counters DEF MatchedObject, One, Users, At, weakproxy_find, Goto
    <2>3. ASSUME NEW q \in Pairs PROVE MatchedProxy(q, t)
        BY <1>1, Places, Counters DEF MatchedProxy, One, Lookers, Keepers, At, Owned, weakproxy_find, Goto,
           RefProxy, container
    <2> QED BY <2>1, <2>2, <2>3, RefsMatched, TypeStep, Zenon
<1>2. ASSUME NEW t \in Threads, find_get_object(t) PROVE RefsExact'
    <2>1. OthersIdle(t)
        BY <1>2 DEF OthersIdle, find_get_object, Goto, locals
    <2>2. ASSUME NEW q \in Pairs PROVE MatchedObject(q, t)
        BY <1>2, Places, Counters DEF MatchedObject, One, Users, At, find_get_object, Goto, get_object,
           RefObject, locals
    <2>3. ASSUME NEW q \in Pairs PROVE MatchedProxy(q, t)
        BY <1>2, Counters DEF MatchedProxy, One, Lookers, Keepers, At, Owned, find_get_object, Goto,
           get_object, container, locals
    <2> QED BY <2>1, <2>2, <2>3, RefsMatched, TypeStep, Zenon
<1>3. ASSUME NEW t \in Threads, found(t) PROVE RefsExact'
    <2>1. OthersIdle(t)
        BY <1>3 DEF OthersIdle, found, Goto, Unlock
    <2>2. ASSUME NEW q \in Pairs PROVE MatchedObject(q, t)
        BY <1>3, Counters DEF MatchedObject, One, Users, At, found, Goto, Unlock
    <2>3. ASSUME NEW q \in Pairs PROVE MatchedProxy(q, t)
        BY <1>3, Places, Counters DEF MatchedProxy, One, Lookers, Keepers, At, Owned, found, Goto, RefProxy,
           Unlock
    <2> QED BY <2>1, <2>2, <2>3, RefsMatched, TypeStep, Zenon
<1>4. ASSUME NEW t \in Threads, find_unlinks(t) PROVE RefsExact'
    <2>1. OthersIdle(t)
        BY <1>4 DEF OthersIdle, find_unlinks, Goto
    <2>2. ASSUME NEW q \in Pairs PROVE MatchedObject(q, t)
        BY <1>4, NoneAssumption, Places, Counters DEF MatchedObject, One, Users, At, find_unlinks
    <2>3. ASSUME NEW q \in Pairs PROVE MatchedProxy(q, t)
        BY <1>4, Places, Counters DEF MatchedProxy, One, Lookers, Keepers, At, Owned, find_unlinks, Goto,
           RefProxy
    <2> QED BY <2>1, <2>2, <2>3, RefsMatched, TypeStep, Zenon
<1>5. ASSUME NEW t \in Threads, find_none(t) PROVE RefsExact'
    <2>1. OthersIdle(t)
        BY <1>5 DEF OthersIdle, find_none, Goto, locals
    <2>2. ASSUME NEW q \in Pairs PROVE MatchedObject(q, t)
        BY <1>5, NoneAssumption, Parts, Counters DEF MatchedObject, One, Users, At, find_none, pairs, locals,
           LockInv
    <2>3. ASSUME NEW q \in Pairs PROVE MatchedProxy(q, t)
        BY <1>5, Counters DEF MatchedProxy, One, Lookers, Keepers, At, Owned, find_none, Goto, pairs,
           container, locals
    <2> QED BY <2>1, <2>2, <2>3, RefsMatched, TypeStep, Zenon
<1>6. ASSUME NEW t \in Threads, NEW p \in Pairs, NEW linked \in BOOLEAN, named_lock_create(t, p, linked)
      PROVE  RefsExact'
    <2>1. OthersIdle(t)
        BY <1>6 DEF OthersIdle, named_lock_create, Goto, Unlock
    <2>2. ASSUME NEW q \in Pairs PROVE MatchedObject(q, t)
        BY <1>6, UnusedIsFree, Places, Counters, Links DEF MatchedObject, One, Users, At, named_lock_create,
           Goto, set_object, Unlock, Unused
    <2>3. ASSUME NEW q \in Pairs PROVE MatchedProxy(q, t)
        BY <1>6, UnusedIsFree, Places, Counters, Links DEF MatchedProxy, One, Lookers, Keepers, At, Owned,
           named_lock_create, Goto, set_object, Unlock, Unused
    <2> QED BY <2>1, <2>2, <2>3, RefsMatched, TypeStep, Zenon
<1>7. ASSUME NEW t \in Threads, created(t) PROVE RefsExact'
    <2>1. OthersIdle(t)
        BY <1>7 DEF OthersIdle, created, Goto, locals
    <2>2. ASSUME NEW q \in Pairs PROVE MatchedObject(q, t)
        BY <1>7, Counters DEF MatchedObject, One, Users, At, created, Goto, locals
    <2>3. ASSUME NEW q \in Pairs PROVE MatchedProxy(q, t)
        BY <1>7, Places, Counters DEF MatchedProxy, One, Lookers, Keepers, At, Owned, created, Goto,
           RefProxy, container, locals
    <2> QED BY <2>1, <2>2, <2>3, RefsMatched, TypeStep, Zenon
<1>8. ASSUME NEW t \in Threads, named_lock_get_failed(t) PROVE RefsExact'
    <2>1. OthersIdle(t)
        BY <1>8 DEF OthersIdle, named_lock_get_failed, Goto, Unlock
    <2>2. ASSUME NEW q \in Pairs PROVE MatchedObject(q, t)
        BY <1>8, NoneAssumption, Parts, Counters DEF MatchedObject, One, Users, At, named_lock_get_failed,
           pairs, LockInv
    <2>3. ASSUME NEW q \in Pairs PROVE MatchedProxy(q, t)
        BY <1>8, Counters DEF MatchedProxy, One, Lookers, Keepers, At, Owned, named_lock_get_failed, Goto,
           Unlock, pairs
    <2> QED BY <2>1, <2>2, <2>3, RefsMatched, TypeStep, Zenon
<1>9. ASSUME NEW t \in Threads, NEW p \in Pairs, subscribe_failed(t, p) PROVE RefsExact'
    <2>1. OthersIdle(t)
        BY <1>9 DEF OthersIdle, subscribe_failed, Goto, Unlock
    <2>2. ASSUME NEW q \in Pairs PROVE MatchedObject(q, t)
        BY <1>9, UnusedIsFree, Places, Counters, Links DEF MatchedObject, One, Users, At, subscribe_failed,
           Goto, set_object, Unlock, Unused
    <2>3. ASSUME NEW q \in Pairs PROVE MatchedProxy(q, t)
        BY <1>9, UnusedIsFree, Places, Counters, Links DEF MatchedProxy, One, Lookers, Keepers, At, Owned,
           subscribe_failed, Goto, set_object, Unlock, Unused
    <2> QED BY <2>1, <2>2, <2>3, RefsMatched, TypeStep, Zenon
<1>10. ASSUME NEW t \in Threads, cleanup_proxy(t) PROVE RefsExact'
    <2>1. OthersIdle(t)
        BY <1>10 DEF OthersIdle, cleanup_proxy, Goto, locals
    <2>2. ASSUME NEW q \in Pairs PROVE MatchedObject(q, t)
        BY <1>10, Counters DEF MatchedObject, One, Users, At, cleanup_proxy, Goto, locals
    <2>3. ASSUME NEW q \in Pairs PROVE MatchedProxy(q, t)
        BY <1>10, Places, Counters DEF MatchedProxy, One, Lookers, Keepers, At, Owned, cleanup_proxy, Goto,
           RefProxy, container, locals
    <2> QED BY <2>1, <2>2, <2>3, RefsMatched, TypeStep, Zenon
<1>11. ASSUME NEW t \in Threads, put_ref(t) PROVE RefsExact'
    <2>1. OthersIdle(t)
        BY <1>11, Places DEF OthersIdle, put_ref, Goto
    <2>2. ASSUME NEW q \in Pairs PROVE MatchedObject(q, t)
        BY <1>11, Places, Counters DEF MatchedObject, One, Users, At, put_ref, Goto, DropObject, RefObject
    <2>3. ASSUME NEW q \in Pairs PROVE MatchedProxy(q, t)
        BY <1>11, Places, Counters DEF MatchedProxy, One, Lookers, Keepers, At, Owned, put_ref, Goto,
           DropObject, container
    <2> QED BY <2>1, <2>2, <2>3, RefsMatched, TypeStep, Zenon
<1>12. ASSUME NEW t \in Threads, put_unlink(t) PROVE RefsExact'
    <2>1. OthersIdle(t)
        BY <1>12 DEF OthersIdle, put_unlink, Goto
    <2>2. ASSUME NEW q \in Pairs PROVE MatchedObject(q, t)
        BY <1>12, Parts, Counters, Links DEF MatchedObject, One, Users, At, put_unlink, Goto, UnlinkObject,
           RefObject, LifeInv
    <2>3. ASSUME NEW q \in Pairs PROVE MatchedProxy(q, t)
        BY <1>12, Parts, Places, Counters DEF MatchedProxy, One, Lookers, Keepers, At, Owned, put_unlink,
           Goto, UnlinkObject, container, LifeInv
    <2> QED BY <2>1, <2>2, <2>3, RefsMatched, TypeStep, Zenon
<1>13. ASSUME NEW t \in Threads, named_lock_proxy_cb(t) PROVE RefsExact'
    <2>1. OthersIdle(t)
        BY <1>13, Zenon DEF OthersIdle, named_lock_proxy_cb
    <2>2. ASSUME NEW q \in Pairs PROVE MatchedObject(q, t)
        BY <1>13, Counters DEF MatchedObject, One, Users, At, named_lock_proxy_cb
    <2>3. ASSUME NEW q \in Pairs PROVE MatchedProxy(q, t)
        BY <1>13, Counters DEF MatchedProxy, One, Lookers, Keepers, At, Owned, named_lock_proxy_cb, RefProxy
    <2> QED BY <2>1, <2>2, <2>3, RefsMatched, TypeStep, Zenon
<1>14. ASSUME NEW t \in Threads, put_done(t) PROVE RefsExact'
    <2>1. OthersIdle(t)
        BY <1>14 DEF OthersIdle, put_done, Goto
    <2>2. ASSUME NEW q \in Pairs PROVE MatchedObject(q, t)
        BY <1>14, NoneAssumption, Places, Counters DEF MatchedObject, One, Users, At, put_done
    <2>3. ASSUME NEW q \in Pairs PROVE MatchedProxy(q, t)
        BY <1>14, Parts, Places, Counters DEF MatchedProxy, One, Lookers, Keepers, At, Owned, put_done, Goto,
           RefProxy, container, LifeInv
    <2> QED BY <2>1, <2>2, <2>3, RefsMatched, TypeStep, Zenon
<1>15. ASSUME NEW t \in Threads, NEW u \in Threads, notify(t, u) PROVE RefsExact'
    <2>1. OthersIdle(t)
        BY <1>15, Zenon DEF OthersIdle, notify
    <2>2. ASSUME NEW q \in Pairs PROVE MatchedObject(q, t)
        BY <1>15, Counters DEF MatchedObject, One, Users, At, notify, pairs
    <2>3. ASSUME NEW q \in Pairs PROVE MatchedProxy(q, t)
        BY <1>15, Counters DEF MatchedProxy, One, Lookers, Keepers, At, Owned, notify, pairs, container
    <2> QED BY <2>1, <2>2, <2>3, RefsMatched, TypeStep, Zenon
<1>16. ASSUME NEW t \in Threads, NEW k \in Keys, named_lock_get(t, k) PROVE RefsExact'
    <2>1. OthersIdle(t)
        BY <1>16 DEF OthersIdle, named_lock_get, Goto
    <2>2. ASSUME NEW q \in Pairs PROVE MatchedObject(q, t)
        BY <1>16, Counters DEF MatchedObject, One, Users, At, named_lock_get, Goto, pairs
    <2>3. ASSUME NEW q \in Pairs PROVE MatchedProxy(q, t)
        BY <1>16, Counters DEF MatchedProxy, One, Lookers, Keepers, At, Owned, named_lock_get, Goto, pairs
    <2> QED BY <2>1, <2>2, <2>3, RefsMatched, TypeStep, Zenon
<1>17. ASSUME NEW t \in Threads, named_lock_put(t) PROVE RefsExact'
    <2>1. OthersIdle(t)
        BY <1>17 DEF OthersIdle, named_lock_put, Goto, locals
    <2>2. ASSUME NEW q \in Pairs PROVE MatchedObject(q, t)
        BY <1>17, Counters DEF MatchedObject, One, Users, At, named_lock_put, Goto, pairs, locals
    <2>3. ASSUME NEW q \in Pairs PROVE MatchedProxy(q, t)
        BY <1>17, Counters DEF MatchedProxy, One, Lookers, Keepers, At, Owned, named_lock_put, Goto, pairs,
           container, locals
    <2> QED BY <2>1, <2>2, <2>3, RefsMatched, TypeStep, Zenon
<1>18. ASSUME NEW t \in Threads, get_weakproxy(t) PROVE RefsExact'
    <2>1. OthersIdle(t)
        BY <1>18 DEF OthersIdle, get_weakproxy, locals
    <2>2. ASSUME NEW q \in Pairs PROVE MatchedObject(q, t)
        BY <1>18, Counters DEF MatchedObject, One, Users, At, get_weakproxy, locals
    <2>3. ASSUME NEW q \in Pairs PROVE MatchedProxy(q, t)
        BY <1>18, NoneAssumption, OtherLocals, Counters DEF MatchedProxy, One, Lookers, Keepers, At, Owned,
           get_weakproxy, RefProxy, container, locals
    <2> QED BY <2>1, <2>2, <2>3, RefsMatched, TypeStep, Zenon
<1>19. ASSUME NEW t \in Threads, weakproxy_get_object(t) PROVE RefsExact'
    <2>1. OthersIdle(t)
        BY <1>19 DEF OthersIdle, weakproxy_get_object, Goto
    <2>2. ASSUME NEW q \in Pairs PROVE MatchedObject(q, t)
        BY <1>19, Places, Counters DEF MatchedObject, One, Users, At, weakproxy_get_object, Goto, get_object,
           RefObject
    <2>3. ASSUME NEW q \in Pairs PROVE MatchedProxy(q, t)
        BY <1>19, Counters DEF MatchedProxy, One, Lookers, Keepers, At, Owned, weakproxy_get_object, Goto,
           get_object, container
    <2> QED BY <2>1, <2>2, <2>3, RefsMatched, TypeStep, Zenon
<1>20. ASSUME NEW t \in Threads, weakproxy_subscribe(t) PROVE RefsExact'
    <2>1. OthersIdle(t)
        BY <1>20, Zenon DEF OthersIdle, weakproxy_subscribe, locals
    <2>2. ASSUME NEW q \in Pairs PROVE MatchedObject(q, t)
        BY <1>20, Counters DEF MatchedObject, One, Users, At, weakproxy_subscribe, subscribe, locals
    <2>3. ASSUME NEW q \in Pairs PROVE MatchedProxy(q, t)
        BY <1>20, Counters DEF MatchedProxy, One, Lookers, Keepers, At, Owned, weakproxy_subscribe,
           subscribe, container, locals
    <2> QED BY <2>1, <2>2, <2>3, RefsMatched, TypeStep, Zenon
<1>21. ASSUME NEW t \in Threads, weakproxy_unsubscribe(t) PROVE RefsExact'
    <2>1. OthersIdle(t)
        BY <1>21, Zenon DEF OthersIdle, weakproxy_unsubscribe, locals
    <2>2. ASSUME NEW q \in Pairs PROVE MatchedObject(q, t)
        BY <1>21, Counters DEF MatchedObject, One, Users, At, weakproxy_unsubscribe, unsubscribe, locals
    <2>3. ASSUME NEW q \in Pairs PROVE MatchedProxy(q, t)
        BY <1>21, Counters DEF MatchedProxy, One, Lookers, Keepers, At, Owned, weakproxy_unsubscribe,
           unsubscribe, container, locals
    <2> QED BY <2>1, <2>2, <2>3, RefsMatched, TypeStep, Zenon
<1>22. ASSUME NEW t \in Threads, weak_unref(t) PROVE RefsExact'
    <2>1. OthersIdle(t)
        BY <1>22 DEF OthersIdle, weak_unref, locals
    <2>2. ASSUME NEW q \in Pairs PROVE MatchedObject(q, t)
        BY <1>22, Counters DEF MatchedObject, One, Users, At, weak_unref, locals
    <2>3. ASSUME NEW q \in Pairs PROVE MatchedProxy(q, t)
        BY <1>22, NoneAssumption, OtherLocals, Counters DEF MatchedProxy, One, Lookers, Keepers, At, Owned,
           weak_unref, RefProxy, container, locals
    <2> QED BY <2>1, <2>2, <2>3, RefsMatched, TypeStep, Zenon
<1>23. ASSUME NEW t \in Threads, NEW u \in Threads, bump(t, u) PROVE RefsExact'
    <2>1. OthersIdle(u)
        BY <1>23 DEF OthersIdle, bump, Goto
    <2>2. ASSUME NEW q \in Pairs PROVE MatchedObject(q, u)
        BY <1>23, Places, Counters DEF MatchedObject, One, Users, At, bump, Goto, RefObject
    <2>3. ASSUME NEW q \in Pairs PROVE MatchedProxy(q, u)
        BY <1>23, Counters DEF MatchedProxy, One, Lookers, Keepers, At, Owned, bump, Goto, container
    <2> QED BY <2>1, <2>2, <2>3, RefsMatched, TypeStep, Zenon
<1> QED BY <1>u, <1>1, <1>2, <1>3, <1>4, <1>5, <1>6, <1>7, <1>8, <1>9, <1>10, <1>11, <1>12, <1>13, <1>14,
           <1>15, <1>16, <1>17, <1>18, <1>19, <1>20, <1>21, <1>22, <1>23, Zenon DEF Next, GetStep, PutStep,
           Call

-----------------------------------------------------------------------------
(* The theorems                                                            *)

LEMMA InitHolds == Init => IInv
<1> SUFFICES ASSUME Init PROVE IInv
    OBVIOUS
<1> USE NoneAssumption, UnlinkAssumption DEF Init, InitPairs
<1>1. TypeOK
    BY DEF TypeOK
<1>2. LockInv /\ LifeInv /\ WeakInv
    BY Zenon DEF LockInv, LifeInv, WeakInv
<1>3. ListInv
    BY Zenon DEF ListInv, ContainerExact
<1>4. RefsExact
    <2> SUFFICES ASSUME NEW p \in Pairs
                 PROVE  /\ ref[p] = Cardinality(Users(p)) + One(weakptr[p])
                        /\ pref[p] = Cardinality(Lookers(p)) + Cardinality(Keepers(p))
                                        + One(p \in named_locks)
                                        + One(weakptr[p] \/ At(p, {"notify"}) # {})
        BY Zenon DEF RefsExact, Lookers, Keepers
    <2>1. Users(p) = {} /\ Lookers(p) = {} /\ Keepers(p) = {} /\ At(p, {"notify"}) = {}
        BY Zenon DEF Users, Lookers, Keepers, At
    <2>2. Cardinality({}) = 0
        BY FS_EmptySet, Zenon
    <2> QED BY <2>1, <2>2 DEF One
<1> QED BY <1>1, <1>2, <1>3, <1>4, Zenon DEF IInv

\* The inductive invariant of the named locks: it holds in every behaviour of
\* named_locks.c and of the weak proxies under it.
THEOREM Invariance == Spec => []IInv
<1>1. IInv /\ [Next]_vars => IInv'
    BY TypeStep, LockStep, LifeStep, ListStep, WeakStep, RefsStep, Zenon DEF IInv
<1> QED BY <1>1, InitHolds, PTL DEF Spec

\* Every variable keeps its type.
THEOREM TypeCorrect == Spec => []TypeOK
<1>1. IInv => TypeOK
    BY DEF IInv
<1> QED BY <1>1, Invariance, PTL

\* Holders of the lock of one key hold the same lock, for any number of threads,
\* unless one of them holds a lock that the container had no memory to list: every
\* other lock that is held is in the container, which lists a key once.
THEOREM OneLockPerKey == Spec => []SameLock
<1>1. IInv => SameLock
    <2> SUFFICES ASSUME IInv, NEW t \in Threads, NEW u \in Threads,
                        pc[t] \in {"created", "holds"}, pc[u] \in {"created", "holds"},
                        pkey[cur[t]] = pkey[cur[u]],
                        cur[t] \notin unlisted, cur[u] \notin unlisted
                 PROVE  cur[t] = cur[u]
        BY Zenon DEF SameLock
    <2>1. ASSUME NEW v \in Threads, pc[v] \in {"created", "holds"}, cur[v] \notin unlisted
          PROVE  cur[v] \in named_locks
        BY <2>1 DEF IInv, TypeOK, LockInv, LifeInv, ListInv, ContainerExact
    <2> QED BY <2>1, Zenon DEF IInv, ListInv, ContainerExact
<1> QED BY <1>1, Invariance, PTL

\* Neither __ao2_ref nor __ao2_weakproxy_find ever loses or invents a reference:
\* no object and no proxy is freed while a thread is about to use it, nor leaked.
THEOREM ReferencesExact == Spec => []RefsExact
<1>1. IInv => RefsExact
    BY DEF IInv
<1> QED BY <1>1, Invariance, PTL

\* A proxy without its lock is in the container only while named_lock_proxy_cb is
\* on its way, and a live lock is found under its key if it could be linked.
THEOREM ContainerIsExact == Spec => []ContainerExact
<1>1. IInv => ContainerExact
    BY Zenon DEF IInv, ListInv
<1> QED BY <1>1, Invariance, PTL

\* A subscribed notification is in exactly one list until it has run or has been
\* removed, whoever destroys the object meanwhile.
THEOREM NotificationExact == Spec => []NotifiedOnce
<1>1. IInv => NotifiedOnce
    <2> SUFFICES ASSUME IInv, NEW u \in Threads
                 PROVE  LET places == {p \in Pairs : u \in destroyed_cb[p]}
                                        \union {t \in Threads : u \in cbs[t]}
                        IN  /\ places = {} <=> u \notin expected
                            /\ \A a, b \in places : a = b
                            /\ \A p \in Pairs : u \in destroyed_cb[p] => weakptr[p]
        BY Zenon DEF NotifiedOnce
    <2> DEFINE InProxy == {p \in Pairs : u \in destroyed_cb[p]}
               InThread == {t \in Threads : u \in cbs[t]}
    <2>1. u \in expected <=> InProxy \union InThread # {}
        BY DEF IInv, TypeOK, WeakInv
    <2>2. ASSUME NEW p \in Pairs, u \in destroyed_cb[p] PROVE p = weak[u] /\ weakptr[p]
        BY <2>2, Zenon DEF IInv, WeakInv
    <2>3. \A t, v \in InThread : t = v
        BY DEF IInv, WeakInv, LifeInv, LockInv
    <2>4. InProxy = {} \/ InThread = {}
        BY DEF IInv, WeakInv, LifeInv, LockInv
    <2> QED BY <2>1, <2>2, <2>3, <2>4, Zenon
<1> QED BY <1>1, Invariance, PTL
=============================================================================
