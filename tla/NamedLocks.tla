------------------------------ MODULE NamedLocks ------------------------------
(***************************************************************************)
(* Named locks (main/named_locks.c): a container of weak proxies, each     *)
(* with a key and the lock object of that key.  Threads get the lock of a  *)
(* key, creating it when there is none, hand references on, keep a weak    *)
(* reference (ao2_get_weakproxy) with a notification of their own, and put *)
(* the lock back.  The last put destroys the lock and then unlinks its     *)
(* proxy from the container, in a callback that runs outside of the        *)
(* proxy's lock; until then the container holds a proxy of no lock.  Every *)
(* allocation of a get may fail, also the container's own: nobody looks at *)
(* the result of ao2_link_flags, and the new lock is handed out unlisted.  *)
(*                                                                         *)
(* Not modelled: that a key is always asked for with the same lock type,   *)
(* which __ast_named_lock_get asserts.                                     *)
(***************************************************************************)
EXTENDS Weakproxy

CONSTANTS
    Keys,           \* keyspace and key, as one string
    Unlink          \* the notification named_lock_proxy_cb

ASSUME UnlinkAssumption == Unlink \notin Threads /\ None \notin Keys
ASSUME FiniteAssumption == IsFiniteSet(Threads)

VARIABLES
    named_locks,    \* the proxies linked into the container
    clock,          \* owner of the container's lock, or None
    unlisted,       \* history: locks that the container failed to link
    pkey,           \* pkey[p]: the key stored in the proxy
    pc,             \* pc[t]: where thread t is
    key,            \* key[t]: the key it asks for, or None
    cur,            \* cur[t]: the pair it works on, or None
    cbs,            \* cbs[t]: the notifications it has to run
    weak,           \* weak[t]: the proxy it keeps a reference to, or None
    expected        \* threads that subscribed and have not been notified

container == <<named_locks, clock, unlisted, pkey>>
locals == <<key, cur, cbs>>
vars == <<pairs, container, pc, locals, weak, expected>>

Init ==
    /\ InitPairs
    /\ named_locks = {} /\ clock = None /\ unlisted = {}
    /\ pkey = [p \in Pairs |-> None]
    /\ pc = [t \in Threads |-> "idle"]
    /\ key = [t \in Threads |-> None]
    /\ cur = [t \in Threads |-> None]
    /\ cbs = [t \in Threads |-> {}]
    /\ weak = [t \in Threads |-> None]
    /\ expected = {}

Goto(t, l) == pc' = [pc EXCEPT ![t] = l]

-----------------------------------------------------------------------------
(* __ast_named_lock_get                                                    *)

\* Mutant: the container is not locked.
named_lock_get_unlocked(t, k) ==
    /\ pc[t] = "idle"
    /\ clock' = t
    /\ key' = [key EXCEPT ![t] = k]
    /\ Goto(t, "find")
    /\ UNCHANGED <<pairs, named_locks, unlisted, pkey, cur, cbs, weak, expected>>

\* The container is locked until the lock is found or created.
named_lock_get(t, k) ==
    /\ pc[t] = "idle"
    /\ clock = None
    /\ clock' = t
    /\ key' = [key EXCEPT ![t] = k]
    /\ Goto(t, "find")
    /\ UNCHANGED <<pairs, named_locks, unlisted, pkey, cur, cbs, weak, expected>>

\* The container is unlocked; the key is of no use any more.
Unlock(t, l) ==
    /\ clock' = None
    /\ key' = [key EXCEPT ![t] = None]
    /\ Goto(t, l)

Matching(t) == {p \in named_locks : pkey[p] = key[t]}

\* The loop of __ao2_weakproxy_find: ao2_find returns a reference to a proxy.
weakproxy_find(t, p) ==
    /\ pc[t] = "find"
    /\ p \in Matching(t)
    /\ RefProxy(p, 1)
    /\ cur' = [cur EXCEPT ![t] = p]
    /\ Goto(t, "look")
    /\ UNCHANGED <<ref, weakptr, destroyed_cb, plock, container, key, cbs, weak, expected>>

\* Does the proxy still have its object?
find_get_object(t) ==
    /\ pc[t] = "look"
    /\ get_object(cur[t])
    /\ Goto(t, IF weakptr[cur[t]] THEN "found" ELSE "stale")
    /\ UNCHANGED <<container, locals, weak, expected>>

found(t) ==
    /\ pc[t] = "found"
    /\ RefProxy(cur[t], -1)
    /\ Unlock(t, "holds")
    /\ UNCHANGED <<ref, weakptr, destroyed_cb, plock, named_locks, unlisted, pkey, cur, cbs, weak, expected>>

\* It does not: the proxy is unlinked at once, and the search goes on.
find_unlinks(t) ==
    LET p == cur[t] IN
    /\ pc[t] = "stale"
    /\ named_locks' = named_locks \ {p}
    /\ RefProxy(p, IF p \in named_locks THEN -2 ELSE -1)
    /\ cur' = [cur EXCEPT ![t] = None]
    /\ Goto(t, "find")
    /\ UNCHANGED <<ref, weakptr, destroyed_cb, plock, clock, unlisted, pkey, key, cbs, weak, expected>>

\* No lock has that key.
find_none(t) ==
    /\ pc[t] = "find"
    /\ Matching(t) = {}
    /\ Goto(t, "create")
    /\ UNCHANGED <<pairs, container, locals, weak, expected>>

\* A new one is linked into the container, if ao2_link_flags has the memory for
\* it (linked); the lock is handed out in both cases.
named_lock_create(t, p, linked) ==
    /\ pc[t] = "create"
    /\ set_object(p, {Unlink}, IF linked THEN 1 ELSE 0)
    /\ IF linked
        THEN named_locks' = named_locks \union {p} /\ UNCHANGED unlisted
        ELSE unlisted' = unlisted \union {p} /\ UNCHANGED named_locks
    /\ pkey' = [pkey EXCEPT ![p] = key[t]]
    /\ cur' = [cur EXCEPT ![t] = p]
    /\ Unlock(t, "created")
    /\ UNCHANGED <<cbs, weak, expected>>

\* "Release allocation reference".
created(t) ==
    /\ pc[t] = "created"
    /\ RefProxy(cur[t], -1)
    /\ Goto(t, "holds")
    /\ UNCHANGED <<ref, weakptr, destroyed_cb, plock, container, locals, weak, expected>>

\* There is no memory for the proxy or the lock.
named_lock_get_failed(t) ==
    /\ pc[t] = "create"
    /\ Unlock(t, "idle")
    /\ UNCHANGED <<pairs, named_locks, unlisted, pkey, cur, cbs, weak, expected>>

\* There is no memory for the notification: the linked pair is cleaned up, the
\* proxy first, then the lock.
subscribe_failed(t, p) ==
    /\ pc[t] = "create"
    /\ set_object(p, {}, 0)
    /\ cur' = [cur EXCEPT ![t] = p]
    /\ Unlock(t, "cleanup")
    /\ UNCHANGED <<named_locks, unlisted, pkey, cbs, weak, expected>>

cleanup_proxy(t) ==
    /\ pc[t] = "cleanup"
    /\ RefProxy(cur[t], -1)
    /\ Goto(t, "put")
    /\ UNCHANGED <<ref, weakptr, destroyed_cb, plock, container, locals, weak, expected>>

-----------------------------------------------------------------------------
(* ast_named_lock_put: __ao2_ref(lock, -1)                                 *)

\* It reads the object's weakptr without a lock.
named_lock_put(t) ==
    /\ pc[t] = "holds"
    /\ Goto(t, "put")
    /\ UNCHANGED <<pairs, container, locals, weak, expected>>

put_ref(t) ==
    LET p == cur[t] IN
    /\ pc[t] = "put"
    /\ DropObject(p, t)
    /\ IF ref[p] = 2
        THEN Goto(t, "unlink") /\ UNCHANGED cur
        ELSE Goto(t, "idle") /\ cur' = [cur EXCEPT ![t] = None]
    /\ UNCHANGED <<container, key, cbs, weak, expected>>

put_unlink(t) ==
    /\ pc[t] = "unlink"
    /\ UnlinkObject(cur[t])
    /\ cbs' = [cbs EXCEPT ![t] = DestroyedCallbacks(cur[t])]
    /\ unlisted' = unlisted \ {cur[t]}
    /\ Goto(t, "notify")
    /\ UNCHANGED <<named_locks, clock, pkey, key, cur, weak, expected>>

\* Mutant: what is unlinked is looked up by its key.
named_lock_proxy_cb_by_key(t) ==
    LET gone == {p \in named_locks : pkey[p] = pkey[cur[t]]} IN
    /\ pc[t] = "notify"
    /\ Unlink \in cbs[t]
    /\ clock = None
    /\ named_locks' = named_locks \ gone
    /\ pref' = [p \in Pairs |-> IF p \in gone THEN pref[p] - 1 ELSE pref[p]]
    /\ cbs' = [cbs EXCEPT ![t] = @ \ {Unlink}]
    /\ UNCHANGED <<ref, weakptr, destroyed_cb, plock, clock, unlisted, pkey, pc, key, cur, weak, expected>>

\* named_lock_proxy_cb: ao2_unlink takes the container's lock.
named_lock_proxy_cb(t) ==
    LET p == cur[t] IN
    /\ pc[t] = "notify"
    /\ Unlink \in cbs[t]
    /\ clock = None
    /\ named_locks' = named_locks \ {p}
    /\ IF p \in named_locks THEN RefProxy(p, -1) ELSE UNCHANGED pref
    /\ cbs' = [cbs EXCEPT ![t] = @ \ {Unlink}]
    /\ UNCHANGED <<ref, weakptr, destroyed_cb, plock, clock, unlisted, pkey, pc, key, cur, weak, expected>>

\* The notification of a subscriber.
notify(t, u) ==
    /\ pc[t] = "notify"
    /\ u \in cbs[t]
    /\ cbs' = [cbs EXCEPT ![t] = @ \ {u}]
    /\ expected' = expected \ {u}
    /\ UNCHANGED <<pairs, container, pc, key, cur, weak>>

\* The object's reference to its proxy goes last.
put_done(t) ==
    /\ pc[t] = "notify"
    /\ cbs[t] = {}
    /\ RefProxy(cur[t], -1)
    /\ cur' = [cur EXCEPT ![t] = None]
    /\ Goto(t, "idle")
    /\ UNCHANGED <<ref, weakptr, destroyed_cb, plock, container, key, cbs, weak, expected>>

-----------------------------------------------------------------------------
(* Other uses of the references                                            *)

\* A holder hands a reference of its own to another thread (ao2_bump).
bump(t, u) ==
    /\ pc[t] = "holds"
    /\ pc[u] = "idle"
    /\ RefObject(cur[t], 1)
    /\ cur' = [cur EXCEPT ![u] = cur[t]]
    /\ Goto(u, "holds")
    /\ UNCHANGED <<pref, weakptr, destroyed_cb, plock, container, key, cbs, weak, expected>>

get_weakproxy(t) ==
    /\ pc[t] = "holds"
    /\ weak[t] = None
    /\ RefProxy(cur[t], 1)
    /\ weak' = [weak EXCEPT ![t] = cur[t]]
    /\ UNCHANGED <<ref, weakptr, destroyed_cb, plock, container, pc, locals, expected>>

\* ao2_weakproxy_get_object on the weak reference.
weakproxy_get_object(t) ==
    LET p == weak[t] IN
    /\ pc[t] = "idle"
    /\ p # None
    /\ get_object(p)
    /\ weakptr[p]
    /\ cur' = [cur EXCEPT ![t] = p]
    /\ Goto(t, "holds")
    /\ UNCHANGED <<container, key, cbs, weak, expected>>

\* ao2_weakproxy_subscribe; without an object the callback is run at once, and
\* nobody waits for it.
weakproxy_subscribe(t) ==
    /\ pc[t] \in {"idle", "holds"}
    /\ weak[t] # None
    /\ t \notin expected
    /\ subscribe(weak[t], t)
    /\ expected' = expected \union {t}
    /\ UNCHANGED <<container, pc, locals, weak>>

weakproxy_unsubscribe(t) ==
    LET p == weak[t] IN
    /\ pc[t] \in {"idle", "holds"}
    /\ p # None
    /\ t \in expected
    /\ unsubscribe(p, t)
    /\ expected' = IF t \in destroyed_cb[p] THEN expected \ {t} ELSE expected
    /\ UNCHANGED <<container, pc, locals, weak>>

\* The weak reference is dropped, after the notification or the unsubscription.
weak_unref(t) ==
    /\ pc[t] \in {"idle", "holds"}
    /\ weak[t] # None
    /\ t \notin expected
    /\ RefProxy(weak[t], -1)
    /\ weak' = [weak EXCEPT ![t] = None]
    /\ UNCHANGED <<ref, weakptr, destroyed_cb, plock, container, pc, locals, expected>>

-----------------------------------------------------------------------------
GetStep(t) ==
    \/ \E p \in Pairs : weakproxy_find(t, p) \/ subscribe_failed(t, p)
    \/ \E p \in Pairs, linked \in BOOLEAN : named_lock_create(t, p, linked)
    \/ find_none(t) \/ find_get_object(t) \/ found(t) \/ find_unlinks(t)
    \/ created(t) \/ named_lock_get_failed(t) \/ cleanup_proxy(t)

PutStep(t) ==
    \/ put_ref(t) \/ put_unlink(t) \/ named_lock_proxy_cb(t) \/ put_done(t)
    \/ \E u \in Threads : notify(t, u)

Call(t) ==
    \/ \E k \in Keys : named_lock_get(t, k)
    \/ named_lock_put(t) \/ get_weakproxy(t) \/ weakproxy_get_object(t)
    \/ weakproxy_subscribe(t) \/ weakproxy_unsubscribe(t) \/ weak_unref(t)
    \/ \E u \in Threads : bump(t, u)

Next == \E t \in Threads : GetStep(t) \/ PutStep(t) \/ Call(t)

Spec == Init /\ [][Next]_vars

-----------------------------------------------------------------------------
(* Properties                                                              *)

\* The values of the variables.
TypeOK ==
    /\ ref \in [Pairs -> Int] /\ pref \in [Pairs -> Int]
    /\ weakptr \in [Pairs -> BOOLEAN]
    /\ destroyed_cb \in [Pairs -> SUBSET (Threads \union {Unlink})]
    /\ plock \in [Pairs -> Threads \union {None}]
    /\ named_locks \subseteq Pairs /\ unlisted \subseteq Pairs
    /\ clock \in Threads \union {None}
    /\ pkey \in [Pairs -> Keys \union {None}]
    /\ pc \in [Threads -> {"idle", "find", "look", "found", "stale", "create", "created", "cleanup",
                           "holds", "put", "unlink", "notify"}]
    /\ key \in [Threads -> Keys \union {None}]
    /\ cur \in [Threads -> Pairs \union {None}]
    /\ cbs \in [Threads -> SUBSET (Threads \union {Unlink})]
    /\ weak \in [Threads -> Pairs \union {None}]
    /\ expected \subseteq Threads

At(p, labels) == {t \in Threads : cur[t] = p /\ pc[t] \in labels}

\* Threads that hold the lock of the same key hold the same object, although
\* locks die and are created again and a dead one's proxy stays findable for a
\* while ("any other thread attempting to lock the aor named 1000 will wait",
\* include/asterisk/named_locks.h); unless one of the two objects is one that
\* the container failed to link, which no later get can find.
SameLock ==
    \A t, u \in Threads :
        /\ pc[t] \in {"created", "holds"} /\ pc[u] \in {"created", "holds"}
        /\ pkey[cur[t]] = pkey[cur[u]]
        => cur[t] = cur[u] \/ {cur[t], cur[u]} \intersect unlisted # {}

Users(p) == At(p, {"found", "created", "cleanup", "holds", "put"})
One(b) == IF b THEN 1 ELSE 0

\* Both reference counters count exactly who still uses the memory: no object
\* or proxy is freed under a thread that is about to lock or read it, and none
\* is leaked, on the paths that race with the last reference and on the failed
\* ones.
RefsExact ==
    \A p \in Pairs :
        /\ ref[p] = Cardinality(Users(p)) + One(weakptr[p])
        /\ pref[p] = Cardinality(At(p, {"look", "found", "stale", "created", "cleanup"}))
                        + Cardinality({t \in Threads : weak[t] = p})
                        + One(p \in named_locks)
                        + One(weakptr[p] \/ At(p, {"notify"}) # {})

\* A proxy that has lost its lock stays in the container only until the thread
\* that destroyed the lock has run named_lock_proxy_cb; a lock that was handed
\* out is in the container as long as it lives, unless it could not be linked;
\* and every listed lock has a key of its own.
ContainerExact ==
    /\ \A p \in named_locks : ~weakptr[p] => \E t \in At(p, {"notify"}) : Unlink \in cbs[t]
    /\ \A p \in Pairs : weakptr[p] /\ Unlink \in destroyed_cb[p] => (p \in named_locks <=> p \notin unlisted)
    /\ \A p, q \in named_locks : pkey[p] = pkey[q] => p = q

\* A thread that subscribed is notified once: its notification is in exactly
\* one list, that of a proxy with an object or that of the thread which
\* destroyed the object, until it runs or is removed.
NotifiedOnce ==
    \A u \in Threads :
        LET places == {p \in Pairs : u \in destroyed_cb[p]} \union {t \in Threads : u \in cbs[t]} IN
        /\ places = {} <=> u \notin expected
        /\ \A a, b \in places : a = b
        /\ \A p \in Pairs : u \in destroyed_cb[p] => weakptr[p]
=============================================================================
