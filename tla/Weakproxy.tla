------------------------------ MODULE Weakproxy ------------------------------
(***************************************************************************)
(* Reference-counted objects with a weak proxy (main/astobj2.c): the proxy *)
(* is an object of its own that points to the real one without keeping it  *)
(* alive for its users.  The real object and the proxy of a pair p each    *)
(* own one reference to the other.  The proxy's lock is held while the     *)
(* last user's reference is dropped, so that nobody gets the object from   *)
(* the proxy at that moment.                                               *)
(*                                                                         *)
(* The operators here change the state of one pair; who calls them is up   *)
(* to the module that extends this one.  The two weakptr fields of a pair  *)
(* are set and reset together under the proxy's lock, while nobody else    *)
(* has a reference to the object: one variable stands for both.  Nobody    *)
(* subscribes twice to one proxy, so that the list of notifications is a   *)
(* set, whose members run in any order.                                    *)
(***************************************************************************)
EXTENDS Integers, FiniteSets

CONSTANTS
    Threads,
    Pairs,          \* memory for an object and its proxy
    None

ASSUME NoneAssumption == None \notin Threads \union Pairs

VARIABLES
    ref,            \* ref[p]: ref_counter of the object, 0 once it is freed
    pref,           \* pref[p]: ref_counter of the proxy
    weakptr,        \* weakptr[p]: do the object and the proxy point to each other?
    destroyed_cb,   \* destroyed_cb[p]: the notifications subscribed to
    plock           \* plock[p]: owner of the proxy's lock, or None

pairs == <<ref, pref, weakptr, destroyed_cb, plock>>

InitPairs ==
    /\ ref = [p \in Pairs |-> 0]
    /\ pref = [p \in Pairs |-> 0]
    /\ weakptr = [p \in Pairs |-> FALSE]
    /\ destroyed_cb = [p \in Pairs |-> {}]
    /\ plock = [p \in Pairs |-> None]

Unused(p) == ref[p] = 0 /\ pref[p] = 0

\* ao2_ref on a proxy, and on an object when delta is positive: no lock.
RefProxy(p, delta) == pref' = [pref EXCEPT ![p] = @ + delta]
RefObject(p, delta) == ref' = [ref EXCEPT ![p] = @ + delta]

\* __ao2_weakproxy_alloc, the allocation of the object and
\* __ao2_weakproxy_set_object, which links them and takes a reference to each;
\* then ao2_weakproxy_subscribe.  Extra counts the references that the caller
\* gives to the proxy from elsewhere.
set_object(p, cbs, extra) ==
    /\ Unused(p)
    /\ ref' = [ref EXCEPT ![p] = 1 + 1]
    /\ pref' = [pref EXCEPT ![p] = 1 + 1 + extra]
    /\ weakptr' = [weakptr EXCEPT ![p] = TRUE]
    /\ destroyed_cb' = [destroyed_cb EXCEPT ![p] = cbs]
    /\ UNCHANGED plock

\* Mutant: the proxy's lock is not taken.
get_object_unlocked(p) ==
    /\ IF weakptr[p] THEN RefObject(p, 1) ELSE UNCHANGED ref
    /\ UNCHANGED <<pref, weakptr, destroyed_cb, plock>>

\* __ao2_weakproxy_get_object: a critical section of the proxy's lock.
get_object(p) ==
    /\ plock[p] = None
    /\ IF weakptr[p] THEN RefObject(p, 1) ELSE UNCHANGED ref
    /\ UNCHANGED <<pref, weakptr, destroyed_cb, plock>>

\* __ao2_ref(obj, -1) by t, with the proxy's lock: when "the only remaining
\* reference is the one owned by the weak object" the lock is kept.
DropObject(p, t) ==
    /\ plock[p] = None
    /\ RefObject(p, -1)
    /\ plock' = IF ref[p] = 2 THEN [plock EXCEPT ![p] = t] ELSE plock
    /\ UNCHANGED <<pref, weakptr, destroyed_cb>>

\* ... then the notifications are moved to a list of the thread,
DestroyedCallbacks(p) == destroyed_cb[p]

\* Mutant: the list is copied and not emptied.
UnlinkObject_copying(p) ==
    /\ weakptr' = [weakptr EXCEPT ![p] = FALSE]
    /\ RefObject(p, -1)
    /\ plock' = [plock EXCEPT ![p] = None]
    /\ UNCHANGED <<pref, destroyed_cb>>

\* the pair is unlinked, the object is freed and the lock released.
UnlinkObject(p) ==
    /\ weakptr' = [weakptr EXCEPT ![p] = FALSE]
    /\ destroyed_cb' = [destroyed_cb EXCEPT ![p] = {}]
    /\ RefObject(p, -1)
    /\ plock' = [plock EXCEPT ![p] = None]
    /\ UNCHANGED pref

\* ao2_weakproxy_subscribe when the proxy still has its object.
subscribe(p, cb) ==
    /\ plock[p] = None
    /\ weakptr[p]
    /\ destroyed_cb' = [destroyed_cb EXCEPT ![p] = @ \union {cb}]
    /\ UNCHANGED <<ref, pref, weakptr, plock>>

\* ao2_weakproxy_unsubscribe: finds nothing once the list has been moved.
unsubscribe(p, cb) ==
    /\ plock[p] = None
    /\ destroyed_cb' = [destroyed_cb EXCEPT ![p] = @ \ {cb}]
    /\ UNCHANGED <<ref, pref, weakptr, plock>>
=============================================================================
