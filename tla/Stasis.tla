-------------------------------- MODULE Stasis --------------------------------
(***************************************************************************)
(* The Stasis message bus (main/stasis.c): topics, forwards between them   *)
(* and subscriptions with a mailbox.  A topic lists every subscription     *)
(* that its messages go to: its own and, through the forwards, those of    *)
(* the topics downstream.  Subscribing and forwarding copy subscriptions   *)
(* to the topics upstream, recursively and one topic lock at a time;       *)
(* publishing holds the lock of one topic while it dispatches, and         *)
(* stasis_publish_sync also waits for a subscriber's callback under it.    *)
(*                                                                         *)
(* A mailbox is a serial executor (module SerialExecutor): a queue whose   *)
(* messages the handler takes one by one.  A callback may publish and may  *)
(* unsubscribe its own subscription.  Direct subscriptions have no mailbox *)
(* (the caching topic): the publisher runs their callback.                 *)
(*                                                                         *)
(* A message is what the bus tells apart: "data", or a subscription change *)
(* about a subscription.  Not modelled: the lifetime of topics, which      *)
(* outlive their users here, the statistics of developer builds, and a     *)
(* callback that gives up its subscription before stasis_subscribe has     *)
(* told of it: stasis_subscribe would go on to read a subscription that    *)
(* may be gone.                                                            *)
(***************************************************************************)
EXTENDS Integers, Sequences, FiniteSetsExt

CONSTANTS
    Clients,        \* threads that call the API
    Subs,           \* subscriptions, each made and given up at most once
    Direct,         \* those without a mailbox
    Topics,
    home,           \* home[s]: the topic s subscribes to
    Edges,          \* <<from, to>>: forwards that may be made
    MaxCalls,       \* bound on the calls of stasis_publish
    None

Handlers == Subs \ Direct
Procs == Clients \union Handlers

ASSUME SubsAssumption ==
    /\ Direct \subseteq Subs
    /\ home \in [Subs -> Topics]
    /\ Edges \subseteq Topics \X Topics
    /\ MaxCalls \in Nat
    /\ Clients \intersect Subs = {}
    /\ None \notin Procs \union Subs \union Topics

VARIABLES
    subscribers,    \* subscribers[x]: the vector of topic x
    upstream_topics, \* upstream_topics[x]: topics forwarding to x
    lock,           \* lock[x]: owner of the lock of topic x, or None
    stage,          \* stage[s]: "new", "made", "subscribed" or "left"
    owner,          \* owner[s]: the client that subscribed s, or None
    mailbox,        \* mailbox[s]: what is queued for the handler of s
    handling,       \* handling[s]: what the handler of s executes, or None
    final_message_rxed, final_message_processed,
    refs,           \* refs[s]: the references to s
    selective,      \* selective[s]: is a filter set that accepts no type?
    forwards,       \* the forwards in place
    calls,          \* number of publish calls
    pc,             \* pc[q]: where process q is
    arg,            \* arg[q]: the locals of its call
    stack,          \* stack[q]: its recursion over topics
    sent,           \* history: subscriptions that were sent their final message
    lost,           \* history: subscriptions whose final message was lost
    leaked,         \* history: subscriptions whose cleanup could not be queued
    late            \* history: subscriptions that got a message after the final one

graph == <<subscribers, upstream_topics, forwards>>
boxes == <<mailbox, handling>>
flags == <<final_message_rxed, final_message_processed>>
history == <<sent, lost, leaked, late>>
vars == <<graph, lock, stage, owner, boxes, flags, refs, selective, calls, pc, arg, stack, history>>

\* A queued task: a message with the publisher that waits for it, or sub_cleanup.
Data(wait) == [kind |-> "data", about |-> None, wait |-> wait]
Change(kind, s) == [kind |-> kind, about |-> s, wait |-> None]
Cleanup == [kind |-> "cleanup", about |-> None, wait |-> None]

NoArg == [topic |-> None, sub |-> None, msg |-> None, i |-> 0, from |-> None, todo |-> <<>>,
          add |-> FALSE, join |-> FALSE, next |-> "idle"]

Init ==
    /\ subscribers = [x \in Topics |-> <<>>] /\ upstream_topics = [x \in Topics |-> <<>>]
    /\ lock = [x \in Topics |-> None]
    /\ stage = [s \in Subs |-> "new"] /\ owner = [s \in Subs |-> None]
    /\ mailbox = [s \in Subs |-> <<>>] /\ handling = [s \in Subs |-> None]
    /\ final_message_rxed = {} /\ final_message_processed = {}
    /\ refs = [s \in Subs |-> 0]
    /\ selective = [s \in Subs |-> FALSE]
    /\ forwards = {} /\ calls = 0
    /\ pc = [q \in Procs |-> "idle"]
    /\ arg = [q \in Procs |-> NoArg]
    /\ stack = [q \in Procs |-> <<>>]
    /\ sent = {} /\ lost = {} /\ leaked = {} /\ late = {}

-----------------------------------------------------------------------------
(* Dispatching                                                             *)

\* stasis_subscription_final_message.
Final(s, m) == m.kind = "Unsubscribe" /\ m.about = s

\* Whether the handler of s is in the callback.
InCallback(s) ==
    /\ handling[s] # None
    /\ ~(Final(s, handling[s]) /\ selective[s])

\* Process q may make a call: a client, or a handler in its callback.
Ready(q) == pc[q] = "idle" /\ (q \in Handlers => InCallback(q))

Goto(q, l) == pc' = [pc EXCEPT ![q] = l]

\* A push to the mailbox of s, which fails without memory.
Pushed(s, m) ==
    /\ mailbox' = [mailbox EXCEPT ![s] = Append(@, m)]
    /\ late' = IF s \in sent THEN late \union {s} ELSE late
    /\ sent' = IF Final(s, m) THEN sent \union {s} ELSE sent
    /\ UNCHANGED <<handling, flags, lost, leaked>>

PushFailed(s, m) ==
    /\ lost' = IF Final(s, m) THEN lost \union {s} ELSE lost
    /\ UNCHANGED <<boxes, flags, sent, leaked, late>>

\* subscription_invoke by the publisher of a direct subscription's message.
Invoked(s, m) ==
    /\ late' = IF s \in sent THEN late \union {s} ELSE late
    /\ IF Final(s, m)
        THEN /\ final_message_rxed' = final_message_rxed \union {s}
             /\ final_message_processed' = final_message_processed \union {s}
             /\ sent' = sent \union {s}
        ELSE UNCHANGED <<flags, sent>>
    /\ UNCHANGED <<boxes, lost, leaked>>

\* dispatch_message: "we always accept final messages".
Filtered(s, m) == selective[s] /\ ~Final(s, m)
dispatch_message(s, m) ==
    IF Filtered(s, m) THEN UNCHANGED <<boxes, flags, history>>
    ELSE IF s \in Direct THEN Invoked(s, m)
    ELSE Pushed(s, m) \/ PushFailed(s, m)

-----------------------------------------------------------------------------
(* publish_msg                                                             *)

\* Process q publishes with the locals a: "if there are no subscribers don't
\* bother", found out without the lock.
Publish(q, a) ==
    /\ arg' = [arg EXCEPT ![q] = a]
    /\ Goto(q, IF subscribers[a.topic] = <<>> THEN a.next ELSE "publish")

stasis_publish(q, x) ==
    /\ Ready(q)
    /\ calls < MaxCalls
    /\ calls' = calls + 1
    /\ Publish(q, [NoArg EXCEPT !.topic = x, !.msg = Data(None)])
    /\ UNCHANGED <<graph, lock, stage, owner, boxes, flags, refs, selective, stack, history>>

\* The owner of s publishes and waits for s.
stasis_publish_sync(q, s) ==
    /\ Ready(q) /\ owner[s] = q /\ stage[s] = "subscribed"
    /\ calls < MaxCalls
    /\ calls' = calls + 1
    /\ Publish(q, [NoArg EXCEPT !.topic = home[s], !.sub = s, !.msg = Data(q)])
    /\ UNCHANGED <<graph, lock, stage, owner, boxes, flags, refs, selective, stack, history>>

publish_lock(q) ==
    /\ pc[q] = "publish"
    /\ lock[arg[q].topic] = None
    /\ lock' = [lock EXCEPT ![arg[q].topic] = q]
    /\ arg' = [arg EXCEPT ![q].i = 1]
    /\ Goto(q, "dispatch")
    /\ UNCHANGED <<graph, stage, owner, boxes, flags, refs, selective, calls, stack, history>>

\* One subscriber after the other, the lock being held.  The publisher waits
\* for sync_sub once its push has succeeded.
publish_dispatch(q) ==
    LET a == arg[q]
        s == subscribers[a.topic][a.i]
        m == IF s = a.sub THEN a.msg ELSE [a.msg EXCEPT !.wait = None]
    IN
    /\ pc[q] = "dispatch"
    /\ a.i <= Len(subscribers[a.topic])
    /\ dispatch_message(s, m)
    /\ arg' = [arg EXCEPT ![q].i = @ + 1]
    /\ Goto(q, IF m.wait = q /\ mailbox' # mailbox THEN "wait" ELSE "dispatch")
    /\ UNCHANGED <<graph, lock, stage, owner, refs, selective, calls, stack>>

publish_unlock(q) ==
    LET a == arg[q] IN
    /\ pc[q] = "dispatch"
    /\ a.i > Len(subscribers[a.topic])
    /\ lock' = [lock EXCEPT ![a.topic] = None]
    /\ Goto(q, a.next)
    /\ arg' = [arg EXCEPT ![q] = IF a.next = "idle" THEN NoArg ELSE a]
    /\ UNCHANGED <<graph, stage, owner, boxes, flags, refs, selective, calls, stack, history>>

-----------------------------------------------------------------------------
(* The recursion of topic_add_subscription and topic_remove_subscription   *)

\* Mutant of RemoveUnordered: every match goes.
RemoveEvery(v, e) == SelectSeq(v, LAMBDA o : o # e)

\* AST_VECTOR_REMOVE_ELEM_UNORDERED: the last element takes the place of the
\* first match.
RemoveUnordered(v, e) ==
    LET n == Len(v)
        Matches == {i \in 1 .. n : v[i] = e}
    IN  IF Matches = {} THEN v ELSE SubSeq([v EXCEPT ![Min(Matches)] = v[n]], 1, n - 1)

\* Mutant of Visit: a removal does not go upstream.
Visit_remove_own(q, s, x, below) ==
    /\ lock[x] \in {None, q}
    /\ lock' = [lock EXCEPT ![x] = q]
    /\ stack' = [stack EXCEPT ![q] =
                    <<[topic |-> x, todo |-> IF arg[q].add THEN upstream_topics[x] ELSE <<>>,
                       mine |-> lock[x] = None]>> \o below]
    /\ subscribers' = IF arg[q].add THEN [subscribers EXCEPT ![x] = Append(@, s)] ELSE subscribers
    /\ UNCHANGED <<upstream_topics, forwards>>

\* Topic x is locked (the locks are recursive); a subscription is added on the
\* way in.
Visit(q, s, x, below) ==
    /\ lock[x] \in {None, q}
    /\ lock' = [lock EXCEPT ![x] = q]
    /\ stack' = [stack EXCEPT ![q] =
                    <<[topic |-> x, todo |-> upstream_topics[x], mine |-> lock[x] = None]>> \o below]
    /\ subscribers' = IF arg[q].add THEN [subscribers EXCEPT ![x] = Append(@, s)]
                      ELSE subscribers
    /\ UNCHANGED <<upstream_topics, forwards>>

walk_enter(q) ==
    /\ pc[q] = "enter"
    /\ Visit(q, arg[q].sub, arg[q].topic, <<>>)
    /\ Goto(q, "walk")
    /\ UNCHANGED <<stage, owner, boxes, flags, refs, selective, calls, arg, history>>

walk_up(q) ==
    LET f == Head(stack[q]) IN
    /\ pc[q] = "walk"
    /\ f.todo # <<>>
    /\ Visit(q, arg[q].sub, Head(f.todo), <<[f EXCEPT !.todo = Tail(@)]>> \o Tail(stack[q]))
    /\ UNCHANGED <<stage, owner, boxes, flags, refs, selective, calls, pc, arg, history>>

\* ... and removed on the way out, once it is removed upstream.
walk_leave(q) ==
    LET f == Head(stack[q]) IN
    /\ pc[q] = "walk"
    /\ f.todo = <<>>
    /\ subscribers' = IF arg[q].add THEN subscribers
                      ELSE [subscribers EXCEPT ![f.topic] = RemoveUnordered(@, arg[q].sub)]
    /\ lock' = IF f.mine THEN [lock EXCEPT ![f.topic] = None] ELSE lock
    /\ stack' = [stack EXCEPT ![q] = Tail(@)]
    /\ Goto(q, IF Tail(stack[q]) = <<>> THEN arg[q].next ELSE "walk")
    /\ UNCHANGED <<upstream_topics, forwards, stage, owner, boxes, flags, refs, selective, calls, arg,
                   history>>

-----------------------------------------------------------------------------
(* Subscribing and unsubscribing                                           *)

\* Mutant of stasis_subscribe: the mailbox shares the reference of the owner.
stasis_subscribe_shared(q, s) ==
    /\ Ready(q) /\ q \in Clients
    /\ stage[s] = "new"
    /\ stage' = [stage EXCEPT ![s] = "made"]
    /\ owner' = [owner EXCEPT ![s] = q]
    /\ refs' = [refs EXCEPT ![s] = 1]
    /\ arg' = [arg EXCEPT ![q] = [NoArg EXCEPT !.topic = home[s], !.sub = s, !.add = TRUE, !.next = "added"]]
    /\ Goto(q, "enter")
    /\ UNCHANGED <<graph, lock, boxes, flags, selective, calls, stack, history>>

\* internal_stasis_subscribe: the mailbox has a reference of its own.
stasis_subscribe(q, s) ==
    /\ Ready(q) /\ q \in Clients
    /\ stage[s] = "new"
    /\ stage' = [stage EXCEPT ![s] = "made"]
    /\ owner' = [owner EXCEPT ![s] = q]
    /\ refs' = [refs EXCEPT ![s] = IF s \in Direct THEN 1 ELSE 2]
    /\ arg' = [arg EXCEPT ![q] = [NoArg EXCEPT !.topic = home[s], !.sub = s, !.add = TRUE, !.next = "added"]]
    /\ Goto(q, "enter")
    /\ UNCHANGED <<graph, lock, boxes, flags, selective, calls, stack, history>>

\* send_subscription_subscribe, which gives up silently without memory.
send_subscription_subscribe(q) ==
    LET s == arg[q].sub IN
    /\ pc[q] = "added"
    /\ stage' = [stage EXCEPT ![s] = "subscribed"]
    /\ \/ Publish(q, [NoArg EXCEPT !.topic = home[s], !.msg = Change("Subscribe", s)])
       \/ arg' = [arg EXCEPT ![q] = NoArg] /\ Goto(q, "idle")
    /\ UNCHANGED <<graph, lock, owner, boxes, flags, refs, selective, calls, stack, history>>

\* stasis_unsubscribe by the owner, or by the callback of s itself; with a join,
\* stasis_unsubscribe_and_join bumps the reference count first.
stasis_unsubscribe(q, s, join) ==
    /\ Ready(q)
    /\ stage[s] = "subscribed"
    /\ owner[s] = q \/ (q = s /\ ~join)
    /\ stage' = [stage EXCEPT ![s] = "left"]
    /\ refs' = [refs EXCEPT ![s] = IF join THEN @ + 1 ELSE @]
    /\ arg' = [arg EXCEPT ![q] = [NoArg EXCEPT !.topic = home[s], !.sub = s, !.join = join, !.next = "removed"]]
    /\ Goto(q, "enter")
    /\ UNCHANGED <<graph, lock, owner, boxes, flags, selective, calls, stack, history>>

\* send_subscription_unsubscribe publishes the change to the others; without
\* memory for it nobody is told, not even s.
send_subscription_unsubscribe(q) ==
    LET s == arg[q].sub IN
    /\ pc[q] = "removed"
    /\ \/ Publish(q, [arg[q] EXCEPT !.sub = None, !.msg = Change("Unsubscribe", s), !.next = "final"])
          /\ UNCHANGED lost
       \/ Goto(q, "cleanup") /\ lost' = lost \union {s} /\ UNCHANGED arg
    /\ UNCHANGED <<graph, lock, stage, owner, boxes, flags, refs, selective, calls, stack, sent, leaked, late>>

\* "Now we have to dispatch to the subscription itself."
dispatch_final(q) ==
    LET s == arg[q].msg.about IN
    /\ pc[q] = "final"
    /\ dispatch_message(s, arg[q].msg)
    /\ arg' = [arg EXCEPT ![q].sub = s]
    /\ Goto(q, "cleanup")
    /\ UNCHANGED <<graph, lock, stage, owner, refs, selective, calls, stack>>

\* The reference of the mailbox is dropped by its own handler.
push_cleanup(q) ==
    LET s == arg[q].sub IN
    /\ pc[q] = "cleanup"
    /\ \/ s \in Direct /\ UNCHANGED <<mailbox, leaked>>
       \/ s \in Handlers /\ mailbox' = [mailbox EXCEPT ![s] = Append(@, Cleanup)] /\ UNCHANGED leaked
       \/ s \in Handlers /\ leaked' = leaked \union {s} /\ UNCHANGED mailbox
    /\ Goto(q, "unref")
    /\ UNCHANGED <<graph, lock, stage, owner, handling, flags, refs, selective, calls, arg, stack, sent, lost,
                   late>>

unsubscribe_unref(q) ==
    LET s == arg[q].sub IN
    /\ pc[q] = "unref"
    /\ refs' = [refs EXCEPT ![s] = @ - 1]
    /\ IF arg[q].join THEN Goto(q, "join") /\ UNCHANGED arg
       ELSE Goto(q, "idle") /\ arg' = [arg EXCEPT ![q] = NoArg]
    /\ UNCHANGED <<graph, lock, stage, owner, boxes, flags, selective, calls, stack, history>>

\* stasis_subscription_join returns.
stasis_subscription_join(q) ==
    LET s == arg[q].sub IN
    /\ pc[q] = "join"
    /\ s \in final_message_processed
    /\ refs' = [refs EXCEPT ![s] = @ - 1]
    /\ arg' = [arg EXCEPT ![q] = NoArg]
    /\ Goto(q, "idle")
    /\ UNCHANGED <<graph, lock, stage, owner, boxes, flags, selective, calls, stack, history>>

\* stasis_subscription_set_filter, under the lock of the topic subscribed to.
stasis_subscription_set_filter(q, s) ==
    /\ Ready(q) /\ owner[s] = q /\ stage[s] = "subscribed"
    /\ ~selective[s]
    /\ lock[home[s]] = None
    /\ selective' = [selective EXCEPT ![s] = TRUE]
    /\ UNCHANGED <<graph, lock, stage, owner, boxes, flags, refs, calls, pc, arg, stack, history>>

-----------------------------------------------------------------------------
(* Forwards                                                                *)

\* topic_lock_both backs off until it has both locks.
LockBoth(q, from, to) ==
    /\ lock[from] = None /\ lock[to] = None
    /\ lock' = [lock EXCEPT ![from] = q, ![to] = q]

\* Mutant of stasis_forward_all: the origin is locked first, then the destination.
stasis_forward_all_from_first(q, from, to) ==
    /\ Ready(q) /\ q \in Clients
    /\ <<from, to>> \in Edges \ forwards
    /\ lock[from] = None
    /\ lock' = [lock EXCEPT ![from] = q]
    /\ upstream_topics' = [upstream_topics EXCEPT ![to] = Append(@, from)]
    /\ forwards' = forwards \union {<<from, to>>}
    /\ arg' = [arg EXCEPT ![q] = [NoArg EXCEPT !.topic = to, !.from = from]]
    /\ Goto(q, "enter")
    /\ UNCHANGED <<subscribers, stage, owner, boxes, flags, refs, selective, calls, stack, history>>

stasis_forward_all(q, from, to) ==
    /\ Ready(q) /\ q \in Clients
    /\ <<from, to>> \in Edges \ forwards
    /\ LockBoth(q, from, to)
    /\ upstream_topics' = [upstream_topics EXCEPT ![to] = Append(@, from)]
    /\ forwards' = forwards \union {<<from, to>>}
    /\ arg' = [arg EXCEPT ![q] = [NoArg EXCEPT !.topic = to, !.from = from, !.add = TRUE,
                                               !.todo = subscribers[to], !.next = "forward"]]
    /\ Goto(q, "forward")
    /\ UNCHANGED <<subscribers, stage, owner, boxes, flags, refs, selective, calls, stack, history>>

stasis_forward_cancel(q, from, to) ==
    /\ Ready(q) /\ q \in Clients
    /\ <<from, to>> \in forwards
    /\ LockBoth(q, from, to)
    /\ upstream_topics' = [upstream_topics EXCEPT ![to] = RemoveUnordered(@, from)]
    /\ forwards' = forwards \ {<<from, to>>}
    /\ arg' = [arg EXCEPT ![q] = [NoArg EXCEPT !.topic = to, !.from = from,
                                               !.todo = subscribers[to], !.next = "forward"]]
    /\ Goto(q, "forward")
    /\ UNCHANGED <<subscribers, stage, owner, boxes, flags, refs, selective, calls, stack, history>>

\* Each subscriber of the destination is added to, or removed from, the origin
\* and the topics upstream of it.
forward_next(q) ==
    LET s == Head(arg[q].todo) IN
    /\ pc[q] = "forward"
    /\ arg[q].todo # <<>>
    /\ Visit(q, s, arg[q].from, <<>>)
    /\ arg' = [arg EXCEPT ![q].sub = s, ![q].todo = Tail(@)]
    /\ Goto(q, "walk")
    /\ UNCHANGED <<stage, owner, boxes, flags, refs, selective, calls, history>>

forward_unlock(q) ==
    /\ pc[q] = "forward"
    /\ arg[q].todo = <<>>
    /\ lock' = [lock EXCEPT ![arg[q].from] = None, ![arg[q].topic] = None]
    /\ arg' = [arg EXCEPT ![q] = NoArg]
    /\ Goto(q, "idle")
    /\ UNCHANGED <<graph, stage, owner, boxes, flags, refs, selective, calls, stack, history>>

-----------------------------------------------------------------------------
(* The handler of a mailbox                                                *)

\* subscription_invoke up to the callback, or sub_cleanup.
handler_take(s) ==
    LET m == Head(mailbox[s]) IN
    /\ handling[s] = None
    /\ mailbox[s] # <<>>
    /\ mailbox' = [mailbox EXCEPT ![s] = Tail(@)]
    /\ IF m.kind = "cleanup"
        THEN refs' = [refs EXCEPT ![s] = @ - 1] /\ UNCHANGED <<handling, final_message_rxed>>
        ELSE /\ handling' = [handling EXCEPT ![s] = m]
             /\ final_message_rxed' = IF Final(s, m) THEN final_message_rxed \union {s}
                                      ELSE final_message_rxed
             /\ UNCHANGED refs
    /\ UNCHANGED <<graph, lock, stage, owner, final_message_processed, selective, calls, pc, arg, stack,
                   history>>

\* Mutant of handler_done: a final message that the filter keeps from the callback
\* does not count as processed.
handler_done_skips_filtered(s) ==
    LET m == handling[s] IN
    /\ m # None
    /\ pc[s] = "idle"
    /\ handling' = [handling EXCEPT ![s] = None]
    /\ final_message_processed' = IF Final(s, m) /\ InCallback(s) THEN final_message_processed \union {s}
                                  ELSE final_message_processed
    /\ IF m.wait = None THEN UNCHANGED pc ELSE Goto(m.wait, "dispatch")
    /\ UNCHANGED <<graph, lock, stage, owner, mailbox, final_message_rxed, refs, selective, calls, arg, stack,
                   history>>

\* The callback has returned: the end of subscription_invoke, and of
\* dispatch_exec_sync when a publisher waits.
handler_done(s) ==
    LET m == handling[s] IN
    /\ m # None
    /\ pc[s] = "idle"
    /\ handling' = [handling EXCEPT ![s] = None]
    /\ final_message_processed' = IF Final(s, m) THEN final_message_processed \union {s}
                                  ELSE final_message_processed
    /\ IF m.wait = None THEN UNCHANGED pc ELSE Goto(m.wait, "dispatch")
    /\ UNCHANGED <<graph, lock, stage, owner, mailbox, final_message_rxed, refs, selective, calls, arg, stack,
                   history>>

-----------------------------------------------------------------------------

Call(q) ==
    \/ \E x \in Topics : stasis_publish(q, x)
    \/ \E s \in Subs : \/ stasis_publish_sync(q, s)
                       \/ stasis_subscribe(q, s)
                       \/ \E join \in BOOLEAN : stasis_unsubscribe(q, s, join)
                       \/ stasis_subscription_set_filter(q, s)
    \/ \E e \in Edges : stasis_forward_all(q, e[1], e[2]) \/ stasis_forward_cancel(q, e[1], e[2])

Step(q) ==
    \/ publish_lock(q) \/ publish_dispatch(q) \/ publish_unlock(q)
    \/ walk_enter(q) \/ walk_up(q) \/ walk_leave(q)
    \/ send_subscription_subscribe(q) \/ send_subscription_unsubscribe(q)
    \/ dispatch_final(q) \/ push_cleanup(q) \/ unsubscribe_unref(q) \/ stasis_subscription_join(q)
    \/ forward_next(q) \/ forward_unlock(q)

Handle(s) == handler_take(s) \/ handler_done(s)

Next == (\E q \in Procs : Call(q) \/ Step(q)) \/ (\E s \in Handlers : Handle(s))

\* Threads are scheduled, a contended lock is eventually granted, and callbacks
\* return.
Fairness == /\ \A q \in Procs : SF_vars(Step(q))
            /\ \A s \in Handlers : WF_vars(Handle(s))

Spec == Init /\ [][Next]_vars /\ Fairness

-----------------------------------------------------------------------------
(* Properties                                                              *)

\* The unsubscription is the last message of a subscription, through whichever
\* topics its messages come ("we have to remove the subscription first, to ensure
\* the unsubscribe is the final message", stasis_unsubscribe).
FinalIsLast == late = {}

\* How often v lists e.
Listed(v, e) == Cardinality({i \in DOMAIN v : v[i] = e})

\* No process is between the locks of a change of the lists.
Settled == \A q \in Procs : pc[q] \notin {"enter", "walk", "forward"}

\* Between changes a topic lists a subscription once for every path of forwards
\* from it to the topic subscribed to, whatever the order in which subscriptions
\* and forwards came and went (topic_add_subscription, stasis_forward_all).
PathsExact ==
    Settled => \A x \in Topics, s \in Subs :
        Listed(subscribers[x], s) =
            (IF x = home[s] /\ stage[s] \in {"made", "subscribed"} THEN 1 ELSE 0)
            + MapThenSumSet(LAMBDA e : IF e[1] = x THEN Listed(subscribers[e[2]], s) ELSE 0, forwards)

\* The references of a subscription outlast every use of it: when the last one is
\* dropped no topic lists it and nothing is queued for it, and its final message
\* was handled unless memory ran out (the assertions of subscription_dtor).  And
\* they are all dropped: a subscription that was left stays only if its mailbox
\* could not be told to let go of it.
DtorSafe ==
    \A s \in Subs :
        /\ refs[s] >= 0
        /\ stage[s] # "new" /\ refs[s] = 0 =>
            /\ \A x \in Topics : Listed(subscribers[x], s) = 0
            /\ mailbox[s] = <<>> /\ handling[s] = None
            /\ s \in final_message_processed \union lost
        /\ stage[s] = "left" /\ mailbox[s] = <<>> /\ (\A q \in Procs : pc[q] = "idle") =>
            refs[s] = IF s \in leaked THEN 1 ELSE 0

\* Whom process q waits for: the owner of a lock, or a handler.
Wanted(q) ==
    CASE pc[q] \in {"publish", "enter"} -> {arg[q].topic}
      [] pc[q] = "walk" /\ Head(stack[q]).todo # <<>> -> {Head(Head(stack[q]).todo)}
      [] OTHER -> {}
WaitsFor(q) ==
    ({lock[x] : x \in Wanted(q)} \ {None, q})
    \union (IF pc[q] \in {"wait", "join"} THEN {arg[q].sub} ELSE {})

\* Every process of C waits for one of C.
Circle(C) == C # {} /\ \A q \in C : WaitsFor(q) \intersect C # {}
CircularWait == \E C \in SUBSET Procs : Circle(C)

\* The locks alone are taken in one order, whatever forwards, subscriptions and
\* publishers meet ("no worries about publishing/subscribing/unsubscribing to a
\* topic concurrently from multiple threads", stasis.h): every circular wait has
\* a synchronous publisher in it, which waits for a callback with the topic locked
\* while the callback or another thread wants that lock.
OnlySyncCircular == \A C \in SUBSET Procs : Circle(C) => \E q \in C : pc[q] = "wait"

\* Every call returns, unless there is a circular wait or the final message that a
\* join waits for was lost.
CallsReturn ==
    \A q \in Procs : pc[q] # "idle" ~> pc[q] = "idle" \/ CircularWait \/ lost # {}
=============================================================================
