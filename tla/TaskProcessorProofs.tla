------------------------ MODULE TaskProcessorProofs ------------------------
(***************************************************************************)
(* Proofs about TaskProcessor, for any set of clients and tasks.           *)
(***************************************************************************)
EXTENDS TaskProcessor, FiniteSetTheorems, TLAPS

ShutStates == {"unlinked", "postingDie", "joining", "releasing"}

\* Who may still use the taskprocessor, and who is shutting it down.
RefInv ==
    /\ linked => listenerRef /\ ~shutdownRef /\ ~freed
    /\ ~linked => holders = {}
    /\ \A a \in Actors : apc[a] \in {"starting", "posting"} => a \in holders
    /\ \A a \in Actors : apc[a] \in ShutStates => ~linked /\ listenerRef /\ ~freed
    /\ \A a, b \in Actors : apc[a] \in ShutStates /\ apc[b] \in ShutStates => a = b
    /\ \A a \in Actors : apc[a] = "unlinked" => ~shutdownRef /\ ~dead
    /\ \A a \in Actors : apc[a] = "releasing" => a = Poll \/ pollpc = "done"
    /\ apc[Poll] # "idle" => pollpc = "run"
    /\ apc[Poll] # "joining"

\* Where the listener's thread is, and the reference it will drop.
PollInv ==
    /\ running # None <=> pollpc = "run"
    /\ \A a \in Actors : apc[a] = "starting" => pollpc = "unborn"
    /\ \A a, b \in Actors : apc[a] = "starting" /\ apc[b] = "starting" => a = b
    /\ dead => ~linked
    /\ pollpc = "exit" => shutdownRef /\ dead
    /\ pollpc = "done" => ~shutdownRef /\ dead
    /\ shutdownRef => ~linked
    /\ (~linked /\ ~shutdownRef /\ \A a \in Actors : apc[a] # "unlinked") => pollpc = "done"
    /\ freed => ~linked /\ ~listenerRef /\ ~shutdownRef /\ pollpc = "done"

DieNowhere == Die \notin Elems(queue) /\ running # Die /\ Die \notin Elems(done)

\* The die task is the last one.
DieInv ==
    /\ linked => DieNowhere
    /\ \A a \in Actors : apc[a] = "unlinked" => DieNowhere
    /\ DieLost => DieNowhere
    /\ \A i \in DOMAIN queue : queue[i] = Die => i = Len(queue)
    /\ running = Die => queue = <<>>
    /\ Die \in Elems(done) => queue = <<>> /\ running = None

\* Tokens in the semaphore, and those about to be posted, match the queue.
TokenInv == sem + Cardinality(Posting) + Num(pollpc = "pop") = Len(queue)
SemInv == (~interrupted /\ ~DieLost) => TokenInv

\* Every accepted task is queued, running or done.
WorkInv ==
    ~DieLost => submitted \subseteq Elems(queue) \union {running} \union Elems(done)

IInv == TypeOK /\ RefInv /\ PollInv /\ DieInv /\ SemInv /\ WorkInv

-----------------------------------------------------------------------------
(* Facts about sequences and finite sets                                   *)

LEMMA ElemsAppend ==
    ASSUME NEW S, NEW s \in Seq(S), NEW x \in S
    PROVE  Elems(Append(s, x)) = Elems(s) \union {x}
<1>1. DOMAIN Append(s, x) = DOMAIN s \union {Len(s) + 1}
    OBVIOUS
<1>2. \A i \in DOMAIN s : Append(s, x)[i] = s[i]
    OBVIOUS
<1>3. Append(s, x)[Len(s) + 1] = x
    OBVIOUS
<1> QED BY <1>1, <1>2, <1>3 DEF Elems

LEMMA ElemsTail ==
    ASSUME NEW S, NEW s \in Seq(S), s # <<>>
    PROVE  /\ Elems(s) = {Head(s)} \union Elems(Tail(s))
           /\ \A i \in DOMAIN Tail(s) : i + 1 \in DOMAIN s /\ Tail(s)[i] = s[i + 1]
           /\ Len(Tail(s)) = Len(s) - 1
           /\ Head(s) = s[1] /\ 1 \in DOMAIN s
<1>1. \A i \in DOMAIN Tail(s) : i + 1 \in DOMAIN s /\ Tail(s)[i] = s[i + 1]
    OBVIOUS
<1>2. Head(s) = s[1] /\ 1 \in DOMAIN s
    OBVIOUS
<1>3. \A i \in DOMAIN s : i = 1 \/ (i - 1 \in DOMAIN Tail(s) /\ Tail(s)[i - 1] = s[i])
    OBVIOUS
<1>4. Len(Tail(s)) = Len(s) - 1
    OBVIOUS
<1>5. ASSUME NEW x \in Elems(s) PROVE x \in {Head(s)} \union Elems(Tail(s))
    BY <1>2, <1>3 DEF Elems
<1>6. ASSUME NEW x \in Elems(Tail(s)) PROVE x \in Elems(s)
    BY <1>1 DEF Elems
<1>7. Head(s) \in Elems(s)
    BY <1>2 DEF Elems
<1>8. Elems(s) = {Head(s)} \union Elems(Tail(s))
    BY <1>5, <1>6, <1>7
<1> QED BY <1>1, <1>2, <1>4, <1>8

LEMMA ActorsFinite == IsFiniteSet(Actors)
BY ActorsAssumption, FS_Singleton, FS_Union DEF Actors

LEMMA LastElement ==
    ASSUME NEW S, IsFiniteSet(S), NEW x \in S, Cardinality(S) <= 1
    PROVE  S = {x}
<1>1. IsFiniteSet(S \ {x}) /\ Cardinality(S \ {x}) = Cardinality(S) - 1
    BY FS_RemoveElement
<1>2. Cardinality(S) \in Nat /\ Cardinality(S \ {x}) \in Nat
    BY <1>1, FS_CardinalityType
<1>3. Cardinality(S \ {x}) = 0
    BY <1>1, <1>2
<1> QED BY <1>1, <1>3, FS_EmptySet

-----------------------------------------------------------------------------
(* Typing                                                                  *)

LEMMA TypeInit == Init => TypeOK
<1> SUFFICES ASSUME Init PROVE TypeOK
    OBVIOUS
<1>1. PICK c \in Clients :
        /\ holders = {c}
        /\ apc = [a \in Actors |-> IF a = c THEN "starting" ELSE "idle"]
    BY DEF Init
<1>2. holders \subseteq Actors /\ apc \in [Actors -> ApiStates]
    BY <1>1 DEF Actors, ApiStates
<1>3. queue \in Seq(Work) /\ done \in Seq(Work)
    BY DEF Init
<1> QED BY <1>2, <1>3 DEF Init, TypeOK, PollStates

LEMMA TypeNext == TypeOK /\ PollInv /\ [Next]_vars => TypeOK'
<1> SUFFICES ASSUME TypeOK, PollInv, [Next]_vars PROVE TypeOK'
    OBVIOUS
<1> USE DEF TypeOK, Work, ApiStates, PollStates, Goto, work, refs
<1>1. ASSUME NEW a \in Actors, Call(a) PROVE TypeOK'
  <2>1. CASE ast_taskprocessor_get(a)
    BY <2>1 DEF ast_taskprocessor_get
  <2>2. ASSUME NEW t \in Tasks, taskprocessor_push(a, t) PROVE TypeOK'
    BY <2>2 DEF taskprocessor_push
  <2>3. CASE ast_taskprocessor_unreference(a)
    BY <2>3 DEF ast_taskprocessor_unreference
  <2> QED BY <1>1, <2>1, <2>2, <2>3 DEF Call
<1>2. ASSUME NEW a \in Actors, Continue(a) PROVE TypeOK'
  <2>1. CASE default_listener_start(a)
    BY <2>1 DEF default_listener_start
  <2>2. CASE default_task_pushed(a)
    BY <2>2 DEF default_task_pushed
  <2>3. CASE default_listener_shutdown(a)
    BY <2>3 DEF default_listener_shutdown
  <2>4. CASE shutdown_push_failed(a)
    BY <2>4 DEF shutdown_push_failed
  <2>5. CASE shutdown_posted(a)
    BY <2>5 DEF shutdown_posted
  <2>6. CASE pthread_join(a)
    BY <2>6 DEF pthread_join
  <2>7. CASE listener_shutdown(a)
    <3>1. queue' \in Seq(Work) /\ freed' \in BOOLEAN
      BY <2>7 DEF listener_shutdown, tps_taskprocessor_dtor
    <3> QED BY <2>7, <3>1 DEF listener_shutdown
  <2> QED BY <1>2, <2>1, <2>2, <2>3, <2>4, <2>5, <2>6, <2>7 DEF Continue
<1>3. CASE poll_loop
    BY <1>3 DEF poll_loop
<1>4. CASE ast_sem_wait
    BY <1>4 DEF ast_sem_wait
<1>5. CASE execute_pop
    BY <1>5 DEF execute_pop
<1>6. CASE execute_empty
    BY <1>6 DEF execute_empty
<1>7. CASE execute_end
  <2>1. running \in Work
    BY <1>7 DEF execute_end, PollInv
  <2> QED BY <1>7, <2>1 DEF execute_end
<1>8. CASE poll_done
  <2>1. queue' \in Seq(Work) /\ freed' \in BOOLEAN
    BY <1>8 DEF poll_done, tps_taskprocessor_dtor
  <2> QED BY <1>8, <2>1 DEF poll_done
<1>9. CASE sem_wait_interrupted
    BY <1>9 DEF sem_wait_interrupted
<1>10. CASE UNCHANGED vars
    BY <1>10 DEF vars
<1> QED BY <1>1, <1>2, <1>3, <1>4, <1>5, <1>6, <1>7, <1>8, <1>9, <1>10 DEF Next, PollStep

-----------------------------------------------------------------------------
(* References                                                              *)

\* What the reference count says: an unlinked taskprocessor has no client
\* references, and "down to 3" means that the caller's is the only one.
LEMMA RefCountUnlinked ==
    ASSUME TypeOK, RefInv, ~linked
    PROVE  RefCount = Num(listenerRef) + Num(shutdownRef)
<1>1. holders = {} /\ Cardinality(holders) = 0
    BY FS_EmptySet DEF RefInv
<1>2. Num(linked) = 0
    BY DEF Num
<1>3. Num(listenerRef) \in Nat /\ Num(shutdownRef) \in Nat
    BY DEF Num
<1> QED BY <1>1, <1>2, <1>3 DEF RefCount

LEMMA RefCountLast ==
    ASSUME TypeOK, RefInv, NEW a \in holders, ~(RefCount > 3)
    PROVE  linked /\ holders = {a}
<1>1. linked /\ listenerRef /\ ~shutdownRef
    BY DEF RefInv
<1>2. Num(linked) = 1 /\ Num(listenerRef) = 1 /\ Num(shutdownRef) = 0
    BY <1>1 DEF Num
<1>3. IsFiniteSet(holders) /\ Cardinality(holders) \in Nat
    BY ActorsFinite, FS_Subset, FS_CardinalityType DEF TypeOK
<1>4. Cardinality(holders) <= 1
    BY <1>2, <1>3 DEF RefCount
<1> QED BY <1>1, <1>3, <1>4, LastElement

\* RefInv and PollInv need each other: who may shut down depends on the
\* references, when the thread may leave depends on who shuts down.
RefPoll == RefInv /\ PollInv

LEMMA RefPollInit == Init => RefPoll
<1> SUFFICES ASSUME Init PROVE RefPoll
    OBVIOUS
<1>1. PICK c \in Clients :
        /\ holders = {c}
        /\ apc = [a \in Actors |-> IF a = c THEN "starting" ELSE "idle"]
    BY DEF Init
<1>2. apc[Poll] = "idle"
    BY <1>1, ActorsAssumption DEF Actors
<1> QED BY <1>1, <1>2 DEF Init, RefPoll, RefInv, PollInv, ShutStates

LEMMA RefPollNext == TypeOK /\ RefPoll /\ DieInv /\ [Next]_vars => RefPoll'
<1> SUFFICES ASSUME TypeOK, RefPoll, DieInv, [Next]_vars PROVE RefPoll'
    OBVIOUS
<1> Poll \in Actors
    BY DEF Actors
<1> USE DEF RefPoll, RefInv, PollInv, ShutStates, Goto, work, refs
<1> USE DEF TypeOK, ApiStates, PollStates
<1>1. ASSUME NEW a \in Actors, ast_taskprocessor_get(a) PROVE RefPoll'
    BY <1>1 DEF ast_taskprocessor_get, CanCall
<1>2. ASSUME NEW a \in Actors, NEW t \in Tasks, taskprocessor_push(a, t) PROVE RefPoll'
    BY <1>2 DEF taskprocessor_push, CanCall
<1>3. ASSUME NEW a \in Actors, ast_taskprocessor_unreference(a) PROVE RefPoll'
  <2>1. CASE RefCount > 3
    BY <1>3, <2>1 DEF ast_taskprocessor_unreference, CanCall
  <2>2. CASE ~(RefCount > 3)
    <3>1. holders = {a} /\ linked
      BY <1>3, <2>2, RefCountLast DEF ast_taskprocessor_unreference
    <3> QED BY <1>3, <2>2, <3>1 DEF ast_taskprocessor_unreference, CanCall
  <2> QED BY <2>1, <2>2
<1>4. ASSUME NEW a \in Actors, default_listener_start(a) PROVE RefPoll'
    BY <1>4 DEF default_listener_start
<1>5. ASSUME NEW a \in Actors, default_task_pushed(a) PROVE RefPoll'
    BY <1>5 DEF default_task_pushed
<1>6. ASSUME NEW a \in Actors, default_listener_shutdown(a) PROVE RefPoll'
    BY <1>6 DEF default_listener_shutdown
<1>7. ASSUME NEW a \in Actors, shutdown_push_failed(a) PROVE RefPoll'
    BY <1>7 DEF shutdown_push_failed
<1>8. ASSUME NEW a \in Actors, shutdown_posted(a) PROVE RefPoll'
    BY <1>8 DEF shutdown_posted
<1>9. ASSUME NEW a \in Actors, pthread_join(a) PROVE RefPoll'
    BY <1>9 DEF pthread_join
<1>10. ASSUME NEW a \in Actors, listener_shutdown(a) PROVE RefPoll'
  <2>1. ~linked /\ listenerRef /\ ~freed
    BY <1>10 DEF listener_shutdown
  <2>2. RefCount = 1 => ~shutdownRef
    BY <2>1, RefCountUnlinked DEF Num
  <2>3. freed' => ~shutdownRef
    BY <1>10, <2>2 DEF listener_shutdown, tps_taskprocessor_dtor
  <2> QED BY <1>10, <2>1, <2>3 DEF listener_shutdown
<1>11. CASE poll_loop
    BY <1>11 DEF poll_loop
<1>12. CASE ast_sem_wait
    BY <1>12 DEF ast_sem_wait
<1>13. CASE execute_pop
    BY <1>13, TasksAssumption DEF execute_pop, Work
<1>14. CASE execute_empty
    BY <1>14 DEF execute_empty
<1>15. CASE execute_end
    BY <1>15 DEF execute_end, DieInv, DieNowhere
<1>16. CASE poll_done
  <2>1. ~linked /\ shutdownRef
    BY <1>16 DEF poll_done
  <2>2. RefCount = 1 => ~listenerRef
    BY <2>1, RefCountUnlinked DEF Num
  <2>3. freed' => ~listenerRef
    BY <1>16, <2>2 DEF poll_done, tps_taskprocessor_dtor
  <2> QED BY <1>16, <2>1, <2>3 DEF poll_done
<1>17. CASE sem_wait_interrupted
    BY <1>17 DEF sem_wait_interrupted
<1>18. CASE UNCHANGED vars
    BY <1>18 DEF vars
<1> QED BY <1>1, <1>2, <1>3, <1>4, <1>5, <1>6, <1>7, <1>8, <1>9, <1>10, <1>11, <1>12,
           <1>13, <1>14, <1>15, <1>16, <1>17, <1>18 DEF Next, Call, Continue, PollStep

-----------------------------------------------------------------------------
(* The die task                                                            *)

LEMMA DieInit == Init => DieInv
BY TasksAssumption DEF Init, DieInv, DieNowhere, DieLost, Elems

LEMMA DieNext == TypeOK /\ RefPoll /\ DieInv /\ [Next]_vars => DieInv'
<1> SUFFICES ASSUME TypeOK, RefPoll, DieInv, [Next]_vars PROVE DieInv'
    OBVIOUS
<1> USE DEF DieInv, DieNowhere, DieLost, Goto, work, refs
<1> USE DEF TypeOK, RefPoll
<1>1. ASSUME NEW a \in Actors, ast_taskprocessor_get(a) PROVE DieInv'
    BY <1>1 DEF ast_taskprocessor_get
<1>2. ASSUME NEW a \in Actors, NEW t \in Tasks, taskprocessor_push(a, t) PROVE DieInv'
  <2>1. linked /\ ~dead /\ \A b \in Actors : apc[b] # "unlinked"
    BY <1>2 DEF taskprocessor_push, RefInv, PollInv, ShutStates
  <2>2. t # Die /\ t \in Work
    BY TasksAssumption DEF Work
  <2>3. Elems(queue') = Elems(queue) \union {t}
    BY <1>2, <2>2, ElemsAppend DEF taskprocessor_push
  <2>4. \A i \in DOMAIN queue' : queue'[i] # Die
    BY <2>1, <2>2, <2>3 DEF Elems
  <2>5. DieNowhere'
    BY <1>2, <2>1, <2>2, <2>3 DEF taskprocessor_push
  <2> QED BY <1>2, <2>1, <2>4, <2>5 DEF taskprocessor_push
<1>3. ASSUME NEW a \in Actors, ast_taskprocessor_unreference(a) PROVE DieInv'
  <2>1. linked
    BY <1>3 DEF ast_taskprocessor_unreference, RefInv
  <2> QED BY <1>3, <2>1 DEF ast_taskprocessor_unreference
<1>4. ASSUME NEW a \in Actors, default_listener_start(a) PROVE DieInv'
    BY <1>4 DEF default_listener_start
<1>5. ASSUME NEW a \in Actors, default_task_pushed(a) PROVE DieInv'
    BY <1>5 DEF default_task_pushed
<1>6. ASSUME NEW a \in Actors, default_listener_shutdown(a) PROVE DieInv'
  <2>1. ~linked /\ ~dead /\ \A b \in Actors : b # a => apc[b] # "unlinked"
    BY <1>6 DEF default_listener_shutdown, RefInv, ShutStates
  <2>2. DieNowhere
    BY <1>6 DEF default_listener_shutdown
  <2>3. Die \in Work
    BY DEF Work
  <2>4. \A i \in DOMAIN queue : queue[i] # Die
    BY <2>2 DEF Elems
  <2>5. \A i \in DOMAIN queue' : queue'[i] = Die => i = Len(queue')
    BY <1>6, <2>3, <2>4 DEF default_listener_shutdown
  <2> QED BY <1>6, <2>1, <2>2, <2>5 DEF default_listener_shutdown
<1>7. ASSUME NEW a \in Actors, shutdown_push_failed(a) PROVE DieInv'
    BY <1>7 DEF shutdown_push_failed
<1>8. ASSUME NEW a \in Actors, shutdown_posted(a) PROVE DieInv'
    BY <1>8 DEF shutdown_posted
<1>9. ASSUME NEW a \in Actors, pthread_join(a) PROVE DieInv'
    BY <1>9 DEF pthread_join
<1>10. ASSUME tps_taskprocessor_dtor(RefCount = 1) PROVE queue' = queue \/ queue' = <<>>
    BY <1>10 DEF tps_taskprocessor_dtor
<1>11. ASSUME NEW a \in Actors, listener_shutdown(a) PROVE DieInv'
  <2>1. CASE queue' = queue
    BY <1>11, <2>1 DEF listener_shutdown
  <2>2. CASE queue' = <<>>
    <3>1. Elems(queue') = {} /\ DOMAIN queue' = {}
      BY <2>2 DEF Elems
    <3> QED BY <1>11, <2>2, <3>1 DEF listener_shutdown
  <2> QED BY <1>10, <1>11, <2>1, <2>2 DEF listener_shutdown
<1>12. CASE poll_loop
    BY <1>12 DEF poll_loop
<1>13. CASE ast_sem_wait
    BY <1>13 DEF ast_sem_wait
<1>14. CASE execute_pop
  <2>1. /\ Elems(queue) = {Head(queue)} \union Elems(Tail(queue))
        /\ \A i \in DOMAIN Tail(queue) : i + 1 \in DOMAIN queue /\ Tail(queue)[i] = queue[i + 1]
        /\ Len(Tail(queue)) = Len(queue) - 1
        /\ Head(queue) = queue[1] /\ 1 \in DOMAIN queue
    BY <1>14, ElemsTail DEF execute_pop
  <2>2. \A i \in DOMAIN queue' : queue'[i] = Die => i = Len(queue')
    BY <1>14, <2>1 DEF execute_pop
  <2>3. running' = Die => queue' = <<>>
    <3>1. SUFFICES ASSUME Head(queue) = Die PROVE Tail(queue) = <<>>
      BY <1>14 DEF execute_pop
    <3>a. \A i \in DOMAIN queue : queue[i] = Die => i = Len(queue)
      BY DEF DieInv
    <3>b. 1 = Len(queue)
      BY <2>1, <3>1, <3>a
    <3>2. Len(Tail(queue)) = 0
      BY <2>1, <3>b
    <3> QED BY <1>14, <3>2 DEF execute_pop
  <2> QED BY <1>14, <2>1, <2>2, <2>3 DEF execute_pop
<1>15. CASE execute_empty
    BY <1>15 DEF execute_empty
<1>16. CASE execute_end
  <2>1. running \in Work /\ running # None /\ Die \notin Elems(done)
    BY <1>16 DEF execute_end, PollInv
  <2>2. Elems(done') = Elems(done) \union {running}
    BY <1>16, <2>1, ElemsAppend DEF execute_end
  <2>3. None # Die
    BY TasksAssumption
  <2> QED BY <1>16, <2>1, <2>2, <2>3 DEF execute_end
<1>17. CASE poll_done
  <2>1. CASE queue' = queue
    BY <1>17, <2>1 DEF poll_done
  <2>2. CASE queue' = <<>>
    <3>1. Elems(queue') = {} /\ DOMAIN queue' = {}
      BY <2>2 DEF Elems
    <3> QED BY <1>17, <2>2, <3>1 DEF poll_done
  <2> QED BY <1>10, <1>17, <2>1, <2>2 DEF poll_done
<1>18. CASE sem_wait_interrupted
    BY <1>18 DEF sem_wait_interrupted
<1>19. CASE UNCHANGED vars
    BY <1>19 DEF vars
<1> QED BY <1>1, <1>2, <1>3, <1>4, <1>5, <1>6, <1>7, <1>8, <1>9, <1>11, <1>12, <1>13,
           <1>14, <1>15, <1>16, <1>17, <1>18, <1>19 DEF Next, Call, Continue, PollStep

\* A thread that left its loop with the die task executed leaves no work.
LEMMA ExitQueueEmpty ==
    ASSUME DieInv, PollInv, pollpc \in {"exit", "done"}, ~DieLost
    PROVE  queue = <<>> /\ running = None
BY DEF DieInv, PollInv, DieLost

\* Once the die task is lost it stays lost.
LEMMA DieLostStays == TypeOK /\ RefPoll /\ DieInv /\ DieLost /\ [Next]_vars => DieLost'
<1> SUFFICES ASSUME TypeOK, RefPoll, DieInv, DieLost, [Next]_vars PROVE DieLost'
    OBVIOUS
<1>1. CASE execute_end
  <2>1. running \in Work /\ running # Die
    BY <1>1 DEF execute_end, RefPoll, PollInv, DieInv, DieNowhere, TypeOK
  <2>2. Elems(done') = Elems(done) \union {running}
    BY <1>1, <2>1, ElemsAppend DEF execute_end, TypeOK
  <2> QED BY <1>1, <2>1, <2>2 DEF execute_end, DieLost
<1>2. CASE ~execute_end
  <2> DEFINE Kept == done' = done /\ (dead => dead')
  <2> USE DEF work, refs
  <2>1. ASSUME NEW a \in Actors, Call(a) PROVE Kept
    BY <2>1 DEF Call, ast_taskprocessor_get, taskprocessor_push, ast_taskprocessor_unreference
  <2>2. ASSUME NEW a \in Actors, Continue(a) PROVE Kept
    <3>1. CASE default_listener_start(a) \/ default_task_pushed(a) \/ pthread_join(a)
      BY <3>1 DEF default_listener_start, default_task_pushed, pthread_join
    <3>2. CASE default_listener_shutdown(a) \/ shutdown_push_failed(a) \/ shutdown_posted(a)
      BY <3>2 DEF default_listener_shutdown, shutdown_push_failed, shutdown_posted
    <3>3. CASE listener_shutdown(a)
      BY <3>3 DEF listener_shutdown
    <3> QED BY <2>2, <3>1, <3>2, <3>3 DEF Continue
  <2>3. ASSUME PollStep PROVE Kept
    BY <1>2, <2>3 DEF PollStep, poll_loop, ast_sem_wait, execute_pop, execute_empty, poll_done
  <2>4. ASSUME sem_wait_interrupted PROVE Kept
    BY <2>4 DEF sem_wait_interrupted
  <2>5. ASSUME UNCHANGED vars PROVE Kept
    BY <2>5 DEF vars
  <2>6. Kept
    BY <2>1, <2>2, <2>3, <2>4, <2>5 DEF Next
  <2> QED BY <2>6 DEF DieLost
<1> QED BY <1>1, <1>2

-----------------------------------------------------------------------------
(* The semaphore                                                           *)

LEMMA PostingFinite == IsFiniteSet(Posting) /\ Cardinality(Posting) \in Nat
BY ActorsFinite, FS_Subset, FS_CardinalityType DEF Posting

\* What an actor's move in or out of the posting states does to their number.
LEMMA PostingMove ==
    ASSUME TypeOK, NEW a \in Actors, NEW s \in ApiStates, Goto(a, s)
    PROVE  /\ (apc[a] \in {"posting", "postingDie"} /\ s \notin {"posting", "postingDie"})
                => Cardinality(Posting)' = Cardinality(Posting) - 1
           /\ (apc[a] \notin {"posting", "postingDie"} /\ s \in {"posting", "postingDie"})
                => Cardinality(Posting)' = Cardinality(Posting) + 1
           /\ (apc[a] \notin {"posting", "postingDie"} /\ s \notin {"posting", "postingDie"})
                => Posting' = Posting
<1>1. CASE apc[a] \in {"posting", "postingDie"} /\ s \notin {"posting", "postingDie"}
  <2>1. a \in Posting /\ Posting' = Posting \ {a}
    BY <1>1 DEF Posting, Goto, TypeOK
  <2>2. Cardinality(Posting \ {a}) = Cardinality(Posting) - 1
    BY <2>1, PostingFinite, FS_RemoveElement
  <2> QED BY <1>1, <2>1, <2>2
<1>2. CASE apc[a] \notin {"posting", "postingDie"} /\ s \in {"posting", "postingDie"}
  <2>1. a \notin Posting /\ Posting' = Posting \union {a}
    BY <1>2 DEF Posting, Goto, TypeOK
  <2>2. Cardinality(Posting \union {a}) = Cardinality(Posting) + 1
    BY <2>1, PostingFinite, FS_AddElement
  <2> QED BY <1>2, <2>1, <2>2
<1>3. CASE apc[a] \notin {"posting", "postingDie"} /\ s \notin {"posting", "postingDie"}
  <2>1. Posting' = Posting
    BY <1>3 DEF Posting, Goto, TypeOK
  <2> QED BY <1>3, <2>1
<1> QED BY <1>1, <1>2, <1>3

LEMMA SemInit == Init => SemInv
<1> SUFFICES ASSUME Init PROVE SemInv
    OBVIOUS
<1>1. PICK c \in Clients : apc = [a \in Actors |-> IF a = c THEN "starting" ELSE "idle"]
    BY DEF Init
<1>2. Posting = {}
    BY <1>1 DEF Posting
<1>3. Cardinality(Posting) = 0
    BY <1>2, FS_EmptySet
<1> QED BY <1>3 DEF Init, SemInv, TokenInv, Num

LEMMA SemNext == IInv /\ [Next]_vars => SemInv'
<1> SUFFICES ASSUME IInv, [Next]_vars, ~interrupted', ~DieLost' PROVE
             TokenInv'
    BY DEF SemInv
<1>a. ~DieLost
    BY DieLostStays DEF IInv, RefPoll
<1>b. ~interrupted
    BY DEF IInv, TypeOK, Next, vars, work, refs, Call, Continue, PollStep,
        ast_taskprocessor_get, taskprocessor_push, ast_taskprocessor_unreference,
        default_listener_start, default_task_pushed, default_listener_shutdown,
        shutdown_push_failed, shutdown_posted, pthread_join, listener_shutdown,
        poll_loop, ast_sem_wait, sem_wait_interrupted, execute_pop, execute_empty,
        execute_end, poll_done
<1>c. TokenInv
    BY <1>a, <1>b DEF IInv, SemInv
<1>d. /\ TypeOK /\ RefInv /\ PollInv /\ DieInv
      /\ Cardinality(Posting) \in Nat /\ sem \in Nat /\ Len(queue) \in Nat
    BY PostingFinite DEF IInv, TypeOK
<1>e. apc' = apc => Posting' = Posting
    BY DEF Posting
<1> USE DEF work, refs
<1>1. ASSUME NEW a \in Actors, ast_taskprocessor_get(a) PROVE TokenInv'
    BY <1>1, <1>c, <1>e DEF TokenInv, ast_taskprocessor_get
<1>2. ASSUME NEW a \in Actors, NEW t \in Tasks, taskprocessor_push(a, t) PROVE TokenInv'
  <2>1. Cardinality(Posting)' = Cardinality(Posting) + 1
    BY <1>2, <1>d, PostingMove DEF taskprocessor_push, CanCall, ApiStates
  <2>2. Len(queue') = Len(queue) + 1
    BY <1>2, <1>d DEF taskprocessor_push, TypeOK, Work
  <2> QED BY <1>2, <1>c, <1>d, <2>1, <2>2 DEF TokenInv, taskprocessor_push, Num
<1>3. ASSUME NEW a \in Actors, ast_taskprocessor_unreference(a) PROVE TokenInv'
  <2>1. Posting' = Posting
    BY <1>3, <1>d, <1>e, PostingMove DEF ast_taskprocessor_unreference, CanCall, ApiStates
  <2> QED BY <1>3, <1>c, <2>1 DEF TokenInv, ast_taskprocessor_unreference
<1>4. ASSUME NEW a \in Actors, default_listener_start(a) PROVE TokenInv'
  <2>1. Posting' = Posting /\ pollpc # "pop"
    BY <1>4, <1>d, PostingMove DEF default_listener_start, ApiStates, PollInv
  <2> QED BY <1>4, <1>c, <2>1 DEF TokenInv, default_listener_start, Num
<1>5. ASSUME NEW a \in Actors, default_task_pushed(a) PROVE TokenInv'
  <2>1. Cardinality(Posting)' = Cardinality(Posting) - 1
    BY <1>5, <1>d, PostingMove DEF default_task_pushed, ApiStates
  <2> QED BY <1>5, <1>c, <1>d, <2>1 DEF TokenInv, default_task_pushed, Num
<1>6. ASSUME NEW a \in Actors, default_listener_shutdown(a) PROVE TokenInv'
  <2>1. Cardinality(Posting)' = Cardinality(Posting) + 1
    BY <1>6, <1>d, PostingMove DEF default_listener_shutdown, ApiStates
  <2>2. Len(queue') = Len(queue) + 1
    BY <1>6, <1>d DEF default_listener_shutdown, TypeOK, Work
  <2> QED BY <1>6, <1>c, <1>d, <2>1, <2>2 DEF TokenInv, default_listener_shutdown, Num
<1>7. ASSUME NEW a \in Actors, shutdown_push_failed(a) PROVE TokenInv'
  \* this step loses the die task, which the assumption ~DieLost' excludes
  <2>1. DieLost'
    BY <1>7, <1>d DEF shutdown_push_failed, DieInv, DieNowhere, DieLost
  <2> QED BY <2>1
<1>8. ASSUME NEW a \in Actors, shutdown_posted(a) PROVE TokenInv'
  <2>1. Cardinality(Posting)' = Cardinality(Posting) - 1
    BY <1>8, <1>d, PostingMove DEF shutdown_posted, ApiStates
  <2> QED BY <1>8, <1>c, <1>d, <2>1 DEF TokenInv, shutdown_posted, Num
<1>9. ASSUME NEW a \in Actors, pthread_join(a) PROVE TokenInv'
  <2>1. Posting' = Posting
    BY <1>9, <1>d, PostingMove DEF pthread_join, ApiStates
  <2> QED BY <1>9, <1>c, <2>1 DEF TokenInv, pthread_join
<1>10. ASSUME NEW a \in Actors, listener_shutdown(a) PROVE TokenInv'
  <2>1. Posting' = Posting
    BY <1>10, <1>d, PostingMove DEF listener_shutdown, ApiStates
  <2>2. CASE RefCount = 1
    <3>1. pollpc = "done"
      <4>1. ~linked /\ listenerRef /\ \A b \in Actors : apc[b] # "unlinked"
        BY <1>10, <1>d DEF listener_shutdown, RefInv, ShutStates
      <4>2. ~shutdownRef
        BY <2>2, <1>d, <4>1, RefCountUnlinked DEF Num
      <4> QED BY <4>1, <4>2, <1>d DEF PollInv
    <3>2. queue = <<>>
      BY <3>1, <1>a, <1>d, ExitQueueEmpty
    <3>3. queue' = queue
      BY <1>10, <3>2 DEF listener_shutdown, tps_taskprocessor_dtor
    <3> QED BY <1>10, <1>c, <2>1, <3>3 DEF TokenInv, listener_shutdown
  <2>3. CASE RefCount # 1
    BY <1>10, <1>c, <2>1, <2>3 DEF TokenInv, listener_shutdown, tps_taskprocessor_dtor
  <2> QED BY <2>2, <2>3
<1>11. CASE poll_loop
    BY <1>11, <1>c, <1>e DEF TokenInv, poll_loop, Num
<1>12. CASE ast_sem_wait
    BY <1>12, <1>c, <1>d, <1>e DEF TokenInv, ast_sem_wait, Num
<1>13. CASE execute_pop
  <2>1. Len(queue') = Len(queue) - 1
    BY <1>13, <1>d, ElemsTail DEF execute_pop, TypeOK
  <2> QED BY <1>13, <1>c, <1>d, <1>e, <2>1 DEF TokenInv, execute_pop, Num
<1>14. CASE execute_empty
  \* impossible: a token was taken, so something is queued
  <2>1. Len(queue) = 0 /\ Num(pollpc = "pop") = 1
    BY <1>14 DEF execute_empty, Num
  <2> QED BY <1>c, <1>d, <2>1 DEF TokenInv
<1>15. CASE execute_end
    BY <1>15, <1>c, <1>e DEF TokenInv, execute_end, Num
<1>16. CASE poll_done
  <2>1. queue = <<>>
    BY <1>16, <1>a, <1>d, ExitQueueEmpty DEF poll_done
  <2>2. queue' = queue
    BY <1>16, <2>1 DEF poll_done, tps_taskprocessor_dtor
  <2> QED BY <1>16, <1>c, <1>e, <2>2 DEF TokenInv, poll_done, Num
<1>17. CASE sem_wait_interrupted
    BY <1>17 DEF sem_wait_interrupted
<1>18. CASE UNCHANGED vars
    BY <1>18, <1>c, <1>e DEF TokenInv, vars
<1> QED BY <1>1, <1>2, <1>3, <1>4, <1>5, <1>6, <1>7, <1>8, <1>9, <1>10, <1>11, <1>12,
       <1>13, <1>14, <1>15, <1>16, <1>17, <1>18 DEF Next, Call, Continue, PollStep

-----------------------------------------------------------------------------
(* No task is lost                                                         *)

LEMMA WorkInit == Init => WorkInv
BY DEF Init, WorkInv

LEMMA WorkNext == IInv /\ [Next]_vars => WorkInv'
<1> DEFINE Where == Elems(queue) \union {running} \union Elems(done)
<1> SUFFICES ASSUME IInv, [Next]_vars, ~DieLost' PROVE submitted' \subseteq Where'
    BY DEF WorkInv
<1>a. ~DieLost
    BY DieLostStays DEF IInv, RefPoll
<1>b. submitted \subseteq Where
    BY <1>a DEF IInv, WorkInv
<1>c. TypeOK /\ RefInv /\ PollInv /\ DieInv
    BY DEF IInv
<1>d. submitted \subseteq Tasks /\ None \notin Tasks
    BY <1>c, TasksAssumption DEF TypeOK
<1>1. ASSUME NEW a \in Actors, NEW t \in Tasks, taskprocessor_push(a, t)
      PROVE  submitted' \subseteq Where'
  <2>1. Elems(queue') = Elems(queue) \union {t}
    BY <1>1, <1>c, ElemsAppend DEF taskprocessor_push, TypeOK, Work
  <2> QED BY <1>1, <1>b, <2>1 DEF taskprocessor_push
<1>2. ASSUME NEW a \in Actors, default_listener_shutdown(a) PROVE submitted' \subseteq Where'
  <2>1. Elems(queue') = Elems(queue) \union {Die}
    BY <1>2, <1>c, ElemsAppend DEF default_listener_shutdown, TypeOK, Work
  <2> QED BY <1>2, <1>b, <2>1 DEF default_listener_shutdown
<1>3. ASSUME NEW a \in Actors, listener_shutdown(a) PROVE submitted' \subseteq Where'
  <2>1. CASE RefCount = 1
    <3>1. ~linked /\ listenerRef /\ \A b \in Actors : apc[b] # "unlinked"
      BY <1>3, <1>c DEF listener_shutdown, RefInv, ShutStates
    <3>2. ~shutdownRef
      BY <2>1, <1>c, <3>1, RefCountUnlinked DEF Num
    <3>3. queue = <<>>
      BY <3>1, <3>2, <1>a, <1>c, ExitQueueEmpty DEF PollInv
    <3> QED BY <1>3, <1>b, <3>3 DEF listener_shutdown, tps_taskprocessor_dtor
  <2>2. CASE RefCount # 1
    BY <1>3, <1>b, <2>2 DEF listener_shutdown, tps_taskprocessor_dtor
  <2> QED BY <2>1, <2>2
<1>4. CASE execute_pop
  <2>1. Elems(queue) = {running'} \union Elems(queue')
    BY <1>4, <1>c, ElemsTail DEF execute_pop, TypeOK
  <2>2. running = None
    BY <1>4, <1>c DEF execute_pop, PollInv
  <2> QED BY <1>4, <1>b, <1>d, <2>1, <2>2 DEF execute_pop
<1>5. CASE execute_end
  <2>1. running \in Work
    BY <1>5, <1>c DEF execute_end, PollInv, TypeOK
  <2>2. Elems(done') = Elems(done) \union {running}
    BY <1>5, <1>c, <2>1, ElemsAppend DEF execute_end, TypeOK
  <2> QED BY <1>5, <1>b, <2>2 DEF execute_end
<1>6. CASE poll_done
  <2>1. queue = <<>>
    BY <1>6, <1>a, <1>c, ExitQueueEmpty DEF poll_done
  <2> QED BY <1>6, <1>b, <2>1 DEF poll_done, tps_taskprocessor_dtor
<1>7. CASE UNCHANGED work
    BY <1>7, <1>b DEF work
<1> QED BY <1>1, <1>2, <1>3, <1>4, <1>5, <1>6, <1>7 DEF Next, vars, Call, Continue, PollStep,
        ast_taskprocessor_get, ast_taskprocessor_unreference, default_listener_start,
        default_task_pushed, shutdown_push_failed, shutdown_posted, pthread_join,
        poll_loop, ast_sem_wait, sem_wait_interrupted, execute_empty

-----------------------------------------------------------------------------
(* The theorems                                                            *)

\* The inductive invariant holds in every reachable state.
THEOREM Invariance == Spec => []IInv
<1>1. Init => IInv
    BY TypeInit, RefPollInit, DieInit, SemInit, WorkInit DEF IInv, RefPoll
<1>2. IInv /\ [Next]_vars => IInv'
    BY TypeNext, RefPollNext, DieNext, SemNext, WorkNext DEF IInv, RefPoll
<1> QED BY <1>1, <1>2, PTL DEF Spec

\* Type correctness, for any clients and tasks: in particular the semaphore is
\* never taken below zero.
THEOREM TypeCorrect == Spec => []TypeOK
<1>1. IInv => TypeOK
    BY DEF IInv
<1> QED BY <1>1, Invariance, PTL

\* The assertion "No posting to dead taskprocessor!" at the end of
\* default_tps_processing_function cannot fail unless a signal interrupted the
\* wait or the die task could not be allocated; and a signal leaves nothing queued.
THEOREM DeadIsQuiet == Spec => []NoPostToDead
<1>1. IInv => NoPostToDead
  <2> SUFFICES ASSUME IInv, pollpc \in {"exit", "done"}, ~DieLost
               PROVE  queue = <<>> /\ (~interrupted => sem = 0 /\ Posting = {})
    BY DEF NoPostToDead
  <2>1. queue = <<>>
    BY ExitQueueEmpty DEF IInv
  <2>2. ASSUME ~interrupted PROVE sem = 0 /\ Posting = {}
    <3>1. sem + Cardinality(Posting) + Num(pollpc = "pop") = 0
      BY <2>1, <2>2 DEF IInv, SemInv, TokenInv
    <3>2. sem \in Nat /\ Num(pollpc = "pop") = 0
      BY DEF IInv, TypeOK, Num
    <3>3. sem = 0 /\ Cardinality(Posting) = 0
      BY <3>1, <3>2, PostingFinite
    <3> QED BY <3>3, PostingFinite, FS_EmptySet
  <2> QED BY <2>1, <2>2
<1> QED BY <1>1, Invariance, PTL

\* When the listener's thread leaves its loop every accepted task was executed.
THEOREM NoTaskLost == Spec => []NothingLost
<1>1. IInv => NothingLost
  <2> SUFFICES ASSUME IInv, pollpc \in {"exit", "done"}, ~DieLost
               PROVE  submitted \subseteq Elems(done)
    BY DEF NothingLost
  <2>1. queue = <<>> /\ running = None
    BY ExitQueueEmpty DEF IInv
  <2>2. Elems(queue) = {} /\ None \notin submitted
    BY <2>1, TasksAssumption DEF Elems, IInv, TypeOK
  <2> QED BY <2>1, <2>2 DEF IInv, WorkInv
<1> QED BY <1>1, Invariance, PTL

\* The destructor runs after the last user of the taskprocessor is gone.
THEOREM FreeIsLast == Spec => []NoUseAfterFree
<1>1. IInv => NoUseAfterFree
  <2> SUFFICES ASSUME IInv, freed
               PROVE  holders = {} /\ ~linked /\ pollpc = "done" /\ \A a \in Actors : apc[a] = "idle"
    BY DEF NoUseAfterFree
  <2>1. ~linked /\ pollpc = "done" /\ holders = {}
    BY DEF IInv, PollInv, RefInv
  <2>2. ASSUME NEW a \in Actors PROVE apc[a] = "idle"
    <3>1. apc[a] \in ApiStates /\ apc[a] \notin ShutStates /\ apc[a] \notin {"starting", "posting"}
      BY <2>1 DEF IInv, TypeOK, RefInv
    <3> QED BY <3>1 DEF ApiStates, ShutStates
  <2> QED BY <2>1, <2>2
<1> QED BY <1>1, Invariance, PTL

\* A reference found in tps_singletons is to a taskprocessor that is not being
\* shut down.
THEOREM ReferencesAlive == Spec => []HeldIsAlive
<1>1. IInv => HeldIsAlive
    BY DEF IInv, RefInv, PollInv, DieInv, DieNowhere, HeldIsAlive
<1> QED BY <1>1, Invariance, PTL

\* The taskprocessor implements a serial executor: every step of any thread is
\* an abstract submit, begin, finish or abandon, or is invisible to it.
THEOREM Refinement == Spec => IsSerialExecutor
<1>1. Init => Serial!Init
    BY DEF Init, Serial!Init
<1>2. IInv /\ [Next]_vars => [Serial!Next]_Serial!vars
  <2> SUFFICES ASSUME IInv, [Next]_vars PROVE [Serial!Next]_Serial!vars
    OBVIOUS
  <2> USE DEF Serial!Next, Serial!vars
  <2>1. ASSUME NEW a \in Actors, NEW t \in Tasks, taskprocessor_push(a, t)
        PROVE  Serial!Submit(t) /\ t \in Work
    BY <2>1 DEF taskprocessor_push, Serial!Submit, Work
  <2>2. ASSUME NEW a \in Actors, default_listener_shutdown(a)
        PROVE  Serial!Submit(Die) /\ Die \in Work
    BY <2>2 DEF default_listener_shutdown, Serial!Submit, Work
  <2>3. ASSUME execute_pop PROVE Serial!Begin
    BY <2>3 DEF execute_pop, Serial!Begin, IInv, PollInv
  <2>4. ASSUME execute_end PROVE Serial!Finish
    BY <2>4 DEF execute_end, Serial!Finish, IInv, PollInv
  <2>5. ASSUME NEW a \in Actors, listener_shutdown(a) PROVE [Serial!Abandon]_Serial!vars
    <3>1. CASE RefCount = 1
      <4>1. ~linked /\ listenerRef /\ \A b \in Actors : apc[b] # "unlinked"
        BY <2>5 DEF listener_shutdown, IInv, RefInv, ShutStates
      <4>2. ~shutdownRef
        BY <3>1, <4>1, RefCountUnlinked DEF Num, IInv
      <4>3. running = None
        BY <4>1, <4>2 DEF IInv, PollInv
      <4> QED BY <2>5, <3>1, <4>3 DEF listener_shutdown, tps_taskprocessor_dtor, Serial!Abandon
    <3>2. CASE RefCount # 1
      BY <2>5, <3>2 DEF listener_shutdown, tps_taskprocessor_dtor
    <3> QED BY <3>1, <3>2
  <2>6. ASSUME poll_done PROVE [Serial!Abandon]_Serial!vars
    <3>1. running = None
      BY <2>6 DEF poll_done, IInv, PollInv
    <3> QED BY <2>6, <3>1 DEF poll_done, tps_taskprocessor_dtor, Serial!Abandon
  <2>7. CASE UNCHANGED work
    BY <2>7 DEF work
  <2> QED BY <2>1, <2>2, <2>3, <2>4, <2>5, <2>6, <2>7 DEF Next, vars, Call, Continue, PollStep,
        ast_taskprocessor_get, ast_taskprocessor_unreference, default_listener_start,
        default_task_pushed, shutdown_push_failed, shutdown_posted, pthread_join,
        poll_loop, ast_sem_wait, sem_wait_interrupted, execute_empty
<1> QED BY <1>1, <1>2, Invariance, PTL DEF Spec, IsSerialExecutor, Serial!Spec
=============================================================================
