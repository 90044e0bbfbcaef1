------------------------- MODULE TaskProcessorAlerts -------------------------
(***************************************************************************)
(* High water alerts (main/taskprocessor.c): every taskprocessor raises an *)
(* alert when its queue grows to its high water mark and clears it when    *)
(* the queue is back at its low water mark.  The global tps_alert_count    *)
(* and the counts kept per subsystem tell others, such as the PJSIP        *)
(* distributor, whether the system is overloaded.                          *)
(*                                                                         *)
(* A step is one critical section of a taskprocessor's lock; the locks of  *)
(* the counters are only taken inside of it.                               *)
(***************************************************************************)
EXTENDS Integers, FiniteSets

CONSTANTS
    Tps,            \* names of taskprocessors
    Subsystems,     \* names of subsystems
    NoSubsystem,    \* the empty subsystem: no '/' in the name
    subsystem,      \* subsystem[t]: what precedes the first '/' of the name
    HighWater,      \* AST_TASKPROCESSOR_HIGH_WATER_LEVEL
    Marks,          \* water marks passed to ast_taskprocessor_alert_set_levels
    MaxSize         \* bound on the length of a queue

ASSUME TpsAssumption ==
    /\ IsFiniteSet(Tps)
    /\ NoSubsystem \notin Subsystems
    /\ subsystem \in [Tps -> Subsystems \union {NoSubsystem}]
ASSUME MarksAssumption == HighWater \in Nat \ {0} /\ Marks \subseteq Int /\ MaxSize \in Nat

VARIABLES
    existing,           \* taskprocessors that exist
    tps_queue_size,
    tps_queue_low,
    tps_queue_high,
    high_water_alert,   \* the set of taskprocessors whose bit is set
    tps_alert_count,
    overloaded,         \* alert_count of each subsystem, 0 when it is not in the vector
    dropped             \* history: an entry of the vector could not be allocated

queues == <<existing, tps_queue_size, tps_queue_low, tps_queue_high>>
counts == <<tps_alert_count, overloaded, dropped>>
vars == <<queues, high_water_alert, counts>>

\* "Set low water level to 90% of high water level".
NinetyPercent(high) == (high * 9) \div 10

Init ==
    /\ existing = {}
    /\ tps_queue_size = [t \in Tps |-> 0]
    /\ tps_queue_low = [t \in Tps |-> NinetyPercent(HighWater)]
    /\ tps_queue_high = [t \in Tps |-> HighWater]
    /\ high_water_alert = {}
    /\ tps_alert_count = 0
    /\ overloaded = [s \in Subsystems |-> 0]
    /\ dropped = FALSE

-----------------------------------------------------------------------------
(* The counters                                                            *)

\* The vector's first entry of a subsystem may fail to be allocated.
subsystem_alert_increment(s) ==
    \/ /\ overloaded' = [overloaded EXCEPT ![s] = @ + 1]
       /\ UNCHANGED dropped
    \/ /\ overloaded[s] = 0
       /\ dropped' = TRUE
       /\ UNCHANGED overloaded

\* A subsystem that is not in the vector is left alone.
subsystem_alert_decrement(s) ==
    /\ overloaded' = [overloaded EXCEPT ![s] = IF @ > 0 THEN @ - 1 ELSE 0]
    /\ UNCHANGED dropped

\* Raising the alert of t, with tps_alert_add(tps, +1).
Raise(t) ==
    /\ high_water_alert' = high_water_alert \union {t}
    /\ tps_alert_count' = tps_alert_count + 1
    /\ IF subsystem[t] = NoSubsystem
        THEN UNCHANGED <<overloaded, dropped>>
        ELSE subsystem_alert_increment(subsystem[t])

\* Clearing it, with tps_alert_add(tps, -1).
Clear(t) ==
    /\ high_water_alert' = high_water_alert \ {t}
    /\ tps_alert_count' = tps_alert_count - 1
    /\ IF subsystem[t] = NoSubsystem
        THEN UNCHANGED <<overloaded, dropped>>
        ELSE subsystem_alert_decrement(subsystem[t])

Keep == UNCHANGED <<high_water_alert, counts>>

-----------------------------------------------------------------------------
(* Taskprocessors                                                          *)

\* __allocate_taskprocessor.
allocate_taskprocessor(t) ==
    /\ t \notin existing
    /\ existing' = existing \union {t}
    /\ tps_queue_size' = [tps_queue_size EXCEPT ![t] = 0]
    /\ tps_queue_low' = [tps_queue_low EXCEPT ![t] = NinetyPercent(HighWater)]
    /\ tps_queue_high' = [tps_queue_high EXCEPT ![t] = HighWater]
    /\ Keep

taskprocessor_push(t) ==
    /\ t \in existing
    /\ tps_queue_size[t] < MaxSize
    /\ tps_queue_size' = [tps_queue_size EXCEPT ![t] = @ + 1]
    /\ IF tps_queue_high[t] <= tps_queue_size[t] + 1 /\ t \notin high_water_alert
        THEN Raise(t)
        ELSE Keep
    /\ UNCHANGED <<existing, tps_queue_low, tps_queue_high>>

\* Mutant: the alert is cleared at zero instead of at the low water mark.
pop_clears_at_zero(t) ==
    /\ t \in existing
    /\ tps_queue_size[t] > 0
    /\ tps_queue_size' = [tps_queue_size EXCEPT ![t] = @ - 1]
    /\ IF t \in high_water_alert /\ tps_queue_size[t] = 1
        THEN Clear(t)
        ELSE Keep
    /\ UNCHANGED <<existing, tps_queue_low, tps_queue_high>>

tps_taskprocessor_pop(t) ==
    /\ t \in existing
    /\ tps_queue_size[t] > 0
    /\ tps_queue_size' = [tps_queue_size EXCEPT ![t] = @ - 1]
    /\ IF t \in high_water_alert /\ tps_queue_size[t] - 1 <= tps_queue_low[t]
        THEN Clear(t)
        ELSE Keep
    /\ UNCHANGED <<existing, tps_queue_low, tps_queue_high>>

\* New marks take effect at once.
ast_taskprocessor_alert_set_levels(t, low_water, high_water) ==
    LET low == IF low_water < 0 THEN NinetyPercent(high_water) ELSE low_water
        size == tps_queue_size[t]
    IN
    /\ t \in existing
    /\ high_water >= 0 /\ high_water >= low_water
    /\ tps_queue_low' = [tps_queue_low EXCEPT ![t] = low]
    /\ tps_queue_high' = [tps_queue_high EXCEPT ![t] = high_water]
    /\ IF t \in high_water_alert
        THEN IF size = 0 \/ size < low THEN Clear(t) ELSE Keep
        ELSE IF high_water < size THEN Raise(t) ELSE Keep
    /\ UNCHANGED <<existing, tps_queue_size>>

\* Mutant: a taskprocessor in alert is destroyed without telling anybody.
dtor_keeps_alert(t) ==
    /\ t \in existing
    /\ existing' = existing \ {t}
    /\ tps_queue_size' = [tps_queue_size EXCEPT ![t] = 0]
    /\ high_water_alert' = high_water_alert \ {t}
    /\ UNCHANGED <<counts, tps_queue_low, tps_queue_high>>

tps_taskprocessor_dtor(t) ==
    /\ t \in existing
    /\ existing' = existing \ {t}
    /\ tps_queue_size' = [tps_queue_size EXCEPT ![t] = 0]
    /\ IF t \in high_water_alert THEN Clear(t) ELSE Keep
    /\ UNCHANGED <<tps_queue_low, tps_queue_high>>

Next ==
    \E t \in Tps :
        \/ allocate_taskprocessor(t)
        \/ taskprocessor_push(t)
        \/ tps_taskprocessor_pop(t)
        \/ \E low, high \in Marks : ast_taskprocessor_alert_set_levels(t, low, high)
        \/ tps_taskprocessor_dtor(t)

Spec == Init /\ [][Next]_vars

-----------------------------------------------------------------------------
(* Properties                                                              *)

TypeOK ==
    /\ existing \subseteq Tps
    /\ tps_queue_size \in [Tps -> Nat]
    /\ tps_queue_low \in [Tps -> Nat]
    /\ tps_queue_high \in [Tps -> Nat]
    /\ high_water_alert \subseteq existing
    /\ tps_alert_count \in Nat
    /\ overloaded \in [Subsystems -> Nat]
    /\ dropped \in BOOLEAN

\* ast_taskprocessor_alert_get answers how many taskprocessors are in alert:
\* the unsigned counter follows every raise, clear, change of levels and
\* destruction, and so never wraps below zero.
AlertCountExact == tps_alert_count = Cardinality(high_water_alert)

\* The taskprocessors of a subsystem that are in alert.
Alerted(s) == {t \in high_water_alert : subsystem[t] = s}

\* ast_taskprocessor_get_subsystem_alert never reports more overload than there
\* is, and is exact as long as every entry of the vector could be allocated.
SubsystemCountExact ==
    \A s \in Subsystems :
        /\ overloaded[s] <= Cardinality(Alerted(s))
        /\ ~dropped => overloaded[s] = Cardinality(Alerted(s))

\* Both counters are right after any sequence of raises, clears, changes of
\* the levels, destructions and failed allocations.
CountsExact == AlertCountExact /\ SubsystemCountExact

\* The bit tells overload apart from its absence whatever the levels were set
\* to meanwhile: an alert is never left on below the low water mark or on an
\* empty queue, and never left off above the high water mark.
AlertMeansLoad ==
    \A t \in existing :
        IF t \in high_water_alert
            THEN tps_queue_size[t] > 0 /\ tps_queue_size[t] >= tps_queue_low[t]
            ELSE tps_queue_size[t] <= tps_queue_high[t]
=============================================================================
