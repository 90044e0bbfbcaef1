---------------------- MODULE TaskProcessorAlertsProofs ----------------------
(***************************************************************************)
(* Proofs about TaskProcessorAlerts, for any taskprocessors, subsystems,   *)
(* water marks and queue lengths.                                          *)
(***************************************************************************)
EXTENDS TaskProcessorAlerts, FiniteSetTheorems, TLAPS

\* The low water mark never exceeds the high one: set_levels refuses it.
MarksOrdered == \A t \in Tps : tps_queue_low[t] <= tps_queue_high[t]

IInv == TypeOK /\ MarksOrdered /\ AlertMeansLoad /\ CountsExact

LEMMA NinetyPercentBound ==
    ASSUME NEW high \in Nat
    PROVE  NinetyPercent(high) \in Nat /\ NinetyPercent(high) <= high
BY DEF NinetyPercent

LEMMA AlertsFinite ==
    ASSUME TypeOK
    PROVE  /\ IsFiniteSet(high_water_alert)
           /\ \A s \in Subsystems : IsFiniteSet(Alerted(s))
<1>1. high_water_alert \subseteq Tps
    BY DEF TypeOK
<1>2. \A s \in Subsystems : Alerted(s) \subseteq Tps
    BY <1>1 DEF Alerted
<1> QED BY <1>1, <1>2, TpsAssumption, FS_Subset

-----------------------------------------------------------------------------
(* Raising and clearing an alert keep the counters exact                   *)

LEMMA RaiseCounts ==
    ASSUME TypeOK, CountsExact, NEW t \in Tps, t \notin high_water_alert, Raise(t)
    PROVE  /\ CountsExact'
           /\ tps_alert_count' \in Nat /\ overloaded' \in [Subsystems -> Nat] /\ dropped' \in BOOLEAN
<1>1. high_water_alert' = high_water_alert \union {t} /\ tps_alert_count' = tps_alert_count + 1
    BY DEF Raise
<1>2. AlertCountExact'
    BY <1>1, AlertsFinite, FS_AddElement DEF CountsExact, AlertCountExact
<1>3. CASE subsystem[t] = NoSubsystem
  <2>1. \A s \in Subsystems : Alerted(s)' = Alerted(s)
    BY <1>1, <1>3, TpsAssumption DEF Alerted
  <2>2. UNCHANGED <<overloaded, dropped>>
    BY <1>3 DEF Raise
  <2>3. SubsystemCountExact'
    BY <2>1, <2>2 DEF CountsExact, SubsystemCountExact
  <2> QED BY <1>1, <1>2, <2>2, <2>3 DEF CountsExact, TypeOK
<1>4. CASE subsystem[t] # NoSubsystem
  <2> DEFINE u == subsystem[t]
  <2>1. u \in Subsystems /\ subsystem_alert_increment(u)
    BY <1>4, TpsAssumption DEF Raise
  <2>2. Alerted(u)' = Alerted(u) \union {t} /\ t \notin Alerted(u)
    BY <1>1 DEF Alerted
  <2>3. Cardinality(Alerted(u))' = Cardinality(Alerted(u)) + 1
    BY <2>1, <2>2, AlertsFinite, FS_AddElement
  <2>4. \A s \in Subsystems : s # u => Alerted(s)' = Alerted(s)
    BY <1>1 DEF Alerted
  <2>5. \A s \in Subsystems : Cardinality(Alerted(s)) \in Nat
    BY AlertsFinite, FS_CardinalityType
  <2>6. /\ overloaded' \in [Subsystems -> Nat] /\ dropped' \in BOOLEAN
        /\ dropped => dropped'
        /\ \A s \in Subsystems : s # u => overloaded'[s] = overloaded[s]
        /\ \/ overloaded'[u] = overloaded[u] + 1
           \/ overloaded'[u] = overloaded[u] /\ overloaded[u] = 0 /\ dropped'
    <3>1. CASE overloaded' = [overloaded EXCEPT ![u] = @ + 1] /\ UNCHANGED dropped
      <4>1. dropped' \in BOOLEAN /\ (dropped => dropped')
        BY <3>1 DEF TypeOK
      <4> QED BY <2>1, <3>1, <4>1 DEF TypeOK
    <3>2. CASE overloaded[u] = 0 /\ dropped' = TRUE /\ UNCHANGED overloaded
      <4>1. overloaded' \in [Subsystems -> Nat]
        BY <3>2 DEF TypeOK
      <4> QED BY <3>2, <4>1
    <3> QED BY <2>1, <3>1, <3>2 DEF subsystem_alert_increment
  <2>7. ASSUME NEW s \in Subsystems
        PROVE  /\ overloaded'[s] <= Cardinality(Alerted(s))'
               /\ ~dropped' => overloaded'[s] = Cardinality(Alerted(s))'
    <3>1. /\ overloaded[s] <= Cardinality(Alerted(s)) /\ overloaded[s] \in Nat
          /\ ~dropped => overloaded[s] = Cardinality(Alerted(s))
      BY DEF CountsExact, SubsystemCountExact, TypeOK
    <3>2. CASE s = u
      <4>1. CASE overloaded'[u] = overloaded[u] + 1
        BY <3>1, <3>2, <4>1, <2>3, <2>5, <2>6
      <4>2. CASE overloaded'[u] = overloaded[u] /\ overloaded[u] = 0 /\ dropped'
        BY <3>1, <3>2, <4>2, <2>3, <2>5, <2>6
      <4> QED BY <4>1, <4>2, <2>6
    <3>3. CASE s # u
      <4>1. Cardinality(Alerted(s))' = Cardinality(Alerted(s))
        BY <3>3, <2>4
      <4> QED BY <3>1, <3>3, <4>1, <2>6
    <3> QED BY <3>2, <3>3
  <2> QED BY <1>1, <1>2, <2>6, <2>7 DEF CountsExact, SubsystemCountExact, TypeOK
<1> QED BY <1>3, <1>4

LEMMA ClearCounts ==
    ASSUME TypeOK, CountsExact, NEW t \in Tps, t \in high_water_alert, Clear(t)
    PROVE  /\ CountsExact'
           /\ tps_alert_count' \in Nat /\ overloaded' \in [Subsystems -> Nat] /\ dropped' \in BOOLEAN
<1>1. high_water_alert' = high_water_alert \ {t} /\ tps_alert_count' = tps_alert_count - 1
    BY DEF Clear
<1>2. AlertCountExact' /\ tps_alert_count' \in Nat
  <2>1. /\ IsFiniteSet(high_water_alert \ {t})
        /\ Cardinality(high_water_alert \ {t}) = Cardinality(high_water_alert) - 1
    BY AlertsFinite, FS_RemoveElement
  <2> QED BY <1>1, <2>1, FS_CardinalityType DEF CountsExact, AlertCountExact
<1>3. CASE subsystem[t] = NoSubsystem
  <2>1. \A s \in Subsystems : Alerted(s)' = Alerted(s)
    BY <1>1, <1>3, TpsAssumption DEF Alerted
  <2>2. UNCHANGED <<overloaded, dropped>>
    BY <1>3 DEF Clear
  <2>3. SubsystemCountExact'
    BY <2>1, <2>2 DEF CountsExact, SubsystemCountExact
  <2> QED BY <1>2, <2>2, <2>3 DEF CountsExact, TypeOK
<1>4. CASE subsystem[t] # NoSubsystem
  <2> DEFINE u == subsystem[t]
  <2>1. u \in Subsystems /\ subsystem_alert_decrement(u)
    BY <1>4, TpsAssumption DEF Clear
  <2>2. Alerted(u)' = Alerted(u) \ {t} /\ t \in Alerted(u)
    BY <1>1 DEF Alerted
  <2>3. Cardinality(Alerted(u))' = Cardinality(Alerted(u)) - 1
    BY <2>1, <2>2, AlertsFinite, FS_RemoveElement
  <2>4. \A s \in Subsystems : s # u => Alerted(s)' = Alerted(s)
    BY <1>1 DEF Alerted
  <2>5. /\ \A s \in Subsystems : Cardinality(Alerted(s)) \in Nat
        /\ Cardinality(Alerted(u)) # 0
    BY <2>1, <2>2, AlertsFinite, FS_CardinalityType, FS_EmptySet
  <2>6. /\ overloaded' \in [Subsystems -> Nat] /\ dropped' = dropped
        /\ \A s \in Subsystems : s # u => overloaded'[s] = overloaded[s]
        /\ overloaded'[u] = IF overloaded[u] > 0 THEN overloaded[u] - 1 ELSE 0
    BY <2>1 DEF subsystem_alert_decrement, TypeOK
  <2>7. ASSUME NEW s \in Subsystems
        PROVE  /\ overloaded'[s] <= Cardinality(Alerted(s))'
               /\ ~dropped' => overloaded'[s] = Cardinality(Alerted(s))'
    <3>1. /\ overloaded[s] <= Cardinality(Alerted(s)) /\ overloaded[s] \in Nat
          /\ ~dropped => overloaded[s] = Cardinality(Alerted(s))
      BY DEF CountsExact, SubsystemCountExact, TypeOK
    <3>2. CASE s = u
      BY <3>1, <3>2, <2>3, <2>5, <2>6
    <3>3. CASE s # u
      <4>1. Cardinality(Alerted(s))' = Cardinality(Alerted(s))
        BY <3>3, <2>4
      <4> QED BY <3>1, <3>3, <4>1, <2>6
    <3> QED BY <3>2, <3>3
  <2> QED BY <1>2, <2>6, <2>7 DEF CountsExact, SubsystemCountExact, TypeOK
<1> QED BY <1>3, <1>4

LEMMA KeepCounts ==
    ASSUME TypeOK, CountsExact, Keep
    PROVE  /\ CountsExact'
           /\ tps_alert_count' \in Nat /\ overloaded' \in [Subsystems -> Nat] /\ dropped' \in BOOLEAN
<1>1. \A s \in Subsystems : Alerted(s)' = Alerted(s)
    BY DEF Alerted, Keep
<1> QED BY <1>1 DEF Keep, counts, CountsExact, AlertCountExact, SubsystemCountExact, TypeOK

-----------------------------------------------------------------------------
(* The inductive invariant                                                 *)

LEMMA InitInv == Init => IInv
<1> SUFFICES ASSUME Init PROVE IInv
    OBVIOUS
<1>1. TypeOK /\ MarksOrdered /\ AlertMeansLoad
    BY NinetyPercentBound, MarksAssumption DEF Init, TypeOK, MarksOrdered, AlertMeansLoad
<1>2. high_water_alert = {} /\ \A s \in Subsystems : Alerted(s) = {}
    BY DEF Init, Alerted
<1>3. CountsExact
    BY <1>2, FS_EmptySet DEF Init, CountsExact, AlertCountExact, SubsystemCountExact
<1> QED BY <1>1, <1>3 DEF IInv

LEMMA StepInv == IInv /\ [Next]_vars => IInv'
<1> SUFFICES ASSUME IInv, [Next]_vars PROVE IInv'
    OBVIOUS
<1> USE DEF IInv
<1>1. ASSUME NEW t \in Tps, allocate_taskprocessor(t) PROVE IInv'
  <2>1. TypeOK' /\ MarksOrdered' /\ AlertMeansLoad'
    BY <1>1, NinetyPercentBound, MarksAssumption
       DEF allocate_taskprocessor, Keep, counts, TypeOK, MarksOrdered, AlertMeansLoad
  <2> QED BY <1>1, <2>1, KeepCounts DEF allocate_taskprocessor
<1>2. ASSUME NEW t \in Tps, taskprocessor_push(t) PROVE IInv'
  <2>1. CASE tps_queue_high[t] <= tps_queue_size[t] + 1 /\ t \notin high_water_alert
    <3>1. Raise(t) /\ high_water_alert' = high_water_alert \union {t}
      BY <1>2, <2>1 DEF taskprocessor_push, Raise
    <3>2. CountsExact' /\ tps_alert_count' \in Nat /\ overloaded' \in [Subsystems -> Nat] /\ dropped' \in BOOLEAN
      BY <2>1, <3>1, RaiseCounts
    <3>3. MarksOrdered' /\ AlertMeansLoad' /\ TypeOK'
      BY <1>2, <2>1, <3>1, <3>2 DEF taskprocessor_push, TypeOK, MarksOrdered, AlertMeansLoad
    <3> QED BY <3>2, <3>3
  <2>2. CASE ~(tps_queue_high[t] <= tps_queue_size[t] + 1 /\ t \notin high_water_alert)
    <3>1. Keep
      BY <1>2, <2>2 DEF taskprocessor_push
    <3>2. MarksOrdered' /\ AlertMeansLoad' /\ TypeOK'
      BY <1>2, <2>2, <3>1 DEF taskprocessor_push, Keep, counts, TypeOK, MarksOrdered, AlertMeansLoad
    <3> QED BY <3>1, <3>2, KeepCounts
  <2> QED BY <2>1, <2>2
<1>3. ASSUME NEW t \in Tps, tps_taskprocessor_pop(t) PROVE IInv'
  <2>1. CASE t \in high_water_alert /\ tps_queue_size[t] - 1 <= tps_queue_low[t]
    <3>1. Clear(t) /\ high_water_alert' = high_water_alert \ {t}
      BY <1>3, <2>1 DEF tps_taskprocessor_pop, Clear
    <3>2. CountsExact' /\ tps_alert_count' \in Nat /\ overloaded' \in [Subsystems -> Nat] /\ dropped' \in BOOLEAN
      BY <2>1, <3>1, ClearCounts
    <3>3. MarksOrdered' /\ AlertMeansLoad' /\ TypeOK'
      BY <1>3, <2>1, <3>1, <3>2 DEF tps_taskprocessor_pop, TypeOK, MarksOrdered, AlertMeansLoad
    <3> QED BY <3>2, <3>3
  <2>2. CASE ~(t \in high_water_alert /\ tps_queue_size[t] - 1 <= tps_queue_low[t])
    <3>1. Keep
      BY <1>3, <2>2 DEF tps_taskprocessor_pop
    <3>2. MarksOrdered' /\ AlertMeansLoad' /\ TypeOK'
      BY <1>3, <2>2, <3>1 DEF tps_taskprocessor_pop, Keep, counts, TypeOK, MarksOrdered, AlertMeansLoad
    <3> QED BY <3>1, <3>2, KeepCounts
  <2> QED BY <2>1, <2>2
<1>4. ASSUME NEW t \in Tps, NEW low_water \in Marks, NEW high_water \in Marks,
             ast_taskprocessor_alert_set_levels(t, low_water, high_water)
      PROVE  IInv'
  <2> DEFINE low == IF low_water < 0 THEN NinetyPercent(high_water) ELSE low_water
             size == tps_queue_size[t]
  <2>1. high_water \in Nat /\ low \in Nat /\ low <= high_water
    BY <1>4, MarksAssumption, NinetyPercentBound DEF ast_taskprocessor_alert_set_levels
  <2>2. /\ t \in existing
        /\ tps_queue_low' = [tps_queue_low EXCEPT ![t] = low]
        /\ tps_queue_high' = [tps_queue_high EXCEPT ![t] = high_water]
        /\ UNCHANGED <<existing, tps_queue_size>>
        /\ IF t \in high_water_alert
            THEN IF size = 0 \/ size < low THEN Clear(t) ELSE Keep
            ELSE IF high_water < size THEN Raise(t) ELSE Keep
    BY <1>4 DEF ast_taskprocessor_alert_set_levels
  <2> HIDE DEF low
  <2>3. CASE Clear(t) /\ t \in high_water_alert /\ (size = 0 \/ size < low)
    <3>1. high_water_alert' = high_water_alert \ {t}
      BY <2>3 DEF Clear
    <3>2. CountsExact' /\ tps_alert_count' \in Nat /\ overloaded' \in [Subsystems -> Nat] /\ dropped' \in BOOLEAN
      BY <2>3, ClearCounts
    <3>3. MarksOrdered' /\ AlertMeansLoad' /\ TypeOK'
      BY <2>1, <2>2, <2>3, <3>1, <3>2 DEF TypeOK, MarksOrdered, AlertMeansLoad
    <3> QED BY <3>2, <3>3
  <2>4. CASE Raise(t) /\ t \notin high_water_alert /\ high_water < size
    <3>1. high_water_alert' = high_water_alert \union {t}
      BY <2>4 DEF Raise
    <3>2. CountsExact' /\ tps_alert_count' \in Nat /\ overloaded' \in [Subsystems -> Nat] /\ dropped' \in BOOLEAN
      BY <2>4, RaiseCounts
    <3>3. MarksOrdered' /\ AlertMeansLoad' /\ TypeOK'
      BY <2>1, <2>2, <2>4, <3>1, <3>2 DEF TypeOK, MarksOrdered, AlertMeansLoad
    <3> QED BY <3>2, <3>3
  <2>5. CASE Keep /\ IF t \in high_water_alert THEN size # 0 /\ ~(size < low) ELSE ~(high_water < size)
    <3>1. MarksOrdered' /\ AlertMeansLoad' /\ TypeOK'
      BY <2>1, <2>2, <2>5 DEF Keep, counts, TypeOK, MarksOrdered, AlertMeansLoad
    <3> QED BY <2>5, <3>1, KeepCounts
  <2> QED BY <2>2, <2>3, <2>4, <2>5
<1>5. ASSUME NEW t \in Tps, tps_taskprocessor_dtor(t) PROVE IInv'
  <2>1. CASE t \in high_water_alert
    <3>1. Clear(t) /\ high_water_alert' = high_water_alert \ {t}
      BY <1>5, <2>1 DEF tps_taskprocessor_dtor, Clear
    <3>2. CountsExact' /\ tps_alert_count' \in Nat /\ overloaded' \in [Subsystems -> Nat] /\ dropped' \in BOOLEAN
      BY <2>1, <3>1, ClearCounts
    <3>3. MarksOrdered' /\ AlertMeansLoad' /\ TypeOK'
      BY <1>5, <2>1, <3>1, <3>2 DEF tps_taskprocessor_dtor, TypeOK, MarksOrdered, AlertMeansLoad
    <3> QED BY <3>2, <3>3
  <2>2. CASE t \notin high_water_alert
    <3>1. Keep
      BY <1>5, <2>2 DEF tps_taskprocessor_dtor
    <3>2. MarksOrdered' /\ AlertMeansLoad' /\ TypeOK'
      BY <1>5, <2>2, <3>1 DEF tps_taskprocessor_dtor, Keep, counts, TypeOK, MarksOrdered, AlertMeansLoad
    <3> QED BY <3>1, <3>2, KeepCounts
  <2> QED BY <2>1, <2>2
<1>6. CASE UNCHANGED vars
  <2>1. TypeOK' /\ MarksOrdered' /\ AlertMeansLoad' /\ Keep
    BY <1>6 DEF vars, queues, counts, Keep, TypeOK, MarksOrdered, AlertMeansLoad
  <2> QED BY <2>1, KeepCounts
<1> QED BY <1>1, <1>2, <1>3, <1>4, <1>5, <1>6 DEF Next

-----------------------------------------------------------------------------
(* The theorems                                                            *)

\* The inductive invariant holds in every reachable state.
THEOREM AlertsInvariance == Spec => []IInv
BY InitInv, StepInv, PTL DEF Spec

\* The water marks and counters keep their types: no counter goes below zero.
THEOREM AlertsTyped == Spec => []TypeOK
<1>1. IInv => TypeOK
    BY DEF IInv
<1> QED BY <1>1, AlertsInvariance, PTL

\* ast_taskprocessor_alert_get returns the number of taskprocessors in alert,
\* and ast_taskprocessor_get_subsystem_alert the number of those of the
\* subsystem, or less when an allocation failed.
THEOREM AlertsCounted == Spec => []CountsExact
<1>1. IInv => CountsExact
    BY DEF IInv
<1> QED BY <1>1, AlertsInvariance, PTL

\* The alert bit follows the length of the queue through any sequence of
\* pushes, pops and changes of the water marks.
THEOREM AlertFollowsLoad == Spec => []AlertMeansLoad
<1>1. IInv => AlertMeansLoad
    BY DEF IInv
<1> QED BY <1>1, AlertsInvariance, PTL
=============================================================================
