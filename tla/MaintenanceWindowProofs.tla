----------------------- MODULE MaintenanceWindowProofs -----------------------
(***************************************************************************)
(* What is proved of MaintenanceWindow for every schedule, duration and    *)
(* search limit.                                                           *)
(***************************************************************************)
EXTENDS MaintenanceWindow, IntegerLemmas, TLAPS

\* What Next promises: when it finds a trigger, the one it returns is the first
\* after t.
LEMMA NextTriggerIsFirst ==
    ASSUME NEW T \in SUBSET Int, NEW t \in Int, Later(T, t) # {}
    PROVE  /\ NextTrigger(T, t) \in T
           /\ t < NextTrigger(T, t) /\ NextTrigger(T, t) <= t + SearchLimit
           /\ \A y \in T : t < y => NextTrigger(T, t) <= y
  <1>1. /\ Later(T, t) \in SUBSET Int /\ \A x \in Later(T, t) : t < x
        /\ SearchLimit \in Nat
    BY WindowAssumption DEF Later
  <1>2. \E x \in Later(T, t) : \A y \in Later(T, t) : x <= y
    BY <1>1, LeastOfBounded
  <1>3. /\ NextTrigger(T, t) \in Later(T, t)
        /\ \A y \in Later(T, t) : NextTrigger(T, t) <= y
    BY <1>2 DEF NextTrigger
  <1> HIDE DEF NextTrigger
  <1> QED
    BY <1>1, <1>3 DEF Later

\* Looking at one trigger is enough: when the search finds one, the test agrees
\* with the definition of a window.
LEMMA TestAgrees ==
    ASSUME NEW mc \in Configs, mc.cron = "valid", mc.Duration > 0, NEW t \in Int,
           Later(mc.triggers, t - mc.Duration) # {}
    PROVE  IsInMaintenanceWindow(mc, t) <=> Covered(mc, t)
  <1> DEFINE T == mc.triggers
             d == mc.Duration
             first == NextTrigger(T, t - d)
  <1>1. T \in SUBSET Int /\ d \in Int /\ mc # None
    BY WindowAssumption
  <1>2. /\ first \in T /\ t - d < first
        /\ \A y \in T : t - d < y => first <= y
    BY <1>1, NextTriggerIsFirst
  <1>3. first <= t <=> Covered(mc, t)
    <2> HIDE DEF first
    <2>1. ASSUME first <= t PROVE Covered(mc, t)
      BY <1>1, <1>2, <2>1 DEF Covered
    <2>2. ASSUME Covered(mc, t) PROVE first <= t
      <3>1. PICK x \in T : x <= t /\ t < x + d
        BY <2>2 DEF Covered
      <3>2. t - d < x
        BY <1>1, <3>1
      <3>3. first <= x
        BY <1>2, <3>2
      <3> QED
        BY <1>1, <1>2, <3>1, <3>3
    <2> QED
      BY <2>1, <2>2
  <1> QED
    BY <1>1, <1>3 DEF IsInMaintenanceWindow, SearchFrom

\* What is in force has passed validation, whatever was submitted: a window that
\* does not parse or has no duration never replaces it (config.go:121).
THEOREM TypeCorrect == Spec => []TypeOK
  <1>1. Init => TypeOK
    BY WindowAssumption DEF Init, TypeOK
  <1>2. TypeOK /\ [Next]_vars => TypeOK'
    BY WindowAssumption
       DEF TypeOK, Next, Advance, SetWindow, Valid, MaintenancePtr, vars
  <1> QED
    BY <1>1, <1>2, PTL DEF Spec

\* For every schedule that recurs within the search limit, whatever its
\* durations: a monitor is in its window exactly when a trigger covers the
\* present time.
THEOREM WindowIsCoveredHolds == Spec => []WindowIsCovered
  <1>1. TypeOK => WindowIsCovered
    <2> SUFFICES ASSUME TypeOK, window # None, Recurs(window)
                 PROVE  IsInMaintenanceWindow(window, now) <=> Covered(window, now)
      BY DEF WindowIsCovered
    <2>1. /\ window \in Configs /\ window.cron = "valid" /\ window.Duration > 0
          /\ window.Duration \in Int /\ now \in 0 .. MaxTime /\ MaxTime \in Nat
      BY WindowAssumption DEF TypeOK
    <2>2. now - window.Duration \in (-window.Duration) .. MaxTime
      BY <2>1
    <2>3. Later(window.triggers, now - window.Duration) # {}
      BY <2>2 DEF Recurs
    <2> QED
      BY <2>1, <2>3, TestAgrees
  <1> QED
    BY <1>1, TypeCorrect, PTL
=============================================================================
