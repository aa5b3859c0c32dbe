------------------------ MODULE MonitorServiceProofs ------------------------
(***************************************************************************)
(* What is proved of MonitorService for every set of names, monitors,      *)
(* checks and counters.                                                    *)
(***************************************************************************)
EXTENDS MonitorService, TLAPS

-----------------------------------------------------------------------------
(* Typing *)

\* The goroutine records the actions build are goroutine records.
LEMMA GoroutineIsTyped ==
    ASSUME NEW pc \in {"idle", "maint", "check", "load", "store", "counter",
                       "count", "update", "push"},
           NEW m \in Monitors
    PROVE  /\ IdleCheck \in GoroutineType
           /\ IdleCheck.pc = "idle"
           /\ Goroutine(pc, m) \in GoroutineType
           /\ Goroutine(pc, m).pc = pc
           /\ Goroutine(pc, m).mon = m
  <1>1. IdleCheck \in GoroutineType /\ IdleCheck.pc = "idle"
    BY ConstantsAssumption DEF IdleCheck, GoroutineType, Alerts
  <1>2. /\ Goroutine(pc, m) \in GoroutineType
        /\ Goroutine(pc, m).pc = pc
        /\ Goroutine(pc, m).mon = m
    BY <1>1 DEF Goroutine, GoroutineType
  <1> QED
    BY <1>1, <1>2

\* What a check does after the counter: it ends, or goes on to push an alert.
LEMMA PushOrEndIsTyped ==
    ASSUME NEW g \in GoroutineType, g.mon \in Monitors,
           NEW alert \in Alerts
    PROVE  /\ PushOrEnd(g, alert) \in GoroutineType
           /\ WellFormed(PushOrEnd(g, alert))
           /\ PushOrEnd(g, alert).pc \in {"idle", "push"}
           /\ PushOrEnd(g, alert).pc = "push" => PushOrEnd(g, alert).mon = g.mon
  <1> DEFINE p == Goroutine("push", g.mon)
  <1>1. /\ p \in GoroutineType /\ p.pc = "push" /\ p.mon = g.mon
        /\ IdleCheck \in GoroutineType /\ IdleCheck.pc = "idle"
    BY GoroutineIsTyped
  <1> HIDE DEF p
  <1>2. /\ [p EXCEPT !.alert = alert] \in GoroutineType
        /\ [p EXCEPT !.alert = alert].pc = "push"
        /\ [p EXCEPT !.alert = alert].mon = g.mon
        /\ [p EXCEPT !.alert = alert].alert = alert
    BY <1>1 DEF GoroutineType
  <1> USE DEF p
  <1> QED
    BY <1>1, <1>2 DEF PushOrEnd, WellFormed

\* A step that replaces the record of one goroutine by a well-formed one.
LEMMA OneGoroutineMoves ==
    ASSUME TypeOK, NEW s \in Checks, NEW r \in GoroutineType, WellFormed(r),
           chk' = [chk EXCEPT ![s] = r]
    PROVE  /\ chk' \in [Checks -> GoroutineType]
           /\ \A x \in Checks : WellFormed(chk'[x])
  BY DEF TypeOK

\* Counting one more alert of a threshold.
LEMMA AlertCountTyped ==
    ASSUME NEW f \in [Thresholds -> 0 .. 2], NEW t
    PROVE  [f EXCEPT ![t] = IF @ = 0 THEN 1 ELSE 2] \in [Thresholds -> 0 .. 2]
  <1>1. 1 \in 0 .. 2 /\ 2 \in 0 .. 2
    OBVIOUS
  <1> QED
    BY <1>1, Zenon

LEMMA InitTyped == Init => TypeOK
  <1> SUFFICES ASSUME Init PROVE TypeOK
    OBVIOUS
  <1>1. IdleCheck \in GoroutineType /\ IdleCheck.pc = "idle"
    BY ConstantsAssumption DEF IdleCheck, GoroutineType, Alerts
  <1>2. chk \in [Checks -> GoroutineType] /\ \A s \in Checks : WellFormed(chk[s])
    BY <1>1 DEF Init, WellFormed
  <1>3. api \in HandlerType /\ sched \in SchedulerType
    BY DEF Init, HandlerType, SchedulerType
  <1>4. alerts \in [Counters -> [Thresholds -> 0 .. 2]]
    BY DEF Init, ZeroAlerts
  <1> QED
    BY <1>2, <1>3, <1>4, ConstantsAssumption DEF Init, TypeOK, Alerts

\* A callback of Range leaves the rest of the cycle as it was.
LEMMA CallbackTyped ==
    ASSUME TypeOK, NEW m, sched' = [sched EXCEPT !.copied = @ \ {m}]
    PROVE  /\ sched' \in SchedulerType
           /\ \A l \in sched'.copied : l.name \notin sched'.todo
           /\ \A k, l \in sched'.copied : k.name = l.name => k = l
  BY DEF TypeOK, SchedulerType

LEMMA TypeStep == TypeOK /\ [Next]_vars => TypeOK'
  <1> SUFFICES ASSUME TypeOK, [Next]_vars PROVE TypeOK'
    OBVIOUS
  <1> USE ConstantsAssumption
  <1>1. ASSUME NEW m \in Monitors, AddWithMaintenance(m) PROVE TypeOK'
    BY <1>1 DEF AddWithMaintenance, TypeOK, HandlerType
  <1>2. ASSUME NEW m \in Monitors, NEW s \in Checks, StoreAndSpawn(m, s),
               api' \in HandlerType, api'.pc # "idle" => api'.mon \in Monitors
        PROVE  TypeOK'
    <2>1. /\ Goroutine("maint", m) \in GoroutineType
          /\ Goroutine("maint", m).pc = "maint"
          /\ Goroutine("maint", m).mon = m
      BY GoroutineIsTyped
    <2>2. m.name \in Names
      OBVIOUS
    <2>3. /\ chk' \in [Checks -> GoroutineType]
          /\ \A x \in Checks : WellFormed(chk'[x])
      BY <1>2, <2>1, OneGoroutineMoves DEF StoreAndSpawn, WellFormed
    <2> QED
      BY <1>2, <2>2, <2>3 DEF StoreAndSpawn, TypeOK
  <1>3. ASSUME NEW m \in Monitors, NEW s \in Checks, AddSystem(m, s)
        PROVE  TypeOK'
    BY <1>2, <1>3 DEF AddSystem, TypeOK
  <1>4. ASSUME NEW s \in Checks, FinishAdd(s) PROVE TypeOK'
    <2>1. api.mon \in Monitors
      BY <1>4 DEF FinishAdd, TypeOK
    <2>2. api' \in HandlerType /\ api'.pc = "idle"
      BY <1>4 DEF FinishAdd, HandlerType
    <2> QED
      BY <1>2, <1>4, <2>1, <2>2 DEF FinishAdd
  <1>5. ASSUME NEW n \in Names, Remove(n) PROVE TypeOK'
    BY <1>5 DEF Remove, TypeOK, HandlerType
  <1>6. ASSUME DeleteResult PROVE TypeOK'
    BY <1>6 DEF DeleteResult, TypeOK, HandlerType
  <1>7. ASSUME DeleteCount PROVE TypeOK'
    BY <1>7 DEF DeleteCount, TypeOK, HandlerType
  <1>8. ASSUME DeleteMaintenance PROVE TypeOK'
    BY <1>8 DEF DeleteMaintenance, TypeOK, HandlerType
  <1>9. ASSUME Tick PROVE TypeOK'
    BY <1>9 DEF Tick, TypeOK, SchedulerType
  <1>10. ASSUME NEW C \in SUBSET Names, CopyChain(C) PROVE TypeOK'
    <2>1. \A n \in C : n \in sched.todo /\ n \in Names
      BY <1>10 DEF CopyChain
    <2>2. \A m \in {monitors[n] : n \in C} \ {None} :
            m \in Monitors /\ m.name \in C /\ monitors[m.name] = m
      BY DEF TypeOK
    <2>3. /\ sched' \in SchedulerType
          /\ sched'.todo = sched.todo \ C
          /\ sched'.copied = sched.copied
                               \union ({monitors[n] : n \in C} \ {None})
      BY <1>10, <2>2 DEF CopyChain, TypeOK, SchedulerType
    <2>4. \A m \in sched'.copied : m.name \notin sched'.todo
      BY <2>2, <2>3 DEF TypeOK
    <2>5. ASSUME NEW l \in sched'.copied, NEW m \in sched'.copied,
                 l.name = m.name
          PROVE  l = m
      <3>1. CASE l.name \in C
        BY <2>1, <2>2, <2>3, <2>5, <3>1 DEF TypeOK
      <3>2. CASE l.name \notin C
        BY <2>2, <2>3, <2>5, <3>2 DEF TypeOK
      <3> QED
        BY <3>1, <3>2
    <2> QED
      BY <1>10, <2>3, <2>4, <2>5 DEF CopyChain, TypeOK
  <1>11. ASSUME NEW m \in Monitors, SkipMonitor(m) PROVE TypeOK'
    BY <1>11, CallbackTyped DEF SkipMonitor, TypeOK
  <1>12. ASSUME NEW m \in Monitors, NEW s \in Checks, SpawnCheck(m, s)
         PROVE  TypeOK'
    <2>1. /\ Goroutine("check", m) \in GoroutineType
          /\ Goroutine("check", m).pc = "check"
          /\ Goroutine("check", m).mon \in Monitors
      BY GoroutineIsTyped
    <2>2. /\ sched' \in SchedulerType
          /\ \A l \in sched'.copied : l.name \notin sched'.todo
          /\ \A k, l \in sched'.copied : k.name = l.name => k = l
      BY <1>12, CallbackTyped DEF SpawnCheck
    <2>3. /\ chk' \in [Checks -> GoroutineType]
          /\ \A x \in Checks : WellFormed(chk'[x])
      BY <1>12, <2>1, OneGoroutineMoves DEF SpawnCheck, WellFormed
    <2> QED
      BY <1>12, <2>2, <2>3 DEF SpawnCheck, TypeOK
  <1>13. ASSUME RangeEnd PROVE TypeOK'
    BY <1>13 DEF RangeEnd, TypeOK, SchedulerType
  <1>14. ASSUME NEW s \in Checks, MaintenanceTest(s) PROVE TypeOK'
    <2> DEFINE m == chk[s].mon
    <2>1. /\ IdleCheck \in GoroutineType /\ IdleCheck.pc = "idle"
          /\ Goroutine("check", m) \in GoroutineType
          /\ Goroutine("check", m).pc = "check"
          /\ Goroutine("check", m).mon \in Monitors
      BY <1>14, GoroutineIsTyped DEF MaintenanceTest, TypeOK, WellFormed
    <2>2. /\ chk' \in [Checks -> GoroutineType]
          /\ \A x \in Checks : WellFormed(chk'[x])
      BY <1>14, <2>1, OneGoroutineMoves DEF MaintenanceTest, WellFormed
    <2> QED
      BY <1>14, <2>2 DEF MaintenanceTest, TypeOK
  <1>15. ASSUME NEW s \in Checks, CheckReturns(s) PROVE TypeOK'
    <2> DEFINE r == [chk[s] EXCEPT !.pc = "load", !.status = health[chk[s].mon.name]]
    <2>1. /\ chk[s] \in GoroutineType /\ chk[s].mon \in Monitors
          /\ chk[s].mon.name \in Names
      BY <1>15 DEF CheckReturns, TypeOK, WellFormed
    <2>2. health[chk[s].mon.name] \in Statuses
      BY <1>15, <2>1 DEF CheckReturns, TypeOK, WellFormed
    <2>3. /\ r \in GoroutineType /\ r.mon = chk[s].mon
          /\ r.pc = "load" /\ r.status \in Statuses
      BY <2>1, <2>2 DEF GoroutineType
    <2>4. chk' = [chk EXCEPT ![s] = r]
      BY <1>15 DEF CheckReturns, TypeOK
    <2> HIDE DEF r
    <2>5. /\ chk' \in [Checks -> GoroutineType]
          /\ \A x \in Checks : WellFormed(chk'[x])
      BY <2>1, <2>3, <2>4, OneGoroutineMoves DEF WellFormed
    <2> QED
      BY <1>15, <2>1, <2>2, <2>5 DEF CheckReturns, TypeOK
  <1>16. ASSUME NEW s \in Checks, LoadPrevious(s) PROVE TypeOK'
    <2> DEFINE r == [chk[s] EXCEPT !.pc = "store", !.prev = result[chk[s].mon.name]]
    <2>1. /\ chk[s] \in GoroutineType /\ chk[s].mon \in Monitors
          /\ chk[s].mon.name \in Names
      BY <1>16 DEF LoadPrevious, TypeOK, WellFormed
    <2>2. /\ result[chk[s].mon.name] \in Statuses \union {None}
          /\ chk[s].status \in Statuses
      BY <1>16, <2>1 DEF LoadPrevious, TypeOK, WellFormed
    <2>3. /\ r \in GoroutineType /\ r.mon = chk[s].mon
          /\ r.pc = "store" /\ r.status \in Statuses
      BY <2>1, <2>2 DEF GoroutineType
    <2>4. chk' = [chk EXCEPT ![s] = r]
      BY <1>16 DEF LoadPrevious, TypeOK
    <2> HIDE DEF r
    <2>5. /\ chk' \in [Checks -> GoroutineType]
          /\ \A x \in Checks : WellFormed(chk'[x])
      BY <2>1, <2>3, <2>4, OneGoroutineMoves DEF WellFormed
    <2> QED
      BY <1>16, <2>1, <2>2, <2>5 DEF LoadPrevious, TypeOK
  <1>17. ASSUME NEW s \in Checks, StoreResult(s) PROVE TypeOK'
    <2> DEFINE r == [chk[s] EXCEPT !.pc = "counter"]
    <2>1. /\ chk[s] \in GoroutineType /\ chk[s].mon \in Monitors
          /\ chk[s].mon.name \in Names
      BY <1>17 DEF StoreResult, TypeOK, WellFormed
    <2>2. chk[s].status \in Statuses
      BY <1>17, <2>1 DEF StoreResult, TypeOK, WellFormed
    <2>3. /\ r \in GoroutineType /\ r.mon = chk[s].mon
          /\ r.pc = "counter" /\ r.status \in Statuses
      BY <2>1, <2>2 DEF GoroutineType
    <2>4. chk' = [chk EXCEPT ![s] = r]
      BY <1>17 DEF StoreResult, TypeOK
    <2> HIDE DEF r
    <2>5. /\ chk' \in [Checks -> GoroutineType]
          /\ \A x \in Checks : WellFormed(chk'[x])
      BY <2>1, <2>3, <2>4, OneGoroutineMoves DEF WellFormed
    <2> QED
      BY <1>17, <2>1, <2>2, <2>5 DEF StoreResult, TypeOK
  <1>18. ASSUME NEW s \in Checks, LoadCounter(s) PROVE TypeOK'
    <2> DEFINE r == [chk[s] EXCEPT !.pc = "count", !.ctr = failureCount[chk[s].mon.name]]
    <2>1. /\ chk[s] \in GoroutineType /\ chk[s].mon \in Monitors
          /\ chk[s].mon.name \in Names
      BY <1>18 DEF LoadCounter, TypeOK, WellFormed
    <2>2. /\ failureCount[chk[s].mon.name] \in Counters
          /\ chk[s].status \in Statuses
      BY <1>18, <2>1 DEF LoadCounter, TypeOK, WellFormed
    <2>3. /\ r \in GoroutineType /\ r.mon = chk[s].mon
          /\ r.pc = "count" /\ r.status \in Statuses /\ r.ctr \in Counters
      BY <2>1, <2>2 DEF GoroutineType
    <2>4. chk' = [chk EXCEPT ![s] = r]
      BY <1>18 DEF LoadCounter, TypeOK
    <2> HIDE DEF r
    <2>5. /\ chk' \in [Checks -> GoroutineType]
          /\ \A x \in Checks : WellFormed(chk'[x])
      BY <2>1, <2>3, <2>4, OneGoroutineMoves DEF WellFormed
    <2> QED
      BY <1>18, <2>1, <2>2, <2>5 DEF LoadCounter, TypeOK
  <1>19. ASSUME NEW s \in Checks, NEW c \in Counters, StoreCounter(s, c)
         PROVE  TypeOK'
    <2> DEFINE r == [chk[s] EXCEPT !.pc = "count", !.ctr = c]
    <2>1. /\ chk[s] \in GoroutineType /\ chk[s].mon \in Monitors
          /\ chk[s].mon.name \in Names
      BY <1>19 DEF StoreCounter, TypeOK, WellFormed
    <2>2. /\ chk[s].status \in Statuses
          /\ count' \in [Counters -> 0 .. MaxCount]
          /\ alerts' \in [Counters -> [Thresholds -> 0 .. 2]]
      BY <1>19, <2>1 DEF StoreCounter, TypeOK, ZeroAlerts, WellFormed
    <2>3. /\ r \in GoroutineType /\ r.mon = chk[s].mon
          /\ r.pc = "count" /\ r.status \in Statuses /\ r.ctr \in Counters
      BY <2>1, <2>2 DEF GoroutineType
    <2>4. chk' = [chk EXCEPT ![s] = r]
      BY <1>19 DEF StoreCounter, TypeOK
    <2> HIDE DEF r
    <2>5. /\ chk' \in [Checks -> GoroutineType]
          /\ \A x \in Checks : WellFormed(chk'[x])
      BY <2>1, <2>3, <2>4, OneGoroutineMoves DEF WellFormed
    <2> QED
      BY <1>19, <2>1, <2>2, <2>5 DEF StoreCounter, TypeOK
  <1>20. ASSUME NEW s \in Checks, LoadCount(s) PROVE TypeOK'
    <2> DEFINE r == [chk[s] EXCEPT !.pc = "update", !.prevCount = count[chk[s].ctr]]
    <2>1. /\ chk[s] \in GoroutineType /\ chk[s].mon \in Monitors
          /\ chk[s].mon.name \in Names
      BY <1>20 DEF LoadCount, TypeOK, WellFormed
    <2>2. /\ chk[s].status \in Statuses /\ chk[s].ctr \in Counters
          /\ count[chk[s].ctr] \in 0 .. MaxCount
      BY <1>20, <2>1 DEF LoadCount, TypeOK, WellFormed
    <2>3. /\ r \in GoroutineType /\ r.mon = chk[s].mon
          /\ r.pc = "update" /\ r.status \in Statuses /\ r.ctr \in Counters
      BY <2>1, <2>2 DEF GoroutineType
    <2>4. chk' = [chk EXCEPT ![s] = r]
      BY <1>20 DEF LoadCount, TypeOK
    <2> HIDE DEF r
    <2>5. /\ chk' \in [Checks -> GoroutineType]
          /\ \A x \in Checks : WellFormed(chk'[x])
      BY <2>1, <2>3, <2>4, OneGoroutineMoves DEF WellFormed
    <2> QED
      BY <1>20, <2>1, <2>2, <2>5 DEF LoadCount, TypeOK
  <1>21. ASSUME NEW s \in Checks, RecordFailure(s) PROVE TypeOK'
    <2> DEFINE g == chk[s]
               current == Incremented(g)
               alert == IF ThresholdMet(g, current) THEN "down" ELSE "none"
    <2>1. /\ g \in GoroutineType /\ g.mon \in Monitors /\ g.ctr \in Counters
          /\ alert \in Alerts
      BY <1>21 DEF RecordFailure, TypeOK, WellFormed, Alerts
    <2>2. /\ PushOrEnd(g, alert) \in GoroutineType
          /\ WellFormed(PushOrEnd(g, alert))
      BY <2>1, PushOrEndIsTyped
    <2>3. current \in 0 .. MaxCount
      BY <2>1 DEF Incremented, TypeOK
    <2>4. count' \in [Counters -> 0 .. MaxCount]
      BY <1>21, <2>3 DEF RecordFailure, TypeOK
    <2>5. alerts' \in [Counters -> [Thresholds -> 0 .. 2]]
      <3> DEFINE more == [alerts[g.ctr] EXCEPT ![g.mon.alertThreshold] =
                            IF @ = 0 THEN 1 ELSE 2]
      <3>1. more \in [Thresholds -> 0 .. 2]
        BY <2>1, AlertCountTyped DEF TypeOK
      <3>2. \/ alerts' = alerts
            \/ alerts' = [alerts EXCEPT ![g.ctr] = more]
        BY <1>21 DEF RecordFailure
      <3> HIDE DEF more
      <3> QED
        BY <3>1, <3>2 DEF TypeOK
    <2>6. chk' = [chk EXCEPT ![s] = PushOrEnd(g, alert)]
      BY <1>21 DEF RecordFailure
    <2> HIDE DEF alert, current
    <2>7. /\ chk' \in [Checks -> GoroutineType]
          /\ \A x \in Checks : WellFormed(chk'[x])
      BY <2>2, <2>6, OneGoroutineMoves
    <2> QED
      BY <1>21, <2>4, <2>5, <2>7 DEF RecordFailure, TypeOK
  <1>22. ASSUME NEW s \in Checks, RecordSuccess(s) PROVE TypeOK'
    <2> DEFINE g == chk[s]
               alert == IF Recovered(g) THEN "ok" ELSE "none"
    <2>1. /\ g \in GoroutineType /\ g.mon \in Monitors /\ g.ctr \in Counters
          /\ alert \in Alerts
      BY <1>22 DEF RecordSuccess, TypeOK, WellFormed, Alerts
    <2>2. /\ PushOrEnd(g, alert) \in GoroutineType
          /\ WellFormed(PushOrEnd(g, alert))
      BY <2>1, PushOrEndIsTyped
    <2>3. count' \in [Counters -> 0 .. MaxCount]
      <3>1. count' = [count EXCEPT ![g.ctr] = 0] /\ 0 \in 0 .. MaxCount
        BY <1>22 DEF RecordSuccess, AfterSuccess
      <3> QED
        BY <3>1 DEF TypeOK
    <2>4. alerts' \in [Counters -> [Thresholds -> 0 .. 2]]
      <3>1. alerts' = [alerts EXCEPT ![g.ctr] = ZeroAlerts]
        BY <1>22 DEF RecordSuccess
      <3>2. ZeroAlerts \in [Thresholds -> 0 .. 2]
        BY DEF ZeroAlerts
      <3> QED
        BY <3>1, <3>2 DEF TypeOK
    <2>5. chk' = [chk EXCEPT ![s] = PushOrEnd(g, alert)]
      BY <1>22 DEF RecordSuccess
    <2> HIDE DEF alert
    <2>6. /\ chk' \in [Checks -> GoroutineType]
          /\ \A x \in Checks : WellFormed(chk'[x])
      BY <2>2, <2>5, OneGoroutineMoves
    <2> QED
      BY <1>22, <2>3, <2>4, <2>6 DEF RecordSuccess, TypeOK
  <1>23. ASSUME NEW s \in Checks, Push(s) PROVE TypeOK'
    <2>1. IdleCheck \in GoroutineType /\ IdleCheck.pc = "idle"
      BY DEF IdleCheck, GoroutineType, Alerts
    <2>2. chk[s].alert \in Alerts
      BY DEF TypeOK, GoroutineType
    <2>3. /\ chk' \in [Checks -> GoroutineType]
          /\ \A x \in Checks : WellFormed(chk'[x])
      BY <1>23, <2>1, OneGoroutineMoves DEF Push, WellFormed
    <2> QED
      BY <1>23, <2>2, <2>3 DEF Push, TypeOK
  <1>24. ASSUME NEW n \in Names, HealthChanges(n) PROVE TypeOK'
    BY <1>24 DEF HealthChanges, TypeOK
  <1>25. ASSUME TimePasses PROVE TypeOK'
    BY <1>25 DEF TimePasses, TypeOK
  <1>26. ASSUME UNCHANGED vars PROVE TypeOK'
    BY <1>26 DEF vars, TypeOK
  <1> QED
    BY <1>1, <1>3, <1>4, <1>5, <1>6, <1>7, <1>8, <1>9, <1>10, <1>11, <1>12,
       <1>13, <1>14, <1>15, <1>16, <1>17, <1>18, <1>19, <1>20, <1>21, <1>22,
       <1>23, <1>24, <1>25, <1>26
       DEF Next, Request, Handler, Scheduler, Check, Environment

\* Every reachable state is well typed: a map holds only what the code stores in
\* it, under its own name, and a check past LoadOrStore (monitors.go:269) has a
\* counter, although the map entry may be gone by then.
THEOREM TypeCorrect == Spec => []TypeOK
  <1>1. Init => TypeOK
    BY InitTyped
  <1>2. TypeOK /\ [Next]_vars => TypeOK'
    BY TypeStep
  <1> QED
    BY <1>1, <1>2, PTL DEF Spec

-----------------------------------------------------------------------------
(* What a step does to the goroutines and to the counters *)

LEMMA ThresholdsArePositive ==
    \A t \in Thresholds : t \in Nat /\ 0 < t /\ t < MaxCount
  BY ConstantsAssumption DEF Thresholds

\* A step of a check is a step of one goroutine that runs, which ends or goes on
\* with the same instance.
LEMMA CheckMoves ==
    ASSUME TypeOK, NEW s \in Checks, Check(s)
    PROVE  /\ chk[s].pc # "idle"
           /\ chk[s].mon \in Monitors
           /\ chk'[s].pc = "idle" \/ chk'[s].mon = chk[s].mon
           /\ \A x \in Checks : x # s => chk'[x] = chk[x]
           /\ UNCHANGED <<monitors, maintenance, api, sched, quiet>>
  <1>1. /\ chk[s].pc # "idle" /\ chk[s].mon \in Monitors
        /\ chk[s] \in GoroutineType
    BY DEF Check, MaintenanceTest, CheckReturns, LoadPrevious, StoreResult,
       LoadCounter, StoreCounter, LoadCount, RecordFailure, RecordSuccess,
       Push, TypeOK, WellFormed
  <1>2. \A x \in Checks : x # s => chk'[x] = chk[x]
    BY DEF Check, MaintenanceTest, CheckReturns, LoadPrevious, StoreResult,
       LoadCounter, StoreCounter, LoadCount, RecordFailure, RecordSuccess,
       Push, TypeOK
  <1>3. UNCHANGED <<monitors, maintenance, api, sched, quiet>>
    BY DEF Check, MaintenanceTest, CheckReturns, LoadPrevious, StoreResult,
       LoadCounter, StoreCounter, LoadCount, RecordFailure, RecordSuccess, Push
  <1>4. chk'[s].pc = "idle" \/ chk'[s].mon = chk[s].mon
    <2>1. CASE RecordFailure(s) \/ RecordSuccess(s)
      <3>1. \E alert \in Alerts : chk'[s] = PushOrEnd(chk[s], alert)
        BY <2>1 DEF RecordFailure, RecordSuccess, TypeOK, Alerts
      <3> QED
        BY <1>1, <3>1, PushOrEndIsTyped
    <2>2. CASE MaintenanceTest(s)
      <3>1. chk'[s] = IdleCheck \/ chk'[s] = Goroutine("check", chk[s].mon)
        BY <2>2 DEF MaintenanceTest, TypeOK
      <3> QED
        BY <1>1, <3>1, GoroutineIsTyped
    <2>3. CASE Push(s)
      BY <2>3 DEF Push, IdleCheck, TypeOK
    <2> QED
      BY <1>1, <2>1, <2>2, <2>3 DEF Check, CheckReturns, LoadPrevious,
         StoreResult, LoadCounter, StoreCounter, LoadCount, TypeOK,
         GoroutineType
  <1> QED
    BY <1>1, <1>2, <1>3, <1>4

\* A goroutine starts for the instance an API call has just stored, or for the
\* one the cycle had copied, which it uses up.
LEMMA SpawnEffect ==
    ASSUME TypeOK, NEW s \in Checks,
           \/ FinishAdd(s)
           \/ \E m \in Monitors : SpawnCheck(m, s) \/ AddSystem(m, s)
    PROVE  /\ chk[s].pc = "idle"
           /\ chk'[s].pc \in {"maint", "check"}
           /\ chk'[s].mon \in Monitors
           /\ \A x \in Checks : x # s => chk'[x] = chk[x]
           /\ UNCHANGED <<result, failureCount, maintenance, count, alerts, told,
                          health, open>>
           /\ \/ /\ chk'[s].mon \in sched.copied
                 /\ sched' = [sched EXCEPT !.copied = @ \ {chk'[s].mon}]
                 /\ UNCHANGED <<monitors, api>>
              \/ /\ monitors' = [monitors EXCEPT ![chk'[s].mon.name] = chk'[s].mon]
                 /\ api.pc \in {"idle", "add"} /\ api'.pc = "idle"
                 /\ UNCHANGED sched
  <1>1. ASSUME NEW m \in Monitors, StoreAndSpawn(m, s)
        PROVE  /\ chk[s].pc = "idle"
               /\ chk'[s].pc = "maint" /\ chk'[s].mon = m
               /\ \A x \in Checks : x # s => chk'[x] = chk[x]
               /\ UNCHANGED <<result, failureCount, maintenance, count, alerts,
                              told, health, open, sched>>
               /\ monitors' = [monitors EXCEPT ![m.name] = m]
    BY <1>1, GoroutineIsTyped DEF StoreAndSpawn, TypeOK
  <1>2. ASSUME NEW m \in Monitors, SpawnCheck(m, s)
        PROVE  /\ chk[s].pc = "idle"
               /\ chk'[s].pc = "check" /\ chk'[s].mon = m
               /\ \A x \in Checks : x # s => chk'[x] = chk[x]
               /\ m \in sched.copied
               /\ sched' = [sched EXCEPT !.copied = @ \ {m}]
               /\ UNCHANGED <<result, failureCount, maintenance, count, alerts,
                              told, health, open, monitors, api>>
    <2>1. chk'[s] = Goroutine("check", m)
      BY <1>2 DEF SpawnCheck, TypeOK
    <2> QED
      BY <1>2, <2>1, GoroutineIsTyped DEF SpawnCheck, TypeOK
  <1>3. CASE FinishAdd(s)
    <2>1. api.mon \in Monitors
      BY <1>3 DEF FinishAdd, TypeOK
    <2> QED
      BY <1>1, <1>3, <2>1 DEF FinishAdd
  <1>4. ASSUME NEW m \in Monitors, AddSystem(m, s)
        PROVE  /\ StoreAndSpawn(m, s) /\ api.pc = "idle" /\ api'.pc = "idle"
    BY <1>4 DEF AddSystem
  <1> QED
    BY <1>1, <1>2, <1>3, <1>4

\* The kinds of step, by what they do to the goroutines.
LEMMA StepKinds ==
    ASSUME Next
    PROVE  \/ \E s \in Checks : Check(s)
           \/ \E s \in Checks : FinishAdd(s)
           \/ \E s \in Checks, m \in Monitors : SpawnCheck(m, s) \/ AddSystem(m, s)
           \/ /\ \/ \E n \in Names : Remove(n)
                 \/ DeleteResult
                 \/ DeleteCount
                 \/ DeleteMaintenance
              /\ UNCHANGED <<chk, count, alerts, told>>
           \/ UNCHANGED <<chk, result, failureCount, count, alerts, told>>
  BY DEF Next, Request, Handler, Scheduler, Environment, AddWithMaintenance,
         Remove, DeleteResult, DeleteCount, DeleteMaintenance, Tick, CopyChain,
         SkipMonitor, RangeEnd, HealthChanges, TimePasses

\* The only step that gives a counter a new owner takes one nobody owns.
LEMMA NewOwners ==
    ASSUME TypeOK, [Next]_vars, NEW c \in Counters, NEW n \in Names,
           Owns(n, c)'
    PROVE  \/ Owns(n, c)
           \/ \E s \in Checks : /\ StoreCounter(s, c)
                                /\ chk[s].mon.name = n
                                /\ \A x \in Names : ~Owns(x, c)
  <1> USE ConstantsAssumption
  <1>1. ASSUME NEW s \in Checks, Check(s)
        PROVE  \/ Owns(n, c)
               \/ /\ StoreCounter(s, c)
                  /\ chk[s].mon.name = n
                  /\ \A x \in Names : ~Owns(x, c)
    <2> DEFINE own == chk[s].mon.name
    <2>1. /\ chk[s] \in GoroutineType /\ own \in Names
          /\ chk'[s].pc = "idle" \/ chk'[s].mon.name = own
          /\ \A x \in Checks : x # s => chk'[x] = chk[x]
      BY <1>1, CheckMoves DEF TypeOK
    <2>2. CASE LoadCounter(s)
      BY <1>1, <2>1, <2>2 DEF Owns, LoadCounter, TypeOK, GoroutineType
    <2>3. ASSUME NEW d \in Counters, StoreCounter(s, d)
          PROVE  \/ Owns(n, c)
                 \/ /\ d = c
                    /\ own = n
                    /\ \A x \in Names : ~Owns(x, c)
      <3>1. \A x \in Names : ~Owns(x, d)
        BY <2>3 DEF StoreCounter, FreeCounters, Owns
      <3>2. failureCount' = [failureCount EXCEPT ![own] = d]
            /\ chk'[s].ctr = d
        BY <2>1, <2>3 DEF StoreCounter, TypeOK, GoroutineType
      <3>3. Owns(n, c) \/ (d = c /\ own = n)
        BY <2>1, <3>2 DEF Owns, TypeOK
      <3> QED
        BY <3>1, <3>3
    <2>4. CASE LoadCount(s)
      BY <2>1, <2>4 DEF Owns, LoadCount, TypeOK, GoroutineType
    <2>5. CASE \/ MaintenanceTest(s) \/ CheckReturns(s) \/ LoadPrevious(s)
               \/ StoreResult(s) \/ RecordFailure(s) \/ RecordSuccess(s)
               \/ Push(s)
      <3>1. chk'[s].pc \notin {"count", "update"} /\ failureCount' = failureCount
        <4>1. CASE RecordFailure(s) \/ RecordSuccess(s)
          <5>1. \E alert \in Alerts : chk'[s] = PushOrEnd(chk[s], alert)
            BY <4>1 DEF RecordFailure, RecordSuccess, TypeOK, Alerts
          <5>2. chk'[s].pc \in {"idle", "push"}
            BY <1>1, <2>1, <5>1, CheckMoves, PushOrEndIsTyped
          <5> QED
            BY <4>1, <5>2 DEF RecordFailure, RecordSuccess
        <4>2. CASE MaintenanceTest(s)
          <5>1. chk'[s] = IdleCheck \/ chk'[s] = Goroutine("check", chk[s].mon)
            BY <4>2 DEF MaintenanceTest, TypeOK
          <5>2. chk'[s].pc \in {"idle", "check"}
            BY <1>1, <5>1, CheckMoves, GoroutineIsTyped
          <5> QED
            BY <4>2, <5>2 DEF MaintenanceTest
        <4>3. CASE Push(s)
          BY <4>3 DEF Push, IdleCheck, TypeOK
        <4> QED
          BY <2>1, <2>5, <4>1, <4>2, <4>3
             DEF CheckReturns, LoadPrevious, StoreResult, TypeOK, GoroutineType
      <3> QED
        BY <2>1, <3>1 DEF Owns
    <2> QED
      BY <1>1, <2>2, <2>3, <2>4, <2>5 DEF Check
  <1>2. ASSUME NEW s \in Checks,
               \/ FinishAdd(s)
               \/ \E m \in Monitors : SpawnCheck(m, s) \/ AddSystem(m, s)
        PROVE  Owns(n, c)
    BY <1>2, SpawnEffect DEF Owns
  <1>3. CASE \/ \E x \in Names : Remove(x)
             \/ DeleteResult \/ DeleteCount \/ DeleteMaintenance
    BY <1>3 DEF Owns, Remove, DeleteResult, DeleteCount, DeleteMaintenance, TypeOK
  <1>4. CASE UNCHANGED <<chk, failureCount>>
    BY <1>4 DEF Owns
  <1>5. CASE UNCHANGED vars
    BY <1>4, <1>5 DEF vars
  <1> QED
    BY <1>1, <1>2, <1>3, <1>4, <1>5, StepKinds

LEMMA OneOwnerStep ==
    TypeOK /\ OneOwner /\ [Next]_vars => OneOwner'
  <1> SUFFICES ASSUME TypeOK, OneOwner, [Next]_vars,
                      NEW c \in Counters, NEW n1 \in Names, NEW n2 \in Names,
                      Owns(n1, c)', Owns(n2, c)'
               PROVE  n1 = n2
    BY DEF OneOwner
  <1>1. CASE Owns(n1, c) \/ Owns(n2, c)
    BY <1>1, NewOwners DEF OneOwner
  <1>2. CASE ~Owns(n1, c) /\ ~Owns(n2, c)
    <2>1. PICK s1 \in Checks : StoreCounter(s1, c) /\ chk[s1].mon.name = n1
      BY <1>2, NewOwners
    <2>2. PICK s2 \in Checks : StoreCounter(s2, c) /\ chk[s2].mon.name = n2
      BY <1>2, NewOwners
    <2>3. s1 = s2
      <3>1. chk[s1].pc = "counter" /\ chk'[s1].pc = "count"
        BY <2>1 DEF StoreCounter, TypeOK, GoroutineType
      <3>2. \A x \in Checks : x # s2 => chk'[x] = chk[x]
        BY <2>2 DEF StoreCounter, TypeOK
      <3> QED
        BY <3>1, <3>2
    <2> QED
      BY <2>1, <2>2, <2>3
  <1> QED
    BY <1>1, <1>2

\* No two names ever count their failures in one cell, whatever removals and
\* overlapping checks do to the map (monitors.go:163, :269).
THEOREM OneOwnerHolds == Spec => []OneOwner
  <1>1. Init => OneOwner
    BY ConstantsAssumption DEF Init, OneOwner, Owns, IdleCheck
  <1>2. TypeOK /\ OneOwner /\ [Next]_vars => OneOwner'
    BY OneOwnerStep
  <1> QED
    BY <1>1, <1>2, TypeCorrect, PTL DEF Spec

-----------------------------------------------------------------------------
(* Failure alerts *)

\* The alerts of a counter follow its value: a threshold has been alerted only
\* if the counter has reached it since the last success, and then once.
AlertsFollowCount ==
    \A c \in Counters, t \in Thresholds :
        /\ alerts[c][t] <= 1
        /\ count[c] < t => alerts[c][t] = 0

\* The instances of a name, which replace each other, have one threshold...
UniformThreshold ==
    \A m1, m2 \in Monitors :
        m1.name = m2.name => m1.alertThreshold = m2.alertThreshold

\* ... and it has been alerted as soon as a counter of the name has reached it.
ReachedIsAlerted ==
    \A m \in Monitors, c \in Counters :
        Owns(m.name, c) /\ count[c] >= m.alertThreshold =>
            alerts[c][m.alertThreshold] >= 1

\* Only these three actions touch a counter.
LEMMA CounterSteps ==
    ASSUME Next
    PROVE  \/ UNCHANGED <<count, alerts>>
           \/ \E s \in Checks, c \in Counters : StoreCounter(s, c)
           \/ \E s \in Checks : RecordFailure(s)
           \/ \E s \in Checks : RecordSuccess(s)
  BY DEF Next, Request, Handler, Scheduler, Check, Environment,
         AddWithMaintenance, StoreAndSpawn, FinishAdd, AddSystem, Remove,
         DeleteResult, DeleteCount, DeleteMaintenance, Tick, CopyChain,
         SkipMonitor, SpawnCheck, RangeEnd, MaintenanceTest, CheckReturns,
         LoadPrevious, StoreResult, LoadCounter, LoadCount, Push,
         HealthChanges, TimePasses

\* What a failure does to the counter of goroutine s and to its alerts.
LEMMA FailureEffect ==
    ASSUME TypeOK, NEW s \in Checks, RecordFailure(s),
           NEW c \in Counters, NEW t \in Thresholds
    PROVE  LET k == count[c]
           IN  \/ count'[c] = k /\ alerts'[c][t] = alerts[c][t]
               \/ /\ c = chk[s].ctr
                  /\ count'[c] = IF k < MaxCount THEN k + 1 ELSE MaxCount
                  /\ alerts'[c][t] =
                       IF count'[c] = chk[s].mon.alertThreshold
                            /\ t = chk[s].mon.alertThreshold
                       THEN IF alerts[c][t] = 0 THEN 1 ELSE 2
                       ELSE alerts[c][t]
  <1>1. /\ count \in [Counters -> 0 .. MaxCount]
        /\ alerts \in [Counters -> [Thresholds -> 0 .. 2]]
        /\ chk[s].ctr \in Counters
    BY DEF TypeOK, WellFormed, RecordFailure
  <1>2. count' = [count EXCEPT ![chk[s].ctr] = Incremented(chk[s])]
    BY DEF RecordFailure
  <1>3. alerts' = IF Incremented(chk[s]) = chk[s].mon.alertThreshold
                  THEN [alerts EXCEPT ![chk[s].ctr][chk[s].mon.alertThreshold] =
                          IF @ = 0 THEN 1 ELSE 2]
                  ELSE alerts
    BY DEF RecordFailure, ThresholdMet
  <1>4. CASE c # chk[s].ctr
    BY <1>1, <1>2, <1>3, <1>4
  <1>5. CASE c = chk[s].ctr
    <2>1. count'[c] = Incremented(chk[s])
      BY <1>1, <1>2, <1>5
    <2>2. alerts'[c][t] = IF Incremented(chk[s]) = chk[s].mon.alertThreshold
                               /\ t = chk[s].mon.alertThreshold
                          THEN IF alerts[c][t] = 0 THEN 1 ELSE 2
                          ELSE alerts[c][t]
      BY <1>1, <1>3, <1>5
    <2> QED
      BY <1>5, <2>1, <2>2 DEF Incremented
  <1> QED
    BY <1>4, <1>5

\* What a success, or the creation of a counter, does.
LEMMA ResetEffect ==
    ASSUME TypeOK, NEW s \in Checks, NEW d \in Counters,
           RecordSuccess(s) \/ StoreCounter(s, d),
           NEW c \in Counters, NEW t \in Thresholds
    PROVE  \/ count'[c] = count[c] /\ alerts'[c][t] = alerts[c][t]
           \/ count'[c] = 0 /\ alerts'[c][t] = 0
  <1>1. /\ count \in [Counters -> 0 .. MaxCount]
        /\ alerts \in [Counters -> [Thresholds -> 0 .. 2]]
    BY DEF TypeOK
  <1>2. PICK e \in Counters : /\ count' = [count EXCEPT ![e] = 0]
                              /\ alerts' = [alerts EXCEPT ![e] = ZeroAlerts]
    BY DEF RecordSuccess, StoreCounter, AfterSuccess, TypeOK, WellFormed
  <1> QED
    BY <1>1, <1>2 DEF ZeroAlerts

LEMMA AlertsFollowCountStep ==
    TypeOK /\ AlertsFollowCount /\ [Next]_vars => AlertsFollowCount'
  <1> SUFFICES ASSUME TypeOK, AlertsFollowCount, [Next]_vars,
                      NEW c \in Counters, NEW t \in Thresholds
               PROVE  /\ alerts'[c][t] <= 1
                      /\ count'[c] < t => alerts'[c][t] = 0
    BY DEF AlertsFollowCount
  <1>1. /\ count[c] \in 0 .. MaxCount
        /\ alerts[c][t] \in 0 .. 2
        /\ alerts[c][t] <= 1
        /\ count[c] < t => alerts[c][t] = 0
        /\ t \in Nat /\ 0 < t /\ t < MaxCount
        /\ MaxCount \in Nat
    BY ThresholdsArePositive, ConstantsAssumption DEF TypeOK, AlertsFollowCount
  <1>2. CASE UNCHANGED <<count, alerts>>
    BY <1>1, <1>2
  <1>3. ASSUME NEW s \in Checks, NEW d \in Counters,
               RecordSuccess(s) \/ StoreCounter(s, d)
        PROVE  /\ alerts'[c][t] <= 1
               /\ count'[c] < t => alerts'[c][t] = 0
    BY <1>1, <1>3, ResetEffect
  <1>4. ASSUME NEW s \in Checks, RecordFailure(s)
        PROVE  /\ alerts'[c][t] <= 1
               /\ count'[c] < t => alerts'[c][t] = 0
    BY <1>1, <1>4, FailureEffect
  <1>5. ASSUME NEW s \in Checks, RecordSuccess(s)
        PROVE  /\ alerts'[c][t] <= 1
               /\ count'[c] < t => alerts'[c][t] = 0
    BY <1>3, <1>5
  <1>6. CASE UNCHANGED vars
    BY <1>2, <1>6 DEF vars
  <1> QED
    BY <1>2, <1>3, <1>4, <1>5, <1>6, CounterSteps

\* A threshold is alerted at most once between two successes, whatever checks
\* overlap and whatever instances they belong to.
THEOREM NoDuplicateFailureAlertHolds == Spec => []NoDuplicateFailureAlert
  <1>1. Init => AlertsFollowCount
    BY ThresholdsArePositive DEF Init, AlertsFollowCount, ZeroAlerts
  <1>2. TypeOK /\ AlertsFollowCount /\ [Next]_vars => AlertsFollowCount'
    BY AlertsFollowCountStep
  <1>3. AlertsFollowCount => NoDuplicateFailureAlert
    BY DEF AlertsFollowCount, NoDuplicateFailureAlert
  <1> QED
    BY <1>1, <1>2, <1>3, TypeCorrect, PTL DEF Spec

LEMMA ReachedIsAlertedStep ==
    ASSUME UniformThreshold
    PROVE  TypeOK /\ OneOwner /\ ReachedIsAlerted /\ [Next]_vars
             => ReachedIsAlerted'
  <1> SUFFICES ASSUME TypeOK, OneOwner, ReachedIsAlerted, [Next]_vars,
                      NEW m \in Monitors, NEW c \in Counters, Owns(m.name, c)'
               PROVE  count'[c] >= m.alertThreshold =>
                        alerts'[c][m.alertThreshold] >= 1
    BY DEF ReachedIsAlerted
  <1> DEFINE t == m.alertThreshold
  <1>1. /\ count[c] \in 0 .. MaxCount
        /\ t \in Thresholds /\ alerts[c][t] \in 0 .. 2
        /\ Owns(m.name, c) /\ count[c] >= t => alerts[c][t] >= 1
        /\ t \in Nat /\ 0 < t /\ t < MaxCount
        /\ MaxCount \in Nat /\ m.name \in Names
    <2>1. t \in Thresholds
      BY DEF Thresholds
    <2>2. count[c] \in 0 .. MaxCount /\ alerts[c][t] \in 0 .. 2
      BY <2>1 DEF TypeOK
    <2>3. Owns(m.name, c) /\ count[c] >= t => alerts[c][t] >= 1
      BY DEF ReachedIsAlerted
    <2> QED
      BY <2>1, <2>2, <2>3, ThresholdsArePositive, ConstantsAssumption
  <1> HIDE DEF t
  <1> SUFFICES count'[c] >= t => alerts'[c][t] >= 1
    BY DEF t
  <1>2. CASE ~Owns(m.name, c)
    <2>1. PICK s \in Checks : StoreCounter(s, c)
      BY <1>1, <1>2, NewOwners
    <2>2. count'[c] = 0
      BY <2>1 DEF StoreCounter, TypeOK
    <2> QED
      BY <1>1, <2>2
  <1>3. CASE Owns(m.name, c) /\ UNCHANGED <<count, alerts>>
    BY <1>1, <1>3
  <1>4. ASSUME Owns(m.name, c), NEW s \in Checks, NEW d \in Counters,
               RecordSuccess(s) \/ StoreCounter(s, d)
        PROVE  count'[c] >= t => alerts'[c][t] >= 1
    BY <1>1, <1>4, ResetEffect
  <1>5. ASSUME Owns(m.name, c), NEW s \in Checks, RecordFailure(s)
        PROVE  count'[c] >= t => alerts'[c][t] >= 1
    <2>1. chk[s].mon \in Monitors /\ chk[s].mon.name \in Names
      BY <1>5, ConstantsAssumption DEF RecordFailure, TypeOK, WellFormed
    <2>2. CASE c # chk[s].ctr
      BY <1>1, <1>5, <2>2, FailureEffect
    <2>3. CASE c = chk[s].ctr
      <3>1. Owns(chk[s].mon.name, c)
        BY <1>5, <2>3 DEF RecordFailure, Owns
      <3>2. chk[s].mon.name = m.name
        BY <1>1, <1>5, <2>1, <3>1 DEF OneOwner
      <3>3. t = chk[s].mon.alertThreshold
        BY <2>1, <3>2 DEF UniformThreshold, t
      <3> QED
        BY <1>1, <1>5, <3>3, FailureEffect
    <2> QED
      BY <2>2, <2>3
  <1>6. ASSUME Owns(m.name, c), NEW s \in Checks, RecordSuccess(s)
        PROVE  count'[c] >= t => alerts'[c][t] >= 1
    BY <1>4, <1>6
  <1>7. CASE UNCHANGED vars
    BY <1>2, <1>3, <1>7 DEF vars
  <1> QED
    BY <1>2, <1>3, <1>4, <1>5, <1>6, <1>7, CounterSteps

\* As long as the threshold of a name is not edited, an outage that has lasted as
\* many checks as the threshold has been alerted: concurrent failures cannot
\* step over it, nor a removal between them, nor the count of another name.
THEOREM OutageIsAlertedHolds ==
    ASSUME UniformThreshold
    PROVE  Spec => []OutageIsAlerted
  <1>1. Init => ReachedIsAlerted
    BY ConstantsAssumption DEF Init, ReachedIsAlerted, Owns, IdleCheck
  <1>2. TypeOK /\ OneOwner /\ ReachedIsAlerted /\ [Next]_vars
          => ReachedIsAlerted'
    BY ReachedIsAlertedStep
  <1>3. TypeOK /\ ReachedIsAlerted => OutageIsAlerted
    <2> SUFFICES ASSUME TypeOK, ReachedIsAlerted, NEW n \in Names,
                        monitors[n] # None, failureCount[n] # None,
                        count[failureCount[n]] >= monitors[n].alertThreshold
                 PROVE  alerts[failureCount[n]][monitors[n].alertThreshold] >= 1
      BY DEF OutageIsAlerted
    <2>1. /\ monitors[n] \in Monitors /\ monitors[n].name = n
          /\ failureCount[n] \in Counters
      BY DEF TypeOK
    <2> QED
      BY <2>1 DEF ReachedIsAlerted, Owns
  <1> QED
    BY <1>1, <1>2, <1>3, TypeCorrect, OneOwnerHolds, PTL DEF Spec

-----------------------------------------------------------------------------
(* Maintenance windows *)

\* The window in the map is the one the registered instance was submitted with,
\* except where a handler is between its two stores; a handler about to store
\* an instance has stored its window; one about to delete the window has
\* deleted the monitor.
WindowMatchesMonitor ==
    /\ \A n \in Names :
         monitors[n] # None /\ WindowInForce(monitors[n]) =>
             maintenance[n] = monitors[n].maintenance
    /\ api.pc = "add" => maintenance[api.mon.name] = api.mon.maintenance
    /\ api.pc \in {"deleteResult", "deleteCount", "deleteMaintenance"} =>
         monitors[api.mon.name] = None

\* Only the API changes the registry and the windows.
LEMMA RegistrySteps ==
    ASSUME Next
    PROVE  \/ UNCHANGED <<monitors, maintenance, api>>
           \/ \E m \in Monitors : AddWithMaintenance(m)
           \/ \E m \in Monitors, s \in Checks : AddSystem(m, s)
           \/ \E s \in Checks : FinishAdd(s)
           \/ \E n \in Names : Remove(n)
           \/ DeleteResult
           \/ DeleteCount
           \/ DeleteMaintenance
  BY DEF Next, Request, Handler, Scheduler, Check, Environment,
         Tick, CopyChain, SkipMonitor, SpawnCheck, RangeEnd, MaintenanceTest,
         CheckReturns, LoadPrevious, StoreResult, LoadCounter, StoreCounter,
         LoadCount, RecordFailure, RecordSuccess, Push, HealthChanges,
         TimePasses

LEMMA WindowStep ==
    TypeOK /\ WindowMatchesMonitor /\ [Next]_vars => WindowMatchesMonitor'
  <1> SUFFICES ASSUME TypeOK, WindowMatchesMonitor, [Next]_vars
               PROVE  WindowMatchesMonitor'
    OBVIOUS
  <1> USE ConstantsAssumption
  <1>1. CASE UNCHANGED <<monitors, maintenance, api>>
    BY <1>1 DEF WindowMatchesMonitor, WindowInForce
  <1>2. ASSUME NEW m \in Monitors, AddWithMaintenance(m)
        PROVE  WindowMatchesMonitor'
    BY <1>2
       DEF AddWithMaintenance, WindowMatchesMonitor, WindowInForce, TypeOK
  <1>3. ASSUME NEW m \in Monitors, NEW s \in Checks, AddSystem(m, s)
        PROVE  WindowMatchesMonitor'
    BY <1>3
       DEF AddSystem, StoreAndSpawn, WindowMatchesMonitor, WindowInForce, TypeOK
  <1>4. ASSUME NEW s \in Checks, FinishAdd(s) PROVE WindowMatchesMonitor'
    <2>1. /\ api.mon \in Monitors /\ api.mon.name \in Names
          /\ monitors' = [monitors EXCEPT ![api.mon.name] = api.mon]
          /\ maintenance' = maintenance /\ api'.pc = "idle"
          /\ maintenance[api.mon.name] = api.mon.maintenance
      BY <1>4 DEF FinishAdd, StoreAndSpawn, WindowMatchesMonitor, TypeOK
    <2> QED
      BY <1>4, <2>1 DEF FinishAdd, WindowMatchesMonitor, WindowInForce, TypeOK
  <1>5. ASSUME NEW n \in Names, Remove(n) PROVE WindowMatchesMonitor'
    BY <1>5 DEF Remove, WindowMatchesMonitor, WindowInForce, TypeOK
  <1>6. CASE DeleteResult
    BY <1>6 DEF DeleteResult, WindowMatchesMonitor, WindowInForce, TypeOK,
                HandlerType
  <1>7. CASE DeleteCount
    BY <1>7 DEF DeleteCount, WindowMatchesMonitor, WindowInForce, TypeOK,
                HandlerType
  <1>8. CASE DeleteMaintenance
    BY <1>8 DEF DeleteMaintenance, WindowMatchesMonitor, WindowInForce, TypeOK
  <1>9. CASE UNCHANGED vars
    BY <1>1, <1>9 DEF vars
  <1> QED
    BY <1>1, <1>2, <1>3, <1>4, <1>5, <1>6, <1>7, <1>8, <1>9, RegistrySteps

\* A check reaches Check from the goroutine of Add or from the scheduler.
LEMMA CheckStarts ==
    ASSUME TypeOK, Next, NEW s \in Checks,
           chk[s].pc # "check", chk'[s].pc = "check"
    PROVE  MaintenanceTest(s) \/ \E m \in Monitors : SpawnCheck(m, s)
  <1>1. \A x \in Checks : chk[x] \in GoroutineType
    BY DEF TypeOK
  <1>2. ASSUME NEW x \in Checks, Check(x), x # s PROVE chk'[s] = chk[s]
    BY <1>1, <1>2 DEF Check, TypeOK, MaintenanceTest, CheckReturns,
       LoadPrevious, StoreResult, LoadCounter, StoreCounter, LoadCount,
       RecordFailure, RecordSuccess, Push
  <1>3. CASE Check(s)
    <2>1. CASE RecordFailure(s)
      <3>1. /\ chk[s] \in GoroutineType /\ chk[s].mon \in Monitors
        BY <2>1 DEF RecordFailure, TypeOK, WellFormed
      <3>2. \E alert \in Alerts : chk'[s] = PushOrEnd(chk[s], alert)
        BY <2>1 DEF RecordFailure, TypeOK, Alerts
      <3> QED
        BY <3>1, <3>2, PushOrEndIsTyped
    <2>2. CASE RecordSuccess(s)
      <3>1. /\ chk[s] \in GoroutineType /\ chk[s].mon \in Monitors
        BY <2>2 DEF RecordSuccess, TypeOK, WellFormed
      <3>2. \E alert \in Alerts : chk'[s] = PushOrEnd(chk[s], alert)
        BY <2>2 DEF RecordSuccess, TypeOK, Alerts
      <3> QED
        BY <3>1, <3>2, PushOrEndIsTyped
    <2>3. CASE Push(s)
      BY <2>3 DEF Push, IdleCheck, TypeOK
    <2> QED
      BY <1>1, <1>3, <2>1, <2>2, <2>3 DEF Check, TypeOK, GoroutineType,
         CheckReturns, LoadPrevious, StoreResult, LoadCounter, StoreCounter,
         LoadCount
  <1>4. ASSUME NEW m \in Monitors, NEW x \in Checks, SpawnCheck(m, x), x # s
        PROVE  chk'[s] = chk[s]
    BY <1>4 DEF SpawnCheck, TypeOK
  <1>5. ASSUME NEW m \in Monitors, NEW x \in Checks, StoreAndSpawn(m, x)
        PROVE  FALSE
    BY <1>5, GoroutineIsTyped DEF StoreAndSpawn, TypeOK
  <1>6. ASSUME NEW x \in Checks, FinishAdd(x) PROVE FALSE
    BY <1>5, <1>6 DEF FinishAdd, TypeOK
  <1>7. ASSUME NEW m \in Monitors, NEW x \in Checks, AddSystem(m, x)
        PROVE  FALSE
    BY <1>5, <1>7 DEF AddSystem
  <1> QED
    BY <1>2, <1>3, <1>4, <1>6, <1>7
       DEF Next, Request, Handler, Scheduler, Environment, AddWithMaintenance,
           Remove, DeleteResult, DeleteCount, DeleteMaintenance, Tick,
           CopyChain, SkipMonitor, RangeEnd, HealthChanges, TimePasses

\* A starting check read the window of the monitor it checks.
LEMMA NoCheckStartsInside ==
    ASSUME TypeOK, WindowMatchesMonitor, Next, NEW s \in Checks,
           chk[s].pc # "check", chk'[s].pc = "check",
           WindowInForce(chk'[s].mon)
    PROVE  chk'[s].mon.maintenance \notin
               (IF chk[s].pc = "maint" THEN open ELSE sched.open)
  <1>1. CASE MaintenanceTest(s)
    <2> DEFINE m == chk[s].mon
    <2>1. m \in Monitors /\ m.name \in Names /\ chk[s].pc = "maint"
      BY <1>1, ConstantsAssumption DEF MaintenanceTest, TypeOK, WellFormed
    <2>2. maintenance[m.name] \notin open /\ chk'[s] = Goroutine("check", m)
      BY <1>1 DEF MaintenanceTest, TypeOK, IdleCheck
    <2>3. chk'[s].mon = m
      BY <2>1, <2>2, GoroutineIsTyped
    <2>4. maintenance[m.name] = m.maintenance
      BY <2>1, <2>3, ConstantsAssumption DEF WindowMatchesMonitor, WindowInForce
    <2> QED
      BY <2>1, <2>2, <2>3, <2>4
  <1>2. ASSUME NEW m \in Monitors, SpawnCheck(m, s)
        PROVE  chk'[s].mon.maintenance \notin
                   (IF chk[s].pc = "maint" THEN open ELSE sched.open)
    <2>1. m \in Monitors /\ m.name \in Names /\ chk[s].pc = "idle"
      BY <1>2, ConstantsAssumption DEF SpawnCheck, TypeOK
    <2>2. maintenance[m.name] \notin sched.open
          /\ chk'[s] = Goroutine("check", m)
      BY <1>2 DEF SpawnCheck, Skipped, TypeOK
    <2>3. chk'[s].mon = m
      BY <2>1, <2>2, GoroutineIsTyped
    <2>4. maintenance[m.name] = m.maintenance
      BY <2>1, <2>3, ConstantsAssumption DEF WindowMatchesMonitor, WindowInForce
    <2> QED
      BY <2>1, <2>2, <2>3, <2>4
  <1> QED
    BY <1>1, <1>2, CheckStarts

\* No check of a registered monitor starts inside the window it was submitted
\* with, however handlers, scheduler and checks interleave.
THEOREM NoCheckInsideWindowHolds == Spec => NoCheckInsideWindow
  <1> DEFINE Outside ==
        \A s \in Checks :
           chk[s].pc # "check" /\ chk'[s].pc = "check"
              /\ WindowInForce(chk'[s].mon)
           => chk'[s].mon.maintenance \notin
                  (IF chk[s].pc = "maint" THEN open ELSE sched.open)
  <1>1. Init => WindowMatchesMonitor
    BY DEF Init, WindowMatchesMonitor
  <1>2. TypeOK /\ WindowMatchesMonitor /\ [Next]_vars => WindowMatchesMonitor'
    BY WindowStep
  <1>3. TypeOK /\ WindowMatchesMonitor /\ [Next]_vars => [Outside]_vars
    BY NoCheckStartsInside
  <1>4. [][Outside]_vars => NoCheckInsideWindow
    BY PTL DEF NoCheckInsideWindow
  <1> QED
    BY <1>1, <1>2, <1>3, <1>4, TypeCorrect, PTL DEF Spec

-----------------------------------------------------------------------------
(* Removal *)

\* What is left of a name that was quiet when it was removed: no monitor, no
\* check, no copy in the cycle under way, and only those entries whose deletion the
\* handler has still to reach.
StillToDelete(n, pcs) == api.pc \in pcs /\ api.mon.name = n

QuietIsGone(n) ==
    /\ monitors[n] = None
    /\ \A s \in Checks : chk[s].pc # "idle" => chk[s].mon.name # n
    /\ ~Copied(n)
    /\ api.pc = "add" => api.mon.name # n
    /\ result[n] # None => StillToDelete(n, {"deleteResult"})
    /\ failureCount[n] # None => StillToDelete(n, {"deleteResult", "deleteCount"})
    /\ maintenance[n] # None =>
         StillToDelete(n, {"deleteResult", "deleteCount", "deleteMaintenance"})

QuietStaysGone == \A n \in Names : quiet[n] => QuietIsGone(n)

\* The steps of the cycle that start no check copy nothing but what is still in
\* the registry.
LEMMA CycleCopies ==
    ASSUME TypeOK,
           Tick \/ (\E m \in Monitors : SkipMonitor(m)) \/ RangeEnd,
           NEW n \in Names
    PROVE  Copied(n)' => Copied(n)
  <1>1. sched'.copied \subseteq sched.copied
    BY DEF TypeOK, SchedulerType, Tick, SkipMonitor, RangeEnd
  <1> QED
    BY <1>1 DEF Copied

\* A check the cycle starts uses up the copy it was started for.
LEMMA SpawnCopies ==
    ASSUME TypeOK, NEW m \in Monitors, NEW s \in Checks, SpawnCheck(m, s)
    PROVE  /\ chk'[s].mon = m
           /\ m \in sched.copied
           /\ sched'.copied = sched.copied \ {m}
           /\ Copied(m.name) /\ ~Copied(m.name)'
           /\ \A n \in Names : Copied(n)' => Copied(n)
  <1>1. chk'[s].mon = m
    BY GoroutineIsTyped DEF SpawnCheck, TypeOK
  <1>2. m \in sched.copied /\ sched'.copied = sched.copied \ {m}
    BY DEF SpawnCheck, TypeOK, SchedulerType
  <1> QED
    BY <1>1, <1>2 DEF Copied, TypeOK

LEMMA QuietStep ==
    TypeOK /\ QuietStaysGone /\ [Next]_vars => QuietStaysGone'
  <1> SUFFICES ASSUME TypeOK, QuietStaysGone, [Next]_vars,
                      NEW n \in Names, quiet'[n]
               PROVE  QuietIsGone(n)'
    BY DEF QuietStaysGone
  <1> USE ConstantsAssumption
  <1>1. quiet[n] => QuietIsGone(n)
    BY DEF QuietStaysGone
  <1>2. ASSUME NEW m \in Monitors, AddWithMaintenance(m)
        PROVE  QuietIsGone(n)'
    <2>1. m.name # n /\ quiet[n]
      BY <1>2 DEF AddWithMaintenance, TypeOK
    <2> QED
      BY <1>1, <1>2, <2>1
         DEF AddWithMaintenance, QuietIsGone, Copied, StillToDelete, TypeOK
  <1>3. ASSUME NEW m \in Monitors, NEW s \in Checks, StoreAndSpawn(m, s),
               api.pc \in {"idle", "add"}, api'.pc = "idle"
        PROVE  QuietIsGone(n)'
    <2>1. m.name # n /\ quiet[n]
      BY <1>3 DEF StoreAndSpawn, TypeOK
    <2>2. Goroutine("maint", m).mon = m
      BY GoroutineIsTyped
    <2>3. \A x \in Checks : chk'[x].pc # "idle" => chk'[x].mon.name # n
      BY <1>1, <1>3, <2>1, <2>2 DEF StoreAndSpawn, QuietIsGone, TypeOK
    <2> QED
      BY <1>1, <1>3, <2>1, <2>3
         DEF StoreAndSpawn, QuietIsGone, Copied, StillToDelete, TypeOK
  <1>4. ASSUME NEW s \in Checks, FinishAdd(s) PROVE QuietIsGone(n)'
    BY <1>3, <1>4 DEF FinishAdd, TypeOK
  <1>5. ASSUME NEW m \in Monitors, NEW s \in Checks, AddSystem(m, s)
        PROVE  QuietIsGone(n)'
    BY <1>3, <1>5 DEF AddSystem
  <1>6. ASSUME NEW x \in Names, Remove(x) PROVE QuietIsGone(n)'
    <2>1. CASE x = n
      <3>1. InFlight(n) = {} /\ ~Copied(n)
        BY <1>6, <2>1 DEF Remove, TypeOK
      <3>2. \A s \in Checks : chk[s].pc # "idle" => chk[s].mon.name # n
        BY <3>1 DEF InFlight
      <3>3. api'.pc = "deleteResult" /\ api'.mon.name = n
        BY <1>6, <2>1 DEF Remove, TypeOK
      <3> QED
        BY <1>6, <2>1, <3>1, <3>2, <3>3
           DEF Remove, QuietIsGone, Copied, StillToDelete, TypeOK
    <2>2. CASE x # n
      BY <1>1, <1>6, <2>2
         DEF Remove, QuietIsGone, Copied, StillToDelete, TypeOK
    <2> QED
      BY <2>1, <2>2
  <1>7. CASE DeleteResult
    BY <1>1, <1>7
       DEF DeleteResult, QuietIsGone, Copied, StillToDelete, TypeOK, HandlerType
  <1>8. CASE DeleteCount
    BY <1>1, <1>8
       DEF DeleteCount, QuietIsGone, Copied, StillToDelete, TypeOK, HandlerType
  <1>9. CASE DeleteMaintenance
    BY <1>1, <1>9
       DEF DeleteMaintenance, QuietIsGone, Copied, StillToDelete, TypeOK
  <1>10. ASSUME NEW C \in SUBSET Names, CopyChain(C) PROVE QuietIsGone(n)'
    <2>1. \A m \in {monitors[x] : x \in C} \ {None} : monitors[m.name] = m
      BY DEF TypeOK
    <2>2. sched'.copied = sched.copied \union ({monitors[x] : x \in C} \ {None})
      BY <1>10 DEF CopyChain, TypeOK, SchedulerType
    <2>3. quiet[n] /\ UNCHANGED <<monitors, result, failureCount, maintenance,
                                  api, chk>>
      BY <1>10 DEF CopyChain
    <2>4. monitors[n] = None /\ ~Copied(n)
      BY <1>1, <2>3 DEF QuietIsGone
    <2>5. ~Copied(n)'
      BY <2>1, <2>2, <2>4 DEF Copied
    <2> QED
      BY <1>1, <2>3, <2>5 DEF QuietIsGone, StillToDelete
  <1>11. CASE Tick \/ (\E m \in Monitors : SkipMonitor(m)) \/ RangeEnd
    <2>1. UNCHANGED <<monitors, result, failureCount, maintenance, api, chk,
                      quiet>>
      BY <1>11 DEF Tick, SkipMonitor, RangeEnd
    <2>2. Copied(n)' => Copied(n)
      BY <1>11, CycleCopies
    <2> QED
      BY <1>1, <2>1, <2>2 DEF QuietIsGone, StillToDelete
  <1>12. ASSUME NEW s \in Checks,
                \E m \in Monitors : SpawnCheck(m, s)
         PROVE  QuietIsGone(n)'
    <2>1. quiet[n] /\ UNCHANGED <<monitors, api>>
      BY <1>12 DEF SpawnCheck
    <2>2. /\ chk'[s].mon \in sched.copied
          /\ sched'.copied \subseteq sched.copied
      BY <1>12, SpawnCopies
    <2>3. chk'[s].mon.name # n
      BY <1>1, <2>1, <2>2 DEF QuietIsGone, Copied
    <2>4. ~Copied(n)'
      BY <1>1, <2>1, <2>2 DEF QuietIsGone, Copied
    <2> QED
      BY <1>1, <1>12, <2>1, <2>3, <2>4, SpawnEffect
         DEF QuietIsGone, StillToDelete
  <1>13. ASSUME NEW s \in Checks, Check(s) PROVE QuietIsGone(n)'
    <2>1. quiet[n] /\ chk[s].mon.name # n
      BY <1>1, <1>13, CheckMoves DEF QuietIsGone
    <2>2. \A x \in Checks : chk'[x].pc # "idle" => chk'[x].mon.name # n
      BY <1>1, <1>13, <2>1, CheckMoves DEF QuietIsGone
    <2>3. result'[n] = result[n] /\ failureCount'[n] = failureCount[n]
      BY <1>13, <2>1 DEF Check, MaintenanceTest, CheckReturns, LoadPrevious,
         StoreResult, LoadCounter, StoreCounter, LoadCount, RecordFailure,
         RecordSuccess, Push, TypeOK
    <2> QED
      BY <1>1, <1>13, <2>1, <2>2, <2>3, CheckMoves
         DEF QuietIsGone, Copied, StillToDelete
  <1>14. CASE Environment \/ UNCHANGED vars
    BY <1>1, <1>14 DEF Environment, HealthChanges, TimePasses, vars,
       QuietIsGone, Copied, StillToDelete
  <1> QED
    BY <1>2, <1>4, <1>5, <1>6, <1>7, <1>8, <1>9, <1>10, <1>11, <1>12, <1>13,
       <1>14 DEF Next, Request, Handler, Scheduler

\* Removing a monitor none of whose checks was running leaves nothing of it
\* behind, for any number of names, checks and counters.
THEOREM QuietRemovalHolds == Spec => []QuietRemoval
  <1>1. Init => QuietStaysGone
    BY DEF Init, QuietStaysGone, QuietIsGone, Copied, IdleCheck, StillToDelete
  <1>2. TypeOK /\ QuietStaysGone /\ [Next]_vars => QuietStaysGone'
    BY QuietStep
  <1>3. QuietStaysGone => QuietRemoval
    BY DEF QuietStaysGone, QuietIsGone, QuietRemoval, StillToDelete
  <1> QED
    BY <1>1, <1>2, <1>3, TypeCorrect, PTL DEF Spec

\* What the API adds is in the registry after it.
LEMMA AddedIsNew ==
    ASSUME TypeOK, NEW s \in Checks,
           FinishAdd(s) \/ \E m \in Monitors : AddSystem(m, s)
    PROVE  monitors'[chk'[s].mon.name] # None
  <1>1. ASSUME NEW m \in Monitors, StoreAndSpawn(m, s)
        PROVE  monitors'[chk'[s].mon.name] # None
    <2>1. chk'[s].mon = m /\ m.name \in Names /\ m # None
      BY <1>1, GoroutineIsTyped, ConstantsAssumption DEF StoreAndSpawn, TypeOK
    <2> QED
      BY <1>1, <2>1 DEF StoreAndSpawn, TypeOK
  <1> QED
    BY <1>1 DEF FinishAdd, AddSystem, TypeOK

\* What a step may start for a name that is not in the registry.
LEMMA NothingStarts ==
    ASSUME TypeOK, Next, NEW n \in Names,
           monitors[n] = None, monitors'[n] = None
    PROVE  /\ Copied(n)' => Copied(n)
           /\ \/ InFlight(n)' \subseteq InFlight(n)
              \/ Copied(n) /\ ~Copied(n)'
  <1> USE ConstantsAssumption
  <1>1. ASSUME NEW s \in Checks, Check(s)
        PROVE  Copied(n)' = Copied(n) /\ InFlight(n)' \subseteq InFlight(n)
    BY <1>1, CheckMoves DEF Copied, InFlight
  <1>2. ASSUME NEW s \in Checks, NEW m \in Monitors, SpawnCheck(m, s)
        PROVE  /\ Copied(n)' => Copied(n)
               /\ \/ InFlight(n)' \subseteq InFlight(n)
                  \/ Copied(n) /\ ~Copied(n)'
    <2>1. Copied(n)' => Copied(n)
      BY <1>2, SpawnCopies
    <2>2. CASE m.name = n
      BY <1>2, <2>1, <2>2, SpawnCopies
    <2>3. CASE m.name # n
      <3>1. InFlight(n)' \subseteq InFlight(n)
        BY <1>2, <2>3, SpawnCopies, SpawnEffect DEF InFlight
      <3> QED
        BY <2>1, <3>1
    <2> QED
      BY <2>2, <2>3
  <1>3. ASSUME NEW s \in Checks,
               FinishAdd(s) \/ \E m \in Monitors : AddSystem(m, s)
        PROVE  Copied(n)' = Copied(n) /\ InFlight(n)' \subseteq InFlight(n)
    <2>1. UNCHANGED sched
      BY <1>3 DEF FinishAdd, AddSystem, StoreAndSpawn
    <2>2. chk'[s].mon.name # n
      BY <1>3, AddedIsNew
    <2> QED
      BY <1>3, <2>1, <2>2, SpawnEffect DEF Copied, InFlight
  <1>4. ASSUME NEW C \in SUBSET Names, CopyChain(C)
        PROVE  (Copied(n)' => Copied(n)) /\ UNCHANGED chk
    <2>1. \A m \in {monitors[x] : x \in C} \ {None} : monitors[m.name] = m
      BY DEF TypeOK
    <2>2. sched'.copied = sched.copied \union ({monitors[x] : x \in C} \ {None})
      BY <1>4 DEF CopyChain, TypeOK, SchedulerType
    <2> QED
      BY <1>4, <2>1, <2>2 DEF CopyChain, Copied
  <1>5. CASE Tick \/ (\E m \in Monitors : SkipMonitor(m)) \/ RangeEnd
    <2>1. UNCHANGED chk
      BY <1>5 DEF Tick, SkipMonitor, RangeEnd
    <2> QED
      BY <1>5, <2>1, CycleCopies DEF InFlight
  <1>6. CASE \/ \E m \in Monitors : AddWithMaintenance(m)
             \/ \E x \in Names : Remove(x)
             \/ DeleteResult \/ DeleteCount \/ DeleteMaintenance
             \/ Environment
    <2>1. UNCHANGED <<sched, chk>>
      BY <1>6 DEF AddWithMaintenance, Remove, DeleteResult, DeleteCount,
         DeleteMaintenance, Environment, HealthChanges, TimePasses
    <2> QED
      BY <2>1 DEF Copied, InFlight
  <1> QED
    BY <1>1, <1>2, <1>3, <1>4, <1>5, <1>6
       DEF InFlight, Next, Request, Handler, Scheduler

\* A removed monitor is checked at most once more: no cycle copies it, and a
\* goroutine only starts for the copy the cycle under way had, which is used up.
THEOREM RemovalStopsChecksHolds == Spec => RemovalStopsChecks
  <1> DEFINE Stopped ==
        \A n \in Names :
           monitors[n] = None /\ monitors'[n] = None =>
               /\ Copied(n)' => Copied(n)
               /\ \/ InFlight(n)' \subseteq InFlight(n)
                  \/ Copied(n) /\ ~Copied(n)'
  <1>1. TypeOK /\ [Next]_vars => [Stopped]_vars
    BY NothingStarts
  <1>2. [][Stopped]_vars => RemovalStopsChecks
    BY PTL DEF RemovalStopsChecks
  <1> QED
    BY <1>1, <1>2, TypeCorrect, PTL DEF Spec
=============================================================================
