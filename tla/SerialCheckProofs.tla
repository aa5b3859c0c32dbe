------------------------- MODULE SerialCheckProofs -------------------------
(***************************************************************************)
(* What is proved of MonitorService when the checks of a name do not       *)
(* overlap: the result and the count agree, and the service implements     *)
(* AlertPolicy.                                                            *)
(***************************************************************************)
EXTENDS MonitorServiceProofs

-----------------------------------------------------------------------------
(* The inductive invariants *)

NameOf(s) == chk[s].mon.name

\* Between storing its result and updating the counter.
Counting(s) == chk[s].pc \in {"counter", "count", "update"}

Pushing(s) == chk[s].pc = "push"

Settled(n) ==
    result[n] # None /\ failureCount[n] # None =>
        (result[n] = Green <=> count[failureCount[n]] = 0)

\* The check between its two updates finds what it stored, unless a removal has
\* taken it away.
HalfRecorded(s) ==
    /\ chk[s].pc \in {"count", "update"} =>
         failureCount[NameOf(s)] \in {None, chk[s].ctr}
    /\ Counting(s) => result[NameOf(s)] \in {None, chk[s].status}

\* Result and count agree but for the check between its two updates, and that
\* one alone is in their way.
SerialInv ==
    /\ Serial
    /\ \A s \in Checks : HalfRecorded(s)
    /\ \A n \in Names :
         (\A s \in Checks : Counting(s) => NameOf(s) # n) => Settled(n)

Failures(n) == IF failureCount[n] = None THEN 0 ELSE count[failureCount[n]]

\* What a check has read is still so when it decides, and an alert it is about
\* to push is still due.
ReadsHold(s) ==
    /\ chk[s].pc = "store" => chk[s].prev = result[NameOf(s)]
    /\ Counting(s) =>
         /\ result[NameOf(s)] # None
         /\ Failures(NameOf(s)) > 0 => chk[s].prev # None /\ chk[s].prev # Green
    /\ chk[s].pc \in {"count", "update"} => failureCount[NameOf(s)] = chk[s].ctr
    /\ chk[s].pc = "update" => chk[s].prevCount = count[chk[s].ctr]
    /\ Pushing(s) =>
         (chk[s].alert = "down" <=>
            Failures(NameOf(s)) >= chk[s].mon.alertThreshold)

\* The receiver believes a monitor down exactly while its failures have reached
\* the threshold.
Informed(m) == told[m.name] = "down" <=> Failures(m.name) >= m.alertThreshold

NoRemoval == api.pc \in {"idle", "add"}

PolicyInv ==
    /\ NoRemoval
    /\ \A n \in Names : failureCount[n] # None => result[n] # None
    /\ \A s \in Checks : ReadsHold(s)
    /\ \A m \in Monitors :
         (\A s \in Checks : Pushing(s) => NameOf(s) # m.name) => Informed(m)

-----------------------------------------------------------------------------
(* What each step of a check does *)

\* Up to the previous result a check changes nothing but itself.
LEMMA BeforeLoadEffect ==
    ASSUME TypeOK, NEW s \in Checks, MaintenanceTest(s) \/ CheckReturns(s)
    PROVE  /\ chk[s].pc \in {"maint", "check"}
           /\ chk'[s].pc \in {"idle", "check", "load"}
           /\ UNCHANGED <<result, failureCount, count, told>>
  <1>1. CASE MaintenanceTest(s)
    <2>1. chk'[s] = IdleCheck \/ chk'[s] = Goroutine("check", chk[s].mon)
      BY <1>1 DEF MaintenanceTest, TypeOK
    <2>2. chk'[s].pc \in {"idle", "check"}
      BY <1>1, <2>1, GoroutineIsTyped DEF MaintenanceTest, TypeOK, WellFormed
    <2> QED
      BY <1>1, <2>2 DEF MaintenanceTest
  <1>2. CASE CheckReturns(s)
    BY <1>2 DEF CheckReturns, TypeOK, GoroutineType
  <1> QED
    BY <1>1, <1>2

LEMMA LoadPreviousEffect ==
    ASSUME TypeOK, NEW s \in Checks, LoadPrevious(s)
    PROVE  /\ chk[s].pc = "load" /\ chk'[s].pc = "store"
           /\ chk'[s].mon = chk[s].mon
           /\ chk'[s].prev = result[NameOf(s)]
           /\ UNCHANGED <<result, failureCount, count, told>>
  BY DEF LoadPrevious, NameOf, TypeOK, GoroutineType

LEMMA StoreResultEffect ==
    ASSUME TypeOK, NEW s \in Checks, StoreResult(s)
    PROVE  /\ chk[s].pc = "store" /\ chk'[s].pc = "counter"
           /\ chk'[s].mon = chk[s].mon
           /\ chk'[s].status = chk[s].status
           /\ chk'[s].status \in Statuses
           /\ chk'[s].prev = chk[s].prev
           /\ result' = [result EXCEPT ![NameOf(s)] = chk[s].status]
           /\ UNCHANGED <<failureCount, count, told>>
  BY DEF StoreResult, NameOf, TypeOK, GoroutineType, WellFormed

LEMMA LoadCounterEffect ==
    ASSUME TypeOK, NEW s \in Checks, LoadCounter(s)
    PROVE  /\ chk[s].pc = "counter" /\ chk'[s].pc = "count"
           /\ chk'[s].mon = chk[s].mon
           /\ chk'[s].status = chk[s].status
           /\ chk'[s].prev = chk[s].prev
           /\ chk'[s].ctr = failureCount[NameOf(s)]
           /\ UNCHANGED <<result, failureCount, count, told>>
  BY DEF LoadCounter, NameOf, TypeOK, GoroutineType

LEMMA StoreCounterEffect ==
    ASSUME TypeOK, NEW s \in Checks, NEW c \in Counters, StoreCounter(s, c)
    PROVE  /\ chk[s].pc = "counter" /\ chk'[s].pc = "count"
           /\ chk'[s].mon = chk[s].mon
           /\ chk'[s].status = chk[s].status
           /\ chk'[s].prev = chk[s].prev
           /\ chk'[s].ctr = c
           /\ failureCount[NameOf(s)] = None
           /\ \A n \in Names : ~Owns(n, c)
           /\ failureCount' = [failureCount EXCEPT ![NameOf(s)] = c]
           /\ count' = [count EXCEPT ![c] = 0]
           /\ UNCHANGED <<result, told>>
  <1>1. \A n \in Names : ~Owns(n, c)
    BY DEF StoreCounter, FreeCounters, Owns
  <1> QED
    BY <1>1 DEF StoreCounter, NameOf, TypeOK, GoroutineType

LEMMA LoadCountEffect ==
    ASSUME TypeOK, NEW s \in Checks, LoadCount(s)
    PROVE  /\ chk[s].pc = "count" /\ chk'[s].pc = "update"
           /\ chk'[s].mon = chk[s].mon
           /\ chk'[s].status = chk[s].status
           /\ chk'[s].prev = chk[s].prev
           /\ chk'[s].ctr = chk[s].ctr
           /\ chk'[s].prevCount = count[chk[s].ctr]
           /\ UNCHANGED <<result, failureCount, count, told>>
  BY DEF LoadCount, TypeOK, GoroutineType

LEMMA PushOrEndFields ==
    ASSUME NEW g \in GoroutineType, g.mon \in Monitors, NEW alert \in Alerts
    PROVE  /\ PushOrEnd(g, alert).pc = IF alert = "none" THEN "idle" ELSE "push"
           /\ alert # "none" => PushOrEnd(g, alert).alert = alert
  <1>1. Goroutine("push", g.mon) \in GoroutineType
        /\ Goroutine("push", g.mon).pc = "push"
        /\ IdleCheck.pc = "idle"
    BY GoroutineIsTyped
  <1> QED
    BY <1>1 DEF PushOrEnd, GoroutineType

LEMMA RecordFailureEffect ==
    ASSUME TypeOK, NEW s \in Checks, RecordFailure(s)
    PROVE  LET g == chk[s]
               k == IF count[g.ctr] < MaxCount THEN count[g.ctr] + 1 ELSE MaxCount
           IN  /\ g.pc = "update" /\ g.status \in Statuses \ {Green}
               /\ g.ctr \in Counters
               /\ count' = [count EXCEPT ![g.ctr] = k]
               /\ chk'[s].pc = IF k = g.mon.alertThreshold THEN "push" ELSE "idle"
               /\ chk'[s].pc = "push" => chk'[s].alert = "down"
               /\ UNCHANGED <<result, failureCount, told>>
  <1> DEFINE g == chk[s]
             k == Incremented(g)
             alert == IF ThresholdMet(g, k) THEN "down" ELSE "none"
  <1>1. /\ g \in GoroutineType /\ g.mon \in Monitors /\ g.ctr \in Counters
        /\ g.pc = "update" /\ g.status \in Statuses \ {Green}
        /\ alert \in Alerts
    BY DEF RecordFailure, TypeOK, WellFormed, Alerts
  <1>2. chk'[s] = PushOrEnd(g, alert)
    BY DEF RecordFailure, TypeOK
  <1>3. /\ chk'[s].pc = IF alert = "none" THEN "idle" ELSE "push"
        /\ alert # "none" => chk'[s].alert = alert
    BY <1>1, <1>2, PushOrEndFields
  <1> QED
    BY <1>1, <1>3 DEF RecordFailure, ThresholdMet, Incremented

LEMMA RecordSuccessEffect ==
    ASSUME TypeOK, NEW s \in Checks, RecordSuccess(s)
    PROVE  LET g == chk[s]
           IN  /\ g.pc = "update" /\ g.status = Green
               /\ g.ctr \in Counters
               /\ count' = [count EXCEPT ![g.ctr] = 0]
               /\ chk'[s].pc = IF Recovered(g) THEN "push" ELSE "idle"
               /\ chk'[s].pc = "push" => chk'[s].alert = "ok"
               /\ UNCHANGED <<result, failureCount, told>>
  <1> DEFINE g == chk[s]
             alert == IF Recovered(g) THEN "ok" ELSE "none"
  <1>1. /\ g \in GoroutineType /\ g.mon \in Monitors /\ g.ctr \in Counters
        /\ g.pc = "update" /\ g.status = Green
        /\ alert \in Alerts
    BY DEF RecordSuccess, TypeOK, WellFormed, Alerts
  <1>2. chk'[s] = PushOrEnd(g, alert)
    BY DEF RecordSuccess, TypeOK
  <1>3. /\ chk'[s].pc = IF alert = "none" THEN "idle" ELSE "push"
        /\ alert # "none" => chk'[s].alert = alert
    BY <1>1, <1>2, PushOrEndFields
  <1> QED
    BY <1>1, <1>3 DEF RecordSuccess, AfterSuccess

LEMMA PushEffect ==
    ASSUME TypeOK, NEW s \in Checks, Push(s)
    PROVE  /\ chk[s].pc = "push" /\ chk'[s].pc = "idle"
           /\ told' = [told EXCEPT ![NameOf(s)] = chk[s].alert]
           /\ UNCHANGED <<result, failureCount, count>>
  BY DEF Push, NameOf, IdleCheck, TypeOK
\* The steps of a check, one by one.
LEMMA CheckSteps ==
    ASSUME NEW s \in Checks, Check(s)
    PROVE  \/ MaintenanceTest(s) \/ CheckReturns(s)
           \/ LoadPrevious(s)
           \/ StoreResult(s)
           \/ LoadCounter(s)
           \/ \E c \in Counters : StoreCounter(s, c)
           \/ LoadCount(s)
           \/ RecordFailure(s)
           \/ RecordSuccess(s)
           \/ Push(s)
  BY DEF Check

\* Nothing of another name changes, and no other check of this name runs.
LEMMA OthersKeep ==
    ASSUME TypeOK, OneOwner, Serial, NEW s \in Checks, Check(s)
    PROVE  /\ \A x \in Checks :
                x # s => /\ chk'[x] = chk[x]
                         /\ chk[x].pc = "idle" \/ NameOf(x) # NameOf(s)
           /\ \A n \in Names :
                n # NameOf(s) => /\ result'[n] = result[n]
                                 /\ failureCount'[n] = failureCount[n]
                                 /\ told'[n] = told[n]
           /\ \A n \in Names, c \in Counters :
                n # NameOf(s) /\ Owns(n, c) => count'[c] = count[c]
  <1>1. NameOf(s) \in Names /\ chk[s].pc # "idle"
    BY CheckMoves, ConstantsAssumption DEF NameOf
  <1>2. ASSUME NEW x \in Checks, x # s
        PROVE  chk'[x] = chk[x] /\ (chk[x].pc = "idle" \/ NameOf(x) # NameOf(s))
    BY <1>1, <1>2, CheckMoves DEF Serial, InFlight, NameOf
  <1>3. ASSUME NEW n \in Names, n # NameOf(s)
        PROVE  /\ result'[n] = result[n]
               /\ failureCount'[n] = failureCount[n]
               /\ told'[n] = told[n]
    BY <1>3, CheckSteps, BeforeLoadEffect, LoadPreviousEffect, StoreResultEffect,
       LoadCounterEffect, StoreCounterEffect, LoadCountEffect,
       RecordFailureEffect, RecordSuccessEffect, PushEffect DEF TypeOK
  <1>4. ASSUME NEW n \in Names, NEW c \in Counters, n # NameOf(s), Owns(n, c)
        PROVE  count'[c] = count[c]
    <2>1. ASSUME NEW d \in Counters, StoreCounter(s, d) PROVE count'[c] = count[c]
      BY <1>4, <2>1, StoreCounterEffect DEF TypeOK
    <2>2. CASE RecordFailure(s) \/ RecordSuccess(s)
      <3>1. chk[s].pc = "update"
        BY <2>2, RecordFailureEffect, RecordSuccessEffect
      <3>2. Owns(NameOf(s), chk[s].ctr)
        BY <3>1 DEF Owns, NameOf
      <3>3. c # chk[s].ctr
        BY <1>1, <1>4, <3>2 DEF OneOwner
      <3> QED
        BY <2>2, <3>3, RecordFailureEffect, RecordSuccessEffect DEF TypeOK
    <2> QED
      BY <2>1, <2>2, CheckSteps, BeforeLoadEffect, LoadPreviousEffect,
         StoreResultEffect, LoadCounterEffect, LoadCountEffect, PushEffect
  <1> QED
    BY <1>2, <1>3, <1>4

-----------------------------------------------------------------------------
(* Result and count *)

\* What the check leaves of its own name.
LEMMA OwnNameSettles ==
    ASSUME TypeOK, SerialInv, NEW s \in Checks, Check(s),
           NEW n \in Names, n = NameOf(s),
           \A x \in Checks :
              x # s => /\ chk'[x] = chk[x]
                       /\ chk[x].pc = "idle" \/ NameOf(x) # NameOf(s)
    PROVE  /\ HalfRecorded(s)'
           /\ ~Counting(s)' => Settled(n)'
  <1>1. /\ HalfRecorded(s) /\ Green # None /\ None \notin Statuses
        /\ None \notin Counters
        /\ result[n] \in Statuses \union {None}
        /\ failureCount[n] \in Counters \union {None}
        /\ chk'[s].pc = "idle" \/ NameOf(s)' = n
    BY CheckMoves, ConstantsAssumption DEF NameOf, TypeOK, SerialInv
  <1>2. ~Counting(s) => Settled(n)
    <2>1. \A x \in Checks : Counting(x) /\ x # s => NameOf(x) # n
      BY DEF Counting
    <2> QED
      BY <1>1, <2>1 DEF SerialInv
  <1>3. CASE MaintenanceTest(s) \/ CheckReturns(s)
    BY <1>2, <1>3, BeforeLoadEffect DEF HalfRecorded, Counting, Settled
  <1>4. CASE LoadPrevious(s)
    BY <1>2, <1>4, LoadPreviousEffect DEF HalfRecorded, Counting, Settled
  <1>5. CASE StoreResult(s)
    BY <1>1, <1>5, StoreResultEffect DEF HalfRecorded, Counting, TypeOK
  <1>6. CASE LoadCounter(s)
    BY <1>1, <1>6, LoadCounterEffect DEF HalfRecorded, Counting
  <1>7. ASSUME NEW c \in Counters, StoreCounter(s, c)
        PROVE  HalfRecorded(s)' /\ Counting(s)'
    BY <1>1, <1>7, StoreCounterEffect DEF HalfRecorded, Counting, TypeOK
  <1>8. CASE LoadCount(s)
    BY <1>1, <1>8, LoadCountEffect DEF HalfRecorded, Counting
  <1>9. CASE RecordFailure(s)
    <2>1. /\ result[n] \in {None, chk[s].status} /\ chk[s].status # Green
          /\ failureCount[n] \in {None, chk[s].ctr} /\ chk[s].ctr \in Counters
          /\ UNCHANGED <<result, failureCount>>
          /\ chk'[s].pc \in {"push", "idle"}
      BY <1>1, <1>9, RecordFailureEffect DEF HalfRecorded, Counting
    <2>2. count'[chk[s].ctr] # 0
      <3>1. count[chk[s].ctr] \in 0 .. MaxCount /\ MaxCount \in Nat \ {0}
        <4>1. chk[s].mon.alertThreshold \in Nat \ {0}
              /\ chk[s].mon.alertThreshold < MaxCount
          BY CheckMoves, ConstantsAssumption
        <4> QED
          BY <2>1, <4>1, ConstantsAssumption DEF TypeOK
      <3> QED
        BY <2>1, <3>1, <1>9, RecordFailureEffect DEF TypeOK
    <2> QED
      BY <2>1, <2>2 DEF HalfRecorded, Counting, Settled
  <1>10. CASE RecordSuccess(s)
    <2>1. /\ result[n] \in {None, Green}
          /\ failureCount[n] \in {None, chk[s].ctr} /\ chk[s].ctr \in Counters
          /\ UNCHANGED <<result, failureCount>>
          /\ chk'[s].pc \in {"push", "idle"}
          /\ count'[chk[s].ctr] = 0
      BY <1>1, <1>10, RecordSuccessEffect DEF HalfRecorded, Counting, TypeOK
    <2> QED
      BY <2>1 DEF HalfRecorded, Counting, Settled
  <1>11. CASE Push(s)
    BY <1>2, <1>11, PushEffect DEF HalfRecorded, Counting, Settled
  <1> QED
    BY <1>3, <1>4, <1>5, <1>6, <1>7, <1>8, <1>9, <1>10, <1>11, CheckSteps

LEMMA SerialStep ==
    TypeOK /\ OneOwner /\ SerialInv /\ [SerialNext]_vars => SerialInv'
  <1> SUFFICES ASSUME TypeOK, OneOwner, SerialInv, [SerialNext]_vars
               PROVE  SerialInv'
    OBVIOUS
  <1> USE ConstantsAssumption
  <1>1. Serial'
    BY DEF SerialInv, SerialNext, Serial, InFlight, vars
  <1>2. ASSUME NEW s \in Checks, Check(s) PROVE SerialInv'
    <2>1. Serial
      BY DEF SerialInv
    <2>2. /\ \A x \in Checks :
               x # s => /\ chk'[x] = chk[x]
                        /\ chk[x].pc = "idle" \/ NameOf(x) # NameOf(s)
          /\ \A n \in Names :
               n # NameOf(s) => /\ result'[n] = result[n]
                                /\ failureCount'[n] = failureCount[n]
          /\ \A n \in Names, c \in Counters :
               n # NameOf(s) /\ Owns(n, c) => count'[c] = count[c]
      BY <1>2, <2>1, OthersKeep
    <2>3. NameOf(s) \in Names
      BY <1>2, CheckMoves DEF NameOf
    <2>4. \A n \in Names :
            n = NameOf(s) => HalfRecorded(s)' /\ (~Counting(s)' => Settled(n)')
      <3> SUFFICES ASSUME NEW n \in Names, n = NameOf(s)
                   PROVE  HalfRecorded(s)' /\ (~Counting(s)' => Settled(n)')
        OBVIOUS
      <3>1. \A x \in Checks :
               x # s => /\ chk'[x] = chk[x]
                        /\ chk[x].pc = "idle" \/ NameOf(x) # NameOf(s)
        BY <2>2
      <3> QED
        BY <1>2, <3>1, OwnNameSettles
    <2>5. ASSUME NEW x \in Checks, x # s PROVE HalfRecorded(x)'
      <3>1. CASE chk[x].pc = "idle"
        BY <2>2, <2>5, <3>1 DEF HalfRecorded, Counting
      <3>2. CASE chk[x].pc # "idle"
        <4>1. /\ NameOf(x) \in Names /\ NameOf(x) # NameOf(s)
              /\ chk'[x] = chk[x]
          BY <2>2, <2>5, <3>2 DEF NameOf, TypeOK, WellFormed
        <4> QED
          BY <2>2, <4>1 DEF SerialInv, HalfRecorded, Counting, NameOf
      <3> QED
        BY <3>1, <3>2
    <2>6. ASSUME NEW n \in Names, (\A x \in Checks : Counting(x) => NameOf(x) # n)'
          PROVE  Settled(n)'
      <3>1. CASE n = NameOf(s)
        <4>1. ~Counting(s)'
          BY <1>2, <2>6, <3>1, CheckMoves DEF NameOf, Counting
        <4> QED
          BY <2>4, <3>1, <4>1
      <3>2. CASE n # NameOf(s)
        <4>1. \A x \in Checks : Counting(x) => NameOf(x) # n
          BY <2>2, <2>6, <3>2 DEF Counting, NameOf
        <4>2. Settled(n)
          BY <4>1 DEF SerialInv
        <4>3. failureCount[n] # None => Owns(n, failureCount[n])
                                        /\ failureCount[n] \in Counters
          BY DEF Owns, TypeOK
        <4> QED
          BY <2>2, <3>2, <4>2, <4>3 DEF Settled
      <3> QED
        BY <3>1, <3>2
    <2> QED
      BY <1>1, <2>3, <2>4, <2>5, <2>6 DEF SerialInv
  <1>3. ASSUME NEW s \in Checks,
               \/ FinishAdd(s)
               \/ \E m \in Monitors : SpawnCheck(m, s) \/ AddSystem(m, s)
        PROVE  SerialInv'
    <2>1. /\ chk[s].pc = "idle" /\ chk'[s].pc \in {"maint", "check"}
          /\ \A x \in Checks : x # s => chk'[x] = chk[x]
          /\ UNCHANGED <<result, failureCount, count>>
      BY <1>3, SpawnEffect
    <2>2. \A x \in Checks : Counting(x)' = Counting(x)
                            /\ (Counting(x) => chk'[x] = chk[x])
      BY <2>1 DEF Counting
    <2>3. \A x \in Checks : HalfRecorded(x)'
      BY <2>1, <2>2 DEF SerialInv, HalfRecorded, NameOf, Counting
    <2>4. ASSUME NEW n \in Names, (\A x \in Checks : Counting(x) => NameOf(x) # n)'
          PROVE  Settled(n)'
      <3>1. Settled(n)
        BY <2>2, <2>4 DEF SerialInv, NameOf
      <3> QED
        BY <2>1, <3>1 DEF Settled
    <2> QED
      BY <1>1, <2>3, <2>4 DEF SerialInv
  <1>4. CASE /\ \/ \E n \in Names : Remove(n)
                \/ DeleteResult \/ DeleteCount \/ DeleteMaintenance
             /\ UNCHANGED <<chk, count>>
    <2>1. /\ \A n \in Names : result'[n] \in {None, result[n]}
          /\ \A n \in Names : failureCount'[n] \in {None, failureCount[n]}
      BY <1>4 DEF Remove, DeleteResult, DeleteCount, DeleteMaintenance, TypeOK
    <2>2. \A x \in Checks : Counting(x) => NameOf(x) \in Names
      BY DEF Counting, NameOf, TypeOK, WellFormed
    <2>3. \A x \in Checks : HalfRecorded(x)'
      BY <1>4, <2>1, <2>2 DEF SerialInv, HalfRecorded, Counting, NameOf
    <2>4. ASSUME NEW n \in Names, (\A x \in Checks : Counting(x) => NameOf(x) # n)'
          PROVE  Settled(n)'
      <3>1. Settled(n)
        BY <1>4, <2>4 DEF SerialInv, Counting, NameOf
      <3> QED
        BY <1>4, <2>1, <3>1 DEF Settled
    <2> QED
      BY <1>1, <2>3, <2>4 DEF SerialInv
  <1>5. CASE UNCHANGED <<chk, result, failureCount, count>>
    BY <1>1, <1>5 DEF SerialInv, HalfRecorded, Counting, NameOf, Settled
  <1>6. CASE UNCHANGED vars
    BY <1>5, <1>6 DEF vars
  <1> QED
    BY <1>2, <1>3, <1>4, <1>5, <1>6, StepKinds DEF SerialNext

\* A behaviour without overlaps is a behaviour of the service.
LEMMA SerialIsSpec == SerialSpec => Spec
  <1>1. [SerialNext]_vars => [Next]_vars
    BY DEF SerialNext
  <1> QED
    BY <1>1, PTL DEF SerialSpec, Spec

LEMMA SerialInvariance == SerialSpec => [](TypeOK /\ OneOwner /\ SerialInv)
  <1>1. Init => SerialInv
    BY DEF Init, SerialInv, Serial, InFlight, IdleCheck, HalfRecorded, Counting,
       Settled
  <1>2. TypeOK /\ OneOwner /\ SerialInv /\ [SerialNext]_vars => SerialInv'
    BY SerialStep
  <1> QED
    BY <1>1, <1>2, SerialIsSpec, TypeCorrect, OneOwnerHolds, PTL DEF SerialSpec

\* Between checks that do not overlap the stored result and the failure counter
\* tell the same story, whatever is removed, added and edited under them.
THEOREM ResultMatchesCountHolds == SerialSpec => []ResultMatchesCount
  <1>1. TypeOK /\ SerialInv => ResultMatchesCount
    <2> SUFFICES ASSUME TypeOK, SerialInv, NEW n \in Names, InFlight(n) = {}
                 PROVE  Settled(n)
      BY DEF ResultMatchesCount, Settled
    <2>1. \A s \in Checks : Counting(s) => NameOf(s) # n
      BY DEF InFlight, Counting, NameOf
    <2> QED
      BY <2>1 DEF SerialInv
  <1> QED
    BY <1>1, SerialInvariance, PTL

-----------------------------------------------------------------------------
(* The alert policy *)

\* What is known of a running check and its name before it takes a step.
LEMMA BeforeStep ==
    ASSUME TypeOK, SerialInv, PolicyInv, NEW s \in Checks, Check(s),
           NEW n \in Names, n = NameOf(s),
           \A x \in Checks : x # s => chk[x].pc = "idle" \/ NameOf(x) # n
    PROVE  /\ ReadsHold(s)
           /\ failureCount[n] # None => result[n] # None
           /\ ~Counting(s) => Settled(n)
           /\ \A m \in Monitors : m.name = n /\ ~Pushing(s) => Informed(m)
           /\ Failures(n) \in 0 .. MaxCount
           /\ chk[s].mon \in Monitors
           /\ chk[s].mon.alertThreshold \in Nat \ {0}
           /\ chk[s].mon.alertThreshold < MaxCount
           /\ MaxCount \in Nat
  <1>1. ~Counting(s) => \A x \in Checks : Counting(x) => NameOf(x) # n
    BY DEF Counting
  <1>2. ~Pushing(s) => \A x \in Checks : Pushing(x) => NameOf(x) # n
    BY DEF Pushing
  <1>3. /\ chk[s].mon \in Monitors
        /\ chk[s].mon.alertThreshold \in Nat \ {0}
        /\ chk[s].mon.alertThreshold < MaxCount
    BY CheckMoves, ConstantsAssumption
  <1>4. Failures(n) \in 0 .. MaxCount
    BY ConstantsAssumption DEF Failures, TypeOK
  <1>5. ASSUME NEW m \in Monitors, m.name = n, ~Pushing(s) PROVE Informed(m)
    BY <1>2, <1>5 DEF PolicyInv
  <1> QED
    BY <1>1, <1>3, <1>4, <1>5, ConstantsAssumption DEF PolicyInv, SerialInv

\* The count a check has loaded is that of its name.
LEMMA LoadedCount ==
    ASSUME TypeOK, NEW s \in Checks, ReadsHold(s), chk[s].pc \in {"count", "update"}
    PROVE  /\ failureCount[NameOf(s)] = chk[s].ctr
           /\ chk[s].ctr \in Counters /\ chk[s].ctr # None
           /\ Failures(NameOf(s)) = count[chk[s].ctr]
  BY ConstantsAssumption DEF ReadsHold, Failures, TypeOK, WellFormed

\* A failure adds one to what has been observed, and what the code compares with
\* the threshold is that; the alert goes out just when the receiver has to learn
\* of it.
LEMMA FailureDecides ==
    ASSUME TypeOK, SerialInv, PolicyInv,
           NEW s \in Checks, RecordFailure(s), NEW n \in Names, n = NameOf(s),
           \A x \in Checks : x # s => chk[x].pc = "idle" \/ NameOf(x) # n
    PROVE  LET t == chk[s].mon.alertThreshold
               f == IF Failures(n) < MaxCount THEN Failures(n) + 1 ELSE MaxCount
           IN  /\ Failures(n)' = f
               /\ chk'[s].pc = IF f >= t /\ told[n] # "down" THEN "push" ELSE "idle"
               /\ chk'[s].pc = "push" => chk'[s].alert = "down" /\ f >= t
               /\ chk'[s].pc # "push" => (told[n] = "down" <=> f >= t)
               /\ UNCHANGED <<result, failureCount, told>>
  <1> DEFINE t == chk[s].mon.alertThreshold
             f == IF Failures(n) < MaxCount THEN Failures(n) + 1 ELSE MaxCount
  <1>1. Check(s) /\ chk[s].pc = "update"
    BY RecordFailureEffect DEF Check
  <1>2. /\ ReadsHold(s) /\ Failures(n) \in 0 .. MaxCount /\ MaxCount \in Nat
        /\ t \in Nat \ {0} /\ t < MaxCount
        /\ chk[s].mon \in Monitors
        /\ \A m \in Monitors : m.name = n /\ ~Pushing(s) => Informed(m)
    BY <1>1, BeforeStep
  <1>3. told[n] = "down" <=> Failures(n) >= t
    BY <1>1, <1>2 DEF Informed, Pushing, NameOf
  <1>4. /\ failureCount[n] = chk[s].ctr /\ chk[s].ctr \in Counters
        /\ chk[s].ctr # None /\ Failures(n) = count[chk[s].ctr]
    BY <1>1, <1>2, LoadedCount
  <1>5. /\ count' = [count EXCEPT ![chk[s].ctr] = f]
        /\ chk'[s].pc = IF f = t THEN "push" ELSE "idle"
        /\ chk'[s].pc = "push" => chk'[s].alert = "down"
        /\ UNCHANGED <<result, failureCount, told>>
    BY <1>4, RecordFailureEffect
  <1>6. Failures(n)' = f
    BY <1>4, <1>5 DEF Failures, TypeOK
  <1>7. f = t <=> f >= t /\ ~(Failures(n) >= t)
    BY <1>2
  <1>8. f # t => (f >= t <=> Failures(n) >= t)
    BY <1>2
  <1> HIDE DEF f, t
  <1>9. f = t => f >= t
    BY <1>7
  <1> QED
    BY <1>3, <1>5, <1>6, <1>7, <1>8, <1>9 DEF f, t

\* A success ends what has been observed, and the edge the code finds in the
\* previous result and count is that the receiver believes the monitor down.
LEMMA SuccessDecides ==
    ASSUME TypeOK, SerialInv, PolicyInv,
           NEW s \in Checks, RecordSuccess(s), NEW n \in Names, n = NameOf(s),
           \A x \in Checks : x # s => chk[x].pc = "idle" \/ NameOf(x) # n
    PROVE  /\ Failures(n)' = 0
           /\ chk'[s].pc = IF told[n] = "down" THEN "push" ELSE "idle"
           /\ chk'[s].pc = "push" => chk'[s].alert = "ok"
           /\ UNCHANGED <<result, failureCount, told>>
  <1> DEFINE t == chk[s].mon.alertThreshold
  <1>1. Check(s) /\ chk[s].pc = "update"
    BY RecordSuccessEffect DEF Check
  <1>2. /\ ReadsHold(s) /\ Failures(n) \in 0 .. MaxCount /\ MaxCount \in Nat
        /\ t \in Nat \ {0} /\ t < MaxCount
        /\ chk[s].mon \in Monitors
        /\ \A m \in Monitors : m.name = n /\ ~Pushing(s) => Informed(m)
    BY <1>1, BeforeStep
  <1>3. told[n] = "down" <=> Failures(n) >= t
    BY <1>1, <1>2 DEF Informed, Pushing, NameOf
  <1>4. /\ failureCount[n] = chk[s].ctr /\ chk[s].ctr \in Counters
        /\ chk[s].ctr # None /\ Failures(n) = count[chk[s].ctr]
    BY <1>1, <1>2, LoadedCount
  <1>5. /\ count' = [count EXCEPT ![chk[s].ctr] = 0]
        /\ chk'[s].pc = IF Recovered(chk[s]) THEN "push" ELSE "idle"
        /\ chk'[s].pc = "push" => chk'[s].alert = "ok"
        /\ UNCHANGED <<result, failureCount, told>>
    BY RecordSuccessEffect
  <1>6. Failures(n)' = 0
    BY <1>4, <1>5 DEF Failures, TypeOK
  <1>7. /\ chk[s].prevCount = Failures(n)
        /\ Failures(n) > 0 => chk[s].prev # None /\ chk[s].prev # Green
    BY <1>1, <1>2, <1>4 DEF ReadsHold, Counting
  <1>8. Failures(n) >= t => Failures(n) > 0
    BY <1>2
  <1>9. Recovered(chk[s]) <=> Failures(n) >= t
    BY <1>7, <1>8 DEF Recovered
  <1> QED
    BY <1>3, <1>5, <1>6, <1>9

\* What the check leaves of its own name.
LEMMA OwnNameInformed ==
    ASSUME TypeOK, SerialInv, PolicyInv, UniformThreshold,
           NEW s \in Checks, Check(s), NEW n \in Names, n = NameOf(s),
           \A x \in Checks : x # s => chk[x].pc = "idle" \/ NameOf(x) # n
    PROVE  /\ ReadsHold(s)'
           /\ (failureCount[n] # None => result[n] # None)'
           /\ \A m \in Monitors :
                m.name = n /\ ~Pushing(s)' =>
                  (told'[n] = "down" <=> Failures(n)' >= m.alertThreshold)
  <1> DEFINE Told == \A m \in Monitors :
                m.name = n /\ ~Pushing(s)' =>
                  (told'[n] = "down" <=> Failures(n)' >= m.alertThreshold)
             Has == (failureCount[n] # None => result[n] # None)'
  <1>1. /\ ReadsHold(s)
        /\ failureCount[n] # None => result[n] # None
        /\ ~Counting(s) => Settled(n)
        /\ \A m \in Monitors : m.name = n /\ ~Pushing(s) => Informed(m)
        /\ Failures(n) \in 0 .. MaxCount /\ MaxCount \in Nat
        /\ chk[s].mon \in Monitors
    BY BeforeStep
  <1>2. None \notin Statuses /\ None \notin Counters
    BY ConstantsAssumption
  <1>3. \A m \in Monitors :
          m.name = n => m.alertThreshold = chk[s].mon.alertThreshold
    BY <1>1 DEF UniformThreshold, NameOf
  <1>4. ASSUME UNCHANGED <<failureCount, count, told>>, ~Pushing(s) PROVE Told
    BY <1>1, <1>4 DEF Informed, Failures
  <1>5. CASE MaintenanceTest(s) \/ CheckReturns(s)
    <2>1. ReadsHold(s)'
      BY <1>5, BeforeLoadEffect DEF ReadsHold, Counting, Pushing
    <2> QED
      BY <1>1, <1>4, <1>5, <2>1, BeforeLoadEffect DEF Pushing
  <1>6. CASE LoadPrevious(s)
    <2>1. ReadsHold(s)'
      BY <1>6, LoadPreviousEffect DEF ReadsHold, Counting, Pushing, NameOf
    <2> QED
      BY <1>1, <1>4, <1>6, <2>1, LoadPreviousEffect DEF Pushing
  <1>7. CASE StoreResult(s)
    <2>1. /\ chk[s].pc = "store" /\ chk'[s].pc = "counter"
          /\ NameOf(s)' = n /\ chk'[s].prev = chk[s].prev
          /\ result'[n] \in Statuses
          /\ UNCHANGED <<failureCount, count, told>>
      BY <1>7, StoreResultEffect DEF TypeOK, NameOf
    <2>2. chk[s].prev = result[n] /\ Settled(n)
      BY <1>1, <2>1 DEF ReadsHold, Counting
    <2>3. Failures(n) > 0 => failureCount[n] # None /\ count[failureCount[n]] # 0
      BY DEF Failures
    <2>4. Failures(n) > 0 => chk[s].prev # None /\ chk[s].prev # Green
      BY <1>1, <2>2, <2>3 DEF Settled
    <2>5. ReadsHold(s)'
      BY <1>2, <2>1, <2>4 DEF ReadsHold, Counting, Pushing, Failures
    <2> QED
      BY <1>2, <1>4, <2>1, <2>5 DEF Pushing
  <1>8. CASE LoadCounter(s)
    <2>1. ReadsHold(s)'
      BY <1>1, <1>8, LoadCounterEffect
         DEF ReadsHold, Counting, Pushing, NameOf, Failures
    <2> QED
      BY <1>1, <1>4, <1>8, <2>1, LoadCounterEffect DEF Pushing
  <1>9. ASSUME NEW c \in Counters, StoreCounter(s, c)
        PROVE  ReadsHold(s)' /\ Has /\ Told
    <2>1. /\ chk[s].pc = "counter" /\ chk'[s].pc = "count"
          /\ NameOf(s)' = n /\ chk'[s].prev = chk[s].prev /\ chk'[s].ctr = c
          /\ failureCount[n] = None
          /\ failureCount'[n] = c /\ count'[c] = 0
          /\ UNCHANGED <<result, told>>
      BY <1>9, StoreCounterEffect DEF TypeOK, NameOf
    <2>2. Failures(n) = 0 /\ Failures(n)' = 0
      BY <1>2, <2>1 DEF Failures
    <2>3. ReadsHold(s)' /\ Has
      BY <1>1, <2>1, <2>2 DEF ReadsHold, Counting, Pushing
    <2>4. Told
      BY <1>1, <2>1, <2>2 DEF Informed, Pushing
    <2> QED
      BY <2>3, <2>4
  <1>10. CASE LoadCount(s)
    <2>1. /\ chk[s].pc = "count" /\ chk'[s].pc = "update"
          /\ NameOf(s)' = n /\ chk'[s].prev = chk[s].prev
          /\ chk'[s].ctr = chk[s].ctr /\ chk'[s].prevCount = count[chk[s].ctr]
          /\ UNCHANGED <<result, failureCount, count, told>>
      BY <1>10, LoadCountEffect DEF NameOf
    <2>2. ReadsHold(s)'
      BY <1>1, <2>1 DEF ReadsHold, Counting, Pushing, Failures
    <2> QED
      BY <1>1, <1>4, <2>1, <2>2 DEF Pushing
  <1>11. CASE RecordFailure(s)
    <2> DEFINE t == chk[s].mon.alertThreshold
               f == IF Failures(n) < MaxCount THEN Failures(n) + 1 ELSE MaxCount
    <2>1. /\ Failures(n)' = f
          /\ chk'[s].pc \in {"push", "idle"}
          /\ chk'[s].pc = "push" => chk'[s].alert = "down" /\ f >= t
          /\ chk'[s].pc # "push" => (told[n] = "down" <=> f >= t)
          /\ UNCHANGED <<result, failureCount, told>>
      BY <1>11, FailureDecides
    <2>2. chk'[s].pc = "push" => chk'[s].mon = chk[s].mon /\ NameOf(s)' = n
      BY CheckMoves DEF NameOf
    <2> HIDE DEF f, t
    <2>3. ReadsHold(s)'
      BY <2>1, <2>2 DEF ReadsHold, Counting, Pushing, t
    <2>4. Told
      BY <1>3, <2>1 DEF Pushing, t
    <2> QED
      BY <1>1, <2>1, <2>3, <2>4
  <1>12. CASE RecordSuccess(s)
    <2>1. /\ Failures(n)' = 0
          /\ chk'[s].pc = IF told[n] = "down" THEN "push" ELSE "idle"
          /\ chk'[s].pc = "push" => chk'[s].alert = "ok"
          /\ UNCHANGED <<result, failureCount, told>>
      BY <1>12, SuccessDecides
    <2>2. /\ chk'[s].pc = "push" => chk'[s].mon = chk[s].mon /\ NameOf(s)' = n
          /\ \A m \in Monitors : ~(0 >= m.alertThreshold)
      BY CheckMoves, ConstantsAssumption DEF NameOf
    <2>3. ReadsHold(s)'
      BY <1>1, <2>1, <2>2 DEF ReadsHold, Counting, Pushing
    <2>4. Told
      BY <2>1, <2>2 DEF Pushing
    <2> QED
      BY <1>1, <2>1, <2>3, <2>4
  <1>13. CASE Push(s)
    <2>1. /\ chk[s].pc = "push" /\ chk'[s].pc = "idle"
          /\ told'[n] = chk[s].alert
          /\ UNCHANGED <<result, failureCount, count>>
      BY <1>13, PushEffect DEF TypeOK
    <2>2. ReadsHold(s)'
      BY <2>1 DEF ReadsHold, Counting, Pushing
    <2>3. chk[s].alert = "down" <=> Failures(n) >= chk[s].mon.alertThreshold
      BY <1>1, <2>1 DEF ReadsHold, Pushing
    <2>4. Told
      BY <1>3, <2>1, <2>3 DEF Failures
    <2> QED
      BY <1>1, <2>1, <2>2, <2>4
  <1> QED
    BY <1>5, <1>6, <1>7, <1>8, <1>9, <1>10, <1>11, <1>12, <1>13, CheckSteps

LEMMA PolicyStep ==
    ASSUME UniformThreshold, Removable = {}
    PROVE  TypeOK /\ OneOwner /\ SerialInv /\ PolicyInv /\ [SerialNext]_vars
             => PolicyInv'
  <1> SUFFICES ASSUME TypeOK, OneOwner, SerialInv, PolicyInv, [SerialNext]_vars
               PROVE  PolicyInv'
    OBVIOUS
  <1>1. ASSUME NEW s \in Checks, Check(s) PROVE PolicyInv'
    <2>1. NameOf(s) \in Names /\ Serial
      BY <1>1, CheckMoves, ConstantsAssumption DEF NameOf, SerialInv
    <2>2. /\ \A x \in Checks :
               x # s => /\ chk'[x] = chk[x]
                        /\ chk[x].pc = "idle" \/ NameOf(x) # NameOf(s)
          /\ \A n \in Names :
               n # NameOf(s) => /\ result'[n] = result[n]
                                /\ failureCount'[n] = failureCount[n]
                                /\ told'[n] = told[n]
          /\ \A n \in Names, c \in Counters :
               n # NameOf(s) /\ Owns(n, c) => count'[c] = count[c]
      BY <1>1, <2>1, OthersKeep
    <2>3. \A n \in Names : n # NameOf(s) => Failures(n)' = Failures(n)
      BY <2>2 DEF Failures, Owns, TypeOK
    <2>4. \A n \in Names :
            n = NameOf(s) =>
              /\ ReadsHold(s)'
              /\ (failureCount[n] # None => result[n] # None)'
              /\ \A m \in Monitors :
                   m.name = n /\ ~Pushing(s)' =>
                     (told'[n] = "down" <=> Failures(n)' >= m.alertThreshold)
      <3> SUFFICES ASSUME NEW n \in Names, n = NameOf(s)
                   PROVE  /\ ReadsHold(s)'
                          /\ (failureCount[n] # None => result[n] # None)'
                          /\ \A m \in Monitors :
                               m.name = n /\ ~Pushing(s)' =>
                                 (told'[n] = "down" <=>
                                    Failures(n)' >= m.alertThreshold)
        OBVIOUS
      <3>1. \A x \in Checks : x # s => chk[x].pc = "idle" \/ NameOf(x) # n
        BY <2>2
      <3> QED
        BY <1>1, <3>1, OwnNameInformed
    <2>5. NoRemoval'
      BY <1>1, CheckMoves DEF NoRemoval, PolicyInv
    <2>6. \A n \in Names : (failureCount[n] # None => result[n] # None)'
      BY <2>2, <2>4 DEF PolicyInv
    <2>7. ASSUME NEW x \in Checks PROVE ReadsHold(x)'
      <3>1. CASE x = s
        BY <2>1, <2>4, <3>1
      <3>2. CASE x # s /\ chk[x].pc = "idle"
        BY <2>2, <3>2 DEF ReadsHold, Counting, Pushing
      <3>3. CASE x # s /\ chk[x].pc # "idle"
        <4>1. /\ NameOf(x) \in Names /\ NameOf(x) # NameOf(s)
              /\ chk'[x] = chk[x] /\ NameOf(x)' = NameOf(x)
          BY <2>2, <3>3, ConstantsAssumption DEF NameOf, TypeOK, WellFormed
        <4>2. /\ result'[NameOf(x)] = result[NameOf(x)]
              /\ failureCount'[NameOf(x)] = failureCount[NameOf(x)]
              /\ Failures(NameOf(x))' = Failures(NameOf(x))
          BY <2>2, <2>3, <4>1
        <4>3. chk[x].pc = "update" => count'[chk[x].ctr] = count[chk[x].ctr]
          BY <2>2, <4>1 DEF Owns, NameOf, TypeOK, WellFormed
        <4>4. ReadsHold(x)
          BY DEF PolicyInv
        <4> QED
          BY <4>1, <4>2, <4>3, <4>4 DEF ReadsHold, Counting, Pushing
      <3> QED
        BY <3>1, <3>2, <3>3
    <2>8. ASSUME NEW m \in Monitors,
                 (\A x \in Checks : Pushing(x) => NameOf(x) # m.name)'
          PROVE  Informed(m)'
      <3>1. m.name \in Names
        BY ConstantsAssumption
      <3>2. CASE m.name = NameOf(s)
        <4>1. ~Pushing(s)'
          BY <1>1, <2>8, <3>2, CheckMoves DEF NameOf, Pushing
        <4> QED
          BY <2>4, <3>1, <3>2, <4>1 DEF Informed
      <3>3. CASE m.name # NameOf(s)
        <4>1. \A x \in Checks : Pushing(x) => NameOf(x) # m.name
          BY <2>2, <2>8, <3>3 DEF Pushing, NameOf
        <4>2. Informed(m)
          BY <4>1 DEF PolicyInv
        <4> QED
          BY <2>2, <2>3, <3>1, <3>3, <4>2 DEF Informed
      <3> QED
        BY <3>2, <3>3
    <2> QED
      BY <2>5, <2>6, <2>7, <2>8 DEF PolicyInv
  <1>2. ASSUME UNCHANGED <<result, failureCount, count, told>>, NoRemoval',
               \A x \in Checks :
                 chk'[x] = chk[x] \/ /\ chk[x].pc = "idle"
                                     /\ chk'[x].pc \in {"maint", "check"}
        PROVE  PolicyInv'
    <2>1. ASSUME NEW x \in Checks PROVE ReadsHold(x)'
      <3>1. CASE chk'[x] = chk[x]
        BY <1>2, <3>1 DEF PolicyInv, ReadsHold, Counting, Pushing, NameOf, Failures
      <3>2. CASE chk'[x].pc \in {"maint", "check"}
        BY <3>2 DEF ReadsHold, Counting, Pushing
      <3> QED
        BY <1>2, <3>1, <3>2
    <2>2. ASSUME NEW m \in Monitors,
                 (\A x \in Checks : Pushing(x) => NameOf(x) # m.name)'
          PROVE  Informed(m)'
      <3>1. \A x \in Checks : Pushing(x) => NameOf(x) # m.name
        BY <1>2, <2>2 DEF Pushing, NameOf
      <3>2. Informed(m)
        BY <3>1 DEF PolicyInv
      <3> QED
        BY <1>2, <3>2 DEF Informed, Failures
    <2> QED
      BY <1>2, <2>1, <2>2 DEF PolicyInv
  <1>3. ASSUME NEW s \in Checks,
               \/ FinishAdd(s)
               \/ \E m \in Monitors : SpawnCheck(m, s) \/ AddSystem(m, s)
        PROVE  PolicyInv'
    <2>1. /\ chk[s].pc = "idle" /\ chk'[s].pc \in {"maint", "check"}
          /\ \A x \in Checks : x # s => chk'[x] = chk[x]
          /\ UNCHANGED <<result, failureCount, count, told>>
          /\ api' = api \/ api'.pc = "idle"
      BY <1>3, SpawnEffect
    <2> QED
      BY <1>2, <2>1 DEF PolicyInv, NoRemoval
  <1>4. CASE \/ \E n \in Names : Remove(n)
             \/ DeleteResult \/ DeleteCount \/ DeleteMaintenance
    BY <1>4 DEF PolicyInv, NoRemoval, Remove, DeleteResult, DeleteCount,
       DeleteMaintenance
  <1>5. CASE \/ \E m \in Monitors : AddWithMaintenance(m)
             \/ Tick \/ (\E C \in SUBSET Names : CopyChain(C))
             \/ (\E m \in Monitors : SkipMonitor(m)) \/ RangeEnd
             \/ Environment
             \/ UNCHANGED vars
    <2>1. UNCHANGED <<chk, result, failureCount, count, told>>
      BY <1>5 DEF AddWithMaintenance, Tick, CopyChain, SkipMonitor, RangeEnd,
         Environment, HealthChanges, TimePasses, vars
    <2>2. UNCHANGED api \/ \E m \in Monitors : AddWithMaintenance(m)
      BY <1>5 DEF Tick, CopyChain, SkipMonitor, RangeEnd, Environment,
         HealthChanges, TimePasses, vars
    <2>3. NoRemoval'
      BY <2>2 DEF AddWithMaintenance, PolicyInv, NoRemoval
    <2> QED
      BY <1>2, <2>1, <2>3
  <1> QED
    BY <1>1, <1>3, <1>4, <1>5 DEF SerialNext, Next, Request, Handler, Scheduler

LEMMA PolicyInvariance ==
    ASSUME UniformThreshold, Removable = {}
    PROVE  SerialSpec => [](TypeOK /\ OneOwner /\ SerialInv /\ PolicyInv)
  <1>1. Init => PolicyInv
    BY ConstantsAssumption
       DEF Init, PolicyInv, NoRemoval, ReadsHold, Counting, Pushing, Informed,
           Failures, IdleCheck
  <1>2. TypeOK /\ OneOwner /\ SerialInv /\ PolicyInv /\ [SerialNext]_vars
          => PolicyInv'
    BY PolicyStep
  <1> QED
    BY <1>1, <1>2, SerialInvariance, PTL DEF SerialSpec

\* The alert a running check is about to push for the name.
Owed(n) ==
    IF \E s \in Checks : chk[s].pc = "push" /\ chk[s].mon.name = n
    THEN chk[CHOOSE s \in Checks : chk[s].pc = "push" /\ chk[s].mon.name = n].alert
    ELSE "none"

FailuresMap == [n \in Names |-> Failures(n)]

OwedMap == [n \in Names |-> Owed(n)]

\* The actions of the policy, on the mapped state.
LEMMA MappedPolicy ==
    ASSUME NEW n \in Names
    PROVE  /\ Policy!Fail(n) =
                LET f == IF FailuresMap[n] < MaxCount THEN FailuresMap[n] + 1
                                                      ELSE MaxCount
                IN  /\ OwedMap[n] = "none"
                    /\ FailuresMap' = [FailuresMap EXCEPT ![n] = f]
                    /\ OwedMap' = [OwedMap EXCEPT ![n] =
                                     IF f >= PolicyThreshold[n] /\ told[n] # "down"
                                     THEN "down" ELSE "none"]
                    /\ UNCHANGED told
           /\ Policy!Succeed(n) =
                /\ OwedMap[n] = "none"
                /\ FailuresMap' = [FailuresMap EXCEPT ![n] = 0]
                /\ OwedMap' = [OwedMap EXCEPT ![n] =
                                 IF told[n] = "down" THEN "ok" ELSE "none"]
                /\ UNCHANGED told
           /\ Policy!Deliver(n) =
                /\ OwedMap[n] # "none"
                /\ told' = [told EXCEPT ![n] = OwedMap[n]]
                /\ OwedMap' = [OwedMap EXCEPT ![n] = "none"]
                /\ UNCHANGED FailuresMap
  BY DEF Policy!Fail, Policy!Succeed, Policy!Deliver, FailuresMap, OwedMap,
         Failures, Owed

LEMMA MappedStutter ==
    UNCHANGED <<FailuresMap, told, OwedMap>> => UNCHANGED (Policy!vars)
  BY DEF Policy!vars, FailuresMap, OwedMap, Failures, Owed

OwedIsAlert ==
    \A n \in Names :
        /\ \A s \in Checks : Pushing(s) /\ NameOf(s) = n => Owed(n) = chk[s].alert
        /\ (\A s \in Checks : Pushing(s) => NameOf(s) # n) => Owed(n) = "none"

LEMMA OwedIsPushed == TypeOK /\ Serial => OwedIsAlert
  <1> SUFFICES ASSUME TypeOK, Serial, NEW n \in Names,
                      NEW s \in Checks, Pushing(s), NameOf(s) = n
               PROVE  Owed(n) = chk[s].alert
    BY DEF OwedIsAlert, Owed, Pushing, NameOf
  <1> DEFINE P(x) == chk[x].pc = "push" /\ chk[x].mon.name = n
             c == CHOOSE x \in Checks : P(x)
  <1>1. P(s)
    BY DEF Pushing, NameOf
  <1>2. c \in Checks /\ P(c)
    BY <1>1
  <1>3. c = s
    BY <1>1, <1>2 DEF Serial, InFlight
  <1> QED
    BY <1>1, <1>3 DEF Owed

LEMMA ThresholdOfName ==
    ASSUME UniformThreshold, NEW m \in Monitors
    PROVE  PolicyThreshold[m.name] = m.alertThreshold
  <1> DEFINE c == CHOOSE x \in Monitors : x.name = m.name
  <1>1. c \in Monitors /\ c.name = m.name
    OBVIOUS
  <1>2. m.name \in Names
    BY ConstantsAssumption
  <1>3. PolicyThreshold[m.name] = c.alertThreshold
    BY <1>2 DEF PolicyThreshold
  <1> QED
    BY <1>1, <1>3 DEF UniformThreshold

\* A step of a check changes the mapped state of its own name only.
LEMMA MappedEffect ==
    ASSUME TypeOK, TypeOK', OneOwner, Serial, Serial',
           NEW s \in Checks, Check(s), NEW n \in Names, n = NameOf(s)
    PROVE  /\ \A x \in Checks : x # s => chk[x].pc = "idle" \/ NameOf(x) # n
           /\ FailuresMap[n] = Failures(n)
           /\ FailuresMap' = [FailuresMap EXCEPT ![n] = Failures(n)']
           /\ OwedMap[n] = IF Pushing(s) THEN chk[s].alert ELSE "none"
           /\ OwedMap' = [OwedMap EXCEPT
                ![n] = IF chk'[s].pc = "push" THEN chk'[s].alert ELSE "none"]
  <1>1. /\ \A x \in Checks :
             x # s => chk'[x] = chk[x] /\ (chk[x].pc = "idle" \/ NameOf(x) # n)
        /\ \A x \in Names : x # n => failureCount'[x] = failureCount[x]
        /\ \A x \in Names, c \in Counters :
             x # n /\ Owns(x, c) => count'[c] = count[c]
    BY OthersKeep
  <1>2. chk'[s].pc # "idle" => NameOf(s)' = n
    BY CheckMoves DEF NameOf
  <1>3. \A x \in Names : x # n => Failures(x)' = Failures(x)
    BY <1>1 DEF Failures, Owns, TypeOK
  <1>4. FailuresMap' = [FailuresMap EXCEPT ![n] = Failures(n)']
    <2>1. FailuresMap' = [x \in Names |-> Failures(x)']
      BY DEF FailuresMap
    <2> QED
      BY <1>3, <2>1 DEF FailuresMap
  <1>5. Owed(n) = IF Pushing(s) THEN chk[s].alert ELSE "none"
    <2>1. CASE Pushing(s)
      BY <2>1, OwedIsPushed DEF OwedIsAlert
    <2>2. CASE ~Pushing(s)
      BY <1>1, <2>2, OwedIsPushed DEF OwedIsAlert, Pushing
    <2> QED
      BY <2>1, <2>2
  <1>6. OwedIsAlert'
    BY OwedIsPushed, PTL
  <1>7. OwedMap' = [OwedMap EXCEPT
          ![n] = IF chk'[s].pc = "push" THEN chk'[s].alert ELSE "none"]
    <2>1. OwedMap' = [x \in Names |-> Owed(x)']
      BY DEF OwedMap
    <2>2. Owed(n)' = IF chk'[s].pc = "push" THEN chk'[s].alert ELSE "none"
      <3>1. CASE chk'[s].pc = "push"
        BY <1>2, <1>6, <3>1 DEF OwedIsAlert, Pushing
      <3>2. CASE chk'[s].pc # "push"
        BY <1>1, <1>6, <3>2 DEF OwedIsAlert, Pushing, NameOf
      <3> QED
        BY <3>1, <3>2
    <2>3. ASSUME NEW x \in Names, x # n PROVE Owed(x)' = Owed(x)
      <3>1. OwedIsAlert
        BY OwedIsPushed
      <3>2. \A y \in Checks : /\ Pushing(y) /\ NameOf(y) = x => chk'[y] = chk[y]
                            /\ (Pushing(y) /\ NameOf(y) = x)' => chk'[y] = chk[y]
        BY <1>1, <1>2, <2>3 DEF Pushing, NameOf
      <3>3. ASSUME NEW y \in Checks, Pushing(y), NameOf(y) = x
            PROVE  Owed(x)' = Owed(x)
        <4>1. chk'[y] = chk[y]
          BY <1>1, <2>3, <3>3 DEF Pushing
        <4>2. Pushing(y)' /\ (NameOf(y) = x)'
          BY <3>3, <4>1 DEF Pushing, NameOf
        <4>3. Owed(x)' = chk'[y].alert
          BY <1>6, <4>2 DEF OwedIsAlert
        <4> QED
          BY <3>1, <3>3, <4>1, <4>3 DEF OwedIsAlert
      <3>4. CASE \A y \in Checks : Pushing(y) => NameOf(y) # x
        <4>1. (\A y \in Checks : Pushing(y) => NameOf(y) # x)'
          BY <3>2, <3>4 DEF Pushing, NameOf
        <4> QED
          BY <1>6, <3>1, <3>4, <4>1 DEF OwedIsAlert
      <3> QED
        BY <3>3, <3>4
    <2> QED
      BY <2>1, <2>2, <2>3 DEF OwedMap
  <1> QED
    BY <1>1, <1>4, <1>5, <1>7 DEF FailuresMap, OwedMap

\* A step of a check is a failure, a success or a delivery of the policy, or is
\* not seen by it.
LEMMA CheckImplementsPolicy ==
    ASSUME UniformThreshold, TypeOK, TypeOK', OneOwner, SerialInv, Serial',
           PolicyInv, NEW s \in Checks, Check(s)
    PROVE  [Policy!Next]_(Policy!vars)
  <1> SUFFICES ASSUME NEW n \in Names, n = NameOf(s)
               PROVE  [Policy!Next]_(Policy!vars)
    BY CheckMoves, ConstantsAssumption DEF NameOf
  <1>1. /\ \A x \in Checks : x # s => chk[x].pc = "idle" \/ NameOf(x) # n
        /\ FailuresMap[n] = Failures(n)
        /\ FailuresMap' = [FailuresMap EXCEPT ![n] = Failures(n)']
        /\ OwedMap[n] = IF Pushing(s) THEN chk[s].alert ELSE "none"
        /\ OwedMap' = [OwedMap EXCEPT
             ![n] = IF chk'[s].pc = "push" THEN chk'[s].alert ELSE "none"]
    BY MappedEffect DEF SerialInv
  <1>2. /\ chk[s].mon \in Monitors /\ ReadsHold(s)
        /\ \A m \in Monitors : m.name = n /\ ~Pushing(s) => Informed(m)
    BY <1>1, BeforeStep
  <1>3. PolicyThreshold[n] = chk[s].mon.alertThreshold
    BY <1>2, ThresholdOfName DEF NameOf
  <1>4. FailuresMap \in [Names -> {Failures(x) : x \in Names}]
        /\ OwedMap \in [Names -> {Owed(x) : x \in Names}]
    BY DEF FailuresMap, OwedMap
  <1>5. ASSUME ~Pushing(s), chk'[s].pc # "push", Failures(n)' = Failures(n),
               UNCHANGED told
        PROVE  UNCHANGED (Policy!vars)
    <2>1. FailuresMap' = FailuresMap /\ OwedMap' = OwedMap
      BY <1>1, <1>4, <1>5
    <2> QED
      BY <1>5, <2>1, MappedStutter
  <1>6. CASE RecordFailure(s)
    <2> DEFINE t == chk[s].mon.alertThreshold
               f == IF Failures(n) < MaxCount THEN Failures(n) + 1 ELSE MaxCount
    <2>1. /\ Failures(n)' = f
          /\ chk'[s].pc = IF f >= t /\ told[n] # "down" THEN "push" ELSE "idle"
          /\ chk'[s].pc = "push" => chk'[s].alert = "down"
          /\ UNCHANGED told
      BY <1>1, <1>6, FailureDecides
    <2>2. ~Pushing(s)
      BY <1>6, RecordFailureEffect DEF Pushing
    <2>3. OwedMap' = [OwedMap EXCEPT
            ![n] = IF f >= t /\ told[n] # "down" THEN "down" ELSE "none"]
      BY <1>1, <2>1
    <2>4. Policy!Fail(n)
      BY <1>1, <1>3, <2>1, <2>2, <2>3, MappedPolicy
    <2> QED
      BY <2>4 DEF Policy!Next
  <1>7. CASE RecordSuccess(s)
    <2>1. /\ Failures(n)' = 0
          /\ chk'[s].pc = IF told[n] = "down" THEN "push" ELSE "idle"
          /\ chk'[s].pc = "push" => chk'[s].alert = "ok"
          /\ UNCHANGED told
      BY <1>1, <1>7, SuccessDecides
    <2>2. ~Pushing(s)
      BY <1>7, RecordSuccessEffect DEF Pushing
    <2>3. OwedMap' = [OwedMap EXCEPT
            ![n] = IF told[n] = "down" THEN "ok" ELSE "none"]
      BY <1>1, <2>1
    <2>4. Policy!Succeed(n)
      BY <1>1, <2>1, <2>2, <2>3, MappedPolicy
    <2> QED
      BY <2>4 DEF Policy!Next
  <1>8. CASE Push(s)
    <2>1. /\ Pushing(s) /\ chk'[s].pc = "idle"
          /\ told' = [told EXCEPT ![n] = chk[s].alert]
          /\ UNCHANGED <<failureCount, count>>
      BY <1>8, PushEffect DEF Pushing
    <2>2. chk[s].alert # "none"
      BY <2>1 DEF Pushing, TypeOK, WellFormed
    <2>3. UNCHANGED FailuresMap
      BY <2>1 DEF FailuresMap, Failures
    <2>4. Policy!Deliver(n)
      BY <1>1, <2>1, <2>2, <2>3, MappedPolicy
    <2> QED
      BY <2>4 DEF Policy!Next
  <1>9. ASSUME NEW c \in Counters, StoreCounter(s, c)
        PROVE  UNCHANGED (Policy!vars)
    <2>1. /\ ~Pushing(s) /\ chk'[s].pc # "push" /\ UNCHANGED told
          /\ failureCount[n] = None /\ failureCount'[n] = c /\ count'[c] = 0
          /\ c # None
      BY <1>9, StoreCounterEffect, ConstantsAssumption DEF Pushing, TypeOK
    <2>2. Failures(n)' = Failures(n)
      BY <2>1 DEF Failures
    <2> QED
      BY <1>5, <2>1, <2>2
  <1>10. CASE \/ MaintenanceTest(s) \/ CheckReturns(s) \/ LoadPrevious(s)
              \/ StoreResult(s) \/ LoadCounter(s) \/ LoadCount(s)
    <2>1. /\ ~Pushing(s) /\ chk'[s].pc # "push"
          /\ UNCHANGED <<failureCount, count, told>>
      BY <1>10, BeforeLoadEffect, LoadPreviousEffect, StoreResultEffect,
         LoadCounterEffect, LoadCountEffect DEF Pushing
    <2>2. Failures(n)' = Failures(n)
      BY <2>1 DEF Failures
    <2> QED
      BY <1>5, <2>1, <2>2
  <1> QED
    BY <1>6, <1>7, <1>8, <1>9, <1>10, CheckSteps

LEMMA StepImplementsPolicy ==
    ASSUME UniformThreshold, Removable = {}
    PROVE  /\ TypeOK /\ TypeOK' /\ OneOwner /\ SerialInv /\ SerialInv' /\ PolicyInv
           /\ [SerialNext]_vars
           => [Policy!Next]_(Policy!vars)
  <1> SUFFICES ASSUME TypeOK, TypeOK', OneOwner, SerialInv, SerialInv', PolicyInv,
                      [SerialNext]_vars
               PROVE  [Policy!Next]_(Policy!vars)
    OBVIOUS
  <1>1. Serial' /\ Serial
    BY DEF SerialInv
  <1>2. ASSUME NEW s \in Checks, Check(s) PROVE [Policy!Next]_(Policy!vars)
    BY <1>1, <1>2, CheckImplementsPolicy
  <1>3. ASSUME UNCHANGED <<failureCount, count, told>>,
               \A x \in Checks :
                 chk'[x] = chk[x] \/ (~Pushing(x) /\ chk'[x].pc # "push")
        PROVE  UNCHANGED (Policy!vars)
    <2>1. FailuresMap' = FailuresMap
      BY <1>3 DEF FailuresMap, Failures
    <2>2. OwedIsAlert /\ OwedIsAlert'
      <3>1. OwedIsAlert
        BY <1>1, OwedIsPushed
      <3>2. OwedIsAlert'
        BY <1>1, OwedIsPushed, PTL
      <3> QED
        BY <3>1, <3>2
    <2>3. ASSUME NEW n \in Names PROVE Owed(n)' = Owed(n)
      <3>1. ASSUME NEW y \in Checks, Pushing(y), NameOf(y) = n
            PROVE  Owed(n)' = Owed(n)
        <4>1. chk'[y] = chk[y]
          BY <1>3, <3>1
        <4>2. Pushing(y)' /\ (NameOf(y) = n)'
          BY <3>1, <4>1 DEF Pushing, NameOf
        <4>3. Owed(n)' = chk'[y].alert
          BY <2>2, <4>2 DEF OwedIsAlert
        <4> QED
          BY <2>2, <3>1, <4>1, <4>3 DEF OwedIsAlert
      <3>2. CASE \A y \in Checks : Pushing(y) => NameOf(y) # n
        <4>1. (\A y \in Checks : Pushing(y) => NameOf(y) # n)'
          BY <1>3, <3>2 DEF Pushing, NameOf
        <4> QED
          BY <2>2, <3>2, <4>1 DEF OwedIsAlert
      <3> QED
        BY <3>1, <3>2
    <2>4. OwedMap' = OwedMap
      BY <2>3 DEF OwedMap
    <2> QED
      BY <1>3, <2>1, <2>4, MappedStutter
  <1>4. ASSUME NEW s \in Checks,
               \/ FinishAdd(s)
               \/ \E m \in Monitors : SpawnCheck(m, s) \/ AddSystem(m, s)
        PROVE  UNCHANGED (Policy!vars)
    BY <1>3, <1>4, SpawnEffect DEF Pushing
  <1>5. CASE \/ \E n \in Names : Remove(n)
             \/ DeleteResult \/ DeleteCount \/ DeleteMaintenance
    BY <1>5 DEF PolicyInv, NoRemoval, Remove, DeleteResult, DeleteCount,
       DeleteMaintenance
  <1>6. CASE UNCHANGED <<chk, failureCount, count, told>>
    BY <1>3, <1>6
  <1>7. CASE UNCHANGED vars
    BY <1>6, <1>7 DEF vars
  <1> QED
    BY <1>2, <1>4, <1>5, <1>6, <1>7, StepKinds DEF SerialNext

\* While checks of a name do not overlap and no monitor is removed nor its
\* threshold edited, the service tells its receivers what the policy promises:
\* the edges it finds in the previous result and count (monitors.go:287-299) are
\* those between what is so and what the receiver was last told.
THEOREM ImplementsAlertPolicyHolds ==
    ASSUME UniformThreshold, Removable = {}
    PROVE  SerialSpec => ImplementsAlertPolicy
  <1>1. Init => Policy!Init
    BY DEF Init, Policy!Init, IdleCheck
  <1>2. /\ TypeOK /\ TypeOK' /\ OneOwner /\ SerialInv /\ SerialInv' /\ PolicyInv
        /\ [SerialNext]_vars
        => [Policy!Next]_(Policy!vars)
    BY StepImplementsPolicy
  <1> QED
    BY <1>1, <1>2, PolicyInvariance, PTL
       DEF SerialSpec, ImplementsAlertPolicy, Policy!Spec
=============================================================================
