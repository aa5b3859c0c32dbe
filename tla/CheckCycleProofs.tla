-------------------------- MODULE CheckCycleProofs --------------------------
(***************************************************************************)
(* What is proved of CheckCycle for every set of generations, goroutines,  *)
(* intervals and healths.                                                  *)
(***************************************************************************)
EXTENDS CheckCycle, FiniteSetTheorems, TLAPS

-----------------------------------------------------------------------------
(* Typing *)

\* A sanitised timeout is a natural number, and ends strictly within a period
\* of at least two units, whatever timeout was loaded.
LEMMA SanitizedFits ==
    ASSUME NEW to \in Nat, NEW p \in Nat
    PROVE  /\ SanitizeTimeout(to, p) \in Nat
           /\ p >= 2 => SanitizeTimeout(to, p) \in 1 .. p - 1
  BY DEF SanitizeTimeout

LEMMA NewCheckIsTyped ==
    ASSUME NEW ctx \in Generations \union {Server}, NEW live \in BOOLEAN
    PROVE  /\ NewCheck(ctx, live) \in CheckType
           /\ NewCheck(ctx, live).live = live
           /\ NewCheck(ctx, live).pc = "check"
           /\ NoCheck \in CheckType /\ ~NoCheck.live /\ NoCheck.pc = "idle"
  BY DEF NewCheck, NoCheck, CheckType

\* Cancelling keeps every check where it is and brings none to life.
LEMMA CancelIsTyped ==
    ASSUME chk \in [Checks -> CheckType], NEW g \in Generations
    PROVE  /\ Cancel(g) \in [Checks -> CheckType]
           /\ \A s \in Checks :
                /\ Cancel(g)[s].live => chk[s].live
                /\ Cancel(g)[s].pc = chk[s].pc
                /\ Cancel(g)[s].failed = chk[s].failed
                /\ Cancel(g)[s].alert = chk[s].alert
  BY DEF Cancel, CheckType

LEMMA InitTyped == Init => TypeOK
  <1> SUFFICES ASSUME Init PROVE TypeOK
    OBVIOUS
  <1>1. current \in Generations
    BY CycleAssumption DEF Init
  <1>2. loop \in [Generations -> LoopType]
    BY DEF Init, NoLoop, LoopType
  <1>3. /\ chk \in [Checks -> CheckType]
        /\ \A s \in Checks : ~chk[s].live
    BY NewCheckIsTyped DEF Init
  <1>4. handler \in HandlerType
    BY DEF Init, HandlerType
  <1>5. period \in Nat /\ timeout \in Nat /\ count \in 0 .. Threshold + 1
    BY CycleAssumption DEF Init
  <1> QED
    BY <1>1, <1>2, <1>3, <1>4, <1>5 DEF Init, TypeOK

\* A handler's step that leaves everything but mu and the handler alone.
LEMMA HandlerMoves ==
    ASSUME TypeOK,
           UNCHANGED <<settings, loop, cancelled, chk, env, notified>>,
           handler' \in HandlerType, mu' \in {"free", "held", "dead"},
           mu' = "free" <=> handler'.pc = "idle",
           mu' = "dead" <=> handler'.pc = "dead"
    PROVE  TypeOK'
  BY DEF TypeOK, settings, env, notified

\* What sets the handler's place, or the scheduler's, keeps their types.
LEMMA HandlerGoesTyped ==
    ASSUME TypeOK, NEW from, NEW to, HandlerGoes(from, to),
           from \notin {"idle", "dead"},
           to \in Outside \union {"storeTimeout", "cancel", "wait",
                                  "startMonitors", "add", "save"}
    PROVE  /\ handler' \in HandlerType
           /\ handler'.pc = to /\ handler.pc = from
           /\ mu = "held"
           /\ to \notin {"idle", "dead"}
  BY DEF TypeOK, HandlerGoes, HandlerType, Outside

LEMMA ProcessEndsTyped == ASSUME TypeOK, ProcessEnds PROVE TypeOK'
  <1>1. loop' \in [Generations -> LoopType]
    BY DEF ProcessEnds, NoLoop, LoopType
  <1>2. chk' \in [Checks -> CheckType] /\ \A s \in Checks : ~chk'[s].live
    BY NewCheckIsTyped DEF ProcessEnds
  <1>3. handler' \in HandlerType /\ handler'.pc = "dead"
    BY DEF ProcessEnds, HandlerType
  <1> QED
    BY <1>1, <1>2, <1>3 DEF ProcessEnds, TypeOK, settings, env, notified

LEMMA RequestTyped == ASSUME TypeOK, Request PROVE TypeOK'
  <1>1. ASSUME NEW pc \in Outside, Lock(pc) PROVE TypeOK'
    <2>1. handler' \in HandlerType /\ handler'.pc = pc
          /\ pc \notin {"idle", "dead"}
      BY <1>1 DEF Lock, HandlerType, Outside
    <2> QED
      BY <1>1, <2>1, HandlerMoves DEF Lock
  <1> QED
    BY <1>1 DEF Request, ChangeRequest, OtherRequest, Outside

LEMMA UnlockTyped ==
    ASSUME TypeOK, Unlock, handler.pc \notin {"idle", "dead"} PROVE TypeOK'
  <1>1. handler' \in HandlerType /\ handler'.pc = "idle"
    BY DEF Unlock, HandlerType
  <1> QED
    BY <1>1, HandlerMoves DEF Unlock

LEMMA OutsideTyped == ASSUME TypeOK, OutsideStep PROVE TypeOK'
  <1>1. ASSUME NEW i \in Intervals, BodyIsInterval(i) PROVE TypeOK'
    <2>1. handler' \in HandlerType /\ handler'.pc = "storePeriod" /\ mu = "held"
      BY <1>1 DEF BodyIsInterval, HandlerType, TypeOK, Outside
    <2> QED
      BY <1>1, <2>1, HandlerMoves DEF BodyIsInterval
  <1>2. CASE BodyIsMonitor
    <2>1. handler' \in HandlerType /\ handler'.pc = "add" /\ mu = "held"
      BY <1>2, HandlerGoesTyped DEF BodyIsMonitor
    <2> QED
      BY <1>2, <2>1, HandlerMoves DEF BodyIsMonitor
  <1>3. CASE BodyIsRefused
    BY <1>3, UnlockTyped DEF BodyIsRefused
  <1>4. CASE AnswerEnds
    BY <1>4, UnlockTyped DEF AnswerEnds
  <1> QED
    BY <1>1, <1>2, <1>3, <1>4 DEF OutsideStep

LEMMA HandlerTyped == ASSUME TypeOK, HandlerStep PROVE TypeOK'
  <1>1. CASE StorePeriod
    <2>1. /\ handler' \in HandlerType /\ handler'.pc = "storeTimeout"
          /\ mu = "held"
      BY <1>1, HandlerGoesTyped DEF StorePeriod
    <2>2. period' \in Nat
      BY <1>1, CycleAssumption DEF StorePeriod, TypeOK, HandlerType
    <2> QED
      BY <1>1, <2>1, <2>2 DEF StorePeriod, TypeOK, env, notified
  <1>2. CASE StoreTimeout
    <2>1. handler' \in HandlerType /\ handler'.pc = "cancel" /\ mu = "held"
      BY <1>2, HandlerGoesTyped DEF StoreTimeout
    <2>2. handler.interval \in Nat
      <3>1. handler.interval \in Intervals \union {0}
        BY DEF TypeOK, HandlerType
      <3>2. Intervals \union {0} \subseteq Nat
        BY CycleAssumption
      <3> QED
        BY <3>1, <3>2
    <2>3. timeout' \in Nat
      BY <1>2, <2>2 DEF StoreTimeout, SanitizeTimeout
    <2> QED
      BY <1>2, <2>1, <2>3 DEF StoreTimeout, TypeOK, env, notified
  <1>3. CASE CancelCurrent
    <2>1. handler' \in HandlerType /\ handler'.pc = "wait" /\ mu = "held"
      BY <1>3, HandlerGoesTyped DEF CancelCurrent
    <2>2. /\ chk' \in [Checks -> CheckType]
          /\ \A s \in Checks : chk'[s].live => chk[s].live
      BY <1>3, CancelIsTyped DEF CancelCurrent, TypeOK
    <2> QED
      BY <1>3, <2>1, <2>2 DEF CancelCurrent, TypeOK, settings, env, notified
  <1>4. CASE WaitReturns
    <2>1. /\ handler' \in HandlerType /\ handler'.pc = "startMonitors"
          /\ mu = "held"
      BY <1>4, HandlerGoesTyped DEF WaitReturns
    <2> QED
      BY <1>4, <2>1, HandlerMoves DEF WaitReturns
  <1>5. ASSUME NEW g \in Generations, StartMonitors(g) PROVE TypeOK'
    <2>1. handler' \in HandlerType /\ handler'.pc = "save" /\ mu = "held"
      BY <1>5, HandlerGoesTyped DEF StartMonitors
    <2>2. loop' \in [Generations -> LoopType]
      BY <1>5 DEF StartMonitors, TypeOK, NoLoop, LoopType
    <2>3. cancelled' \in SUBSET Generations
          /\ (signalled => cancelled' = Generations)
      BY <1>5 DEF StartMonitors, TypeOK
    <2> QED
      BY <1>5, <2>1, <2>2, <2>3 DEF StartMonitors, TypeOK, env, notified
  <1>6. ASSUME NEW s \in Checks, SpawnInitialCheck(s) PROVE TypeOK'
    <2>1. handler' \in HandlerType /\ handler'.pc = "save" /\ mu = "held"
      BY <1>6, HandlerGoesTyped DEF SpawnInitialCheck
    <2>2. /\ chk' \in [Checks -> CheckType]
          /\ chk' = [chk EXCEPT ![s] = NewCheck(Server, ~signalled)]
          /\ NewCheck(Server, ~signalled).live = ~signalled
      BY <1>6, NewCheckIsTyped DEF SpawnInitialCheck, TypeOK
    <2>3. signalled => \A x \in Checks : ~chk'[x].live
      BY <2>2 DEF TypeOK
    <2> QED
      BY <1>6, <2>1, <2>2, <2>3
      DEF SpawnInitialCheck, TypeOK, settings, env, notified
  <1>7. CASE SkipInitialCheck
    <2>1. handler' \in HandlerType /\ handler'.pc = "save" /\ mu = "held"
      BY <1>7, HandlerGoesTyped DEF SkipInitialCheck
    <2> QED
      BY <1>7, <2>1, HandlerMoves DEF SkipInitialCheck
  <1>8. CASE SaveAndUnlock
    BY <1>8, UnlockTyped DEF SaveAndUnlock
  <1> QED
    BY <1>1, <1>2, <1>3, <1>4, <1>5, <1>6, <1>7, <1>8 DEF HandlerStep

\* A scheduler's step that may cancel its checks' contexts, and touches only
\* its own goroutine.
LEMMA LoopMoves ==
    ASSUME TypeOK,
           UNCHANGED <<mu, handler, settings, cancelled, env, notified>>,
           loop' \in [Generations -> LoopType],
           chk' \in [Checks -> CheckType],
           \A s \in Checks : chk'[s].live => chk[s].live \/ ~signalled
    PROVE  TypeOK'
  BY DEF TypeOK, settings, env, notified

LEMMA LoopGoesTyped ==
    ASSUME TypeOK, NEW g \in Generations, NEW from,
           NEW to \in {"top", "sanitize", "check", "select"},
           LoopGoes(g, from, to)
    PROVE  loop' \in [Generations -> LoopType]
  BY DEF TypeOK, LoopGoes, LoopType

LEMMA LoopTyped ==
    ASSUME TypeOK, NEW g \in Generations, LoopStep(g) PROVE TypeOK'
  <1>1. CASE MakeTicker(g)
    <2>1. loop' \in [Generations -> LoopType]
      BY <1>1 DEF MakeTicker, TypeOK, LoopType
    <2> QED
      BY <1>1, <2>1, LoopMoves DEF MakeTicker, TypeOK
  <1>2. CASE TickerPanics(g)
    BY <1>2, ProcessEndsTyped DEF TickerPanics
  <1>3. CASE LoadTimeout(g)
    <2>1. loop' \in [Generations -> LoopType]
      BY <1>3 DEF LoadTimeout, TypeOK, LoopType
    <2> QED
      BY <1>3, <2>1, LoopMoves DEF LoadTimeout, TypeOK
  <1>4. CASE LoadPeriod(g)
    <2>1. SanitizeTimeout(loop[g].to, period) \in Nat
      BY SanitizedFits DEF TypeOK, LoopType
    <2>2. loop' \in [Generations -> LoopType]
      BY <1>4, <2>1 DEF LoadPeriod, TypeOK, LoopType
    <2> QED
      BY <1>4, <2>2, LoopMoves DEF LoadPeriod, TypeOK
  <1>5. ASSUME NEW s \in Checks, StartCheck(g, s) PROVE TypeOK'
    <2>1. loop' \in [Generations -> LoopType]
      BY <1>5, LoopGoesTyped DEF StartCheck
    <2>2. /\ NewCheck(g, g \notin cancelled) \in CheckType
          /\ NewCheck(g, g \notin cancelled).live = (g \notin cancelled)
      BY NewCheckIsTyped
    <2>3. /\ chk' \in [Checks -> CheckType]
          /\ chk' = [chk EXCEPT ![s] = NewCheck(g, g \notin cancelled)]
      BY <1>5, <2>2 DEF StartCheck, TypeOK
    <2>4. \A x \in Checks : chk'[x].live => chk[x].live \/ ~signalled
      BY <2>2, <2>3 DEF TypeOK
    <2> QED
      BY <1>5, <2>1, <2>3, <2>4, LoopMoves DEF StartCheck
  <1>6. CASE StartNone(g)
    <2>1. loop' \in [Generations -> LoopType]
      BY <1>6, LoopGoesTyped DEF StartNone
    <2> QED
      BY <1>6, <2>1, LoopMoves DEF StartNone, TypeOK
  <1>7. CASE CycleTimesOut(g)
    BY <1>7, CancelIsTyped, LoopMoves DEF CycleTimesOut, TypeOK
  <1>8. CASE Tick(g)
    <2>1. loop' \in [Generations -> LoopType]
      BY <1>8, LoopGoesTyped DEF Tick
    <2> QED
      BY <1>8, <2>1, CancelIsTyped, LoopMoves DEF Tick, TypeOK
  <1>9. CASE LoopEnds(g)
    <2>1. loop' \in [Generations -> LoopType]
      BY <1>9 DEF LoopEnds, NoLoop, TypeOK, LoopType
    <2> QED
      BY <1>9, <2>1, CancelIsTyped, LoopMoves DEF LoopEnds, TypeOK
  <1> QED
    BY <1>1, <1>2, <1>3, <1>4, <1>5, <1>6, <1>7, <1>8, <1>9 DEF LoopStep

\* A check's step that leaves the handler and the scheduler alone.
LEMMA CheckMoves ==
    ASSUME TypeOK, NEW s \in Checks, NEW r \in CheckType,
           UNCHANGED <<mu, handler, settings, loop, cancelled, env>>,
           count' \in 0 .. Threshold + 1, told' \in {"none", "down", "ok"},
           chk' = [chk EXCEPT ![s] = r], r.live => chk[s].live
    PROVE  TypeOK'
  BY DEF TypeOK, settings, env

LEMMA CheckTyped ==
    ASSUME TypeOK, NEW s \in Checks, CheckStep(s) PROVE TypeOK'
  <1>a. /\ chk[s] \in CheckType
        /\ count \in 0 .. Threshold + 1 /\ told \in {"none", "down", "ok"}
        /\ NoCheck \in CheckType /\ ~NoCheck.live
    BY NewCheckIsTyped DEF TypeOK
  <1>1. ASSUME NEW failed \in BOOLEAN, CheckReturns(s, failed) PROVE TypeOK'
    <2> DEFINE r == [chk[s] EXCEPT !.pc = "record", !.failed = failed]
    <2>1. r \in CheckType /\ r.live = chk[s].live
      BY <1>a DEF CheckType
    <2>2. chk' = [chk EXCEPT ![s] = r]
      BY <1>1 DEF CheckReturns
    <2> HIDE DEF r
    <2> QED
      BY <1>1, <1>a, <2>1, <2>2, CheckMoves DEF CheckReturns, notified
  <1>2. CASE Record(s)
    <2> DEFINE after == IF ~chk[s].failed THEN 0
                        ELSE IF count > Threshold THEN count ELSE count + 1
               alert == IF chk[s].failed /\ after = Threshold /\ count # after
                        THEN "down"
                        ELSE IF ~chk[s].failed /\ count >= Threshold THEN "ok"
                        ELSE "none"
               r == IF alert = "none" THEN NoCheck
                    ELSE [chk[s] EXCEPT !.pc = "push", !.alert = alert]
    <2>1. after \in 0 .. Threshold + 1
      BY <1>a, CycleAssumption
    <2>2. r \in CheckType /\ (r.live => chk[s].live)
      <3>1. alert \in {"none", "down", "ok"}
        OBVIOUS
      <3> HIDE DEF alert
      <3> QED
        BY <1>a, <3>1 DEF CheckType
    <2>3. count' = after /\ chk' = [chk EXCEPT ![s] = r]
      BY <1>2 DEF Record
    <2> HIDE DEF after, alert, r
    <2> QED
      BY <1>2, <1>a, <2>1, <2>2, <2>3, CheckMoves DEF Record
  <1>3. CASE ReadWebhook(s)
    <2> DEFINE r == [chk[s] EXCEPT !.pc = "send"]
    <2>1. r \in CheckType /\ r.live = chk[s].live
      BY <1>a DEF CheckType
    <2>2. chk' = [chk EXCEPT ![s] = r] \/ chk' = [chk EXCEPT ![s] = NoCheck]
      BY <1>3 DEF ReadWebhook
    <2> HIDE DEF r
    <2> QED
      BY <1>3, <1>a, <2>1, <2>2, CheckMoves DEF ReadWebhook, notified
  <1>4. CASE SendSucceeds(s)
    <2>1. told' \in {"none", "down", "ok"}
      BY <1>4, <1>a DEF SendSucceeds, CheckType
    <2> QED
      BY <1>4, <1>a, <2>1, CheckMoves DEF SendSucceeds
  <1>5. CASE SendFails(s)
    BY <1>5, <1>a, CheckMoves DEF SendFails, notified
  <1> QED
    BY <1>1, <1>2, <1>3, <1>4, <1>5 DEF CheckStep

LEMMA SignalTyped == ASSUME TypeOK, SignalArrives PROVE TypeOK'
  <1>1. /\ chk' \in [Checks -> CheckType]
        /\ \A s \in Checks : ~chk'[s].live
    BY DEF SignalArrives, TypeOK, CheckType
  <1> QED
    BY <1>1 DEF SignalArrives, TypeOK, settings, notified

LEMMA StepTyped == TypeOK /\ [Next]_vars => TypeOK'
  <1> SUFFICES ASSUME TypeOK, [Next]_vars PROVE TypeOK'
    OBVIOUS
  <1>1. CASE HealthChanges
    BY <1>1 DEF HealthChanges, TypeOK, settings, notified
  <1>2. CASE StopReturns
    BY <1>2, ProcessEndsTyped DEF StopReturns
  <1>3. CASE UNCHANGED vars
    BY <1>3 DEF TypeOK, vars
  <1> QED
    BY <1>1, <1>2, <1>3, RequestTyped, OutsideTyped, HandlerTyped, LoopTyped,
       CheckTyped, SignalTyped DEF Next

\* Every variable keeps its type: mu is held exactly while a handler runs, and
\* no context is alive once the signal was caught (main.go:22).
THEOREM TypeCorrect == Spec => []TypeOK
  BY InitTyped, StepTyped, PTL DEF Spec

-----------------------------------------------------------------------------
(* One scheduler *)

\* Only the current generation can be running, and none is when the handler is
\* about to start the next: s.wg.Wait has seen them all off.
OnlyCurrentRuns ==
    /\ \A g \in Generations : loop[g].pc # "off" => g = current
    /\ handler.pc = "startMonitors" => \A g \in Generations : loop[g].pc = "off"

LEMMA InitOnlyCurrentRuns == Init => OnlyCurrentRuns
  BY DEF Init, OnlyCurrentRuns, NoLoop

LEMMA StepOnlyCurrentRuns ==
    TypeOK /\ OnlyCurrentRuns /\ [Next]_vars => OnlyCurrentRuns'
  <1> SUFFICES ASSUME TypeOK, OnlyCurrentRuns, [Next]_vars
               PROVE  OnlyCurrentRuns'
    OBVIOUS
  <1>a. ASSUME UNCHANGED <<loop, current>>, handler'.pc # "startMonitors"
        PROVE  OnlyCurrentRuns'
    BY <1>a DEF OnlyCurrentRuns
  <1>b. ASSUME UNCHANGED <<loop, current, handler>> PROVE OnlyCurrentRuns'
    BY <1>b DEF OnlyCurrentRuns
  <1>c. ASSUME NEW from, NEW to, HandlerGoes(from, to) PROVE handler'.pc = to
    BY <1>c DEF HandlerGoes, TypeOK, HandlerType
  \* The end of the process leaves no goroutine.
  <1>d. ASSUME ProcessEnds PROVE OnlyCurrentRuns'
    BY <1>d DEF ProcessEnds, OnlyCurrentRuns, NoLoop
  <1>1. CASE Request
    BY <1>1, <1>a
    DEF Request, ChangeRequest, OtherRequest, Lock, settings
  <1>2. CASE OutsideStep
    BY <1>2, <1>a, <1>c
    DEF OutsideStep, BodyIsInterval, BodyIsMonitor, BodyIsRefused, AnswerEnds,
        Unlock, settings
  <1>3. CASE HandlerStep
    <2>1. CASE StorePeriod \/ StoreTimeout \/ CancelCurrent
      BY <2>1, <1>a, <1>c DEF StorePeriod, StoreTimeout, CancelCurrent, settings
    <2>2. CASE WaitReturns
      <3>1. \A g \in Generations : loop[g].pc = "off"
        BY <2>2 DEF WaitReturns, WaitingFor
      <3> QED
        BY <2>2, <3>1 DEF WaitReturns, settings, OnlyCurrentRuns
    <2>3. ASSUME NEW g \in Generations, StartMonitors(g) PROVE OnlyCurrentRuns'
      <3>1. \A x \in Generations : loop[x].pc = "off"
        BY <2>3 DEF StartMonitors, HandlerGoes, OnlyCurrentRuns
      <3>2. \A x \in Generations : x # g => loop'[x].pc = "off"
        BY <2>3, <3>1 DEF StartMonitors, TypeOK
      <3>3. current' = g /\ handler'.pc = "save"
        BY <2>3, <1>c DEF StartMonitors
      <3> QED
        BY <3>2, <3>3 DEF OnlyCurrentRuns
    <2>4. CASE SkipInitialCheck \/ \E s \in Checks : SpawnInitialCheck(s)
      BY <2>4, <1>a, <1>c DEF SpawnInitialCheck, SkipInitialCheck, settings
    <2>5. CASE SaveAndUnlock
      BY <2>5, <1>a DEF SaveAndUnlock, Unlock, settings
    <2> QED
      BY <1>3, <2>1, <2>2, <2>3, <2>4, <2>5 DEF HandlerStep
  <1>4. ASSUME NEW g \in Generations, LoopStep(g) PROVE OnlyCurrentRuns'
    <2>1. CASE TickerPanics(g)
      BY <2>1, <1>d DEF TickerPanics
    <2>2. CASE ~TickerPanics(g)
      \* A step of the scheduler is the step of one that runs.
      <3>1. /\ loop[g].pc # "off" \/ UNCHANGED loop
            /\ \A x \in Generations : x # g => loop'[x] = loop[x]
            /\ UNCHANGED <<handler, current>>
        BY <1>4, <2>2
        DEF LoopStep, LoopGoes, MakeTicker, LoadTimeout, LoadPeriod, StartCheck,
            StartNone, CycleTimesOut, Tick, LoopEnds, TypeOK, settings
      <3> QED
        BY <3>1 DEF OnlyCurrentRuns
    <2> QED
      BY <2>1, <2>2
  <1>5. ASSUME NEW s \in Checks, CheckStep(s) PROVE OnlyCurrentRuns'
    BY <1>5, <1>b
    DEF CheckStep, CheckReturns, Record, ReadWebhook, SendSucceeds, SendFails,
        settings
  <1>6. CASE SignalArrives \/ HealthChanges \/ UNCHANGED vars
    BY <1>6, <1>b DEF SignalArrives, HealthChanges, settings, vars
  <1>7. CASE StopReturns
    BY <1>7, <1>d DEF StopReturns
  <1> QED
    BY <1>1, <1>2, <1>3, <1>4, <1>5, <1>6, <1>7 DEF Next

\* However SetPeriod calls follow each other, and however many generations there
\* could be, at most one scheduler runs: two would check every monitor twice,
\* and only one of them could be stopped (monitors.go:199, :206).
THEOREM OneSchedulerHolds == Spec => []OneScheduler
  <1>1. TypeOK /\ OnlyCurrentRuns => OneScheduler
    <2> SUFFICES ASSUME TypeOK, OnlyCurrentRuns PROVE OneScheduler
      OBVIOUS
    <2>1. WaitingFor \subseteq {current}
      BY DEF WaitingFor, OnlyCurrentRuns
    <2>2. IsFiniteSet({current}) /\ Cardinality({current}) = 1
      BY FS_Singleton
    <2>3. Cardinality(WaitingFor) <= Cardinality({current})
      BY <2>1, <2>2, FS_Subset
    <2> QED
      BY <2>2, <2>3 DEF OneScheduler
  <1> QED
    BY <1>1, InitTyped, StepTyped, InitOnlyCurrentRuns, StepOnlyCurrentRuns, PTL
    DEF Spec

-----------------------------------------------------------------------------
(* The cycle's ticker and timeout *)

\* The units of time are fine enough for two thirds of every interval to be
\* between nothing and the interval; an interval of zero has no cycles.
FineUnits == \A i \in Intervals \union {InitialPeriod} : i = 0 \/ i >= 2

SettingPeriod == {"storeTimeout", "cancel", "wait", "startMonitors"}

\* Unless SetPeriod is between its store and the start of a scheduler, the one
\* in force has its ticker from the stored period, and a cycle of it has its
\* timeout from there too.
TickerIsPeriod ==
    LET l == loop[current] IN
    /\ period = 0 \/ period >= 2
    /\ handler.pc \notin SettingPeriod /\ l.pc \notin {"off", "start"}
         => l.ticker = period /\ period >= 2
    /\ handler.pc \notin SettingPeriod /\ l.pc \in {"check", "select"}
         => l.to \in 1 .. period - 1

LEMMA InitTickerIsPeriod == FineUnits /\ Init => TickerIsPeriod
  <1> SUFFICES ASSUME FineUnits, Init PROVE TickerIsPeriod
    OBVIOUS
  <1>1. loop[current].pc = "start"
    BY CycleAssumption DEF Init, NoLoop
  <1> QED
    BY <1>1 DEF Init, FineUnits, TickerIsPeriod

LEMMA StepTickerIsPeriod ==
    FineUnits /\ TypeOK /\ OnlyCurrentRuns /\ TickerIsPeriod /\ [Next]_vars
      => TickerIsPeriod'
  <1> SUFFICES ASSUME FineUnits, TypeOK, OnlyCurrentRuns, TickerIsPeriod,
                      [Next]_vars
               PROVE  TickerIsPeriod'
    OBVIOUS
  <1>a. ASSUME UNCHANGED <<loop, settings>>,
               handler'.pc \in SettingPeriod \/ handler.pc \notin SettingPeriod
        PROVE  TickerIsPeriod'
    BY <1>a DEF TickerIsPeriod, settings
  <1>c. ASSUME NEW from, NEW to, HandlerGoes(from, to)
        PROVE  handler.pc = from /\ handler'.pc = to
    BY <1>c DEF HandlerGoes, TypeOK, HandlerType
  <1>d. ASSUME ProcessEnds PROVE TickerIsPeriod'
    <2>1. loop'[current'].pc = "off"
      BY <1>d DEF ProcessEnds, TypeOK, settings, NoLoop
    <2> QED
      BY <1>d, <2>1 DEF ProcessEnds, settings, TickerIsPeriod
  <1>1. CASE Request
    <2>1. handler.pc = "idle"
      BY <1>1 DEF Request, ChangeRequest, OtherRequest, Lock, TypeOK
    <2> QED
      BY <1>1, <2>1, <1>a
      DEF Request, ChangeRequest, OtherRequest, Lock, SettingPeriod
  <1>2. CASE OutsideStep
    BY <1>2, <1>a, <1>c
    DEF OutsideStep, BodyIsInterval, BodyIsMonitor, BodyIsRefused, AnswerEnds,
        Unlock, SettingPeriod
  <1>3. CASE HandlerStep
    <2>1. CASE StorePeriod
      <3>1. handler.interval \in Intervals \union {0}
        BY DEF TypeOK, HandlerType
      <3>2. period' = 0 \/ period' >= 2
        BY <2>1, <3>1 DEF StorePeriod, FineUnits
      <3> QED
        BY <2>1, <3>2, <1>c DEF StorePeriod, SettingPeriod, TickerIsPeriod
    <2>2. CASE StoreTimeout
      BY <2>2, <1>c DEF StoreTimeout, SettingPeriod, TickerIsPeriod
    <2>3. CASE CancelCurrent \/ WaitReturns
      BY <2>3, <1>a, <1>c DEF CancelCurrent, WaitReturns, SettingPeriod
    <2>4. ASSUME NEW g \in Generations, StartMonitors(g) PROVE TickerIsPeriod'
      <3>1. loop'[current'].pc = "start" /\ UNCHANGED period
        BY <2>4 DEF StartMonitors, TypeOK, NoLoop
      <3> QED
        BY <3>1 DEF TickerIsPeriod
    <2>5. CASE SkipInitialCheck \/ \E s \in Checks : SpawnInitialCheck(s)
      BY <2>5, <1>a, <1>c
      DEF SpawnInitialCheck, SkipInitialCheck, SettingPeriod
    <2>6. CASE SaveAndUnlock
      BY <2>6, <1>a DEF SaveAndUnlock, Unlock, SettingPeriod
    <2> QED
      BY <1>3, <2>1, <2>2, <2>3, <2>4, <2>5, <2>6 DEF HandlerStep
  <1>4. ASSUME NEW g \in Generations, LoopStep(g) PROVE TickerIsPeriod'
    <2>a. /\ period \in Nat /\ current \in Generations
          /\ loop \in [Generations -> LoopType]
      BY DEF TypeOK
    <2>1. CASE TickerPanics(g)
      BY <2>1, <1>d DEF TickerPanics
    <2>2. CASE MakeTicker(g)
      <3>1. /\ g = current /\ UNCHANGED <<handler, period, current>>
            /\ loop'[current].pc = "top" /\ loop'[current].ticker = period
        BY <2>2, <2>a DEF MakeTicker, OnlyCurrentRuns, LoopType, settings
      <3>2. period >= 2
        BY <2>2, <2>a DEF MakeTicker, TickerIsPeriod
      <3> QED
        BY <3>1, <3>2 DEF TickerIsPeriod
    <2>3. CASE LoadTimeout(g)
      <3>1. /\ g = current /\ UNCHANGED <<handler, period, current>>
            /\ loop[current].pc = "top" /\ loop'[current].pc = "sanitize"
            /\ loop'[current].ticker = loop[current].ticker
        BY <2>3, <2>a DEF LoadTimeout, OnlyCurrentRuns, LoopType, settings
      <3> QED
        BY <3>1 DEF TickerIsPeriod
    <2>4. CASE LoadPeriod(g)
      <3>1. /\ g = current /\ UNCHANGED <<handler, period, current>>
            /\ loop[current].pc = "sanitize" /\ loop'[current].pc = "check"
            /\ loop'[current].ticker = loop[current].ticker
            /\ loop'[current].to = SanitizeTimeout(loop[current].to, period)
            /\ loop[current].to \in Nat
        BY <2>4, <2>a DEF LoadPeriod, OnlyCurrentRuns, LoopType, settings
      <3>2. period >= 2 => loop'[current].to \in 1 .. period - 1
        BY <3>1, <2>a, SanitizedFits
      <3> QED
        BY <3>1, <3>2 DEF TickerIsPeriod
    <2>5. CASE StartNone(g) \/ \E s \in Checks : StartCheck(g, s)
      <3>1. /\ g = current /\ UNCHANGED <<handler, period, current>>
            /\ loop[current].pc = "check" /\ loop'[current].pc = "select"
            /\ loop'[current].ticker = loop[current].ticker
            /\ loop'[current].to = loop[current].to
        BY <2>5, <2>a
        DEF StartNone, StartCheck, LoopGoes, OnlyCurrentRuns, LoopType, settings
      <3> QED
        BY <3>1 DEF TickerIsPeriod
    <2>6. CASE CycleTimesOut(g)
      BY <2>6 DEF CycleTimesOut, settings, TickerIsPeriod
    <2>7. CASE Tick(g)
      <3>1. /\ g = current /\ UNCHANGED <<handler, period, current>>
            /\ loop[current].pc = "select" /\ loop'[current].pc = "top"
            /\ loop'[current].ticker = loop[current].ticker
        BY <2>7, <2>a DEF Tick, LoopGoes, OnlyCurrentRuns, LoopType, settings
      <3> QED
        BY <3>1 DEF TickerIsPeriod
    <2>8. CASE LoopEnds(g)
      <3>1. /\ g = current /\ UNCHANGED <<handler, period, current>>
            /\ loop'[current].pc = "off"
        BY <2>8, <2>a DEF LoopEnds, NoLoop, OnlyCurrentRuns, settings
      <3> QED
        BY <3>1 DEF TickerIsPeriod
    <2> QED
      BY <1>4, <2>1, <2>2, <2>3, <2>4, <2>5, <2>6, <2>7, <2>8 DEF LoopStep
  <1>5. ASSUME NEW s \in Checks, CheckStep(s) PROVE TickerIsPeriod'
    BY <1>5
    DEF CheckStep, CheckReturns, Record, ReadWebhook, SendSucceeds, SendFails,
        settings, TickerIsPeriod
  <1>6. CASE SignalArrives \/ HealthChanges \/ UNCHANGED vars
    BY <1>6 DEF SignalArrives, HealthChanges, settings, vars, TickerIsPeriod
  <1>7. CASE StopReturns
    BY <1>7, <1>d DEF StopReturns
  <1> QED
    BY <1>1, <1>2, <1>3, <1>4, <1>5, <1>6, <1>7 DEF Next

\* Between requests the scheduler in force ticks at the stored period, and a
\* cycle's timeout ends strictly within it, for every sequence of intervals that
\* are zero or at least two units (monitors.go:178-190, :212-215).
THEOREM CycleFitsPeriodHolds == FineUnits => (Spec => []CycleFitsPeriod)
  <1> SUFFICES ASSUME FineUnits PROVE Spec => []CycleFitsPeriod
    OBVIOUS
  <1>1. Init => TypeOK /\ OnlyCurrentRuns /\ TickerIsPeriod
    BY InitTyped, InitOnlyCurrentRuns, InitTickerIsPeriod
  <1>2. TypeOK /\ OnlyCurrentRuns /\ TickerIsPeriod /\ [Next]_vars
          => (TypeOK /\ OnlyCurrentRuns /\ TickerIsPeriod)'
    BY StepTyped, StepOnlyCurrentRuns, StepTickerIsPeriod
  <1>3. TickerIsPeriod => CycleFitsPeriod
    BY DEF TickerIsPeriod, CycleFitsPeriod, SettingPeriod
  <1> QED
    BY <1>1, <1>2, <1>3, PTL DEF Spec

-----------------------------------------------------------------------------
(* What is cancelled alerts nobody *)

\* Of a thing that is never down, only a check whose context is done can have
\* failed, and a failure alert only leaves with such a context.
FailuresAreCancelled ==
    /\ told # "down"
    /\ \A s \in Checks :
         /\ chk[s].pc = "record" /\ chk[s].failed => ~chk[s].live
         /\ chk[s].pc \in {"push", "send"} /\ chk[s].alert = "down"
              => ~chk[s].live

LEMMA StepFailuresAreCancelled ==
    "down" \notin Healths /\ TypeOK /\ FailuresAreCancelled /\ [Next]_vars
      => FailuresAreCancelled'
  <1> SUFFICES ASSUME "down" \notin Healths, TypeOK, FailuresAreCancelled,
                      [Next]_vars
               PROVE  FailuresAreCancelled'
    OBVIOUS
  <1>a. ASSUME UNCHANGED <<chk, told>> PROVE FailuresAreCancelled'
    BY <1>a DEF FailuresAreCancelled
  \* Contexts may end, and checks begin or end.
  <1>b. ASSUME UNCHANGED told,
               \A s \in Checks :
                 \/ chk'[s].pc \in {"idle", "check"}
                 \/ /\ chk'[s].pc = chk[s].pc
                    /\ chk'[s].failed = chk[s].failed
                    /\ chk'[s].alert = chk[s].alert
                    /\ chk'[s].live => chk[s].live
        PROVE  FailuresAreCancelled'
    BY <1>b DEF FailuresAreCancelled
  <1>c. ASSUME NEW g \in Generations, chk' = Cancel(g), UNCHANGED told
        PROVE  FailuresAreCancelled'
    <2>1. chk \in [Checks -> CheckType]
      BY DEF TypeOK
    <2> QED
      BY <1>b, <1>c, <2>1, CancelIsTyped
  <1>d. ASSUME ProcessEnds PROVE FailuresAreCancelled'
    <2>1. \A s \in Checks : chk'[s].pc = "idle"
      BY <1>d DEF ProcessEnds, NoCheck
    <2> QED
      BY <1>b, <1>d, <2>1 DEF ProcessEnds, notified
  <1>e. ASSUME NEW s \in Checks, NEW ctx, NEW live, UNCHANGED told,
               chk' = [chk EXCEPT ![s] = NewCheck(ctx, live)]
        PROVE  FailuresAreCancelled'
    <2>1. chk'[s].pc = "check"
      BY <1>e DEF TypeOK, NewCheck, NoCheck
    <2>2. \A x \in Checks : x # s => chk'[x] = chk[x]
      BY <1>e DEF TypeOK
    <2> QED
      BY <1>b, <1>e, <2>1, <2>2
  <1>1. CASE Request \/ OutsideStep
    BY <1>1, <1>a
    DEF Request, ChangeRequest, OtherRequest, Lock, OutsideStep, BodyIsInterval,
        BodyIsMonitor, BodyIsRefused, AnswerEnds, Unlock, notified
  <1>2. CASE HandlerStep
    <2>1. CASE CancelCurrent
      BY <2>1, <1>c DEF CancelCurrent, TypeOK, notified
    <2>2. ASSUME NEW s \in Checks, SpawnInitialCheck(s)
          PROVE  FailuresAreCancelled'
      BY <2>2, <1>e DEF SpawnInitialCheck, notified
    <2>3. CASE \/ StorePeriod \/ StoreTimeout \/ WaitReturns \/ SkipInitialCheck
               \/ SaveAndUnlock \/ \E g \in Generations : StartMonitors(g)
      BY <2>3, <1>a
      DEF StorePeriod, StoreTimeout, WaitReturns, SkipInitialCheck,
          SaveAndUnlock, Unlock, StartMonitors, notified
    <2> QED
      BY <1>2, <2>1, <2>2, <2>3 DEF HandlerStep
  <1>3. ASSUME NEW g \in Generations, LoopStep(g) PROVE FailuresAreCancelled'
    <2>1. CASE TickerPanics(g)
      BY <2>1, <1>d DEF TickerPanics
    <2>2. CASE CycleTimesOut(g) \/ Tick(g) \/ LoopEnds(g)
      BY <2>2, <1>c DEF CycleTimesOut, Tick, LoopEnds, notified
    <2>3. ASSUME NEW s \in Checks, StartCheck(g, s)
          PROVE  FailuresAreCancelled'
      BY <2>3, <1>e DEF StartCheck, notified
    <2>4. CASE \/ MakeTicker(g) \/ LoadTimeout(g) \/ LoadPeriod(g)
               \/ StartNone(g)
      BY <2>4, <1>a DEF MakeTicker, LoadTimeout, LoadPeriod, StartNone, notified
    <2> QED
      BY <1>3, <2>1, <2>2, <2>3, <2>4 DEF LoopStep
  <1>4. ASSUME NEW s \in Checks, CheckStep(s) PROVE FailuresAreCancelled'
    <2>a. chk \in [Checks -> CheckType] /\ chk[s] \in CheckType
      BY DEF TypeOK
    <2>1. ASSUME NEW failed \in BOOLEAN, CheckReturns(s, failed)
          PROVE  FailuresAreCancelled'
      <3>1. failed => ~chk[s].live
        BY <2>1, CycleAssumption DEF CheckReturns, TypeOK
      <3>2. /\ chk'[s].pc = "record" /\ chk'[s].failed = failed
            /\ chk'[s].live = chk[s].live
            /\ \A x \in Checks : x # s => chk'[x] = chk[x]
        BY <2>1, <2>a DEF CheckReturns, CheckType
      <3> QED
        BY <2>1, <3>1, <3>2 DEF CheckReturns, notified, FailuresAreCancelled
    <2>2. CASE Record(s)
      <3>1. /\ \A x \in Checks : x # s => chk'[x] = chk[x]
            /\ \/ chk'[s].pc = "idle"
               \/ /\ chk'[s].pc = "push" /\ chk'[s].live = chk[s].live
                  /\ chk'[s].alert = "down" => chk[s].failed
        BY <2>2, <2>a DEF Record, CheckType, NoCheck
      <3> QED
        BY <2>2, <3>1 DEF Record, FailuresAreCancelled
    <2>3. CASE ReadWebhook(s)
      <3>1. /\ \A x \in Checks : x # s => chk'[x] = chk[x]
            /\ \/ chk'[s].pc = "idle"
               \/ /\ chk'[s].pc = "send" /\ chk'[s].live = chk[s].live
                  /\ chk'[s].alert = chk[s].alert
        BY <2>3, <2>a DEF ReadWebhook, CheckType, NoCheck
      <3> QED
        BY <2>3, <3>1 DEF ReadWebhook, notified, FailuresAreCancelled
    <2>4. CASE SendSucceeds(s) \/ SendFails(s)
      <3>1. /\ \A x \in Checks : x # s => chk'[x] = chk[x]
            /\ chk'[s].pc = "idle"
        BY <2>4, <2>a DEF SendSucceeds, SendFails, NoCheck
      <3>2. told' # "down"
        BY <2>4 DEF SendSucceeds, SendFails, notified, FailuresAreCancelled
      <3> QED
        BY <3>1, <3>2 DEF FailuresAreCancelled
    <2> QED
      BY <1>4, <2>1, <2>2, <2>3, <2>4 DEF CheckStep
  <1>5. CASE SignalArrives
    <2>1. \A s \in Checks : /\ chk'[s].pc = chk[s].pc /\ ~chk'[s].live
                            /\ chk'[s].failed = chk[s].failed
                            /\ chk'[s].alert = chk[s].alert
      BY <1>5 DEF SignalArrives, TypeOK, CheckType
    <2> QED
      BY <1>5, <1>b, <2>1 DEF SignalArrives, notified
  <1>6. CASE HealthChanges \/ UNCHANGED vars
    BY <1>6, <1>a DEF HealthChanges, notified, vars
  <1>7. CASE StopReturns
    BY <1>7, <1>d DEF StopReturns
  <1> QED
    BY <1>1, <1>2, <1>3, <1>4, <1>5, <1>6, <1>7 DEF Next

\* An item that is never down is never notified as down, however many of its
\* checks an interval edit, a cycle's end or the shutdown cancels
\* (server.go:285-288: the sender has the context of the check).
THEOREM CancellationIsSilentHolds == Spec => []CancellationIsSilent
  <1>1. CASE "down" \in Healths
    <2>1. CancellationIsSilent
      BY <1>1 DEF CancellationIsSilent
    <2> QED
      BY <2>1, PTL
  <1>2. CASE "down" \notin Healths
    <2>1. Init => TypeOK /\ FailuresAreCancelled
      BY InitTyped DEF Init, NoCheck, FailuresAreCancelled
    <2>2. TypeOK /\ FailuresAreCancelled /\ [Next]_vars
            => (TypeOK /\ FailuresAreCancelled)'
      BY <1>2, StepTyped, StepFailuresAreCancelled
    <2>3. FailuresAreCancelled => CancellationIsSilent
      BY DEF FailuresAreCancelled, CancellationIsSilent
    <2> QED
      BY <2>1, <2>2, <2>3, PTL DEF Spec
  <1> QED
    BY <1>1, <1>2
=============================================================================
