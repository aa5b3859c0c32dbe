----------------------------- MODULE CheckCycle -----------------------------
(***************************************************************************)
(* The check cycle's concurrency control: Server.mu, SetPeriod stopping    *)
(* and restarting the scheduler goroutine (stopMonitors, startMonitors,    *)
(* src/monitors/monitors.go), the contexts that bound checks, and the      *)
(* notification that leaves through pushToWebhook (src/web/server.go) and  *)
(* webhook.Send with the context of the check that caused it.              *)
(*                                                                         *)
(* Each SetPeriod starts a new generation of the scheduler; s.cancel       *)
(* cancels the context of the current one, and with it those of its        *)
(* cycles.  One monitor stands for all; what its checks do to the shared   *)
(* maps is the subject of MonitorService, so here the result of a check is *)
(* recorded in one step.                                                   *)
(***************************************************************************)
EXTENDS Naturals, FiniteSets

CONSTANTS
    Generations,     \* scheduler goroutines that can exist at a time (bound)
    Checks,          \* check goroutines that can exist at a time (bound)
    Intervals,       \* what SetPeriod can be asked for
    InitialTimeout,  \* what main gives NewService
    InitialPeriod,   \* the configured interval
    Healths,         \* what the monitored thing can be: up, down, hung
    Threshold,       \* its alert threshold
    ReceiverFails,   \* whether the receiver can fail to take a notification
    Server           \* the context of checks that Add starts

ASSUME CycleAssumption ==
    /\ Intervals \subseteq Nat /\ InitialTimeout \in Nat
    /\ InitialPeriod \in Nat \ {0}
    /\ Generations # {} /\ Server \notin Generations
    /\ Healths \subseteq {"up", "down", "hung"}
    /\ Threshold \in Nat \ {0} /\ ReceiverFails \in BOOLEAN

VARIABLES
    mu,        \* Server.mu: "free", "held" by the handler; "dead" when the
               \* process has ended
    handler,   \* the handler that holds mu: where it is, the interval asked for
    period,    \* Service.period
    timeout,   \* Service.timeout
    current,   \* the generation whose context s.cancel cancels
    loop,      \* the scheduler goroutines: place, ticker, cycle timeout
    cancelled, \* the generations whose context is cancelled
    chk,       \* the check goroutines: place, context and whether it is alive
    signalled, \* whether an interrupt or SIGTERM was caught
    health,    \* environment: the monitored thing
    count,     \* the failure counter, up to Threshold + 1
    told       \* history: the last notification the receiver got

vars == <<mu, handler, period, timeout, current, loop, cancelled, chk,
          signalled, health, count, told>>

settings == <<period, timeout, current>>
env == <<signalled, health>>
notified == <<count, told>>

NoLoop == [pc |-> "off", ticker |-> 0, to |-> 0]
NoCheck == [pc |-> "idle", ctx |-> Server, live |-> FALSE, failed |-> FALSE,
            alert |-> "none"]
NewCheck(ctx, live) == [NoCheck EXCEPT !.pc = "check", !.ctx = ctx,
                                       !.live = live]

\* Cancelling a context of generation g reaches every check under it.
Cancel(g) == [s \in Checks |->
                IF chk[s].pc # "idle" /\ chk[s].ctx = g
                THEN [chk[s] EXCEPT !.live = FALSE] ELSE chk[s]]

\* Mutant: checks are counted in the WaitGroup too.
WaitingForChecks ==
    {g \in Generations : loop[g].pc # "off"}
      \union {s \in Checks : chk[s].pc \in {"check", "record", "push"}}

\* The WaitGroup: scheduler goroutines that have not returned. Checks are not
\* in it.
WaitingFor == {g \in Generations : loop[g].pc # "off"}

\* Mutant: a timeout longer than the period is left alone.
SanitizeZero(to, p) == IF to = 0 THEN (p * 2) \div 3 ELSE to

\* sanitizeTimeout, in units that make two thirds exact.
SanitizeTimeout(to, p) == IF to >= p \/ to = 0 THEN (p * 2) \div 3 ELSE to

\* NewService: the fields are set and the first scheduler is started.
Init ==
    /\ mu = "free"
    /\ handler = [pc |-> "idle", interval |-> 0]
    /\ period = InitialPeriod
    /\ timeout = InitialTimeout
    /\ current = CHOOSE g \in Generations : TRUE
    /\ loop = [g \in Generations |->
                 IF g = current THEN [NoLoop EXCEPT !.pc = "start"] ELSE NoLoop]
    /\ cancelled = {}
    /\ chk = [s \in Checks |-> NoCheck]
    /\ signalled = FALSE
    /\ health \in Healths
    /\ count = 0
    /\ told = "none"

-----------------------------------------------------------------------------
(* Handlers: everything below happens with mu held *)

Lock(pc) ==
    /\ mu = "free"
    /\ mu' = "held"
    /\ handler' = [pc |-> pc, interval |-> 0]
    /\ UNCHANGED <<settings, loop, cancelled, chk, env, notified>>

\* A handler that changes the configuration first reads the body of its request
\* (unmarshallBody); those of the dashboard end with writing an answer
\* (writeJson), and those that restart containers call the Docker daemon: all
\* with mu held, and at another's pace.
ChangeRequest == Lock("body")
OtherRequest == Lock("answer")

\* Where the handler that holds mu waits for a client or for the daemon.
Outside == {"body", "answer"}

HandlerGoes(from, to) ==
    handler.pc = from /\ handler' = [handler EXCEPT !.pc = to]

Unlock ==
    /\ handler' = [pc |-> "idle", interval |-> 0]
    /\ mu' = "free"
    /\ UNCHANGED <<settings, loop, cancelled, chk, env, notified>>

\* unmarshallBody: handleIntervalUpdate goes on to SetPeriod(ctx, i, 0) ...
BodyIsInterval(i) ==
    /\ handler.pc = "body"
    /\ handler' = [pc |-> "storePeriod", interval |-> i]
    /\ UNCHANGED <<mu, settings, loop, cancelled, chk, env, notified>>

\* ... a handler that changes anything else to Add, or straight to the save ...
BodyIsMonitor ==
    /\ HandlerGoes("body", "add")
    /\ UNCHANGED <<mu, settings, loop, cancelled, chk, env, notified>>

\* ... and any of them returns when the body is refused or breaks off.
BodyIsRefused == handler.pc = "body" /\ Unlock

\* The client has read the answer; or the daemon has answered, or the context of
\* the server is done.
AnswerEnds == handler.pc = "answer" /\ Unlock

StorePeriod ==
    /\ HandlerGoes("storePeriod", "storeTimeout")
    /\ period' = handler.interval
    /\ UNCHANGED <<mu, timeout, current, loop, cancelled, chk, env, notified>>

StoreTimeout ==
    /\ HandlerGoes("storeTimeout", "cancel")
    /\ timeout' = SanitizeTimeout(0, handler.interval)
    /\ UNCHANGED <<mu, period, current, loop, cancelled, chk, env, notified>>

CancelCurrent ==
    /\ HandlerGoes("cancel", "wait")
    /\ cancelled' = cancelled \union {current}
    /\ chk' = Cancel(current)
    /\ UNCHANGED <<mu, settings, loop, env, notified>>

\* Mutant: the old scheduler is not waited for.
WaitSkipped ==
    /\ HandlerGoes("wait", "startMonitors")
    /\ UNCHANGED <<mu, settings, loop, cancelled, chk, env, notified>>

\* s.wg.Wait()
WaitReturns ==
    /\ HandlerGoes("wait", "startMonitors")
    /\ WaitingFor = {}
    /\ UNCHANGED <<mu, settings, loop, cancelled, chk, env, notified>>

\* Mutant: the new scheduler is given the context that was cancelled.
StartWithOldContext(g) ==
    /\ HandlerGoes("startMonitors", "save")
    /\ loop[g].pc = "off"
    /\ g = current
    /\ loop' = [loop EXCEPT ![g] = [NoLoop EXCEPT !.pc = "start"]]
    /\ UNCHANGED <<mu, settings, cancelled, chk, env, notified>>

StartMonitors(g) ==
    /\ HandlerGoes("startMonitors", "save")
    /\ loop[g].pc = "off"
    /\ current' = g
    /\ cancelled' = IF ~signalled THEN cancelled \ {g} ELSE cancelled
    /\ loop' = [loop EXCEPT ![g] = [NoLoop EXCEPT !.pc = "start"]]
    /\ UNCHANGED <<mu, period, timeout, chk, env, notified>>

\* Add's goroutine checks with the server's context, which has no timeout ...
SpawnInitialCheck(s) ==
    /\ HandlerGoes("add", "save")
    /\ chk[s].pc = "idle"
    /\ chk' = [chk EXCEPT ![s] = NewCheck(Server, ~signalled)]
    /\ UNCHANGED <<mu, settings, loop, cancelled, env, notified>>

\* ... or none: the monitor is in its maintenance window, or is not added.
SkipInitialCheck ==
    /\ HandlerGoes("add", "save")
    /\ UNCHANGED <<mu, settings, loop, cancelled, chk, env, notified>>

\* Mutant: the handler returns without unlocking.
SaveWithoutUnlock ==
    /\ handler.pc = "save"
    /\ handler' = [pc |-> "idle", interval |-> 0]
    /\ UNCHANGED <<mu, settings, loop, cancelled, chk, env, notified>>

\* saveConfig, and the deferred Unlock.
SaveAndUnlock == handler.pc = "save" /\ Unlock

\* Whatever ends the process ends all its goroutines where they are.
ProcessEnds ==
    /\ mu' = "dead"
    /\ handler' = [pc |-> "dead", interval |-> 0]
    /\ loop' = [g \in Generations |-> NoLoop]
    /\ chk' = [s \in Checks |-> NoCheck]
    /\ UNCHANGED <<settings, cancelled, env, notified>>

-----------------------------------------------------------------------------
(* The scheduler goroutine of generation g *)

LoopGoes(g, from, to) ==
    loop[g].pc = from /\ loop' = [loop EXCEPT ![g].pc = to]

\* time.NewTicker(s.period.Load()) ...
MakeTicker(g) ==
    /\ loop[g].pc = "start"
    /\ period > 0
    /\ loop' = [loop EXCEPT ![g].pc = "top", ![g].ticker = period]
    /\ UNCHANGED <<mu, handler, settings, cancelled, chk, env, notified>>

\* ... which panics when the period is not positive: a panic in a goroutine
\* ends the process.
TickerPanics(g) ==
    /\ loop[g].pc = "start"
    /\ period = 0
    /\ ProcessEnds

\* The two loads of sanitizeTimeout(s.timeout.Load(), s.period.Load()).
LoadTimeout(g) ==
    /\ loop[g].pc = "top"
    /\ loop' = [loop EXCEPT ![g].pc = "sanitize", ![g].to = timeout]
    /\ UNCHANGED <<mu, handler, settings, cancelled, chk, env, notified>>

LoadPeriod(g) ==
    /\ loop[g].pc = "sanitize"
    /\ loop' = [loop EXCEPT ![g].pc = "check",
                            ![g].to = SanitizeTimeout(@, period)]
    /\ UNCHANGED <<mu, handler, settings, cancelled, chk, env, notified>>

\* checkMonitors starts a check under the cycle's context ...
StartCheck(g, s) ==
    /\ LoopGoes(g, "check", "select")
    /\ chk[s].pc = "idle"
    /\ chk' = [chk EXCEPT ![s] = NewCheck(g, g \notin cancelled)]
    /\ UNCHANGED <<mu, handler, settings, cancelled, env, notified>>

\* ... or none, when the monitor is in its maintenance window.
StartNone(g) ==
    /\ LoopGoes(g, "check", "select")
    /\ UNCHANGED <<mu, handler, settings, cancelled, chk, env, notified>>

\* The cycle's timeout passes before the ticker fires.
CycleTimesOut(g) ==
    /\ loop[g].pc = "select"
    /\ loop[g].to < loop[g].ticker
    /\ chk' = Cancel(g)
    /\ UNCHANGED <<mu, handler, settings, loop, cancelled, env, notified>>

\* ticker.C: the deferred toCancel runs and the loop goes round.
Tick(g) ==
    /\ LoopGoes(g, "select", "top")
    /\ chk' = Cancel(g)
    /\ UNCHANGED <<mu, handler, settings, cancelled, env, notified>>

\* ctx.Done(): the goroutine returns and leaves the WaitGroup.
LoopEnds(g) ==
    /\ loop[g].pc = "select"
    /\ g \in cancelled
    /\ loop' = [loop EXCEPT ![g] = NoLoop]
    /\ chk' = Cancel(g)
    /\ UNCHANGED <<mu, handler, settings, cancelled, env, notified>>

-----------------------------------------------------------------------------
(* Check goroutines *)

\* A check reports what is monitored; one whose context is done may, and a
\* hung one always does, report an error instead.
CheckReturns(s, failed) ==
    /\ chk[s].pc = "check"
    /\ health = "hung" => failed /\ ~chk[s].live
    /\ health = "up" /\ failed => ~chk[s].live
    /\ health = "down" => failed
    /\ chk' = [chk EXCEPT ![s].pc = "record", ![s].failed = failed]
    /\ UNCHANGED <<mu, handler, settings, loop, cancelled, env, notified>>

\* checkStoreAndPush in one step: the counter, and which alert is due.
Record(s) ==
    LET after == IF ~chk[s].failed THEN 0
                 ELSE IF count > Threshold THEN count ELSE count + 1
        alert == IF chk[s].failed /\ after = Threshold /\ count # after
                 THEN "down"
                 ELSE IF ~chk[s].failed /\ count >= Threshold THEN "ok"
                 ELSE "none"
    IN  /\ chk[s].pc = "record"
        /\ count' = after
        /\ chk' = [chk EXCEPT ![s] =
                     IF alert = "none" THEN NoCheck
                     ELSE [@ EXCEPT !.pc = "push", !.alert = alert]]
        /\ UNCHANGED <<mu, handler, settings, loop, cancelled, env, told>>

\* Mutant: the sender is given a context of its own.
ReadWebhookDetached(s) ==
    /\ chk[s].pc = "push"
    /\ mu = "free"
    /\ chk' = [chk EXCEPT ![s].pc = "send", ![s].live = TRUE]
    /\ UNCHANGED <<mu, handler, settings, loop, cancelled, env, notified>>

\* pushToWebhook locks mu to read the webhook's configuration, unlocks, and
\* starts the goroutine that sends, if the webhook is enabled.
ReadWebhook(s) ==
    /\ chk[s].pc = "push"
    /\ mu = "free"
    /\ \/ chk' = [chk EXCEPT ![s].pc = "send"]
       \/ chk' = [chk EXCEPT ![s] = NoCheck]
    /\ UNCHANGED <<mu, handler, settings, loop, cancelled, env, notified>>

\* webhook.Send completes while the check's context is alive ...
SendSucceeds(s) ==
    /\ chk[s].pc = "send"
    /\ chk[s].live
    /\ told' = chk[s].alert
    /\ chk' = [chk EXCEPT ![s] = NoCheck]
    /\ UNCHANGED <<mu, handler, settings, loop, cancelled, env, count>>

\* ... and fails once it is done, or when the receiver cannot be reached, takes
\* more than five seconds or refuses: either way for good, the error is logged.
SendFails(s) ==
    /\ chk[s].pc = "send"
    /\ ~chk[s].live \/ ReceiverFails
    /\ chk' = [chk EXCEPT ![s] = NoCheck]
    /\ UNCHANGED <<mu, handler, settings, loop, cancelled, env, notified>>

-----------------------------------------------------------------------------
(* The end of the process, and the environment *)

\* signal.NotifyContext cancels the context from which those of the server and
\* of every generation derive.
SignalArrives ==
    /\ ~signalled
    /\ mu # "dead"
    /\ signalled' = TRUE
    /\ cancelled' = Generations
    /\ chk' = [s \in Checks |-> [chk[s] EXCEPT !.live = FALSE]]
    /\ UNCHANGED <<mu, handler, settings, loop, health, notified>>

\* Stop, and then main, return: Shutdown waits for the handlers in progress
\* no longer than its context lives, and Stop derives that from the server's,
\* which is done.
StopReturns ==
    /\ signalled
    /\ mu # "dead"
    /\ ProcessEnds

HealthChanges ==
    /\ mu # "dead"
    /\ \E h \in Healths \ {health} : health' = h
    /\ UNCHANGED <<mu, handler, settings, loop, cancelled, chk, signalled,
                   notified>>

-----------------------------------------------------------------------------
(* The specification *)

Request == ChangeRequest \/ OtherRequest

\* What a client or the Docker daemon does for a handler that waits for it.
OutsideStep == \/ \E i \in Intervals : BodyIsInterval(i)
               \/ BodyIsMonitor
               \/ BodyIsRefused
               \/ AnswerEnds

HandlerStep == \/ StorePeriod
               \/ StoreTimeout
               \/ CancelCurrent
               \/ WaitReturns
               \/ \E g \in Generations : StartMonitors(g)
               \/ \E s \in Checks : SpawnInitialCheck(s)
               \/ SkipInitialCheck
               \/ SaveAndUnlock

LoopStep(g) == \/ MakeTicker(g)
               \/ TickerPanics(g)
               \/ LoadTimeout(g)
               \/ LoadPeriod(g)
               \/ \E s \in Checks : StartCheck(g, s)
               \/ StartNone(g)
               \/ CycleTimesOut(g)
               \/ Tick(g)
               \/ LoopEnds(g)

CheckStep(s) == \/ \E failed \in BOOLEAN : CheckReturns(s, failed)
                \/ Record(s)
                \/ ReadWebhook(s)
                \/ SendSucceeds(s)
                \/ SendFails(s)

Next == \/ Request
        \/ OutsideStep
        \/ HandlerStep
        \/ \E g \in Generations : LoopStep(g)
        \/ \E s \in Checks : CheckStep(s)
        \/ SignalArrives
        \/ StopReturns
        \/ HealthChanges

Spec == Init /\ [][Next]_vars

\* Goroutines that can run do; the ticker fires; a select whose context is done
\* does not prefer the ticker for ever (it picks at random); sync.Mutex lets a
\* waiting goroutine in sooner or later (its starvation mode). Requests, the
\* signal, the return of Stop and changes of health are not forced, and neither
\* are clients and the daemon, who may keep a handler waiting for ever.
Fairness ==
    /\ WF_vars(HandlerStep)
    /\ \A g \in Generations : /\ WF_vars(LoopStep(g))
                              /\ WF_vars(Tick(g))
                              /\ SF_vars(LoopEnds(g))
    /\ \A s \in Checks : /\ WF_vars(CheckStep(s))
                         /\ SF_vars(ReadWebhook(s))

FairSpec == Spec /\ Fairness

-----------------------------------------------------------------------------
(* Properties *)

HandlerType ==
    [pc : Outside \union {"idle", "storePeriod", "storeTimeout", "cancel",
                          "wait", "startMonitors", "add", "save", "dead"},
     interval : Intervals \union {0}]

LoopType ==
    [pc : {"off", "start", "top", "sanitize", "check", "select"},
     ticker : Nat, to : Nat]

CheckType ==
    [pc : {"idle", "check", "record", "push", "send"},
     ctx : Generations \union {Server}, live : BOOLEAN, failed : BOOLEAN,
     alert : {"none", "down", "ok"}]

\* Every variable has its type, mu is held exactly while a handler runs, and
\* once the signal is caught every context is done.
TypeOK ==
    /\ mu \in {"free", "held", "dead"}
    /\ handler \in HandlerType
    /\ mu = "free" <=> handler.pc = "idle"
    /\ mu = "dead" <=> handler.pc = "dead"
    /\ period \in Nat /\ timeout \in Nat
    /\ current \in Generations
    /\ loop \in [Generations -> LoopType]
    /\ cancelled \in SUBSET Generations
    /\ chk \in [Checks -> CheckType]
    /\ signalled \in BOOLEAN
    /\ signalled => /\ cancelled = Generations
                    /\ \A s \in Checks : ~chk[s].live
    /\ health \in Healths
    /\ count \in 0 .. Threshold + 1
    /\ told \in {"none", "down", "ok"}

\* However SetPeriod calls follow each other, at most one scheduler is running:
\* the old one has left the WaitGroup before the new one is started
\* (monitors.go:181-182, :199).
OneScheduler == Cardinality(WaitingFor) <= 1

\* Between requests, the scheduler in force ticks at the stored period and its
\* cycle timeout ends strictly within it, although it loads timeout and period
\* at different times and SetPeriod stores them one by one
\* (monitors.go:178-182, :212-215).
CycleFitsPeriod ==
    handler.pc = "idle" /\ loop[current].pc \in {"check", "select"} =>
        /\ loop[current].ticker = period
        /\ loop[current].to \in 1 .. period - 1

\* What fails only because its context was done is never notified: a healthy
\* item is not reported down by an interval edit or by the shutdown, although
\* the checks these cancel count as failures. It holds because the sender has
\* the context of the check (server.go:277-288), and so it also covers an item
\* that hangs (EveryAlertIsSent below).
CancellationIsSilent == "down" \notin Healths => told # "down"

\* Unless the process ends, a handler that has what it waits for from a client
\* or the daemon finishes and gives up mu, although SetPeriod waits with mu held
\* and checks need mu to push: checks are not in the WaitGroup
\* (monitors.go:207, :199; server.go:279).
HandlerFinishes ==
    handler.pc \notin Outside \union {"idle"} ~> handler.pc \in {"idle", "dead"}

\* A check with an alert to push gets mu, however many requests there are,
\* unless some handler waits for ever for a body, for an answer to be read or
\* for the daemon, which keeps mu (server.go:279-281, :516, :831).
PushGetsLock ==
    []<>(handler.pc \notin Outside) =>
        \A s \in Checks : chk[s].pc = "push" ~> chk[s].pc # "push"

\* Only an interval of zero and the shutdown stop monitoring: otherwise the
\* scheduler in force starts cycle after cycle, whatever the requests, however
\* long a check hangs, and even when a handler keeps mu (monitors.go:206-231).
MonitoringContinues ==
    []<>(period = 0 \/ signalled \/ loop[current].pc = "check")

\* "SetPeriod changes the refresh period and timeout, and restarts the monitor
\* checks" (monitors.go:174). False for an interval of zero, which the handler
\* accepts: the ticker of the new scheduler panics.
ChecksRestart ==
    handler.pc = "startMonitors" ~> signalled \/ loop[current].pc = "check"

\* "pushToWebhook asynchronously sends a notification to the configured webhook
\* URL when a monitor's result changes" (server.go:275): while the process
\* lives, and the receiver takes what it gets, the sender ends only by having
\* sent. False when the context of the check is done by then.
EveryAlertIsSent ==
    [][\A s \in Checks :
         chk[s].pc = "send" /\ chk'[s].pc # "send" =>
             told' = chk[s].alert \/ mu' = "dead" \/ signalled]_vars

\* "Stop gracefully shuts down the web server, waiting up to 5 seconds for
\* active connections to close" (server.go:213): a handler that waits for nobody
\* is not cut off by the end of the process. False: one may be about to save.
GracefulStop ==
    [][signalled /\ mu # "dead" /\ mu' = "dead" =>
         handler.pc \in Outside \union {"idle"}]_vars
=============================================================================
