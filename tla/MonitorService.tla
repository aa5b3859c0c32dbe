--------------------------- MODULE MonitorService ---------------------------
(***************************************************************************)
(* The monitor service (src/monitors/monitors.go): the registry of         *)
(* monitors, the check cycle, and the three concurrent maps a check and    *)
(* the API share (results, failure counters, maintenance windows).         *)
(*                                                                         *)
(* Four kinds of process interleave:                                       *)
(*   - the API (web handlers), serialised by Server.mu, so one at a time;  *)
(*   - the scheduler goroutine of startMonitors, which ticks and ranges    *)
(*     over the registered monitors;                                       *)
(*   - one goroutine per check, started by Add or by the scheduler, which  *)
(*     runs Check and then checkStoreAndPush;                              *)
(*   - the environment: what is monitored fails and recovers, and          *)
(*     maintenance windows open and close with the clock.                  *)
(*                                                                         *)
(* Every access to a shared map or counter is a step of its own; local     *)
(* computation is folded into the access that follows or precedes it.      *)
(***************************************************************************)
EXTENDS Naturals

CONSTANTS
    Names,        \* monitor names, e.g. disk_root
    Monitors,     \* monitor instances: a name can be added again, edited
    SystemNames,  \* names re-added by handleUpdateSystemConfig with plain Add
    Removable,    \* names the delete handler may be asked to remove
    Statuses,     \* RAG statuses
    Green,        \* the one status that is not a failure
    Windows,      \* maintenance windows
    Checks,       \* goroutines that can be running a check at a time (bound)
    Counters,     \* *atomic.Int64 cells the process can allocate (bound)
    MaxCount,     \* a counter stays at MaxCount once it gets there (bound)
    None          \* nil, or absent from a map

ASSUME ConstantsAssumption ==
    /\ Monitors \subseteq [name : Names, alertThreshold : Nat \ {0},
                           maintenance : Windows \union {None}]
    /\ SystemNames \subseteq Names /\ Removable \subseteq Names
    /\ Green \in Statuses
    /\ None \notin Names \union Monitors \union Statuses \union Windows
                         \union Counters
    /\ MaxCount \in Nat
    /\ \A m \in Monitors : m.alertThreshold < MaxCount

VARIABLES
    monitors,      \* Service.monitors: name -> instance or None
    result,        \* Service.result: name -> status or None
    failureCount,  \* Service.failureCount: name -> counter or None
    maintenance,   \* Service.maintenance: name -> window or None
    count,         \* the value of each counter
    api,           \* the handler in progress: what it does next, and on which
    sched,         \* the scheduler: where it is, names whose bucket chain is
                   \* still to be copied, instances copied and not yet passed
                   \* to the callback, windows open at its `now`
    chk,           \* the local state of every check goroutine
    health,        \* environment: what a check of each name would find
    open,          \* environment: the windows that cover the present time
    alerts,        \* history: failure alerts per counter and threshold since
                   \* the counter was last zero
    told,          \* history: the last notification pushed for each name
    quiet          \* history: nothing of this name has run since its removal

vars == <<monitors, result, failureCount, maintenance, count, api, sched, chk,
          health, open, alerts, told, quiet>>

-----------------------------------------------------------------------------
(* Vocabulary *)

Thresholds == {m.alertThreshold : m \in Monitors}

Alerts == {"none", "down", "ok"}

IdleCheck == [pc |-> "idle", mon |-> None, status |-> None, prev |-> None,
              ctr |-> None, prevCount |-> 0, alert |-> "none"]

\* Add starts its goroutine at the maintenance test, checkMonitors at Check.
Goroutine(pc, m) == [IdleCheck EXCEPT !.pc = pc, !.mon = m]

InFlight(n) == {s \in Checks : chk[s].pc # "idle" /\ chk[s].mon.name = n}

\* Range has copied an instance of n that the callback has not been given.
Copied(n) == \E m \in sched.copied : m.name = n

\* Counters nothing refers to: the ones &atomic.Int64{} can allocate.
FreeCounters == Counters \ ({failureCount[n] : n \in Names}
                              \union {chk[s].ctr : s \in Checks})

ZeroAlerts == [t \in Thresholds |-> 0]

Init ==
    /\ monitors = [n \in Names |-> None]
    /\ result = [n \in Names |-> None]
    /\ failureCount = [n \in Names |-> None]
    /\ maintenance = [n \in Names |-> None]
    /\ count = [c \in Counters |-> 0]
    /\ api = [pc |-> "idle", mon |-> None]
    /\ sched = [pc |-> "select", todo |-> {}, copied |-> {}, open |-> {}]
    /\ chk = [s \in Checks |-> IdleCheck]
    /\ health \in [Names -> Statuses]
    /\ open \in SUBSET Windows
    /\ alerts = [c \in Counters |-> ZeroAlerts]
    /\ told = [n \in Names |-> "none"]
    /\ quiet = [n \in Names |-> TRUE]

-----------------------------------------------------------------------------
(* The API: Add, AddWithMaintenance and Remove *)

\* Mutant: editing a monitor leaves its window as it was.
AddKeepingWindow(m) ==
    /\ api.pc = "idle"
    /\ maintenance' = IF monitors[m.name] = None
                      THEN [maintenance EXCEPT ![m.name] = m.maintenance]
                      ELSE maintenance
    /\ api' = [pc |-> "add", mon |-> m]
    /\ quiet' = [quiet EXCEPT ![m.name] = FALSE]
    /\ UNCHANGED <<monitors, result, failureCount, count, sched, chk, health,
                   open, alerts, told>>

\* AddWithMaintenance up to its call of Add: the window is stored, or the old
\* one deleted, before the monitor can be seen by the scheduler.
AddWithMaintenance(m) ==
    /\ api.pc = "idle"
    /\ maintenance' = [maintenance EXCEPT ![m.name] = m.maintenance]
    /\ api' = [pc |-> "add", mon |-> m]
    /\ quiet' = [quiet EXCEPT ![m.name] = FALSE]
    /\ UNCHANGED <<monitors, result, failureCount, count, sched, chk, health,
                   open, alerts, told>>

\* Add: the monitor is stored and goroutine s starts its initial check.
StoreAndSpawn(m, s) ==
    /\ chk[s].pc = "idle"
    /\ monitors' = [monitors EXCEPT ![m.name] = m]
    /\ chk' = [chk EXCEPT ![s] = Goroutine("maint", m)]
    /\ quiet' = [quiet EXCEPT ![m.name] = FALSE]
    /\ UNCHANGED <<result, failureCount, maintenance, count, sched, health,
                   open, alerts, told>>

\* The call of Add at the end of AddWithMaintenance.
FinishAdd(s) ==
    /\ api.pc = "add"
    /\ StoreAndSpawn(api.mon, s)
    /\ api' = [pc |-> "idle", mon |-> None]

\* handleUpdateSystemConfig replaces the cpu and memory monitors with plain
\* Add: the window of the name is left as it is.
AddSystem(m, s) ==
    /\ api.pc = "idle"
    /\ m.name \in SystemNames
    /\ StoreAndSpawn(m, s)
    /\ UNCHANGED api

\* Remove, first access: not found leaves everything alone; otherwise the
\* monitor leaves the registry, and three more deletions follow.
Remove(n) ==
    /\ api.pc = "idle"
    /\ n \in Removable
    /\ monitors[n] # None
    /\ monitors' = [monitors EXCEPT ![n] = None]
    /\ api' = [pc |-> "deleteResult", mon |-> monitors[n]]
    /\ quiet' = [quiet EXCEPT ![n] = InFlight(n) = {} /\ ~Copied(n)]
    /\ UNCHANGED <<result, failureCount, maintenance, count, sched, chk,
                   health, open, alerts, told>>

DeleteResult ==
    /\ api.pc = "deleteResult"
    /\ result' = [result EXCEPT ![api.mon.name] = None]
    /\ api' = [api EXCEPT !.pc = "deleteCount"]
    /\ UNCHANGED <<monitors, failureCount, maintenance, count, sched, chk,
                   health, open, alerts, told, quiet>>

\* Mutant: the failure count is left behind.
KeepCount ==
    /\ api.pc = "deleteCount"
    /\ api' = [api EXCEPT !.pc = "deleteMaintenance"]
    /\ UNCHANGED <<monitors, result, failureCount, maintenance, count, sched,
                   chk, health, open, alerts, told, quiet>>

DeleteCount ==
    /\ api.pc = "deleteCount"
    /\ failureCount' = [failureCount EXCEPT ![api.mon.name] = None]
    /\ api' = [api EXCEPT !.pc = "deleteMaintenance"]
    /\ UNCHANGED <<monitors, result, maintenance, count, sched, chk, health,
                   open, alerts, told, quiet>>

DeleteMaintenance ==
    /\ api.pc = "deleteMaintenance"
    /\ maintenance' = [maintenance EXCEPT ![api.mon.name] = None]
    /\ api' = [pc |-> "idle", mon |-> None]
    /\ UNCHANGED <<monitors, result, failureCount, count, sched, chk, health,
                   open, alerts, told, quiet>>

-----------------------------------------------------------------------------
(* The scheduler: startMonitors and checkMonitors *)

\* ticker.C fires (or the loop starts): checkMonitors reads the clock once and
\* ranges over the registry.
Tick ==
    /\ sched.pc = "select"
    /\ sched' = [pc |-> "range", todo |-> Names, copied |-> {}, open |-> open]
    /\ UNCHANGED <<monitors, result, failureCount, maintenance, count, api,
                   chk, health, open, alerts, told, quiet>>

\* Mutant: the cycle goes through a list of monitors Remove does not touch.
CopyListed(C) ==
    /\ sched.pc = "range"
    /\ C # {} /\ C \subseteq sched.todo
    /\ sched' = [sched EXCEPT !.todo = @ \ C,
                              !.copied = @ \union {m \in Monitors : m.name \in C}]
    /\ UNCHANGED <<monitors, result, failureCount, maintenance, count, api,
                   chk, health, open, alerts, told, quiet>>

\* xsync's Range copies the entries of a whole bucket chain under its lock and
\* calls back for them after that, whatever becomes of the map meanwhile. Which
\* names C share a chain is for the hash to say. When the table is resized
\* Range keeps to the old one, whose rest is as if it had been copied then:
\* hence a chain may be copied before the last one's callbacks are done.
CopyChain(C) ==
    /\ sched.pc = "range"
    /\ C # {} /\ C \subseteq sched.todo
    /\ sched' = [sched EXCEPT
                    !.todo = @ \ C,
                    !.copied = @ \union ({monitors[n] : n \in C} \ {None})]
    /\ UNCHANGED <<monitors, result, failureCount, maintenance, count, api,
                   chk, health, open, alerts, told, quiet>>

\* The window in the map, judged at the `now` of this cycle.
Skipped(n) == maintenance[n] \in sched.open

\* The callback of Range for a copied instance m: its window is tested ...
SkipMonitor(m) ==
    /\ sched.pc = "range"
    /\ m \in sched.copied
    /\ Skipped(m.name)
    /\ sched' = [sched EXCEPT !.copied = @ \ {m}]
    /\ UNCHANGED <<monitors, result, failureCount, maintenance, count, api,
                   chk, health, open, alerts, told, quiet>>

\* ... and goroutine s is started for it.
SpawnCheck(m, s) ==
    /\ sched.pc = "range"
    /\ m \in sched.copied
    /\ ~Skipped(m.name)
    /\ chk[s].pc = "idle"
    /\ chk' = [chk EXCEPT ![s] = Goroutine("check", m)]
    /\ sched' = [sched EXCEPT !.copied = @ \ {m}]
    /\ UNCHANGED <<monitors, result, failureCount, maintenance, count, api,
                   health, open, alerts, told, quiet>>

RangeEnd ==
    /\ sched.pc = "range"
    /\ sched.todo = {} /\ sched.copied = {}
    /\ sched' = [pc |-> "select", todo |-> {}, copied |-> {}, open |-> {}]
    /\ UNCHANGED <<monitors, result, failureCount, maintenance, count, api,
                   chk, health, open, alerts, told, quiet>>

-----------------------------------------------------------------------------
(* A check goroutine: the body of Add's goroutine, Check, checkStoreAndPush *)

\* isInMaintenance in the goroutine Add started, judged at the present time.
MaintenanceTest(s) ==
    /\ chk[s].pc = "maint"
    /\ chk' = [chk EXCEPT ![s] =
                 IF maintenance[chk[s].mon.name] \in open
                 THEN IdleCheck
                 ELSE Goroutine("check", chk[s].mon)]
    /\ UNCHANGED <<monitors, result, failureCount, maintenance, count, api,
                   sched, health, open, alerts, told, quiet>>

\* m.Check(ctx) returns what it found.
CheckReturns(s) ==
    /\ chk[s].pc = "check"
    /\ chk' = [chk EXCEPT ![s].pc = "load",
                          ![s].status = health[chk[s].mon.name]]
    /\ UNCHANGED <<monitors, result, failureCount, maintenance, count, api,
                   sched, health, open, alerts, told, quiet>>

LoadPrevious(s) ==
    /\ chk[s].pc = "load"
    /\ chk' = [chk EXCEPT ![s].pc = "store",
                          ![s].prev = result[chk[s].mon.name]]
    /\ UNCHANGED <<monitors, result, failureCount, maintenance, count, api,
                   sched, health, open, alerts, told, quiet>>

StoreResult(s) ==
    /\ chk[s].pc = "store"
    /\ result' = [result EXCEPT ![chk[s].mon.name] = chk[s].status]
    /\ chk' = [chk EXCEPT ![s].pc = "counter"]
    /\ UNCHANGED <<monitors, failureCount, maintenance, count, api, sched,
                   health, open, alerts, told, quiet>>

\* Mutant: Load in place of LoadOrStore, its ok ignored.
LoadCounterUnchecked(s) ==
    /\ chk[s].pc = "counter"
    /\ chk' = [chk EXCEPT ![s].pc = "count",
                          ![s].ctr = failureCount[chk[s].mon.name]]
    /\ UNCHANGED <<monitors, result, failureCount, maintenance, count, api,
                   sched, health, open, alerts, told, quiet>>

\* failureCount.LoadOrStore finds the counter of the name...
LoadCounter(s) ==
    LET n == chk[s].mon.name
    IN  /\ chk[s].pc = "counter"
        /\ failureCount[n] # None
        /\ chk' = [chk EXCEPT ![s].pc = "count", ![s].ctr = failureCount[n]]
        /\ UNCHANGED <<monitors, result, failureCount, maintenance, count, api,
                       sched, health, open, alerts, told, quiet>>

\* Mutant: the new counter is one a removal gave back, although a check may
\* still hold it.
StorePooledCounter(s, c) ==
    LET n == chk[s].mon.name
    IN  /\ chk[s].pc = "counter"
        /\ failureCount[n] = None
        /\ c \in Counters \ {failureCount[x] : x \in Names}
        /\ failureCount' = [failureCount EXCEPT ![n] = c]
        /\ count' = [count EXCEPT ![c] = 0]
        /\ alerts' = [alerts EXCEPT ![c] = ZeroAlerts]
        /\ chk' = [chk EXCEPT ![s].pc = "count", ![s].ctr = c]
        /\ UNCHANGED <<monitors, result, maintenance, api, sched, health, open,
                       told, quiet>>

\* ... or stores a new one, whose value is zero.
StoreCounter(s, c) ==
    LET n == chk[s].mon.name
    IN  /\ chk[s].pc = "counter"
        /\ failureCount[n] = None
        /\ c \in FreeCounters
        /\ failureCount' = [failureCount EXCEPT ![n] = c]
        /\ count' = [count EXCEPT ![c] = 0]
        /\ alerts' = [alerts EXCEPT ![c] = ZeroAlerts]
        /\ chk' = [chk EXCEPT ![s].pc = "count", ![s].ctr = c]
        /\ UNCHANGED <<monitors, result, maintenance, api, sched, health, open,
                       told, quiet>>

\* prevCount := counter.Load()
LoadCount(s) ==
    /\ chk[s].pc = "count"
    /\ chk' = [chk EXCEPT ![s].pc = "update",
                          ![s].prevCount = count[chk[s].ctr]]
    /\ UNCHANGED <<monitors, result, failureCount, maintenance, count, api,
                   sched, health, open, alerts, told, quiet>>

\* Mutant: the increment is a load and a store, with the value loaded before.
IncrementedFromLoad(g) ==
    IF g.prevCount < MaxCount THEN g.prevCount + 1 ELSE MaxCount

\* counter.Add(1), an atomic read-modify-write; the value stays at MaxCount.
Incremented(g) ==
    IF count[g.ctr] < MaxCount THEN count[g.ctr] + 1 ELSE MaxCount

\* Mutants: the threshold has to be exceeded; only a change from green alerts.
ThresholdExceeded(g, current) == current > g.mon.alertThreshold
ThresholdMetOnChange(g, current) ==
    current = g.mon.alertThreshold /\ g.prev = Green

\* Case 2: the failure threshold is met.
ThresholdMet(g, current) == current = g.mon.alertThreshold

\* Mutant: the threshold has to have been exceeded.
RecoveredLate(g) ==
    /\ g.prev # None
    /\ g.prev # Green
    /\ g.prevCount > g.mon.alertThreshold

\* Case 1: recovery to Green after the threshold had been reached.
Recovered(g) ==
    /\ g.prev # None
    /\ g.prev # Green
    /\ g.prevCount >= g.mon.alertThreshold

\* The goroutine goes on to s.push, or ends.
PushOrEnd(g, alert) ==
    IF alert = "none" THEN IdleCheck
                      ELSE [Goroutine("push", g.mon) EXCEPT !.alert = alert]

RecordFailure(s) ==
    LET g == chk[s]
        current == Incremented(g)
        met == ThresholdMet(g, current)
    IN  /\ g.pc = "update"
        /\ g.status # Green
        /\ count' = [count EXCEPT ![g.ctr] = current]
        /\ alerts' = IF met
                     THEN [alerts EXCEPT ![g.ctr][g.mon.alertThreshold] =
                             IF @ = 0 THEN 1 ELSE 2]
                     ELSE alerts
        /\ chk' = [chk EXCEPT ![s] =
                     PushOrEnd(g, IF met THEN "down" ELSE "none")]
        /\ UNCHANGED <<monitors, result, failureCount, maintenance, api, sched,
                       health, open, told, quiet>>

\* Mutant: a success does not reset the counter.
NotReset(g) == g.prevCount

\* The value the counter is left with by a success.
AfterSuccess(g) == 0

RecordSuccess(s) ==
    LET g == chk[s]
    IN  /\ g.pc = "update"
        /\ g.status = Green
        /\ count' = [count EXCEPT ![g.ctr] = AfterSuccess(g)]
        /\ alerts' = [alerts EXCEPT ![g.ctr] = ZeroAlerts]
        /\ chk' = [chk EXCEPT ![s] =
                     PushOrEnd(g, IF Recovered(g) THEN "ok" ELSE "none")]
        /\ UNCHANGED <<monitors, result, failureCount, maintenance, api, sched,
                       health, open, told, quiet>>

\* s.push(ctx, m, prev, result): the receiver learns of it.
Push(s) ==
    /\ chk[s].pc = "push"
    /\ told' = [told EXCEPT ![chk[s].mon.name] = chk[s].alert]
    /\ chk' = [chk EXCEPT ![s] = IdleCheck]
    /\ UNCHANGED <<monitors, result, failureCount, maintenance, count, api,
                   sched, health, open, alerts, quiet>>

-----------------------------------------------------------------------------
(* The environment *)

HealthChanges(n) ==
    /\ \E h \in Statuses \ {health[n]} : health' = [health EXCEPT ![n] = h]
    /\ UNCHANGED <<monitors, result, failureCount, maintenance, count, api,
                   sched, chk, open, alerts, told, quiet>>

TimePasses ==
    /\ \E o \in SUBSET Windows : o # open /\ open' = o
    /\ UNCHANGED <<monitors, result, failureCount, maintenance, count, api,
                   sched, chk, health, alerts, told, quiet>>

-----------------------------------------------------------------------------
(* The specification *)

\* What a handler in progress does next.
Handler == \/ \E s \in Checks : FinishAdd(s)
           \/ DeleteResult
           \/ DeleteCount
           \/ DeleteMaintenance

Scheduler == \/ Tick
             \/ \E C \in SUBSET Names : CopyChain(C)
             \/ \E m \in Monitors : SkipMonitor(m)
             \/ \E m \in Monitors, s \in Checks : SpawnCheck(m, s)
             \/ RangeEnd

Check(s) == \/ MaintenanceTest(s)
            \/ CheckReturns(s)
            \/ LoadPrevious(s)
            \/ StoreResult(s)
            \/ LoadCounter(s)
            \/ \E c \in Counters : StoreCounter(s, c)
            \/ LoadCount(s)
            \/ RecordFailure(s)
            \/ RecordSuccess(s)
            \/ Push(s)

Request == \/ \E m \in Monitors : AddWithMaintenance(m)
           \/ \E m \in Monitors, s \in Checks : AddSystem(m, s)
           \/ \E n \in Names : Remove(n)

Environment == \/ \E n \in Names : HealthChanges(n)
               \/ TimePasses

Next == \/ Request
        \/ Handler
        \/ Scheduler
        \/ \E s \in Checks : Check(s)
        \/ Environment

Spec == Init /\ [][Next]_vars

\* The Go runtime runs every goroutine that can run, the ticker fires again,
\* and a Check returns (its context has a timeout); a handler runs to its end.
\* Nothing makes a request arrive, nor the environment change.
Fairness == /\ WF_vars(Handler)
            /\ WF_vars(Scheduler)
            /\ \A s \in Checks : WF_vars(Check(s))

FairSpec == Spec /\ Fairness

\* Checks of one name do not overlap: true when every check ends before the
\* next tick and before the instance is added again.
Serial == \A n \in Names : \A s, t \in InFlight(n) : s = t

SerialNext == Next /\ Serial'

SerialSpec == Init /\ [][SerialNext]_vars

SerialFairSpec ==
    /\ SerialSpec
    /\ WF_vars(Handler /\ Serial')
    /\ WF_vars(Scheduler /\ Serial')
    /\ \A s \in Checks : WF_vars(Check(s))

-----------------------------------------------------------------------------
(* Properties *)

\* What a goroutine carries at each point of its run.
GoroutineType ==
    [pc : {"idle", "maint", "check", "load", "store", "counter", "count",
           "update", "push"},
     mon : Monitors \union {None}, status : Statuses \union {None},
     prev : Statuses \union {None}, ctr : Counters \union {None},
     prevCount : 0 .. MaxCount, alert : Alerts]

WellFormed(g) ==
    /\ g.pc # "idle" => g.mon \in Monitors
    /\ g.pc \in {"load", "store", "counter", "count", "update"} =>
           g.status \in Statuses
    /\ g.pc \in {"count", "update"} => g.ctr \in Counters
    /\ g.pc = "push" => g.alert # "none"

HandlerType ==
    [pc : {"idle", "add", "deleteResult", "deleteCount", "deleteMaintenance"},
     mon : Monitors \union {None}]

SchedulerType ==
    [pc : {"select", "range"}, todo : SUBSET Names,
     copied : SUBSET Monitors, open : SUBSET Windows]

\* Every variable has its type: each map holds only values the code stores in
\* it, a goroutine past LoadOrStore (monitors.go:269) holds a counter, and a
\* cycle has at most one instance of a name.
TypeOK ==
    /\ monitors \in [Names -> Monitors \union {None}]
    /\ \A n \in Names : monitors[n] # None => monitors[n].name = n
    /\ result \in [Names -> Statuses \union {None}]
    /\ failureCount \in [Names -> Counters \union {None}]
    /\ maintenance \in [Names -> Windows \union {None}]
    /\ count \in [Counters -> 0 .. MaxCount]
    /\ api \in HandlerType
    /\ api.pc # "idle" => api.mon \in Monitors
    /\ sched \in SchedulerType
    /\ \A m \in sched.copied : m.name \notin sched.todo
    /\ \A l, m \in sched.copied : l.name = m.name => l = m
    /\ chk \in [Checks -> GoroutineType]
    /\ \A s \in Checks : WellFormed(chk[s])
    /\ health \in [Names -> Statuses]
    /\ open \in SUBSET Windows
    /\ alerts \in [Counters -> [Thresholds -> 0 .. 2]]
    /\ told \in [Names -> Alerts]
    /\ quiet \in [Names -> BOOLEAN]

\* However many checks of a name overlap, and whatever instances they belong
\* to, one threshold is alerted at most once between two successes: the counter
\* is incremented atomically and compared for equality (monitors.go:280, :296).
NoDuplicateFailureAlert ==
    \A c \in Counters, t \in Thresholds : alerts[c][t] <= 1

\* A counter at or above the threshold means the failure alert of that outage
\* was decided (monitors.go:296, "the number of consecutive failures before
\* triggering alert", config.go:53).
OutageIsAlerted ==
    \A n \in Names :
        /\ monitors[n] # None
        /\ failureCount[n] # None
        /\ count[failureCount[n]] >= monitors[n].alertThreshold
        => alerts[failureCount[n]][monitors[n].alertThreshold] >= 1

\* "Number of consecutive failures before triggering alert" (config.go:53): a
\* failing check that leaves the count at or above its monitor's threshold is
\* itself alerted, unless a check before it in that outage was. False: when the
\* threshold has been lowered to the count already reached, the next failing
\* check, and every one after it, finds the two unequal (monitors.go:296).
FailureIsAlerted ==
    [][\A s \in Checks :
         LET c == chk[s].ctr IN
         /\ chk[s].pc = "update" /\ chk'[s].pc # "update"
         /\ chk[s].status # Green
         /\ count'[c] >= chk[s].mon.alertThreshold
         => \E t \in Thresholds : alerts'[c][t] >= 1]_vars

\* Removing a monitor none of whose checks was running, and which the cycle
\* under way had not copied, leaves nothing of it behind, whatever the scheduler
\* and the other checks did meanwhile: no result on the dashboard, no count to
\* inherit, no window (monitors.go:161-164).
QuietRemoval ==
    \A n \in Names :
        quiet[n] /\ api.pc = "idle" =>
            /\ monitors[n] = None
            /\ result[n] = None
            /\ failureCount[n] = None
            /\ maintenance[n] = None

\* A removed monitor is checked at most once more: until the name is added
\* again, no cycle takes it up, and a goroutine only starts for the one instance
\* that the cycle under way had copied before the removal, which uses it up
\* (monitors.go:161, :241-252). So only checks in flight at the removal and
\* that one can write a result Remove deleted.
RemovalStopsChecks ==
    [][\A n \in Names :
         monitors[n] = None /\ monitors'[n] = None =>
             /\ Copied(n)' => Copied(n)
             /\ \/ InFlight(n)' \subseteq InFlight(n)
                \/ Copied(n) /\ ~Copied(n)']_vars

\* A counter belongs to the name whose map entry it is, or whose check has
\* loaded it.
Owns(n, c) ==
    \/ failureCount[n] = c
    \/ \E s \in Checks : /\ chk[s].pc \in {"count", "update"}
                         /\ chk[s].ctr = c
                         /\ chk[s].mon.name = n

\* No counter is shared by two names, however removals and overlapping checks
\* replace the entries: a check that still holds the counter of a removed
\* monitor never counts for another (monitors.go:163, :269).
OneOwner ==
    \A c \in Counters, n1, n2 \in Names : Owns(n1, c) /\ Owns(n2, c) => n1 = n2

\* No check of a registered monitor starts while the window it was submitted
\* with covers the time the code consulted: the clock for an initial check
\* (monitors.go:125), the `now` of the cycle for a periodic one
\* (monitors.go:240). A handler between its two stores is replacing the window;
\* the system monitors keep the window of an earlier instance.
WindowInForce(m) ==
    /\ monitors[m.name] = m
    /\ m.name \notin SystemNames
    /\ ~(api.pc = "add" /\ api.mon.name = m.name)

NoCheckInsideWindow ==
    [][\A s \in Checks :
         chk[s].pc # "check" /\ chk'[s].pc = "check"
            /\ WindowInForce(chk'[s].mon)
         => chk'[s].mon.maintenance \notin
                (IF chk[s].pc = "maint" THEN open ELSE sched.open)]_vars

\* The stored result and the failure counter tell the same story whenever no
\* check of the name is running: green with no failures, or not green with at
\* least one. Needs checks of a name not to overlap.
ResultMatchesCount ==
    \A n \in Names :
        InFlight(n) = {} /\ result[n] # None /\ failureCount[n] # None =>
            (result[n] = Green <=> count[failureCount[n]] = 0)

\* The alert policy on the service's state: the count is the value of the
\* counter in the map, and a decided alert that has not been pushed is owed.
PolicyThreshold ==
    [n \in Names |-> (CHOOSE m \in Monitors : m.name = n).alertThreshold]

Policy ==
    INSTANCE AlertPolicy WITH
        Threshold <- PolicyThreshold,
        MaxFailures <- MaxCount,
        failures <- [n \in Names |-> IF failureCount[n] = None THEN 0
                                     ELSE count[failureCount[n]]],
        told <- told,
        owed <- [n \in Names |->
                   IF \E s \in Checks : chk[s].pc = "push" /\ chk[s].mon.name = n
                   THEN chk[CHOOSE s \in Checks :
                              chk[s].pc = "push" /\ chk[s].mon.name = n].alert
                   ELSE "none"]

\* Non-overlapping checks implement the alert policy: the edge the code detects
\* from the previous result and count (monitors.go:287-299) is the one the
\* receiver has not been told of.
ImplementsAlertPolicy == Policy!Spec

\* A monitor that stays registered, healthy and outside its window ends up
\* green with a zero count for good, however its checks overlapped before and
\* whatever the API does to other instances (the Store(0) of monitors.go:283,
\* and the ticker of startMonitors).
Convergence ==
    \A n \in Names :
        <>[](monitors[n] # None /\ health[n] = Green /\ maintenance[n] \notin open)
        => <>[](/\ result[n] = Green
                /\ failureCount[n] # None
                /\ count[failureCount[n]] = 0)

\* A monitor that stays registered, unhealthy and outside its window is reported
\* down, and that is the last thing the receiver is told: the equality test of
\* monitors.go:296 cannot step over the threshold. Needs checks of a name not to
\* overlap, and its threshold not to be edited.
OutageIsReported ==
    \A n \in Names :
        <>[](monitors[n] # None /\ health[n] # Green /\ maintenance[n] \notin open)
        => <>[](told[n] = "down")
=============================================================================
