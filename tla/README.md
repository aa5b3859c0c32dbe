# A verification project for lmon

lmon is a small monitoring service: it checks disks, cpu, memory, URLs, hosts
and Docker containers at an interval, shows their status, and notifies a
webhook when something goes down or recovers.  This directory holds TLA+
models of the parts that carry its logic, the TLC configurations that check
them on small instances, and proofs about them.  Source references are to the
repository root (`monitors/monitors.go:296` and so on).

## The system

| Part | State | Operations | Talks to |
|---|---|---|---|
| Monitor service, `monitors/monitors.go` | `monitors`, `result`, `failureCount`, `maintenance` (xsync maps), counters (`atomic.Int64`) | `Add`, `AddWithMaintenance`, `Remove`, `checkMonitors`, `checkStoreAndPush`, `Save` | called by the server; calls the monitors and the push callback |
| Check cycle, same file | `period`, `timeout`, `cancel`, `wg`, one scheduler goroutine | `SetPeriod`, `stopMonitors`, `startMonitors` | contexts of the checks |
| Maintenance windows, `monitors/maintenance.go` | none | `IsInMaintenanceWindow`, `ValidateMaintenanceConfig`, `MaintenancePtr` | robfig/cron |
| Web server, `web/server.go` | `config`, `mu`, the mapper | request handlers, `SetConfig`, `saveConfig`, `pushToWebhook` | service, loader, webhook |
| Configuration, `config/config.go` | the file | `Load`, `Save` | viper |
| Mapper and monitors, `monitors/mapper`, `monitors/*` | immutable instances | constructors, `Check`, `Save`, `Restart` | the OS, the network, the Docker daemon |
| Webhook, `webhook/webhook.go` | none | `Send` | the receiver |
| cpu provider, `monitors/system/cpu.go` | `prevCPUTimes`, `mu` | `Usage` | the machine's cpu times |
| `web/uiresult.go` | none | `newUIResult` | the dashboard |
| `main.go` | contexts | start, stop | all |
| Browser code, templates, mocks, test helpers | | | not modelled |

Handlers and `SetConfig` hold `Server.mu`, so the API is one operation at a
time.  Every check runs in a goroutine of its own, started by `Add` or by the
scheduler, and shares only the four maps with the API and with other checks of
the same name.  A check pushes through `pushToWebhook`, which needs `mu`.

What is hard here: checks of one name that overlap (an edit starts one at once;
a start applies the configuration twice); a check that outlives the removal of
its monitor, or is started after it from the scheduler's copy of the registry;
decisions taken from a previous result and a counter that are read and written
separately; `SetPeriod` waiting with `mu` held; handlers that wait for a client
or the Docker daemon with `mu` held; a notification sent with a context that is
done; a signal at any of these moments; the steps of a save, any of which may
fail or be the last, and a text that breaks off and can be read all the same; a
cpu usage whose baseline is shared by overlapping checks; and windows decided
by one look at a schedule.

What makes each part correct:

* service: an outage that reaches its threshold is alerted, once; a recovery
  after it is told; nothing of a removed monitor stays; a healthy monitor ends
  up green; nothing starts inside a window;
* check cycle: one scheduler; a cycle that ends within its period; no
  deadlock between handlers and pushes; monitoring that goes on; what is
  cancelled alerts nobody;
* windows: paused exactly while a trigger covers the time;
* configuration: what was acknowledged survives a restart; what is shown is
  what runs; a file the program wrote is one it can start from; a save that is
  cut short brings back nothing of an older configuration;
* cpu: each result is about the time since the last reading, all of it and
  nothing else;
* container monitors: a status that some moment of the check bears out; a
  restart that touches only what it may and does not claim more than it did.

## Modules

`MonitorService` is the core.  Its variables are the service's maps
(`monitors`, `result`, `failureCount`, `maintenance`), the counter cells
(`count`), the program counters of the handler (`api`), the scheduler
(`sched`) and the check goroutines (`chk`), the environment (`health`, `open`)
and history for the properties (`alerts`, `told`, `quiet`).  Each access to a
shared map or counter is an action: `checkStoreAndPush` is `LoadPrevious`,
`StoreResult`, `LoadCounter`/`StoreCounter` (LoadOrStore), `LoadCount`,
`RecordFailure` or `RecordSuccess`, `Push`; `Remove` is four deletions; an
edit stores the window and then the monitor.  The scheduler ranges over the
registry as xsync's `Map.Range` does: `CopyChain` copies the instances of a
whole bucket chain at one moment, for any set of names that may share one, and
the callbacks (`SkipMonitor`, `SpawnCheck`) come after it, whatever has become
of the map. A name removed in between is still checked once.

`AlertPolicy` is the promise, with neither goroutines nor maps: told once at
the threshold, told once at the first success after it.  It is stated on what
the receiver was last told, which the code never stores; the service decides
from the previous result and the previous count.  `Policy` in `MonitorService`
is the refinement mapping: the count of a name is that of its counter, and what
is owed is the alert a check has decided and not yet pushed.

`CheckCycle` models what `MonitorService` takes for granted: `mu`, `SetPeriod`
step by step (period, timeout, cancel, wait, start), scheduler generations
with their tickers and cycle timeouts, contexts, and the notification's way
out.  A handler that has `mu` may wait for a request's body (`"body"`), or for
its answer to be read or the Docker daemon (`"answer"`): `BodyIsInterval` and
the other steps of `OutsideStep` are the client's or the daemon's and need not
come.  `SignalArrives` is the signal that cancels every context; `StopReturns`
is `Server.Stop`, which does not wait, and `ProcessEnds`, shared with the
ticker's panic, the end of `main`.  The webhook may be disabled, and
`ReceiverFails` says whether `webhook.Send` may fail with a context that is
alive (a transport error, five seconds without an answer, another code than
200).  One monitor stands for all and the recording of a result is one step,
because the maps are the other module's subject.

`MaintenanceWindow` has the validation and the window test over an arbitrary
set of trigger times; cron's `Next` is external: the first trigger after an
instant, or the zero time when its search finds none.

`ConfigStore` models the configuration in its three forms: what runs
(`monitors`, `maintenance`, `period`), what is shown and saved (`config`), and
`file`.  A request changes the first, `SaveToConfig` (Service.Save) the second,
`Truncate`, `WritePart` and `WriteFile` (Loader.Save) the third; each may fail,
and the process may end (`Crash`) between any two.  A submitted monitor is
abstracted to its alert threshold, its window, and one field for the rest
(`bad`, `unset`, `given`) because that is all that validation and defaults
distinguish.  viper's lower-case keys are `Lower`; two names that fold to one
key are written in an arbitrary order, as Go ranges over a map.

A file that is partly written (`CutShort`) holds a part of the text from its
front. The text is in the order of its keys (`Place`), so what `Load` makes of
it is the settings and items in front of the end (`UpTo`), with viper's
defaults for the rest. At the end itself an item, or the value of a setting,
may be broken (`Broken`, `SettingEnds`): fields are missing, a number has lost
digits, a schedule fields; and a heading with nothing under it hides the
defaults of its group. What of this cannot be parsed, or `SetConfig` refuses,
is `Torn`; the rest is a file the next start accepts.

`DurableConfig` is the promise behind it: a running configuration, a durable
one, and a save that replaces the durable one by an image of the running one,
gives up, or is cut short.  No file, map, text or step of a save is in it.  The
mapping (`Durable` in `ConfigStore`) takes as durable what a start from the
file would bring up, so that `ImplementsDurableConfig` says of `Service.Save`,
`Loader.Save`, `Load` and `SetConfig` together what a restart can bring back:
the image of the last complete save or, after one that was cut short, a
`Remnant`: parts of the new configuration and defaults, with at most what the
end of the text can spoil (`TextEnds`) being neither, no item that neither runs
nor is a default, and nothing of an older configuration; or nothing readable. A
change touches only what its request names (`RequestScopes`), also when the
request is refused halfway; the system form names no window of cpu and memory,
since it has none ("Preserve existing maintenance windows", server.go:558).

`CpuUsage` models the one check that has a memory: the provider's
`prevCPUTimes`, kept from one `Usage` to the next under the provider's mutex,
which an edit of the system form replaces by the present.  The machine's times
are two counters, busy and idle; the percentage is `calculateCPUPercentage`,
in tenths of a percent, and `LoadIsSeen` says what it is for an interval that
was busy, idle or both. The threshold is any integer, as the form and the
constructor take it: one above a hundred is never red, one of zero or less
always.

`ContainerMonitor`, over `Status`, models docker checks that read the restart
counts one by one, restart requests that go through the places of a list with
`mu` held (a list may name a container twice), and a daemon whose containers
crash, disappear and come back.  `Status` holds the status functions of all
kinds of monitor.

The proofs are in `MonitorServiceProofs`, `SerialCheckProofs` (which extends it
to checks that do not overlap), `CheckCycleProofs`, `MaintenanceWindowProofs`,
`ConfigStoreProofs`, `CpuUsageProofs` and `ContainerMonitorProofs`;
`IntegerLemmas` has what several of them need of integers.  The `MC...` modules
hold constants for TLC and nothing of the system.

## Runs

| Run | Question | States |
|---|---|---|
| Removal | two names, removed and re-added under two checks and cycles that copy the registry chain by chain: leftovers, checks that start after a removal, counters shared by two names | 724 k |
| SerialChecks | checks of a name do not overlap: result and count agree, the service refines `AlertPolicy`, a lasting outage ends up reported, no check starts inside its window | 65 k |
| Convergence | overlapping checks, a window, edits by the handlers and the system form: duplicate or missing failure alerts; a healthy monitor ends up green with a zero count | 670 k |
| RepeatingWindows | all schedules of a cycle of 4, durations up to 6 (so overlapping and back-to-back), invalid ones too | 1.2 k |
| SetPeriod | interval edits, added monitors, handlers that wait for ever and a signal, against running cycles and pushes | 106 k |
| SavedConfig | any two requests, failing saves, crashes, files cut short: what comes back, and that the store implements `DurableConfig` | 144 k |
| CpuReadings | two overlapping checks of the cpu, failures and edits: what each result is about | 1.8 M |
| Restarts | a docker check of two containers while requests restart them and the daemon acts | 300 k |

Four more runs show where the code departs from what its comments say; each
checks one property and TLC's counterexample is the run's result.

* LoweredThreshold: the alert is decided by `currentCount == threshold`; a
  threshold lowered to a count already reached is stepped over. The trace goes
  on to the next failing check: it leaves the count above the threshold, nobody
  was alerted in that outage, and it alerts nobody either (`FailureIsAlerted`).
* ZeroInterval: the interval handler accepts zero; the scheduler that
  `SetPeriod` starts panics in `time.NewTicker` and ends the process.
* UnsentAlert: the notification uses the context of the check, which is done
  when the check failed because it timed out; nothing retries.
* GracefulStop: `Stop` takes its five seconds from `s.ctx`, whose end is the
  reason it is called: `Shutdown` returns at once and a handler at work, which
  may be about to save, is cut off.

### Bounds, and why they are enough

* Names: two in Removal, where what is at stake is shared: the scheduler's
  copy of a chain, whose names are removed and checked at different times, and
  the counter cells. Its monitors are always green, because what a removal
  leaves does not depend on what was found; one in the other runs of the
  service, since monitors of different names share nothing else.
* `Checks`: two goroutines, the least that overlap; when both are in use the
  model delays a new one, which a real scheduler may do too. Three counters
  are as many as two goroutines and the map can refer to.
* `MaxCount`: counters saturate above every threshold, where the code makes no
  more difference between values. The bound is an assumption of the module
  (`alertThreshold < MaxCount`).
* Convergence has no removals: `NoDuplicateFailureAlert` and `OutageIsAlerted`
  are about one cell, and a removal only gives the name a new one. The theorems
  of the same names have no such bound. Removal uses `SYMMETRY` on goroutines
  and counter cells, which no property names, and a `VIEW` that drops `told`
  and cells nothing refers to: no action and none of that run's properties read
  them. Liveness runs use neither.
* `CheckCycle`: two generations, because `OneScheduler` shows a third cannot be
  needed; intervals 0 and 3 below a first period of 6 and a timeout of 9 take
  `sanitizeTimeout` through each of its branches (longer than the period, zero,
  kept). One check at a time: what bounds it is the mutex and its context, not
  other checks. The monitored thing is up or hung, so that a failure can only
  come of a context that is done, which `CancellationIsSilent` is about.
* `ConfigStore`: two names that differ in case, of two kinds: docker, which a
  constructor can refuse, and ping, which a start can; an id that is sanitised;
  three forms (defaults; a window with an argument that is bad or, for a ping,
  given; a bad window); a first file with a monitor, a window and a title
  to lose; and two requests: two additions that collide, or an edit or a
  deletion after one, each with a save that may be cut short at every place.
* `CpuUsage`: two goroutines and two providers, the least that overlap and
  replace each other; the machine has been busy and idle before the start, and
  three more ticks pass, so an interval can be empty, of one kind or mixed. The
  thresholds are zero, a share, and more than the whole.
* `ContainerMonitor`: a threshold of 2 has all three bands, amber from 1
  because `int(2*0.9)` is 1; `MaxCount` is the threshold, above which nothing
  changes. Histories are kept only while a check is under way.

`CHECK_DEADLOCK FALSE` is given where the system really stops: in the runs of
`CheckCycle`, whose process ends, and in SavedConfig, when a file cut short
makes `Load` or `SetConfig` fail until an operator repairs it.

### Fairness

* Every goroutine that can run does (WF on handlers, the scheduler, each
  check): the Go scheduler is preemptive. `Check` returns because its context
  has a timeout in a cycle; a check started by `Add` has none, and the
  `hung` health of `CheckCycle` is about that.
* The ticker fires (WF on `Tick`).
* A `select` whose context is done chooses at random against the ticker, so it
  does not lose for ever (SF on `LoopEnds`).
* `sync.Mutex` hands itself to a waiter that has starved for 1 ms (SF on
  `ReadWebhook`), however many requests there are.
* No fairness on requests, on clients and the Docker daemon, on the signal, on
  what is monitored or on the clock. `PushGetsLock` says what it needs of
  clients and the daemon: that they do not keep a handler waiting for ever.
  `MonitoringContinues` needs nothing of them.
* Safety runs assume none. `SerialFairSpec` restricts behaviours to checks of
  a name that do not overlap, which holds when each check ends before the next
  tick and no edit meets a running check.

## Proofs

Every safety property and every action property the runs check is also a
theorem, for all values of the constants, and so are both refinements. Each
inductive invariant named here was checked by TLC on the instance of its run
before it was proved. Where a theorem needs more than the module's assumptions
on its constants, the hypothesis is part of its statement and is named below.

`MonitorServiceProofs`, for any sets of names, instances, goroutines and
counters, from `ConstantsAssumption` alone:

* `TypeCorrect`: `Spec => []TypeOK`. Beyond the types it carries that a
  goroutine past `LoadOrStore` holds a counter and that the registered
  instance has the name it is stored under.
* `OneOwnerHolds`: no cell counts the failures of two names. A removal deletes
  the map's entry while a check still holds the cell, so ownership (`Owns`) is
  by either; only `StoreCounter` makes an owner, of a cell nobody refers to.
* `NoDuplicateFailureAlertHolds`. The count in a cell only changes by +1 or to
  0, and the alert for t is decided when it becomes t. The invariant
  `AlertsFollowCount` says the alerts for t are at most one, and none while
  the count is below t; the property alone is not inductive, since nothing in
  it excludes a count below a threshold already alerted.
* `OutageIsAlertedHolds`, under `UniformThreshold` (all instances of a name
  have one threshold): the invariant `ReachedIsAlerted` turns this round, a
  count at or above the threshold of its owner was alerted. `OneOwner` makes
  "its owner" one name. LoweredThreshold shows the hypothesis is needed.
* `NoCheckInsideWindowHolds`, an action property, from `WindowMatchesMonitor`:
  between an edit's two stores aside, the stored window is that of the
  registered instance.
* `QuietRemovalHolds`, from `QuietStaysGone`, which describes each point
  inside `Remove` and says that no goroutine carries a quiet name and the
  scheduler holds no copy of it.
* `RemovalStopsChecksHolds`, an action property, from `TypeOK`: a copy is only
  taken of what is registered, a goroutine starts only for an instance just
  stored or for a copy, which it uses up (`SpawnEffect`), and goes on only with
  the instance it has (`CheckMoves`).

`SerialCheckProofs`, of `SerialSpec`, where checks of one name do not overlap:

* `ResultMatchesCountHolds`, from `SerialInv`: result and count of a name agree
  unless a check of it is between its two updates, and what that check stored
  is still in the maps or was removed (`HalfRecorded`). `OthersKeep` says that
  a check disturbs no other name, for which `OneOwner` is needed.
* `ImplementsAlertPolicyHolds`, under `UniformThreshold` and with no name
  removable. `PolicyInv` relates what the code has to what the policy speaks
  of: the receiver believes a monitor down exactly while its count is at the
  threshold or above (`Informed`), but for an alert under way, and what a check
  has read still holds when it decides (`ReadsHold`). `FailureDecides` and
  `SuccessDecides` then say that the code's comparison, an equality and a look
  at the previous result, comes out as the policy's. A removal forgets an
  outage the receiver was told of, which the policy has no step for: hence the
  second hypothesis.

`CheckCycleProofs`, for any sets of generations, goroutines, intervals and
healths, from `CycleAssumption`:

* `TypeCorrect`: `Spec => []TypeOK`, with `mu` held exactly while a handler
  runs and every context done once the signal was caught.
* `OneSchedulerHolds`, from `OnlyCurrentRuns`: only the current generation can
  be running, and none is when a handler is about to start the next. The
  property alone does not say that the one running is the one `s.cancel`
  stops, without which a `SetPeriod` would leave it behind.
* `CycleFitsPeriodHolds`, under `FineUnits` (an interval is zero or at least
  two units, so that two thirds of it are not nothing): `TickerIsPeriod` says
  at which of the handler's places ticker and timeout may still be those of
  the old period.
* `CancellationIsSilentHolds`, from `FailuresAreCancelled`: if the item is
  never down, whatever carries a failure has a context that is done.

`MaintenanceWindowProofs`: `TypeCorrect`, what is in force passed validation;
and `WindowIsCoveredHolds`, for every schedule that recurs and every positive
duration: the first trigger after `now - Duration` exists (a least element of a
bounded set of integers, from `IntegerLemmas`) and is not after `now` exactly
when some trigger covers `now`.

`ConfigStoreProofs`, for any finite set of names, any folding of them that is
idempotent, any ids, forms, hand-written files and number of requests:

* the invariant `IInv` adds to the properties what they rest on: whatever runs
  was constructed, so it has a threshold and no argument a constructor refuses
  (`MonitorsSound`); cpu and memory run with the windows of the shown
  configuration (`SystemKept`); a file that is not `Torn` is one `SetConfig`
  accepts (`FileKept`); and from `SaveToConfig` to the write the shown
  configuration is the running one (`ConfigKept`), which is why the file then
  holds what runs.
* `TypeCorrect`, `AcknowledgedIsDurableHolds`, `ShownIsRunningHolds` and
  `StartSucceedsHolds` follow from it. What the write leaves under a folded key
  is one of the entries that fold to it, whatever order Go ranges in
  (`LastOfIsOne`, `WrittenEntryFacts`).
* `ImplementsDurableConfigHolds`: each step is a step of `DurableConfig` or a
  stutter (`NextMaps`). A completed write is the abstract replacement of the
  durable configuration (`WrittenIsImage`). The truncation and each part
  written are abstract losses: the truncated file starts from the defaults,
  which is a `Remnant` of any configuration (`DefaultsAreRemnant`), and so is
  what is read of a text that breaks off (`CutIsRemnant`, place by place from
  `EndsAtFacts`), unless it is `Torn` and nothing readable.
* Assumed of the constants: the stand-ins for "no file", "no window" and "not
  running" are none of the values they stand beside, and every file to start
  from has cpu and memory, because `Load` fills them in (config.go:67).

`CpuUsageProofs`, for any checks and providers and any integer thresholds:

* `LoadIsSeenHolds` and `TypeCorrect`, from `IInv`: who is past the lock holds
  the mutex (`HoldsMutex`), so at most one reading per provider is in hand; a
  reading in hand lies between the baseline and the present and its history is
  what passed in between (`ReadingInHand`); without one, the history is what
  passed since the baseline (`BaselineHolds`). `PercentageOfElapsed` turns that
  into what `calculateCPUPercentage` returns. The cpu times before the start
  are within `MaxTicks`, the bound of the clock.

`ContainerMonitorProofs`, for any containers, lists (with repetitions), allowed
sets and thresholds:

* `RestartIsExactHolds`, from `RequestHolds`: what was restarted and what is
  still to restart make up what the request may touch.
* `StatusIsWitnessedHolds`, from `ChecksHold`: the lowest and the highest count
  each container had span its present one (`Spans`), each container inspected
  is witnessed by a count that was read and each count by a container
  (`Witnessed`). `MaxRestartsIsLargest` needs that a bounded set of integers
  has a greatest element.
* `MissingIsReportedHolds`, from the same `Witnessed`: a check goes on from a
  container only with a count, so each one it has passed existed at some time
  of the check.
* `TypeCorrect`.

Model-checked only: the liveness properties `Convergence`, `OutageIsReported`,
`HandlerFinishes`, `PushGetsLock` and `MonitoringContinues`,
which fairness and `ENABLED` put out of the prover's reach.

## Assumptions and things left out

* `SetPush` is called before any monitor is added, as its comment says.
* The environment's overrides of the configuration (`LMON_...`), paths, icons
  and plain fields are left out of `ConfigStore`, and hand-written files are
  assumed to have names without dots.
* A docker client can always be made (`NewDefaultDockerProvider` fails only on
  a malformed environment, which would also stop a start).
* The web server's listening, routing, templates and static files, the
  browser code and the log are not modelled: they keep no state the rest
  relies on.
* In `CheckCycle` the end of the process is one step, and `ConfigStore` lets it
  come between any two steps of a save; the two are not composed.
* Measuring disks, memory, URLs and hosts is I/O: a check finds a status, and
  `Status` says which. An answer of the Docker daemon is
  a step that may fail; that it comes at all is not assumed anywhere.
* Docker clients, of which every edit makes one and only a deletion closes one,
  hold no state of the system and are not modelled.
* Disagreements with the repository's own words that the models contain and
  no run of their own shows:
  - `monitors.go:133` says that alerts are skipped during a window. What is
    skipped there is the start of a check (`SkipMonitor`,
    `NoCheckInsideWindow`): one that began before the window can reach its
    threshold, and alert, inside it.
  - `monitors.go:162` says that `Remove` removes the previous result. A check
    that runs across it stores one again, which stays with nothing to replace
    it; `QuietRemoval` says when none is left.
  - `docker.go:195` rounds 90% of the threshold down, so 4 restarts of 5 are
    amber although README.md says "Green: Below 90% of threshold".
* Behaviours the models contain and the properties are stated around: of two
  overlapping successes after an outage one can hide the previous result and
  the other the count, and no recovery is told (so the refinement of
  `AlertPolicy` is about checks that do not overlap); a name that is removed
  after the scheduler has copied its chain is checked once more; `0 0 30 2 *`
  passes validation, `Next` answers the zero time, and `!next.After(t)` then
  pauses the monitor for ever (so `WindowIsCovered` is about schedules that
  recur); the first cpu result after a start or an edit of the system form is
  of hardly any time, 0% and green, and resets the failure count; a healthy
  item counted as failed because an interval edit cancelled its check; a file
  left empty when the process ends between truncating and writing, hence a
  start with no monitors, and one cut short that can be read, hence a start
  with a part of them, defaults for the rest and an item whose last number has
  lost digits; a refused system form half applied; names in capitals that come
  back in lower case, and colliding ones of which one comes back.

## Plan

Written, in this order: `MonitorService`, `AlertPolicy`, `MaintenanceWindow`,
`CheckCycle`, `ConfigStore`, `Status`, `ContainerMonitor`, `DurableConfig`,
`CpuUsage`. `MonitorService` implements `AlertPolicy` and `ConfigStore`
implements `DurableConfig`; `ContainerMonitor` and `CpuUsage` use `Status`.

Left to model: the dashboard's reading of results and failure counts, which are
two looks at moving maps.

Left to prove: what `SetConfig` re-applied over running checks keeps (the
service is started twice from one file, and the second application edits every
monitor), and invariants that tie the liveness properties to a measure, so that
what TLC checks of them on an instance rests on lemmas that hold for all.
