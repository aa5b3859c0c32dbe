---------------------------- MODULE ConfigStore ----------------------------
(***************************************************************************)
(* How lmon keeps its configuration: the monitors that run (Service), the  *)
(* configuration shown and saved (Server.config), and the file that a      *)
(* restart reads (config.Loader over viper).  Every handler holds          *)
(* Server.mu, so requests are one at a time; what can come between any two *)
(* steps is the end of the process, and a save has four: Service.Save,     *)
(* opening the file, which truncates it, and writing it, part by part.     *)
(***************************************************************************)
EXTENDS Naturals, FiniteSets

CONSTANTS
    ItemKinds,    \* the kinds of monitor added by name
    Names, Ids,   \* monitor names; the ids a request can carry
    Sanitise,     \* SanitiseName: the name an id gives
    Lower,        \* viper folds every key to lower case
    Forms,        \* what a request can ask of one monitor
    Windows, NoWindow, BadWindow,
    Intervals, Titles, Webhooks,
    HandWritten,  \* files the operator may start from
    Defaults,     \* what Load returns without a file (setDefaults)
    None,
    Down, Unreadable,     \* nothing runs; no start is possible
    Absent, Empty, Torn,  \* no file, an empty one, one no start accepts
    MaxRequests   \* bound on the requests of a behaviour

VARIABLES
    up,           \* whether the process runs
    monitors,     \* Service.monitors: the constructed monitor of each key
    maintenance,  \* Service.maintenance
    period,       \* Service.period
    config,       \* Server.config
    file,         \* config.yaml
    pc,           \* where the handler that holds Server.mu is
    reply,        \* the response to the last request
    requests
vars == <<up, monitors, maintenance, period, config, file, pc, reply, requests>>

Cpu == <<"system", "cpu">>
Mem == <<"system", "mem">>
SystemKeys == {Cpu, Mem}
Keys == SystemKeys \union (ItemKinds \X Names)
Fold(k) == IF k \in SystemKeys THEN k ELSE <<k[1], Lower[k[2]]>>

Args == {"bad", "unset", "given", "default"}  \* the fields of the kind
Monitor == [alert : Nat, arg : Args]
Entry == [alert : Nat, arg : Args, window : Windows \union {NoWindow, BadWindow}]
Content == [entries : [Keys -> Entry \union {None}], interval : Intervals,
            title : Titles, webhook : Webhooks]

\* What can be in effect: monitors with their windows, and settings.
Configurations == [items : [Keys -> Entry \union {None}],
                   settings : [interval : Intervals, title : Titles, webhook : Webhooks]]

ASSUME KindsAssumption == ItemKinds \subseteq {"disk", "health", "ping", "docker"}
ASSUME NamesAssumption ==
    /\ IsFiniteSet(Names)
    /\ Sanitise \in [Ids -> Names] /\ Lower \in [Names -> Names]
    /\ \A n \in Names : Lower[Lower[n]] = Lower[n]
ASSUME FormsAssumption == Forms \subseteq Entry /\ None \notin Entry \union Monitor
ASSUME WindowsAssumption == NoWindow \notin Windows /\ BadWindow \notin Windows \union {NoWindow}
ASSUME DownAssumption == {Down, Unreadable} \intersect Configurations = {}
ASSUME BoundAssumption == MaxRequests \in Nat
----------------------------------------------------------------------------
(* Building a monitor from what was submitted or loaded.                   *)

AtLeastOne(n) == IF n = 0 THEN 1 ELSE n

\* Mutant: A constructor that keeps the ping threshold it is given.
ArgumentAsGiven(k, e) == e.arg

\* A health check gets code 200 and a ping 50 ms where none is given.
Argument(k, e) ==
    IF k[1] \in {"health", "ping"} /\ e.arg = "unset" THEN "default" ELSE e.arg

Constructed(k, e) == [alert |-> AtLeastOne(e.alert), arg |-> Argument(k, e)]

\* Mutant: A constructor that does not validate the window.
RefusedBadArg(k, e) == k[1] \in {"health", "docker"} /\ e.arg = "bad"

\* An invalid window; a URL that does not parse; a docker monitor of nothing.
Refused(k, e) == e.window = BadWindow \/ (k[1] \in {"health", "docker"} /\ e.arg = "bad")

\* Load: an absent file, and an empty one, mean the defaults.
Loaded(f) == IF f \in {Absent, Empty} THEN Defaults ELSE f

\* SetConfig: besides what a constructor refuses, a ping needs its threshold.
Accepted(c) ==
    \A k \in Keys : c.entries[k] # None =>
        /\ ~Refused(k, c.entries[k])
        /\ ~(k[1] = "ping" /\ c.entries[k].arg = "unset")
Startable(f) == f # Torn /\ Accepted(Loaded(f))

ASSUME FilesAssumption ==
    /\ {Absent, Empty, Torn} \intersect Content = {}
    /\ Absent # Empty /\ Absent # Torn /\ Empty # Torn
    /\ Defaults \in Content /\ HandWritten \subseteq Content
    \* cpu and memory are values of Config, which Load fills in
    /\ \A c \in HandWritten \union {Defaults}, k \in SystemKeys : c.entries[k] # None
    /\ \A f \in HandWritten \union {Absent} : Startable(f)

NoMonitors == [k \in Keys |-> None]
NoWindows == [k \in Keys |-> NoWindow]
Blank == [Defaults EXCEPT !.entries = NoMonitors]

Init ==
    /\ up = FALSE /\ monitors = NoMonitors /\ maintenance = NoWindows
    /\ period = Defaults.interval /\ config = Blank
    /\ file \in HandWritten \union {Absent}
    /\ pc = "idle" /\ reply = "none" /\ requests = 0

\* Mutant: SetConfig adds the monitors without their windows.
StartWithoutWindows(c) == NoWindows

\* SetConfig: AddWithMaintenance of every entry.
StartWindows(c) ==
    [k \in Keys |-> IF c.entries[k] = None THEN NoWindow ELSE c.entries[k].window]

\* main: Load, NewService and SetConfig; otherwise log.Fatalf.
Start ==
    /\ ~up /\ Startable(file)
    /\ up' = TRUE
    /\ LET c == Loaded(file) IN
        /\ config' = c
        /\ period' = c.interval
        /\ monitors' = [k \in Keys |->
              IF c.entries[k] = None THEN None ELSE Constructed(k, c.entries[k])]
        /\ maintenance' = StartWindows(c)
    /\ UNCHANGED <<file, pc, reply, requests>>

\* The process ends, at any point: a signal, a panic, the machine.
Crash ==
    /\ up
    /\ up' = FALSE /\ monitors' = NoMonitors /\ maintenance' = NoWindows
    /\ period' = Defaults.interval /\ config' = Blank
    /\ pc' = "idle" /\ reply' = "none"
    /\ UNCHANGED <<file, requests>>

----------------------------------------------------------------------------
(* Requests.                                                               *)

Request == up /\ pc = "idle" /\ requests < MaxRequests /\ requests' = requests + 1
Refuse == pc' = "idle" /\ reply' = "refused"
Save == pc' = "save" /\ reply' = "none"

\* A body that is not JSON, or a type that is not one of the four.
BadRequest ==
    /\ Request /\ Refuse
    /\ UNCHANGED <<up, monitors, maintenance, period, config, file>>

AddMonitor(kind, id, form) ==
    LET k == <<kind, Sanitise[id]>> IN
    /\ Request
    /\ \/ /\ Refused(k, form) /\ Refuse
          /\ UNCHANGED <<monitors, maintenance>>
       \/ /\ ~Refused(k, form) /\ Save
          /\ monitors' = [monitors EXCEPT ![k] = Constructed(k, form)]
          /\ maintenance' = [maintenance EXCEPT ![k] = form.window]
    /\ UNCHANGED <<up, period, config, file>>

DeleteMonitor(kind, id) ==
    LET k == <<kind, Sanitise[id]>> IN
    /\ Request
    /\ IF monitors[k] = None THEN Refuse ELSE Save
    /\ monitors' = [monitors EXCEPT ![k] = None]
    /\ maintenance' = [maintenance EXCEPT ![k] = NoWindow]
    /\ UNCHANGED <<up, period, config, file>>

\* The items the system form gets to apply before one of them is refused.
Applied(form) ==
    CASE Refused(Cpu, form[Cpu]) -> {}
      [] ~Refused(Cpu, form[Cpu]) /\ Refused(Mem, form[Mem]) -> {Cpu}
      [] OTHER -> SystemKeys

\* Mutant: AddWithMaintenance, with the window of the form, in the system handler.
FormWindows(form) == [k \in Keys |-> IF k \in Applied(form) THEN form[k].window ELSE maintenance[k]]

\* The form has no windows: Add leaves those of the service alone.
SystemWindows(form) == maintenance

UpdateSystem(title, form) ==
    /\ Request
    /\ config' = [config EXCEPT !.title = title]
    /\ monitors' = [k \in Keys |->
          IF k \in Applied(form) THEN Constructed(k, form[k]) ELSE monitors[k]]
    /\ maintenance' = SystemWindows(form)
    /\ IF Applied(form) = SystemKeys THEN Save ELSE Refuse
    /\ UNCHANGED <<up, period, file>>

UpdateInterval(i) ==
    /\ Request /\ Save /\ period' = i
    /\ UNCHANGED <<up, monitors, maintenance, config, file>>

UpdateWebhook(w) ==
    /\ Request /\ Save /\ config' = [config EXCEPT !.webhook = w]
    /\ UNCHANGED <<up, monitors, maintenance, period, file>>

----------------------------------------------------------------------------
(* saveConfig.                                                             *)

\* Mutant: Service.Save without applyMaintenance.
WindowNotApplied(k) == IF k \in SystemKeys THEN config.entries[k].window ELSE NoWindow

\* The window applyMaintenanceToConfig leaves in an entry: the two system
\* entries are updated in place, the others are made anew.
SavedWindow(k) ==
    IF maintenance[k] # NoWindow \/ k \notin SystemKeys
    THEN maintenance[k] ELSE config.entries[k].window

SavedEntries == [k \in Keys |->
    IF monitors[k] = None THEN None
    ELSE [alert |-> monitors[k].alert, arg |-> monitors[k].arg, window |-> SavedWindow(k)]]

SaveToConfig ==
    /\ pc = "save" /\ pc' = "open"
    /\ config' = [config EXCEPT !.entries = SavedEntries, !.interval = period]
    /\ UNCHANGED <<up, monitors, maintenance, period, file, reply, requests>>

\* Loader.Save ranges over its maps in an arbitrary order of the names; of
\* two that fold to one key the last wins, but a window is only written
\* where there is one, so the earlier name's window stays.
Orders == {o \in [Names -> 1..Cardinality(Names)] :
              \A m, n \in Names : o[m] = o[n] => m = n}
LastOf(S, o) == CHOOSE k \in S : \A j \in S : k \in SystemKeys \/ o[j[2]] <= o[k[2]]
WrittenEntry(k, o) ==
    LET same == {j \in Keys : Fold(j) = k /\ config.entries[j] # None}
        windowed == {j \in same : config.entries[j].window # NoWindow}
        e == config.entries[LastOf(same, o)]
    IN IF same = {} THEN None
       ELSE [e EXCEPT !.alert = AtLeastOne(@),
                      !.window = IF windowed = {} THEN NoWindow
                                 ELSE config.entries[LastOf(windowed, o)].window]
\* Mutant: Loader.Save without saveMaintenance.
WrittenWithoutWindows(o) ==
    [config EXCEPT !.entries = [k \in Keys |->
        LET e == WrittenEntry(k, o) IN IF e = None THEN None ELSE [e EXCEPT !.window = NoWindow]]]

Written(o) == [config EXCEPT !.entries = [k \in Keys |-> WrittenEntry(k, o)]]

Texts == {Written(o) : o \in Orders}

\* WriteConfig opens the file with O_TRUNC, then writes and syncs it.
OpenFails ==
    /\ pc = "open" /\ pc' = "idle" /\ reply' = "failed"
    /\ UNCHANGED <<up, monitors, maintenance, period, config, file, requests>>

Truncate ==
    /\ pc = "open" /\ pc' = "write" /\ file' = Empty
    /\ UNCHANGED <<up, monitors, maintenance, period, config, reply, requests>>

\* The text is in the order of its keys.
Place == [disk |-> 1, docker |-> 2, health |-> 3, interval |-> 4, ping |-> 5,
          cpu |-> 6, mem |-> 7, title |-> 8, webhook |-> 9]
PlaceOf(k) == Place[IF k \in SystemKeys THEN k[2] ELSE k[1]]
ItemsAt(c, p) == {k \in Keys : PlaceOf(k) = p /\ c.entries[k] # None}

\* What Load makes of the text of c that ends at place p, behind the items S
\* of it: the part that is there, and the defaults.
UpTo(c, p, S) ==
    [entries |-> [k \in Keys |-> IF PlaceOf(k) < p \/ k \in S
                                 THEN c.entries[k] ELSE Defaults.entries[k]],
     interval |-> IF Place.interval < p THEN c.interval ELSE Defaults.interval,
     title |-> IF Place.title < p THEN c.title ELSE Defaults.title,
     webhook |-> Defaults.webhook]

\* What is read of an entry whose text breaks off: fields are missing, a number
\* has lost digits, a schedule fields.
Broken(e) == [alert : 0..e.alert, arg : {"unset", "bad", e.arg},
              window : IF e.window = NoWindow THEN {NoWindow}
                       ELSE Windows \union {NoWindow, BadWindow}]

\* A heading with nothing under it hides the defaults of its group from viper.
NoValue == [alert |-> 0, arg |-> "unset", window |-> NoWindow]
NoSystem(c, title) == [c EXCEPT !.entries[Cpu] = NoValue, !.entries[Mem] = NoValue,
                                !.title = title]

\* Behind the heading of "monitoring" or of "system", or in a value under one,
\* and in the webhook.
SettingEnds(c, p) ==
    LET u == UpTo(c, p, {}) IN
    CASE p = Place.disk ->
           {[NoSystem(u, t) EXCEPT !.interval = i] : t \in Titles, i \in Intervals}
      [] p = Place.interval -> {[u EXCEPT !.interval = i] : i \in Intervals}
      [] p = Place.cpu -> {NoSystem(u, t) : t \in Titles}
      [] p = Place.title -> {[u EXCEPT !.title = t] : t \in Titles}
      [] p = Place.webhook -> {[u EXCEPT !.webhook = w] : w \in Webhooks}
      [] OTHER -> {}

EntryEnds(c, p, k) ==
    {[UpTo(c, p, S \ {k}) EXCEPT !.entries[k] = e] :
        S \in SUBSET ItemsAt(c, p), e \in Broken(c.entries[k])}

\* What can be read of c when its text ends at place p: behind whole items, in
\* an entry, or at a setting.
EndsAt(c, p) ==
    {UpTo(c, p, S) : S \in SUBSET ItemsAt(c, p)}
    \union (UNION {EntryEnds(c, p, k) : k \in ItemsAt(c, p)})
    \union SettingEnds(c, p)

\* A part of the text is in the file: many a part is YAML that Load reads and
\* SetConfig accepts, the others are Torn.
CutShort(c) == {Torn} \union {d \in UNION {EndsAt(c, p) : p \in 1..9} : Accepted(d)}

WritePart ==
    /\ pc = "write" /\ file = Empty
    /\ \E text \in Texts : file' \in CutShort(text)
    /\ UNCHANGED <<up, monitors, maintenance, period, config, pc, reply, requests>>

WriteFile ==
    /\ pc = "write" /\ pc' = "idle" /\ reply' = "ok"
    /\ file' \in Texts
    /\ UNCHANGED <<up, monitors, maintenance, period, config, requests>>

\* A full disk leaves what there is of the text; a failed sync all of it.
WriteFails ==
    /\ pc = "write" /\ pc' = "idle" /\ reply' = "failed"
    /\ file' \in {file} \union Texts
    /\ UNCHANGED <<up, monitors, maintenance, period, config, requests>>

\* newUIResult: the alert threshold the dashboard shows for a monitor.
ShownAlert(k) == IF config.entries[k] = None THEN 1 ELSE AtLeastOne(config.entries[k].alert)

Next ==
    \/ Start \/ Crash \/ BadRequest
    \/ \E kind \in ItemKinds, id \in Ids :
          DeleteMonitor(kind, id) \/ \E form \in Forms : AddMonitor(kind, id, form)
    \/ \E title \in Titles, form \in [SystemKeys -> Forms] : UpdateSystem(title, form)
    \/ \E i \in Intervals : UpdateInterval(i)
    \/ \E w \in Webhooks : UpdateWebhook(w)
    \/ SaveToConfig \/ OpenFails \/ Truncate \/ WritePart \/ WriteFile \/ WriteFails

Spec == Init /\ [][Next]_vars

----------------------------------------------------------------------------
(* Properties.                                                             *)

\* Every variable keeps its type; a handler is only under way in a process
\* that runs, and the file it writes is there.
TypeOK ==
    /\ up \in BOOLEAN /\ requests \in 0..MaxRequests
    /\ monitors \in [Keys -> Monitor \union {None}]
    /\ maintenance \in [Keys -> Windows \union {NoWindow}]
    /\ period \in Intervals /\ config \in Content
    /\ file \in Content \union {Absent, Empty, Torn}
    /\ pc \in {"idle", "save", "open", "write"}
    /\ reply \in {"none", "ok", "refused", "failed"}
    /\ (pc # "idle" => up) /\ (pc = "write" => file # Absent)

Running(k) == IF monitors[k] = None THEN None
              ELSE [alert |-> monitors[k].alert, arg |-> monitors[k].arg,
                    window |-> maintenance[k]]
Alone(k) == \A j \in Keys \ {k} : monitors[j] # None => Fold(j) # Fold(k)

\* Once a change is answered with OK, a restart brings back what runs: the
\* monitors with their windows, the interval, the title and the webhook, and
\* nothing that was deleted.  A name with capitals comes back without them,
\* and of two names that differ in case only one does (saveConfig,
\* Loader.Save and Load taken together).
AcknowledgedIsDurable ==
    up /\ pc = "idle" /\ reply = "ok" =>
        /\ file \in Content
        /\ file.interval = period /\ file.title = config.title
        /\ file.webhook = config.webhook
        /\ \A k \in Keys : monitors[k] # None /\ Alone(k) => file.entries[Fold(k)] = Running(k)
        /\ \A k \in Keys : (file.entries[k] = None) =
              (\A j \in Keys : Fold(j) = k => monitors[j] = None)

\* What the configuration page shows after a save, even one that failed, is
\* what runs (Service.Save rebuilds Server.config from the registry); so is
\* the alert threshold on the dashboard, from the start on.  A refused system
\* form is the exception: it may have replaced the running cpu monitor.
ShownIsRunning ==
    up /\ pc = "idle" /\ reply # "refused" =>
        /\ reply # "none" => /\ config.interval = period
                             /\ \A k \in Keys : config.entries[k] = Running(k)
        /\ \A k \in Keys : monitors[k] # None => ShownAlert(k) = monitors[k].alert

\* The program can start from any file it wrote whole, and from what it had
\* before: nothing the handlers accept is refused by SetConfig, which ends the
\* process.  Only a file cut short can be Torn.
StartSucceeds == file # Torn => Startable(file)

\* The configuration a start from contents c puts in effect.
Effective(c) ==
    [items |-> [k \in Keys |->
        IF c.entries[k] = None THEN None
        ELSE [alert |-> AtLeastOne(c.entries[k].alert),
              arg |-> Argument(k, c.entries[k]), window |-> c.entries[k].window]],
     settings |-> [interval |-> c.interval, title |-> c.title, webhook |-> c.webhook]]

\* What one request can touch: the system form no window ("Preserve existing
\* maintenance windows", server.go:558).
RequestScopes ==
    {[keys |-> {k}, windows |-> {k}, settings |-> {}] : k \in Keys}
      \union {[keys |-> SystemKeys, windows |-> {}, settings |-> {"title"}],
              [keys |-> {}, windows |-> {}, settings |-> {"interval"}],
              [keys |-> {}, windows |-> {}, settings |-> {"webhook"}]}

\* What one end of a text can spoil: one item, the webhook, or what is under
\* "monitoring" and has defaults.
TextEnds ==
    {[keys |-> {k}, settings |-> {}] : k \in Keys}
      \union {[keys |-> SystemKeys, settings |-> {"interval", "title"}],
              [keys |-> {}, settings |-> {"webhook"}]}

Durable == INSTANCE DurableConfig WITH
    Scopes <- RequestScopes,
    Ends <- TextEnds,
    Default <- Effective(Defaults),
    running <- IF up THEN [items |-> [k \in Keys |-> Running(k)],
                           settings |-> [interval |-> period, title |-> config.title,
                                         webhook |-> config.webhook]]
               ELSE Down,
    durable <- IF Startable(file) THEN Effective(Loaded(file)) ELSE Unreadable,
    saving <- pc # "idle"

\* The store implements its abstract specification: a restart brings back the
\* configuration of the last complete save or, where a save was cut off, a part
\* of the new one with defaults for the rest, or nothing readable; never anything
\* of an older configuration, nor an item that does not run; a request touches
\* only what it names, also when it fails halfway, and no window of cpu and
\* memory (Service.Save, Loader.Save, Load and SetConfig taken together).
ImplementsDurableConfig == Durable!Spec
============================================================================
