------------------------- MODULE ConfigStoreProofs -------------------------
(***************************************************************************)
(* What is proved of ConfigStore for every set of kinds, names, ids, forms *)
(* and files: its invariants, and that it implements DurableConfig.        *)
(***************************************************************************)
EXTENDS ConfigStore, IntegerLemmas, FiniteSetTheorems, TLAPS

-----------------------------------------------------------------------------
(* The inductive invariant *)

\* A monitor that runs was constructed: its threshold is no zero, it is none
\* the constructors refuse, and its optional argument was filled in.
Sound(k, m) ==
    /\ m.alert # 0
    /\ ~(k[1] \in {"health", "docker"} /\ m.arg = "bad")
    /\ ~(k[1] \in {"health", "ping"} /\ m.arg = "unset")

MonitorsSound == \A k \in Keys : monitors[k] # None => Sound(k, monitors[k])

\* cpu and memory always run, and their windows are those of Server.config.
SystemKept ==
    up => \A k \in SystemKeys : /\ monitors[k] # None /\ config.entries[k] # None
                                /\ config.entries[k].window = maintenance[k]

\* Whole files have cpu and memory, and SetConfig accepts them.
FileKept ==
    /\ file \in Content => \A k \in SystemKeys : file.entries[k] # None
    /\ StartSucceeds

\* From the rebuilding of Server.config on, and while no request was made, it
\* is what runs.
Rebuilt == config.interval = period /\ \A k \in Keys : config.entries[k] = Running(k)

ConfigKept ==
    /\ ~up => reply = "none"
    /\ pc \in {"open", "write"} => Rebuilt
    /\ ShownIsRunning

IInv == TypeOK /\ MonitorsSound /\ SystemKept /\ FileKept /\ ConfigKept
        /\ AcknowledgedIsDurable

-----------------------------------------------------------------------------
(* Keys and the order of the names *)

LEMMA KeyFacts ==
    ASSUME NEW k \in Keys
    PROVE  /\ Fold(k) \in Keys /\ Fold(k)[1] = k[1]
           /\ k \in SystemKeys => Fold(k) = k
           /\ k \notin SystemKeys => Fold(k) \notin SystemKeys /\ k[2] \in Names
  <1>1. CASE k \in SystemKeys
    BY <1>1 DEF Fold, Keys
  <1>2. CASE k \notin SystemKeys
    <2>1. PICK kind \in ItemKinds, n \in Names : k = <<kind, n>>
      BY <1>2 DEF Keys
    <2>2. Lower[n] \in Names /\ kind # "system"
      BY NamesAssumption, KindsAssumption
    <2>3. Fold(k) = <<kind, Lower[n]>>
      BY <1>2, <2>1 DEF Fold
    <2>4. <<kind, Lower[n]>> \in Keys /\ <<kind, Lower[n]>> \notin SystemKeys
      BY <2>2 DEF Keys, SystemKeys, Cpu, Mem
    <2> QED
      BY <1>2, <2>1, <2>3, <2>4
  <1> QED
    BY <1>1, <1>2

LEMMA SystemFacts ==
    /\ SystemKeys \subseteq Keys /\ Cpu \in SystemKeys /\ Mem \in SystemKeys
    /\ \A k \in SystemKeys : k[1] \notin {"health", "ping", "docker"}
    /\ \A kind \in ItemKinds, id \in Ids :
          <<kind, Sanitise[id]>> \in Keys \ SystemKeys
  <1>1. ASSUME NEW kind \in ItemKinds, NEW id \in Ids
        PROVE  <<kind, Sanitise[id]>> \in Keys \ SystemKeys
    <2>1. Sanitise[id] \in Names /\ kind # "system"
      BY NamesAssumption, KindsAssumption
    <2> QED
      BY <2>1 DEF Keys, SystemKeys, Cpu, Mem
  <1> QED
    BY <1>1 DEF Keys, SystemKeys, Cpu, Mem

\* Of the names that fold to one key one comes last, whatever the order.
LEMMA LastOfIsOne ==
    ASSUME NEW k \in Keys, NEW S \in SUBSET {j \in Keys : Fold(j) = k}, S # {},
           NEW o \in Orders
    PROVE  LastOf(S, o) \in S
  <1>1. \E x \in S : \A j \in S : x \in SystemKeys \/ o[j[2]] <= o[x[2]]
    <2>1. CASE \E x \in S : x \in SystemKeys
      BY <2>1
    <2>2. CASE \A x \in S : x \notin SystemKeys
      <3> DEFINE C == Cardinality(Names)
                 places == {o[x[2]] : x \in S}
      <3>1. C \in Nat
        BY NamesAssumption, FS_CardinalityType
      <3>2. o \in [Names -> 1..C]
        BY DEF Orders
      <3> HIDE DEF C
      <3>3. \A x \in S : o[x[2]] \in 1..C
        BY <2>2, <3>2, KeyFacts
      <3>4. /\ places \in SUBSET Int /\ places # {} /\ C + 1 \in Int
            /\ \A p \in places : p < C + 1
        BY <3>1, <3>3
      <3> HIDE DEF places
      <3>5. \E p \in places : \A q \in places : q <= p
        BY <3>4, GreatestOfBounded
      <3> QED
        BY <3>5 DEF places
    <2> QED
      BY <2>1, <2>2
  <1> QED
    BY <1>1 DEF LastOf

-----------------------------------------------------------------------------
(* Monitors and files *)

LEMMA ConstructedIsSound ==
    ASSUME NEW k \in Keys, NEW e \in Entry, ~Refused(k, e)
    PROVE  /\ Constructed(k, e) \in Monitor /\ Constructed(k, e) # None
           /\ Constructed(k, e).alert = AtLeastOne(e.alert)
           /\ Sound(k, Constructed(k, e))
           /\ e.window \in Windows \union {NoWindow}
  <1>1. /\ e.alert \in Nat /\ e.arg \in Args
        /\ e.window \in Windows \union {NoWindow, BadWindow}
    BY DEF Entry
  <1>2. AtLeastOne(e.alert) \in Nat \ {0}
    BY <1>1 DEF AtLeastOne
  <1>3. Argument(k, e) \in Args
    BY <1>1 DEF Argument, Args
  <1>4. Constructed(k, e) \in Monitor
    BY <1>2, <1>3 DEF Constructed, Monitor
  <1>5. Sound(k, Constructed(k, e))
    BY <1>2 DEF Constructed, Sound, Argument, Refused
  <1>6. e.window # BadWindow
    BY DEF Refused
  <1> QED
    BY <1>1, <1>4, <1>5, <1>6, FormsAssumption DEF Constructed

\* What a start makes of the file.
LEMMA LoadedFacts ==
    ASSUME FileKept, file \in Content \union {Absent, Empty, Torn}, Startable(file)
    PROVE  /\ Loaded(file) \in Content /\ Accepted(Loaded(file))
           /\ \A k \in SystemKeys : Loaded(file).entries[k] # None
  BY FilesAssumption DEF FileKept, Loaded, Startable

\* A whole entry is accepted exactly if it makes a monitor that was sound.
LEMMA EntryFacts ==
    ASSUME NEW c \in Content, NEW k \in Keys, c.entries[k] # None
    PROVE  /\ c.entries[k] \in Entry
           /\ Accepted(c) => ~Refused(k, c.entries[k])
  BY DEF Content, Accepted

LEMMA ContentFields ==
    ASSUME NEW c \in Content
    PROVE  /\ c.entries \in [Keys -> Entry \union {None}] /\ c.interval \in Intervals
           /\ c.title \in Titles /\ c.webhook \in Webhooks
           /\ c \notin {Absent, Empty, Torn} /\ Loaded(c) = c
           /\ Startable(c) <=> Accepted(c)
  <1>1. c \notin {Absent, Empty, Torn}
    BY FilesAssumption
  <1> QED
    BY <1>1 DEF Content, Loaded, Startable

\* The empty file and the absent one are as good as the defaults.
LEMMA NoFile ==
    /\ Absent \notin Content /\ Empty \notin Content /\ Torn \notin Content
    /\ Startable(Absent) /\ Startable(Empty) /\ ~Startable(Torn)
    /\ Loaded(Absent) = Defaults /\ Loaded(Empty) = Defaults
    /\ Defaults \in Content /\ Blank \in Content
  <1>1. NoMonitors \in [Keys -> Entry \union {None}]
    BY DEF NoMonitors
  <1>2. Blank \in Content
    BY <1>1, FilesAssumption DEF Blank, Content
  <1> QED
    BY <1>2, FilesAssumption DEF Startable, Loaded

-----------------------------------------------------------------------------
(* Start and end of the process *)

LEMMA InitHolds == Init => IInv
  <1> SUFFICES ASSUME Init PROVE IInv
    OBVIOUS
  <1>1. TypeOK
    <2>1. /\ NoMonitors \in [Keys -> Monitor \union {None}]
          /\ NoWindows \in [Keys -> Windows \union {NoWindow}]
      BY DEF NoMonitors, NoWindows
    <2>2. Blank \in Content /\ Defaults.interval \in Intervals
      BY NoFile, ContentFields
    <2>3. file \in Content \union {Absent, Empty, Torn}
      BY FilesAssumption DEF Init
    <2>4. requests \in 0..MaxRequests
      BY BoundAssumption DEF Init
    <2>5. /\ monitors \in [Keys -> Monitor \union {None}]
          /\ maintenance \in [Keys -> Windows \union {NoWindow}]
          /\ period \in Intervals /\ config \in Content
          /\ up = FALSE /\ pc = "idle" /\ reply = "none"
      BY <2>1, <2>2 DEF Init
    <2> QED
      BY <2>3, <2>4, <2>5 DEF TypeOK
  <1>2. MonitorsSound
    BY DEF Init, MonitorsSound, NoMonitors
  <1>3. FileKept
    BY FilesAssumption, NoFile DEF Init, FileKept, StartSucceeds
  <1>4. SystemKept /\ ConfigKept /\ AcknowledgedIsDurable
    BY DEF Init, SystemKept, ConfigKept, ShownIsRunning, AcknowledgedIsDurable
  <1> QED
    BY <1>1, <1>2, <1>3, <1>4 DEF IInv

LEMMA StartStep ==
    ASSUME IInv, Start
    PROVE  IInv'
  <1> DEFINE c == Loaded(file)
             built == [k \in Keys |-> IF c.entries[k] = None THEN None
                                      ELSE Constructed(k, c.entries[k])]
  <1>1. /\ ~up /\ Startable(file) /\ up' = TRUE /\ config' = c /\ period' = c.interval
        /\ monitors' = built /\ maintenance' = StartWindows(c)
        /\ UNCHANGED <<file, pc, reply, requests>>
    BY DEF Start
  <1>2. /\ c \in Content /\ Accepted(c) /\ \A k \in SystemKeys : c.entries[k] # None
        /\ pc = "idle" /\ reply = "none"
    BY <1>1, LoadedFacts DEF IInv, TypeOK, ConfigKept
  <1> HIDE DEF c
  <1>3. ASSUME NEW k \in Keys
        PROVE  IF c.entries[k] = None
               THEN monitors'[k] = None /\ maintenance'[k] = NoWindow
               ELSE /\ monitors'[k] \in Monitor /\ monitors'[k] # None
                    /\ monitors'[k].alert = AtLeastOne(c.entries[k].alert)
                    /\ Sound(k, monitors'[k])
                    /\ maintenance'[k] = c.entries[k].window
                    /\ maintenance'[k] \in Windows \union {NoWindow}
    <2>1. CASE c.entries[k] = None
      BY <1>1, <2>1 DEF StartWindows
    <2>2. CASE c.entries[k] # None
      <3>1. c.entries[k] \in Entry /\ ~Refused(k, c.entries[k])
        BY <1>2, <2>2, EntryFacts
      <3>2. /\ monitors'[k] = Constructed(k, c.entries[k])
            /\ maintenance'[k] = c.entries[k].window
        BY <1>1, <2>2 DEF StartWindows
      <3> QED
        BY <2>2, <3>1, <3>2, ConstructedIsSound
    <2> QED
      BY <2>1, <2>2
  <1>4. TypeOK'
    <2>1. monitors' \in [Keys -> Monitor \union {None}]
      BY <1>1, <1>3
    <2>2. maintenance' \in [Keys -> Windows \union {NoWindow}]
      BY <1>1, <1>3 DEF StartWindows
    <2>3. c.interval \in Intervals
      BY <1>2, ContentFields
    <2> QED
      BY <1>1, <1>2, <2>1, <2>2, <2>3 DEF IInv, TypeOK
  <1>5. MonitorsSound'
    BY <1>3 DEF MonitorsSound
  <1>6. SystemKept'
    BY <1>1, <1>2, <1>3, SystemFacts DEF SystemKept
  <1>7. FileKept'
    BY <1>1 DEF IInv, FileKept, StartSucceeds
  <1>8. ConfigKept'
    <2>1. \A k \in Keys : monitors'[k] # None => ShownAlert(k)' = monitors'[k].alert
      BY <1>1, <1>3 DEF ShownAlert
    <2> QED
      BY <1>1, <1>2, <2>1 DEF ConfigKept, ShownIsRunning
  <1>9. AcknowledgedIsDurable'
    BY <1>1, <1>2 DEF AcknowledgedIsDurable
  <1> QED
    BY <1>4, <1>5, <1>6, <1>7, <1>8, <1>9 DEF IInv

LEMMA CrashStep ==
    ASSUME IInv, Crash
    PROVE  IInv'
  <1>1. /\ up' = FALSE /\ monitors' = NoMonitors /\ maintenance' = NoWindows
        /\ period' = Defaults.interval /\ config' = Blank
        /\ pc' = "idle" /\ reply' = "none" /\ UNCHANGED <<file, requests>>
    BY DEF Crash
  <1>2. TypeOK'
    <2>1. /\ NoMonitors \in [Keys -> Monitor \union {None}]
          /\ NoWindows \in [Keys -> Windows \union {NoWindow}]
      BY DEF NoMonitors, NoWindows
    <2>2. Blank \in Content /\ Defaults.interval \in Intervals
      BY NoFile, ContentFields
    <2> QED
      BY <1>1, <2>1, <2>2 DEF IInv, TypeOK
  <1>3. MonitorsSound'
    BY <1>1 DEF MonitorsSound, NoMonitors
  <1>4. FileKept'
    BY <1>1 DEF IInv, FileKept, StartSucceeds
  <1>5. SystemKept' /\ ConfigKept' /\ AcknowledgedIsDurable'
    BY <1>1 DEF SystemKept, ConfigKept, ShownIsRunning, AcknowledgedIsDurable
  <1> QED
    BY <1>2, <1>3, <1>4, <1>5 DEF IInv

-----------------------------------------------------------------------------
(* Requests *)

\* Every request of a process that runs ends refused or goes on to a save;
\* either way the promises about saved configurations are not concerned.
LEMMA RequestOutcome ==
    ASSUME IInv, Request, Refuse \/ Save, UNCHANGED <<up, file>>
    PROVE  /\ up /\ up' /\ pc = "idle" /\ requests' \in 0..MaxRequests
           /\ pc' \in {"idle", "save"} /\ reply' \in {"refused", "none"}
           /\ FileKept' /\ ConfigKept' /\ AcknowledgedIsDurable'
  <1>1. /\ up /\ up' /\ pc = "idle" /\ requests' = requests + 1
        /\ requests < MaxRequests /\ requests \in 0..MaxRequests
    BY DEF Request, IInv, TypeOK
  <1>2. requests' \in 0..MaxRequests
    BY <1>1, BoundAssumption
  <1>3. FileKept'
    BY DEF IInv, FileKept, StartSucceeds
  <1>4. \/ pc' = "idle" /\ reply' = "refused"
        \/ pc' = "save" /\ reply' = "none"
    BY DEF Refuse, Save
  <1>5. ConfigKept'
    BY <1>1, <1>4 DEF ConfigKept, ShownIsRunning
  <1>6. AcknowledgedIsDurable'
    BY <1>4 DEF AcknowledgedIsDurable
  <1> QED
    BY <1>1, <1>2, <1>3, <1>4, <1>5, <1>6

LEMMA BadRequestStep ==
    ASSUME IInv, BadRequest
    PROVE  IInv'
  <1>1. /\ Request /\ Refuse
        /\ UNCHANGED <<up, monitors, maintenance, period, config, file>>
    BY DEF BadRequest
  <1>2. /\ requests' \in 0..MaxRequests /\ pc' \in {"idle", "save"} /\ up /\ up'
        /\ reply' \in {"refused", "none"}
        /\ FileKept' /\ ConfigKept' /\ AcknowledgedIsDurable'
    BY <1>1, RequestOutcome
  <1>3. TypeOK'
    BY <1>1, <1>2 DEF IInv, TypeOK
  <1>4. MonitorsSound' /\ SystemKept'
    BY <1>1 DEF IInv, MonitorsSound, SystemKept
  <1> QED
    BY <1>2, <1>3, <1>4 DEF IInv

LEMMA AddMonitorStep ==
    ASSUME IInv, NEW kind \in ItemKinds, NEW id \in Ids, NEW form \in Forms,
           AddMonitor(kind, id, form)
    PROVE  IInv'
  <1> DEFINE k == <<kind, Sanitise[id]>>
             made == Constructed(k, form)
  <1>1. k \in Keys /\ k \notin SystemKeys /\ form \in Entry
    BY SystemFacts, FormsAssumption
  <1>2. /\ Request /\ (Refuse \/ Save) /\ UNCHANGED <<up, period, config, file>>
        /\ \/ UNCHANGED <<monitors, maintenance>>
           \/ /\ ~Refused(k, form)
              /\ monitors' = [monitors EXCEPT ![k] = made]
              /\ maintenance' = [maintenance EXCEPT ![k] = form.window]
    BY DEF AddMonitor
  <1>3. /\ requests' \in 0..MaxRequests /\ pc' \in {"idle", "save"} /\ up /\ up'
        /\ reply' \in {"refused", "none"}
        /\ FileKept' /\ ConfigKept' /\ AcknowledgedIsDurable'
    BY <1>2, RequestOutcome
  <1>4. CASE UNCHANGED <<monitors, maintenance>>
    <2>1. TypeOK'
      BY <1>2, <1>3, <1>4 DEF IInv, TypeOK
    <2>2. MonitorsSound' /\ SystemKept'
      BY <1>2, <1>4 DEF IInv, MonitorsSound, SystemKept
    <2> QED
      BY <1>3, <2>1, <2>2 DEF IInv
  <1>5. CASE /\ ~Refused(k, form)
             /\ monitors' = [monitors EXCEPT ![k] = made]
             /\ maintenance' = [maintenance EXCEPT ![k] = form.window]
    <2>1. /\ made \in Monitor /\ Sound(k, made)
          /\ form.window \in Windows \union {NoWindow}
      BY <1>1, <1>5, ConstructedIsSound
    <2> HIDE DEF made, k
    <2>2. TypeOK'
      BY <1>1, <1>2, <1>3, <1>5, <2>1 DEF IInv, TypeOK
    <2>3. MonitorsSound'
      BY <1>1, <1>5, <2>1 DEF IInv, TypeOK, MonitorsSound
    <2>4. SystemKept'
      <3>1. \A s \in SystemKeys : monitors'[s] = monitors[s] /\ maintenance'[s] = maintenance[s]
        BY <1>1, <1>5, SystemFacts DEF IInv, TypeOK
      <3> QED
        BY <1>2, <3>1 DEF IInv, SystemKept
    <2> QED
      BY <1>3, <2>2, <2>3, <2>4 DEF IInv
  <1> QED
    BY <1>2, <1>4, <1>5

LEMMA DeleteMonitorStep ==
    ASSUME IInv, NEW kind \in ItemKinds, NEW id \in Ids, DeleteMonitor(kind, id)
    PROVE  IInv'
  <1> DEFINE k == <<kind, Sanitise[id]>>
  <1>1. k \in Keys /\ k \notin SystemKeys
    BY SystemFacts
  <1>2. /\ Request /\ (Refuse \/ Save) /\ UNCHANGED <<up, period, config, file>>
        /\ monitors' = [monitors EXCEPT ![k] = None]
        /\ maintenance' = [maintenance EXCEPT ![k] = NoWindow]
    BY DEF DeleteMonitor
  <1>3. /\ requests' \in 0..MaxRequests /\ pc' \in {"idle", "save"} /\ up /\ up'
        /\ reply' \in {"refused", "none"}
        /\ FileKept' /\ ConfigKept' /\ AcknowledgedIsDurable'
    BY <1>2, RequestOutcome
  <1> HIDE DEF k
  <1>4. TypeOK'
    BY <1>2, <1>3 DEF IInv, TypeOK
  <1>5. MonitorsSound'
    BY <1>2 DEF IInv, TypeOK, MonitorsSound
  <1>6. SystemKept'
    <2>1. \A s \in SystemKeys : monitors'[s] = monitors[s] /\ maintenance'[s] = maintenance[s]
      BY <1>1, <1>2, SystemFacts DEF IInv, TypeOK
    <2> QED
      BY <1>2, <2>1 DEF IInv, SystemKept
  <1> QED
    BY <1>3, <1>4, <1>5, <1>6 DEF IInv

\* The system form replaces cpu, or both, or neither, and no window.
LEMMA UpdateSystemStep ==
    ASSUME IInv, NEW title \in Titles, NEW form \in [SystemKeys -> Forms],
           UpdateSystem(title, form)
    PROVE  IInv'
  <1> DEFINE c == [config EXCEPT !.title = title]
  <1>1. /\ Request /\ (Refuse \/ Save) /\ UNCHANGED <<up, period, file>>
        /\ config' = c /\ maintenance' = maintenance
        /\ monitors' = [k \in Keys |-> IF k \in Applied(form) THEN Constructed(k, form[k])
                                       ELSE monitors[k]]
    BY DEF UpdateSystem, SystemWindows
  <1>2. /\ requests' \in 0..MaxRequests /\ pc' \in {"idle", "save"} /\ up /\ up'
        /\ reply' \in {"refused", "none"}
        /\ FileKept' /\ ConfigKept' /\ AcknowledgedIsDurable'
    BY <1>1, RequestOutcome
  <1>3. c \in Content /\ c.entries = config.entries
    BY DEF IInv, TypeOK, Content
  <1>4. ASSUME NEW k \in Applied(form)
        PROVE  k \in SystemKeys /\ form[k] \in Entry /\ ~Refused(k, form[k])
    <2>1. k \in SystemKeys /\ ~Refused(k, form[k])
      BY SystemFacts DEF Applied, SystemKeys
    <2> QED
      BY <2>1, FormsAssumption
  <1>5. ASSUME NEW k \in Keys
        PROVE  \/ monitors'[k] = monitors[k]
               \/ /\ monitors'[k] \in Monitor /\ monitors'[k] # None
                  /\ Sound(k, monitors'[k])
    BY <1>1, <1>4, ConstructedIsSound
  <1> HIDE DEF c
  <1>6. TypeOK'
    <2>1. monitors' \in [Keys -> Monitor \union {None}]
      BY <1>1, <1>5 DEF IInv, TypeOK
    <2> QED
      BY <1>1, <1>2, <1>3, <2>1 DEF IInv, TypeOK
  <1>7. MonitorsSound'
    BY <1>5 DEF IInv, MonitorsSound
  <1>8. SystemKept'
    BY <1>1, <1>3, <1>5, SystemFacts DEF IInv, SystemKept
  <1> QED
    BY <1>2, <1>6, <1>7, <1>8 DEF IInv

LEMMA SettingSteps ==
    ASSUME IInv,
           \/ \E i \in Intervals : UpdateInterval(i)
           \/ \E w \in Webhooks : UpdateWebhook(w)
    PROVE  IInv'
  <1>1. /\ Request /\ (Refuse \/ Save) /\ UNCHANGED <<up, monitors, maintenance, file>>
        /\ \/ period' \in Intervals /\ config' = config
           \/ /\ period' = period
              /\ \E w \in Webhooks : config' = [config EXCEPT !.webhook = w]
    BY DEF UpdateInterval, UpdateWebhook
  <1>2. /\ requests' \in 0..MaxRequests /\ pc' \in {"idle", "save"} /\ up /\ up'
        /\ reply' \in {"refused", "none"}
        /\ FileKept' /\ ConfigKept' /\ AcknowledgedIsDurable'
    BY <1>1, RequestOutcome
  <1>3. /\ period' \in Intervals /\ config' \in Content
        /\ config'.entries = config.entries
    BY <1>1 DEF IInv, TypeOK, Content
  <1>4. TypeOK'
    BY <1>1, <1>2, <1>3 DEF IInv, TypeOK
  <1>5. MonitorsSound' /\ SystemKept'
    BY <1>1, <1>3 DEF IInv, MonitorsSound, SystemKept
  <1> QED
    BY <1>2, <1>4, <1>5 DEF IInv

-----------------------------------------------------------------------------
(* saveConfig *)

LEMMA RunningFacts ==
    ASSUME IInv, NEW k \in Keys
    PROVE  /\ monitors[k] = None <=> Running(k) = None
           /\ monitors[k] # None =>
                /\ monitors[k] \in Monitor /\ Sound(k, monitors[k])
                /\ Running(k) \in Entry
                /\ Running(k) = [alert |-> monitors[k].alert, arg |-> monitors[k].arg,
                                 window |-> maintenance[k]]
                /\ AtLeastOne(Running(k).alert) = Running(k).alert
                /\ Running(k).window # BadWindow
  <1>1. CASE monitors[k] = None
    BY <1>1 DEF Running
  <1>2. CASE monitors[k] # None
    <2>1. /\ monitors[k] \in Monitor /\ Sound(k, monitors[k])
          /\ maintenance[k] \in Windows \union {NoWindow}
      BY <1>2 DEF IInv, TypeOK, MonitorsSound
    <2>2. /\ monitors[k].alert \in Nat /\ monitors[k].arg \in Args
          /\ monitors[k].alert # 0
      BY <2>1 DEF Monitor, Sound
    <2>3. Running(k) = [alert |-> monitors[k].alert, arg |-> monitors[k].arg,
                        window |-> maintenance[k]]
      BY <1>2 DEF Running
    <2>4. Running(k) \in Entry
      BY <2>1, <2>2, <2>3 DEF Entry
    <2> QED
      BY <1>2, <2>1, <2>2, <2>3, <2>4, FormsAssumption, WindowsAssumption DEF AtLeastOne
  <1> QED
    BY <1>1, <1>2

\* Service.Save makes of the registry what runs: the windows it does not apply
\* are those the system entries already have.
LEMMA SavedIsRunning ==
    ASSUME IInv, up
    PROVE  /\ SavedEntries \in [Keys -> Entry \union {None}]
           /\ \A k \in Keys : SavedEntries[k] = Running(k)
  <1>1. ASSUME NEW k \in Keys
        PROVE  SavedEntries[k] = Running(k) /\ Running(k) \in Entry \union {None}
    <2>1. SavedWindow(k) = maintenance[k]
      BY DEF IInv, SystemKept, SavedWindow
    <2>2. Running(k) \in Entry \union {None}
      BY RunningFacts
    <2> QED
      BY <2>1, <2>2 DEF SavedEntries, Running
  <1> QED
    BY <1>1 DEF SavedEntries

\* The dashboard shows the threshold of what was saved.
LEMMA RebuiltIsShown ==
    ASSUME IInv, Rebuilt, NEW k \in Keys, monitors[k] # None
    PROVE  ShownAlert(k) = monitors[k].alert
  <1>1. config.entries[k] = Running(k) /\ Running(k) # None
    BY RunningFacts DEF Rebuilt
  <1> QED
    BY <1>1, RunningFacts DEF ShownAlert

LEMMA SaveToConfigStep ==
    ASSUME IInv, SaveToConfig
    PROVE  IInv'
  <1> DEFINE c == [config EXCEPT !.entries = SavedEntries, !.interval = period]
  <1>1. /\ pc = "save" /\ pc' = "open" /\ up /\ config' = c
        /\ UNCHANGED <<up, monitors, maintenance, period, file, reply, requests>>
    BY DEF SaveToConfig, IInv, TypeOK
  <1>2. /\ SavedEntries \in [Keys -> Entry \union {None}]
        /\ \A k \in Keys : SavedEntries[k] = Running(k)
    BY <1>1, SavedIsRunning
  <1> HIDE DEF SavedEntries
  <1>3. /\ c \in Content /\ c.entries = SavedEntries /\ c.interval = period
    BY <1>2 DEF IInv, TypeOK, Content
  <1> HIDE DEF c
  <1>4. TypeOK'
    BY <1>1, <1>3 DEF IInv, TypeOK
  <1>5. MonitorsSound' /\ FileKept'
    BY <1>1 DEF IInv, MonitorsSound, FileKept, StartSucceeds
  <1>6. Rebuilt'
    BY <1>1, <1>2, <1>3 DEF Rebuilt, Running
  <1>7. SystemKept'
    <2>1. ASSUME NEW k \in SystemKeys
          PROVE  /\ monitors'[k] # None /\ config'.entries[k] # None
                 /\ config'.entries[k].window = maintenance'[k]
      <3>1. k \in Keys /\ monitors[k] # None
        BY <1>1, SystemFacts DEF IInv, SystemKept
      <3>2. config'.entries[k] = Running(k)
        BY <1>1, <1>2, <1>3, <3>1
      <3> QED
        BY <1>1, <3>1, <3>2, RunningFacts
    <2> QED
      BY <2>1 DEF SystemKept
  <1>8. ConfigKept' /\ AcknowledgedIsDurable'
    BY <1>1, <1>6 DEF ConfigKept, ShownIsRunning, AcknowledgedIsDurable
  <1> QED
    BY <1>4, <1>5, <1>7, <1>8 DEF IInv

LEMMA OpenFailsStep ==
    ASSUME IInv, OpenFails
    PROVE  IInv'
  <1>1. /\ pc = "open" /\ pc' = "idle" /\ reply' = "failed" /\ up /\ up'
        /\ UNCHANGED <<up, monitors, maintenance, period, config, file, requests>>
    BY DEF OpenFails, IInv, TypeOK
  <1>2. TypeOK'
    BY <1>1 DEF IInv, TypeOK
  <1>3. MonitorsSound' /\ FileKept' /\ SystemKept'
    BY <1>1 DEF IInv, MonitorsSound, FileKept, StartSucceeds, SystemKept
  <1>4. Rebuilt /\ \A k \in Keys : monitors[k] # None => ShownAlert(k) = monitors[k].alert
    BY <1>1, RebuiltIsShown DEF IInv, ConfigKept
  <1>5. ShownIsRunning'
    BY <1>1, <1>4 DEF ShownIsRunning, Rebuilt, Running, ShownAlert
  <1>6. ConfigKept' /\ AcknowledgedIsDurable'
    BY <1>1, <1>5 DEF ConfigKept, AcknowledgedIsDurable
  <1> QED
    BY <1>2, <1>3, <1>6 DEF IInv

LEMMA TruncateStep ==
    ASSUME IInv, Truncate
    PROVE  IInv'
  <1>1. /\ pc = "open" /\ pc' = "write" /\ file' = Empty /\ up /\ up'
        /\ UNCHANGED <<up, monitors, maintenance, period, config, reply, requests>>
    BY DEF Truncate, IInv, TypeOK
  <1>2. TypeOK'
    BY <1>1, FilesAssumption DEF IInv, TypeOK
  <1>3. MonitorsSound' /\ SystemKept'
    BY <1>1 DEF IInv, MonitorsSound, SystemKept
  <1>4. FileKept'
    BY <1>1, NoFile DEF FileKept, StartSucceeds
  <1>5. Rebuilt'
    BY <1>1 DEF IInv, ConfigKept, Rebuilt, Running
  <1>6. ConfigKept' /\ AcknowledgedIsDurable'
    BY <1>1, <1>5 DEF ConfigKept, ShownIsRunning, AcknowledgedIsDurable
  <1> QED
    BY <1>2, <1>3, <1>4, <1>6 DEF IInv

LEMMA EntryUpdate ==
    ASSUME NEW e \in Entry, NEW n \in Nat,
           NEW w \in Windows \union {NoWindow, BadWindow}
    PROVE  [e EXCEPT !.alert = n, !.window = w]
              = [alert |-> n, arg |-> e.arg, window |-> w]
  <1> DEFINE r == [e EXCEPT !.alert = n, !.window = w]
  <1>1. r \in Entry /\ r.alert = n /\ r.arg = e.arg /\ r.window = w
    BY DEF Entry
  <1> HIDE DEF r
  <1>2. r = [alert |-> n, arg |-> e.arg, window |-> w]
    BY <1>1 DEF Entry
  <1> QED
    BY <1>2 DEF r

\* What is written under one key is one of the monitors that fold to it, with
\* the window of one of them.
LEMMA WrittenEntryFacts ==
    ASSUME IInv, Rebuilt, NEW o \in Orders, NEW k \in Keys
    PROVE  /\ WrittenEntry(k, o) = None <=>
                 \A j \in Keys : Fold(j) = k => monitors[j] = None
           /\ WrittenEntry(k, o) # None =>
                 \E i, j \in Keys :
                    /\ Fold(i) = k /\ monitors[i] # None
                    /\ Fold(j) = k /\ monitors[j] # None
                    /\ WrittenEntry(k, o) = [alert |-> monitors[i].alert,
                                             arg |-> monitors[i].arg,
                                             window |-> maintenance[j]]
  <1> DEFINE same == {j \in Keys : Fold(j) = k /\ config.entries[j] # None}
             windowed == {j \in same : config.entries[j].window # NoWindow}
             i == LastOf(same, o)
             j == LastOf(windowed, o)
             w == IF windowed = {} THEN NoWindow ELSE config.entries[j].window
  <1>1. ASSUME NEW x \in Keys
        PROVE  /\ config.entries[x] = Running(x)
               /\ config.entries[x] = None <=> monitors[x] = None
    BY RunningFacts DEF Rebuilt
  <1>2. WrittenEntry(k, o) = IF same = {} THEN None
                             ELSE [config.entries[i] EXCEPT !.alert = AtLeastOne(@), !.window = w]
    BY DEF WrittenEntry
  <1>3. same = {} <=> \A x \in Keys : Fold(x) = k => monitors[x] = None
    BY <1>1
  <1>4. CASE same = {}
    BY <1>2, <1>3, <1>4
  <1>5. CASE same # {}
    <2>1. i \in same
      BY <1>5, LastOfIsOne
    <2>2. windowed # {} => j \in windowed
      BY LastOfIsOne
    <2> HIDE DEF i, j
    <2>3. i \in Keys /\ Fold(i) = k /\ monitors[i] # None
      BY <1>1, <2>1
    <2>4. /\ config.entries[i] = [alert |-> monitors[i].alert, arg |-> monitors[i].arg,
                                  window |-> maintenance[i]]
          /\ AtLeastOne(config.entries[i].alert) = monitors[i].alert
          /\ monitors[i] \in Monitor /\ config.entries[i] \in Entry
      BY <1>1, <2>3, RunningFacts
    <2>5. \E x \in Keys : Fold(x) = k /\ monitors[x] # None /\ w = maintenance[x]
      <3>1. CASE windowed = {}
        BY <2>1, <2>3, <2>4, <3>1
      <3>2. CASE windowed # {}
        <4>1. j \in Keys /\ Fold(j) = k /\ monitors[j] # None
          BY <1>1, <2>2, <3>2
        <4>2. config.entries[j].window = maintenance[j]
          BY <1>1, <4>1, RunningFacts
        <4> QED
          BY <3>2, <4>1, <4>2
      <3> QED
        BY <3>1, <3>2
    <2> HIDE DEF w
    <2>6. [config.entries[i] EXCEPT !.alert = monitors[i].alert, !.window = w]
             = [alert |-> monitors[i].alert, arg |-> monitors[i].arg, window |-> w]
      <3>1. w \in Windows \union {NoWindow, BadWindow} /\ monitors[i].alert \in Nat
        BY <2>4, <2>5 DEF IInv, TypeOK, Monitor
      <3>2. config.entries[i].arg = monitors[i].arg /\ config.entries[i] \in Entry
        BY <2>4
      <3> DEFINE e == config.entries[i]
                 n == monitors[i].alert
      <3> HIDE DEF e, n
      <3>3. [e EXCEPT !.alert = n, !.window = w] = [alert |-> n, arg |-> e.arg, window |-> w]
        <4>1. e \in Entry /\ n \in Nat
          BY <3>1, <3>2 DEF e, n
        <4> QED
          BY <3>1, <4>1, EntryUpdate
      <3> QED
        BY <3>2, <3>3 DEF e, n
    <2>7. WrittenEntry(k, o) = [alert |-> monitors[i].alert, arg |-> monitors[i].arg,
                                window |-> w]
      BY <1>2, <1>5, <2>4, <2>6
    <2>8. WrittenEntry(k, o) # None
      <3>1. WrittenEntry(k, o) \in Entry
        <4>1. w \in Windows \union {NoWindow}
          BY <2>5 DEF IInv, TypeOK
        <4> QED
          BY <2>4, <2>7, <4>1 DEF Entry, Monitor
      <3> QED
        BY <3>1, FormsAssumption
    <2> QED
      BY <1>3, <1>5, <2>3, <2>5, <2>7, <2>8
  <1> QED
    BY <1>4, <1>5

\* The file a save writes: whole, startable, and with the settings in effect.
LEMMA WrittenFacts ==
    ASSUME IInv, up, Rebuilt, NEW o \in Orders
    PROVE  /\ Written(o) \in Content /\ Startable(Written(o))
           /\ \A k \in Keys : Written(o).entries[k] = WrittenEntry(k, o)
           /\ \A k \in SystemKeys : Written(o).entries[k] # None
           /\ Written(o).interval = period
           /\ Written(o).title = config.title /\ Written(o).webhook = config.webhook
  <1> DEFINE entries == [k \in Keys |-> WrittenEntry(k, o)]
             c == [config EXCEPT !.entries = entries]
  <1>1. ASSUME NEW k \in Keys, WrittenEntry(k, o) # None
        PROVE  /\ WrittenEntry(k, o) \in Entry /\ ~Refused(k, WrittenEntry(k, o))
               /\ ~(k[1] = "ping" /\ WrittenEntry(k, o).arg = "unset")
    <2>1. PICK i \in Keys, j \in Keys :
             /\ Fold(i) = k /\ monitors[i] # None
             /\ Fold(j) = k /\ monitors[j] # None
             /\ WrittenEntry(k, o) = [alert |-> monitors[i].alert,
                                      arg |-> monitors[i].arg,
                                      window |-> maintenance[j]]
      BY <1>1, WrittenEntryFacts
    <2>2. /\ monitors[i] \in Monitor /\ Sound(i, monitors[i])
          /\ maintenance[j] \in Windows \union {NoWindow}
          /\ i[1] = k[1]
      BY <2>1, RunningFacts, KeyFacts DEF IInv, TypeOK
    <2>3. WrittenEntry(k, o) \in Entry
      BY <2>1, <2>2 DEF Entry, Monitor
    <2> QED
      BY <2>1, <2>2, <2>3, WindowsAssumption DEF Refused, Sound
  <1>2. entries \in [Keys -> Entry \union {None}]
    BY <1>1
  <1>3. \A k \in Keys : entries[k] = WrittenEntry(k, o)
    OBVIOUS
  <1>4. \A k \in SystemKeys : entries[k] # None
    <2>1. ASSUME NEW k \in SystemKeys PROVE WrittenEntry(k, o) # None
      <3>1. k \in Keys /\ Fold(k) = k /\ monitors[k] # None
        BY SystemFacts, KeyFacts DEF IInv, SystemKept
      <3> QED
        BY <3>1, WrittenEntryFacts
    <2> QED
      BY <2>1, <1>3, SystemFacts
  <1> HIDE DEF entries
  <1>5. /\ c \in Content /\ c.entries = entries /\ c.interval = config.interval
        /\ c.title = config.title /\ c.webhook = config.webhook
    BY <1>2 DEF IInv, TypeOK, Content
  <1>6. Written(o) = c
    BY DEF Written, entries
  <1> HIDE DEF c
  <1>7. Accepted(c)
    BY <1>1, <1>3, <1>5 DEF Accepted
  <1> QED
    BY <1>3, <1>4, <1>5, <1>6, <1>7, ContentFields DEF Rebuilt

\* What is read of c where its text breaks off: but for what its end spoilt an
\* item or setting is that of c or the default; no item comes from nowhere, and
\* cpu and memory, which have defaults, do not go.
Cut(d, c, end) ==
    /\ \A k \in Keys \ end.keys : d.entries[k] \in {c.entries[k], Defaults.entries[k]}
    /\ \A k \in Keys : d.entries[k] # None => c.entries[k] # None \/ Defaults.entries[k] # None
    /\ \A k \in Keys : c.entries[k] # None /\ Defaults.entries[k] # None => d.entries[k] # None
    /\ "interval" \in end.settings \/ d.interval \in {c.interval, Defaults.interval}
    /\ "title" \in end.settings \/ d.title \in {c.title, Defaults.title}
    /\ "webhook" \in end.settings \/ d.webhook \in {c.webhook, Defaults.webhook}

LEMMA EndFacts ==
    /\ \A k \in Keys : [keys |-> {k}, settings |-> {}] \in TextEnds
    /\ [keys |-> SystemKeys, settings |-> {"interval", "title"}] \in TextEnds
    /\ [keys |-> {}, settings |-> {"webhook"}] \in TextEnds
  BY DEF TextEnds

LEMMA UpToFacts ==
    ASSUME NEW c \in Content, NEW p, NEW S
    PROVE  /\ UpTo(c, p, S) \in Content
           /\ \A end \in TextEnds : Cut(UpTo(c, p, S), c, end)
  <1> DEFINE u == UpTo(c, p, S)
  <1>1. /\ u.interval \in {c.interval, Defaults.interval}
        /\ u.title \in {c.title, Defaults.title} /\ u.webhook = Defaults.webhook
        /\ u = [entries |-> u.entries, interval |-> u.interval, title |-> u.title,
                webhook |-> u.webhook]
    BY DEF UpTo
  <1>2. \A k \in Keys : u.entries[k] \in {c.entries[k], Defaults.entries[k]}
    BY DEF UpTo
  <1>3. u.entries \in [Keys -> Entry \union {None}]
    <2>1. \A k \in Keys : u.entries[k] \in Entry \union {None}
      BY <1>2, NoFile, ContentFields
    <2>2. u.entries = [k \in Keys |-> u.entries[k]]
      BY DEF UpTo
    <2> HIDE DEF u
    <2> QED
      BY <2>1, <2>2
  <1> HIDE DEF u
  <1>4. u \in Content
    <2>1. u.interval \in Intervals /\ u.title \in Titles /\ u.webhook \in Webhooks
      BY <1>1, NoFile, ContentFields
    <2> QED
      BY <1>1, <1>3, <2>1 DEF Content
  <1> QED
    BY <1>1, <1>2, <1>4 DEF Cut, u

LEMMA BrokenIsEntry ==
    ASSUME NEW e \in Entry
    PROVE  Broken(e) \subseteq Entry
  <1>1. e.alert \in Nat /\ e.arg \in Args /\ {"unset", "bad"} \subseteq Args
    BY DEF Entry, Args
  <1>2. 0..e.alert \subseteq Nat
    BY <1>1
  <1> QED
    BY <1>1, <1>2 DEF Broken, Entry

\* Wherever in the text of c the end is, there is one kind of thing it spoilt.
LEMMA EndsAtFacts ==
    ASSUME NEW c \in Content, NEW p \in 1..9, NEW d \in EndsAt(c, p)
    PROVE  d \in Content /\ \E end \in TextEnds : Cut(d, c, end)
  <1> DEFINE monitoring == [keys |-> SystemKeys, settings |-> {"interval", "title"}]
             u == UpTo(c, p, {})
  <1>1. /\ monitoring \in TextEnds /\ monitoring.keys = SystemKeys
        /\ "interval" \in monitoring.settings /\ "title" \in monitoring.settings
    BY EndFacts
  <1>2. u \in Content /\ Cut(u, c, monitoring)
    BY <1>1, UpToFacts
  <1>3. NoValue \in Entry /\ NoValue # None
    <2>1. NoValue \in Entry
      BY DEF NoValue, Entry, Args
    <2> QED
      BY <2>1, FormsAssumption
  <1> HIDE DEF monitoring, u
  <1>4. CASE \E S \in SUBSET ItemsAt(c, p) : d = UpTo(c, p, S)
    BY <1>1, <1>4, UpToFacts
  <1>5. ASSUME NEW k \in ItemsAt(c, p), NEW S \in SUBSET ItemsAt(c, p),
               NEW e \in Broken(c.entries[k]),
               d = [UpTo(c, p, S \ {k}) EXCEPT !.entries[k] = e]
        PROVE  d \in Content /\ \E end \in TextEnds : Cut(d, c, end)
    <2> DEFINE end == [keys |-> {k}, settings |-> {}]
               v == UpTo(c, p, S \ {k})
    <2>1. k \in Keys /\ c.entries[k] # None /\ end \in TextEnds /\ end.keys = {k}
      BY EndFacts DEF ItemsAt
    <2>2. v \in Content /\ Cut(v, c, end)
      BY <2>1, UpToFacts
    <2>3. e \in Entry /\ e # None
      BY <2>1, EntryFacts, BrokenIsEntry, FormsAssumption
    <2> HIDE DEF end, v
    <2>4. d = [v EXCEPT !.entries[k] = e]
      BY <1>5 DEF v
    <2>5. /\ d \in Content /\ d.interval = v.interval /\ d.title = v.title
          /\ d.webhook = v.webhook /\ d.entries[k] = e
          /\ \A j \in Keys \ {k} : d.entries[j] = v.entries[j]
      BY <2>1, <2>2, <2>3, <2>4 DEF Content
    <2>6. Cut(d, c, end)
      BY <2>1, <2>2, <2>3, <2>5 DEF Cut
    <2> QED
      BY <2>1, <2>5, <2>6
  <1>6. ASSUME NEW i \in Intervals, NEW t \in Titles,
               \/ d = [NoSystem(u, t) EXCEPT !.interval = i] \/ d = NoSystem(u, t)
               \/ d = [u EXCEPT !.interval = i] \/ d = [u EXCEPT !.title = t]
        PROVE  d \in Content /\ \E end \in TextEnds : Cut(d, c, end)
    <2>1. /\ d \in Content /\ d.webhook = u.webhook
          /\ \A k \in Keys \ SystemKeys : d.entries[k] = u.entries[k]
          /\ \A k \in SystemKeys : d.entries[k] \in {u.entries[k], NoValue}
      <3>1. /\ NoSystem(u, t) \in Content /\ NoSystem(u, t).webhook = u.webhook
            /\ \A k \in Keys \ SystemKeys : NoSystem(u, t).entries[k] = u.entries[k]
            /\ \A k \in SystemKeys : NoSystem(u, t).entries[k] = NoValue
        BY <1>2, <1>3, SystemFacts DEF NoSystem, Content, SystemKeys
      <3> DEFINE n == NoSystem(u, t)
      <3> HIDE DEF n
      <3>2. CASE d = [n EXCEPT !.interval = i]
        <4>1. d \in Content /\ d.webhook = n.webhook /\ d.entries = n.entries
          BY <3>1, <3>2 DEF n, Content
        <4> QED
          BY <3>1, <4>1 DEF n
      <3>3. CASE d = n
        BY <3>1, <3>3 DEF n
      <3>4. CASE d = [u EXCEPT !.interval = i] \/ d = [u EXCEPT !.title = t]
        BY <1>2, <3>4 DEF Content
      <3> QED
        BY <1>6, <3>2, <3>3, <3>4 DEF n
    <2>2. \A k \in SystemKeys : Defaults.entries[k] # None /\ k \in Keys
      BY FilesAssumption, SystemFacts
    <2>3. Cut(d, c, monitoring)
      BY <1>1, <1>2, <1>3, <2>1, <2>2 DEF Cut
    <2> QED
      BY <1>1, <2>1, <2>3
  <1>7. ASSUME NEW w \in Webhooks, d = [u EXCEPT !.webhook = w]
        PROVE  d \in Content /\ \E end \in TextEnds : Cut(d, c, end)
    <2> DEFINE end == [keys |-> {}, settings |-> {"webhook"}]
    <2>1. end \in TextEnds /\ end.keys = {} /\ "webhook" \in end.settings
      BY EndFacts
    <2>2. Cut(u, c, end)
      BY <2>1, UpToFacts DEF u
    <2> HIDE DEF end
    <2>3. /\ d \in Content /\ d.entries = u.entries /\ d.interval = u.interval
          /\ d.title = u.title
      BY <1>2, <1>7 DEF Content
    <2>4. Cut(d, c, end)
      BY <2>1, <2>2, <2>3 DEF Cut
    <2> QED
      BY <2>1, <2>3, <2>4
  <1>8. \/ \E S \in SUBSET ItemsAt(c, p) : d = UpTo(c, p, S)
        \/ \E k \in ItemsAt(c, p) : \E S \in SUBSET ItemsAt(c, p), e \in Broken(c.entries[k]) :
              d = [UpTo(c, p, S \ {k}) EXCEPT !.entries[k] = e]
        \/ \E i \in Intervals, t \in Titles : d = [NoSystem(u, t) EXCEPT !.interval = i]
        \/ \E i \in Intervals : d = [u EXCEPT !.interval = i]
        \/ \E t \in Titles : d = NoSystem(u, t) \/ d = [u EXCEPT !.title = t]
        \/ \E w \in Webhooks : d = [u EXCEPT !.webhook = w]
    <2>1. \/ d \in {UpTo(c, p, S) : S \in SUBSET ItemsAt(c, p)}
          \/ \E k \in ItemsAt(c, p) : d \in EntryEnds(c, p, k)
          \/ d \in SettingEnds(c, p)
      BY DEF EndsAt
    <2>2. ASSUME d \in SettingEnds(c, p)
          PROVE  \/ \E i \in Intervals, t \in Titles : d = [NoSystem(u, t) EXCEPT !.interval = i]
                 \/ \E i \in Intervals : d = [u EXCEPT !.interval = i]
                 \/ \E t \in Titles : d = NoSystem(u, t) \/ d = [u EXCEPT !.title = t]
                 \/ \E w \in Webhooks : d = [u EXCEPT !.webhook = w]
      <3> DEFINE D == {[NoSystem(u, t) EXCEPT !.interval = i] : t \in Titles, i \in Intervals}
                 I == {[u EXCEPT !.interval = i] : i \in Intervals}
                 C == {NoSystem(u, t) : t \in Titles}
                 T == {[u EXCEPT !.title = t] : t \in Titles}
                 W == {[u EXCEPT !.webhook = w] : w \in Webhooks}
      <3>1. SettingEnds(c, p) = CASE p = Place.disk -> D
                                  [] p = Place.interval -> I
                                  [] p = Place.cpu -> C
                                  [] p = Place.title -> T
                                  [] p = Place.webhook -> W
                                  [] OTHER -> {}
        BY DEF SettingEnds, u
      <3> HIDE DEF D, I, C, T, W
      <3>2. d \in D \/ d \in I \/ d \in C \/ d \in T \/ d \in W
        BY <2>2, <3>1 DEF Place
      <3> QED
        BY <3>2 DEF D, I, C, T, W
    <2>3. ASSUME NEW k \in ItemsAt(c, p), d \in EntryEnds(c, p, k)
          PROVE  \E S \in SUBSET ItemsAt(c, p), e \in Broken(c.entries[k]) :
                    d = [UpTo(c, p, S \ {k}) EXCEPT !.entries[k] = e]
      <3> DEFINE G(S, e) == [UpTo(c, p, S \ {k}) EXCEPT !.entries[k] = e]
      <3>1. EntryEnds(c, p, k) = {G(S, e) : S \in SUBSET ItemsAt(c, p), e \in Broken(c.entries[k])}
        BY DEF EntryEnds
      <3> HIDE DEF G
      <3>2. \E S \in SUBSET ItemsAt(c, p), e \in Broken(c.entries[k]) : d = G(S, e)
        BY <2>3, <3>1
      <3> QED
        BY <3>2 DEF G
    <2>4. d \in {UpTo(c, p, S) : S \in SUBSET ItemsAt(c, p)}
             => \E S \in SUBSET ItemsAt(c, p) : d = UpTo(c, p, S)
      OBVIOUS
    <2> QED
      BY <2>1, <2>2, <2>3, <2>4
  <1>9. u.interval \in Intervals /\ u.title \in Titles
    BY <1>2, ContentFields
  <1> QED
    BY <1>4, <1>5, <1>6, <1>7, <1>8, <1>9

\* A part of the text that is read has cpu and memory.
LEMMA CutShortFacts ==
    ASSUME IInv, up, Rebuilt, NEW text \in Texts, NEW f \in CutShort(text), f # Torn
    PROVE  /\ f \in Content /\ Startable(f) /\ \A k \in SystemKeys : f.entries[k] # None
           /\ \E end \in TextEnds : Cut(f, text, end)
  <1>1. text \in Content /\ \A k \in SystemKeys : text.entries[k] # None
    BY WrittenFacts DEF Texts
  <1>2. Accepted(f) /\ \E p \in 1..9 : f \in EndsAt(text, p)
    BY DEF CutShort
  <1>3. f \in Content /\ \E end \in TextEnds : Cut(f, text, end)
    BY <1>1, <1>2, EndsAtFacts
  <1>4. \A k \in SystemKeys : f.entries[k] # None
    BY <1>1, <1>3, FilesAssumption, SystemFacts DEF Cut
  <1> QED
    BY <1>2, <1>3, <1>4, ContentFields

LEMMA WritePartStep ==
    ASSUME IInv, WritePart
    PROVE  IInv'
  <1>1. PICK text \in Texts : file' \in CutShort(text)
    BY DEF WritePart
  <1>2. /\ pc = "write" /\ pc' = "write" /\ up /\ up' /\ Rebuilt /\ pc' = pc
        /\ UNCHANGED <<up, monitors, maintenance, period, config, reply, requests>>
    BY DEF WritePart, IInv, TypeOK, ConfigKept
  <1>3. \/ file' = Torn
        \/ /\ file' \in Content /\ Startable(file')
           /\ \A k \in SystemKeys : file'.entries[k] # None
    BY <1>1, <1>2, CutShortFacts
  <1>4. FileKept' /\ file' \in Content \union {Absent, Empty, Torn} /\ file' # Absent
    BY <1>3, NoFile, FilesAssumption DEF FileKept, StartSucceeds, Startable
  <1>5. TypeOK'
    BY <1>2, <1>4 DEF IInv, TypeOK
  <1>6. MonitorsSound' /\ SystemKept'
    BY <1>2 DEF IInv, MonitorsSound, SystemKept
  <1>7. Rebuilt'
    BY <1>2 DEF Rebuilt, Running
  <1>8. ConfigKept' /\ AcknowledgedIsDurable'
    BY <1>2, <1>7 DEF ConfigKept, ShownIsRunning, AcknowledgedIsDurable
  <1> QED
    BY <1>4, <1>5, <1>6, <1>8 DEF IInv

LEMMA WriteFileStep ==
    ASSUME IInv, WriteFile
    PROVE  IInv'
  <1>1. PICK o \in Orders : file' = Written(o)
    BY DEF WriteFile, Texts
  <1>2. /\ pc = "write" /\ pc' = "idle" /\ reply' = "ok" /\ up /\ up' /\ Rebuilt
        /\ UNCHANGED <<up, monitors, maintenance, period, config, requests>>
    BY DEF WriteFile, IInv, TypeOK, ConfigKept
  <1>3. /\ file' \in Content /\ Startable(file')
        /\ \A k \in Keys : file'.entries[k] = WrittenEntry(k, o)
        /\ \A k \in SystemKeys : file'.entries[k] # None
        /\ file'.interval = period
        /\ file'.title = config.title /\ file'.webhook = config.webhook
    BY <1>1, <1>2, WrittenFacts
  <1>4. TypeOK'
    BY <1>2, <1>3 DEF IInv, TypeOK
  <1>5. MonitorsSound' /\ SystemKept'
    BY <1>2 DEF IInv, MonitorsSound, SystemKept
  <1>6. FileKept'
    BY <1>3, NoFile DEF FileKept, StartSucceeds, Startable
  <1>7. ShownIsRunning'
    <2>1. \A k \in Keys : monitors[k] # None => ShownAlert(k) = monitors[k].alert
      BY <1>2, RebuiltIsShown
    <2> QED
      BY <1>2, <2>1 DEF ShownIsRunning, Rebuilt, Running, ShownAlert
  <1>8. ConfigKept'
    BY <1>2, <1>7 DEF ConfigKept
  <1>9. ASSUME NEW k \in Keys, monitors[k] # None, Alone(k)
        PROVE  file'.entries[Fold(k)] = Running(k)
    <2>1. /\ Fold(k) \in Keys
          /\ \A j \in Keys : monitors[j] # None /\ Fold(j) = Fold(k) => j = k
      BY <1>9, KeyFacts DEF Alone
    <2>2. WrittenEntry(Fold(k), o) # None
      BY <1>2, <1>9, <2>1, WrittenEntryFacts
    <2>3. PICK i \in Keys, j \in Keys :
             /\ Fold(i) = Fold(k) /\ monitors[i] # None
             /\ Fold(j) = Fold(k) /\ monitors[j] # None
             /\ WrittenEntry(Fold(k), o) = [alert |-> monitors[i].alert,
                                            arg |-> monitors[i].arg,
                                            window |-> maintenance[j]]
      BY <1>2, <2>1, <2>2, WrittenEntryFacts
    <2>4. i = k /\ j = k
      BY <2>1, <2>3
    <2>5. WrittenEntry(Fold(k), o) = Running(k)
      BY <1>9, <2>3, <2>4, RunningFacts
    <2> QED
      BY <1>3, <2>1, <2>5
  <1>10. ASSUME NEW k \in Keys
         PROVE  (file'.entries[k] = None) =
                   (\A j \in Keys : Fold(j) = k => monitors[j] = None)
    <2>1. (file'.entries[k] = None) <=> (WrittenEntry(k, o) = None)
      BY <1>3
    <2>2. (WrittenEntry(k, o) = None) <=>
             (\A j \in Keys : Fold(j) = k => monitors[j] = None)
      BY <1>2, WrittenEntryFacts
    <2> QED
      BY <2>1, <2>2
  <1>11. AcknowledgedIsDurable'
    BY <1>2, <1>3, <1>9, <1>10 DEF AcknowledgedIsDurable, Alone, Running
  <1> QED
    BY <1>4, <1>5, <1>6, <1>8, <1>11 DEF IInv

LEMMA WriteFailsStep ==
    ASSUME IInv, WriteFails
    PROVE  IInv'
  <1>1. /\ pc = "write" /\ pc' = "idle" /\ reply' = "failed" /\ up /\ up' /\ Rebuilt
        /\ file' \in {file} \union Texts
        /\ UNCHANGED <<up, monitors, maintenance, period, config, requests>>
    BY DEF WriteFails, IInv, TypeOK, ConfigKept
  <1>2. \/ file' = file
        \/ /\ file' \in Content /\ Startable(file')
           /\ \A k \in SystemKeys : file'.entries[k] # None
    BY <1>1, WrittenFacts DEF Texts
  <1>3. FileKept' /\ file' \in Content \union {Absent, Empty, Torn}
    BY <1>2, NoFile DEF IInv, TypeOK, FileKept, StartSucceeds, Startable
  <1>4. TypeOK'
    BY <1>1, <1>3 DEF IInv, TypeOK
  <1>5. MonitorsSound' /\ SystemKept'
    BY <1>1 DEF IInv, MonitorsSound, SystemKept
  <1>6. ShownIsRunning'
    <2>1. \A k \in Keys : monitors[k] # None => ShownAlert(k) = monitors[k].alert
      BY <1>1, RebuiltIsShown
    <2> QED
      BY <1>1, <2>1 DEF ShownIsRunning, Rebuilt, Running, ShownAlert
  <1>7. ConfigKept' /\ AcknowledgedIsDurable'
    BY <1>1, <1>6 DEF ConfigKept, AcknowledgedIsDurable
  <1> QED
    BY <1>3, <1>4, <1>5, <1>7 DEF IInv

-----------------------------------------------------------------------------
(* The invariant, and what follows from it *)

LEMMA IInvStep == IInv /\ [Next]_vars => IInv'
  <1> SUFFICES ASSUME IInv, [Next]_vars PROVE IInv'
    OBVIOUS
  <1>1. ASSUME NEW kind \in ItemKinds, NEW id \in Ids,
               DeleteMonitor(kind, id)
                  \/ \E form \in Forms : AddMonitor(kind, id, form)
        PROVE  IInv'
    BY <1>1, DeleteMonitorStep, AddMonitorStep
  <1>2. ASSUME NEW title \in Titles, NEW form \in [SystemKeys -> Forms],
               UpdateSystem(title, form)
        PROVE  IInv'
    BY <1>2, UpdateSystemStep
  <1>3. CASE \/ \E i \in Intervals : UpdateInterval(i)
             \/ \E w \in Webhooks : UpdateWebhook(w)
    BY <1>3, SettingSteps
  <1>4. CASE Start \/ Crash \/ BadRequest
    BY <1>4, StartStep, CrashStep, BadRequestStep
  <1>5. CASE SaveToConfig \/ OpenFails \/ Truncate \/ WritePart \/ WriteFile \/ WriteFails
    BY <1>5, SaveToConfigStep, OpenFailsStep, TruncateStep, WritePartStep, WriteFileStep,
       WriteFailsStep
  <1>6. CASE UNCHANGED vars
    <2>1. UNCHANGED <<up, monitors, maintenance, period, config, file, pc, reply, requests>>
      BY <1>6 DEF vars
    <2>2. TypeOK' /\ MonitorsSound' /\ SystemKept' /\ FileKept'
      BY <2>1 DEF IInv, TypeOK, MonitorsSound, SystemKept, FileKept, StartSucceeds
    <2>3. ConfigKept'
      BY <2>1 DEF IInv, ConfigKept, Rebuilt, ShownIsRunning, Running, ShownAlert
    <2>4. AcknowledgedIsDurable'
      BY <2>1 DEF IInv, AcknowledgedIsDurable, Running, Alone
    <2> QED
      BY <2>2, <2>3, <2>4 DEF IInv
  <1> QED
    BY <1>1, <1>2, <1>3, <1>4, <1>5, <1>6 DEF Next

\* The inductive invariant holds of every reachable state.
LEMMA Invariance == Spec => []IInv
  BY InitHolds, IInvStep, PTL DEF Spec

\* The store keeps its types: what runs, what is shown and what a file holds,
\* and the file a save is writing is there.
THEOREM TypeCorrect == Spec => []TypeOK
  <1>1. IInv => TypeOK
    BY DEF IInv
  <1> QED
    BY <1>1, Invariance, PTL

\* saveConfig, Loader.Save and Load: what was answered with OK comes back
\* after a restart, for all names, ids and ways names fold.
THEOREM AcknowledgedIsDurableHolds == Spec => []AcknowledgedIsDurable
  <1>1. IInv => AcknowledgedIsDurable
    BY DEF IInv
  <1> QED
    BY <1>1, Invariance, PTL

\* Service.Save and newUIResult: the configuration shown is the one that runs.
THEOREM ShownIsRunningHolds == Spec => []ShownIsRunning
  <1>1. IInv => ShownIsRunning
    BY DEF IInv, ConfigKept
  <1> QED
    BY <1>1, Invariance, PTL

\* SetConfig refuses no file that a save wrote whole, so the program starts
\* after any change the handlers accepted; only a file cut short is Torn.
THEOREM StartSucceedsHolds == Spec => []StartSucceeds
  <1>1. IInv => StartSucceeds
    BY DEF IInv, FileKept
  <1> QED
    BY <1>1, Invariance, PTL

-----------------------------------------------------------------------------
(* The store implements DurableConfig *)

Settings == [interval |-> period, title |-> config.title, webhook |-> config.webhook]

\* The refinement mapping, named.
RunningNow == IF up THEN [items |-> [k \in Keys |-> Running(k)], settings |-> Settings]
              ELSE Down
DurableNow == IF Startable(file) THEN Effective(Loaded(file)) ELSE Unreadable

Mapped == /\ up => RunningNow # Down
          /\ ~up => RunningNow = Down
          /\ up => RunningNow.items = [k \in Keys |-> Running(k)]
          /\ up => RunningNow.settings = Settings

LEMMA MappedFacts == IInv => Mapped
  <1> SUFFICES ASSUME IInv PROVE Mapped
    OBVIOUS
  <1>1. CASE up
    <2>1. [k \in Keys |-> Running(k)] \in [Keys -> Entry \union {None}]
      BY RunningFacts
    <2>2. Settings \in [interval : Intervals, title : Titles, webhook : Webhooks]
      BY ContentFields DEF IInv, TypeOK, Settings
    <2>3. RunningNow \in Configurations
      BY <1>1, <2>1, <2>2 DEF RunningNow, Configurations
    <2> QED
      BY <1>1, <2>3, DownAssumption DEF RunningNow, Mapped
  <1>2. CASE ~up
    BY <1>2 DEF RunningNow, Mapped
  <1> QED
    BY <1>1, <1>2

LEMMA MappedNext == IInv' => Mapped'
  BY MappedFacts, PTL

LEMMA EffectiveFacts ==
    ASSUME NEW c \in Content, Accepted(c)
    PROVE  Effective(c) \in Configurations /\ Effective(c) # Unreadable
  <1>1. ASSUME NEW k \in Keys, c.entries[k] # None
        PROVE  [alert |-> AtLeastOne(c.entries[k].alert),
                arg |-> Argument(k, c.entries[k]), window |-> c.entries[k].window] \in Entry
    <2>1. c.entries[k] \in Entry
      BY <1>1, EntryFacts
    <2>2. /\ AtLeastOne(c.entries[k].alert) \in Nat
          /\ Argument(k, c.entries[k]) \in Args
      BY <2>1 DEF Entry, AtLeastOne, Argument, Args
    <2> QED
      BY <2>1, <2>2 DEF Entry
  <1>2. Effective(c).items \in [Keys -> Entry \union {None}]
    BY <1>1 DEF Effective
  <1>3. Effective(c) \in Configurations
    BY <1>2, ContentFields DEF Effective, Configurations
  <1> QED
    BY <1>3, DownAssumption

\* A request is a change of what its scope allows.
LEMMA ChangeMaps ==
    ASSUME IInv, IInv', up, up', pc = "idle", UNCHANGED file,
           NEW scope \in RequestScopes,
           \A k \in Keys \ scope.keys : Running(k)' = Running(k),
           \A k \in Keys \ scope.windows : maintenance'[k] = maintenance[k],
           \A f \in {"interval", "title", "webhook"} \ scope.settings :
              Settings'[f] = Settings[f]
    PROVE  Durable!Next
  <1>1. /\ RunningNow # Down /\ RunningNow' # Down
        /\ RunningNow.items = [k \in Keys |-> Running(k)] /\ RunningNow.settings = Settings
        /\ RunningNow'.items = [k \in Keys |-> Running(k)']
        /\ RunningNow'.settings = Settings'
    BY MappedFacts, MappedNext DEF Mapped
  <1>2. \A k \in Keys \ scope.keys : RunningNow'.items[k] = RunningNow.items[k]
    BY <1>1
  <1>3. DOMAIN Settings = {"interval", "title", "webhook"}
    BY DEF Settings
  <1>4. \A f \in DOMAIN RunningNow.settings \ scope.settings :
           RunningNow'.settings[f] = RunningNow.settings[f]
    BY <1>1, <1>3
  <1>5. UNCHANGED DurableNow
    BY DEF DurableNow, Startable, Loaded
  <1>6. ASSUME NEW k \in Keys \ scope.windows,
               RunningNow.items[k] # None, RunningNow'.items[k] # None
        PROVE  RunningNow'.items[k].window = RunningNow.items[k].window
    <2>1. Running(k) # None /\ Running(k)' # None
      BY <1>1, <1>6
    <2>2. Running(k).window = maintenance[k] /\ (Running(k)').window = maintenance'[k]
      BY <2>1 DEF Running
    <2> QED
      BY <1>1, <2>2
  <1>7. Durable!Within(scope, RunningNow, RunningNow')
    BY <1>2, <1>4, <1>6 DEF Durable!Within
  <1>8. Durable!Change(scope)
    BY <1>1, <1>5, <1>7 DEF Durable!Change, RunningNow, DurableNow, Settings
  <1> QED
    BY <1>8 DEF Durable!Next

\* A start brings up what is durable.
LEMMA StartMaps ==
    ASSUME IInv, IInv', Start
    PROVE  Durable!Next
  <1> DEFINE c == Loaded(file)
  <1>1. /\ ~up /\ Startable(file) /\ up' /\ config' = c /\ period' = c.interval
        /\ monitors' = [k \in Keys |-> IF c.entries[k] = None THEN None
                                       ELSE Constructed(k, c.entries[k])]
        /\ maintenance' = StartWindows(c)
        /\ UNCHANGED <<file, pc>> /\ pc = "idle"
    BY DEF Start, IInv, TypeOK
  <1>2. c \in Content /\ Accepted(c)
    BY <1>1, LoadedFacts DEF IInv, TypeOK
  <1>3. Effective(c) # Unreadable
    BY <1>2, EffectiveFacts
  <1> HIDE DEF c
  <1>4. ASSUME NEW k \in Keys
        PROVE  Running(k)' = Effective(c).items[k]
    <2>1. CASE c.entries[k] = None
      BY <1>1, <2>1 DEF Running, Effective
    <2>2. CASE c.entries[k] # None
      <3>1. c.entries[k] \in Entry /\ ~Refused(k, c.entries[k])
        BY <1>2, <2>2, EntryFacts
      <3>2. /\ monitors'[k] = Constructed(k, c.entries[k]) /\ monitors'[k] # None
            /\ maintenance'[k] = c.entries[k].window
        BY <1>1, <2>2, <3>1, ConstructedIsSound DEF StartWindows
      <3>3. Running(k)' = [alert |-> AtLeastOne(c.entries[k].alert),
                           arg |-> Argument(k, c.entries[k]), window |-> c.entries[k].window]
        BY <3>2 DEF Running, Constructed
      <3> QED
        BY <2>2, <3>3 DEF Effective
    <2> QED
      BY <2>1, <2>2
  <1>5. [k \in Keys |-> Running(k)'] = Effective(c).items
    BY <1>4 DEF Effective
  <1>6. Settings' = Effective(c).settings
    BY <1>1 DEF Settings, Effective
  <1>7. Effective(c) = [items |-> Effective(c).items, settings |-> Effective(c).settings]
    BY DEF Effective
  <1>8. RunningNow' = Effective(c)
    BY <1>1, <1>5, <1>6, <1>7 DEF RunningNow
  <1>9. /\ RunningNow = Down /\ DurableNow = Effective(c)
        /\ UNCHANGED DurableNow /\ UNCHANGED (pc # "idle")
    BY <1>1 DEF RunningNow, DurableNow, c, Startable, Loaded
  <1>10. Durable!Start
    BY <1>1, <1>3, <1>8, <1>9 DEF Durable!Start, RunningNow, DurableNow, Settings
  <1> QED
    BY <1>10 DEF Durable!Next

LEMMA CrashMaps ==
    ASSUME IInv, Crash
    PROVE  Durable!Next
  <1>1. up /\ ~up' /\ pc' = "idle" /\ file' = file
    BY DEF Crash
  <1>2. RunningNow # Down /\ RunningNow' = Down /\ UNCHANGED DurableNow
    BY <1>1, MappedFacts DEF Mapped, RunningNow, DurableNow, Startable, Loaded
  <1>3. Durable!Stop
    BY <1>1, <1>2 DEF Durable!Stop, RunningNow, DurableNow, Settings
  <1> QED
    BY <1>3 DEF Durable!Next

LEMMA ScopeFacts ==
    /\ \A k \in Keys : [keys |-> {k}, windows |-> {k}, settings |-> {}] \in RequestScopes
    /\ [keys |-> SystemKeys, windows |-> {}, settings |-> {"title"}] \in RequestScopes
    /\ [keys |-> {}, windows |-> {}, settings |-> {"interval"}] \in RequestScopes
    /\ [keys |-> {}, windows |-> {}, settings |-> {"webhook"}] \in RequestScopes
  BY DEF RequestScopes

LEMMA RequestMaps ==
    ASSUME IInv, IInv',
           \/ BadRequest
           \/ \E kind \in ItemKinds, id \in Ids :
                 DeleteMonitor(kind, id) \/ \E form \in Forms : AddMonitor(kind, id, form)
           \/ \E title \in Titles, form \in [SystemKeys -> Forms] : UpdateSystem(title, form)
           \/ \E i \in Intervals : UpdateInterval(i)
           \/ \E w \in Webhooks : UpdateWebhook(w)
    PROVE  Durable!Next
  <1>1. up /\ up' /\ pc = "idle" /\ file' = file
    <2>1. CASE BadRequest
      BY <2>1 DEF BadRequest, Request
    <2>2. ASSUME NEW kind \in ItemKinds, NEW id \in Ids,
                 DeleteMonitor(kind, id) \/ \E form \in Forms : AddMonitor(kind, id, form)
          PROVE  Request /\ UNCHANGED <<up, file>>
      BY <2>2 DEF DeleteMonitor, AddMonitor
    <2>3. ASSUME NEW title \in Titles, NEW form \in [SystemKeys -> Forms],
                 UpdateSystem(title, form)
          PROVE  Request /\ UNCHANGED <<up, file>>
      BY <2>3 DEF UpdateSystem
    <2>4. CASE \E i \in Intervals : UpdateInterval(i)
      BY <2>4 DEF UpdateInterval, Request
    <2>5. CASE \E w \in Webhooks : UpdateWebhook(w)
      BY <2>5 DEF UpdateWebhook, Request
    <2> QED
      BY <2>1, <2>2, <2>3, <2>4, <2>5 DEF Request
  <1>2. ASSUME NEW scope \in RequestScopes,
               \A k \in Keys \ scope.keys : monitors'[k] = monitors[k]
                                            /\ maintenance'[k] = maintenance[k],
               \A k \in Keys \ scope.windows : maintenance'[k] = maintenance[k],
               "interval" \in scope.settings \/ period' = period,
               "title" \in scope.settings \/ config'.title = config.title,
               "webhook" \in scope.settings \/ config'.webhook = config.webhook
        PROVE  Durable!Next
    <2>1. \A k \in Keys \ scope.keys : Running(k)' = Running(k)
      BY <1>2 DEF Running
    <2>2. \A f \in {"interval", "title", "webhook"} \ scope.settings :
             Settings'[f] = Settings[f]
      BY <1>2 DEF Settings
    <2> QED
      BY <1>1, <1>2, <2>1, <2>2, ChangeMaps
  <1>3. CASE BadRequest
    <2> DEFINE scope == [keys |-> {}, windows |-> {}, settings |-> {"interval"}]
    <2>1. scope \in RequestScopes /\ UNCHANGED <<monitors, maintenance, period, config>>
      BY <1>3, ScopeFacts DEF BadRequest
    <2> HIDE DEF scope
    <2> QED
      BY <1>2, <2>1
  <1>4. ASSUME NEW kind \in ItemKinds, NEW id \in Ids,
               DeleteMonitor(kind, id) \/ \E form \in Forms : AddMonitor(kind, id, form)
        PROVE  Durable!Next
    <2> DEFINE k == <<kind, Sanitise[id]>>
               scope == [keys |-> {k}, windows |-> {k}, settings |-> {}]
    <2>1. scope \in RequestScopes /\ scope.keys = {k} /\ scope.windows = {k}
      BY ScopeFacts, SystemFacts
    <2>2. /\ \/ UNCHANGED monitors
             \/ \E m : monitors' = [monitors EXCEPT ![k] = m]
          /\ \/ UNCHANGED maintenance
             \/ \E w : maintenance' = [maintenance EXCEPT ![k] = w]
          /\ UNCHANGED <<period, config>>
      BY <1>4 DEF DeleteMonitor, AddMonitor
    <2> HIDE DEF k, scope
    <2>3. \A j \in Keys \ scope.keys : monitors'[j] = monitors[j]
                                       /\ maintenance'[j] = maintenance[j]
      BY <2>1, <2>2 DEF IInv, TypeOK
    <2> QED
      BY <1>2, <2>1, <2>2, <2>3
  <1>5. ASSUME NEW title \in Titles, NEW form \in [SystemKeys -> Forms],
               UpdateSystem(title, form)
        PROVE  Durable!Next
    <2> DEFINE scope == [keys |-> SystemKeys, windows |-> {}, settings |-> {"title"}]
    <2>1. /\ scope \in RequestScopes /\ scope.keys = SystemKeys
          /\ "title" \in scope.settings
      BY ScopeFacts
    <2>2. \A j \in Keys \ SystemKeys : monitors'[j] = monitors[j]
      <3>1. Applied(form) \subseteq SystemKeys
        BY SystemFacts DEF Applied
      <3> QED
        BY <1>5, <3>1 DEF UpdateSystem
    <2>3. /\ UNCHANGED <<maintenance, period>>
          /\ config' = [config EXCEPT !.title = title]
      BY <1>5 DEF UpdateSystem, SystemWindows
    <2>4. config'.webhook = config.webhook
      BY <2>3 DEF IInv, TypeOK, Content
    <2> HIDE DEF scope
    <2> QED
      BY <1>2, <2>1, <2>2, <2>3, <2>4
  <1>6. CASE \E i \in Intervals : UpdateInterval(i)
    <2> DEFINE scope == [keys |-> {}, windows |-> {}, settings |-> {"interval"}]
    <2>1. /\ scope \in RequestScopes /\ "interval" \in scope.settings
          /\ UNCHANGED <<monitors, maintenance, config>>
      BY <1>6, ScopeFacts DEF UpdateInterval
    <2> HIDE DEF scope
    <2> QED
      BY <1>2, <2>1
  <1>7. CASE \E w \in Webhooks : UpdateWebhook(w)
    <2> DEFINE scope == [keys |-> {}, windows |-> {}, settings |-> {"webhook"}]
    <2>1. /\ scope \in RequestScopes /\ "webhook" \in scope.settings
          /\ UNCHANGED <<monitors, maintenance, period>>
          /\ \E w \in Webhooks : config' = [config EXCEPT !.webhook = w]
      BY <1>7, ScopeFacts DEF UpdateWebhook
    <2>2. config'.title = config.title
      BY <2>1 DEF IInv, TypeOK, Content
    <2> HIDE DEF scope
    <2> QED
      BY <1>2, <2>1, <2>2
  <1> QED
    BY <1>3, <1>4, <1>5, <1>6, <1>7

\* What a complete save writes is an image of what runs.
LEMMA WrittenIsImage ==
    ASSUME IInv, up, Rebuilt, NEW o \in Orders
    PROVE  Durable!Image(Effective(Written(o)), RunningNow)
  <1> DEFINE c == Written(o)
             d == Effective(c)
  <1>1. /\ RunningNow.items = [k \in Keys |-> Running(k)] /\ RunningNow.settings = Settings
    BY MappedFacts DEF Mapped
  <1>2. /\ \A k \in Keys : c.entries[k] = WrittenEntry(k, o)
        /\ c.interval = period /\ c.title = config.title /\ c.webhook = config.webhook
    BY WrittenFacts
  <1> HIDE DEF c
  <1>3. d.settings = RunningNow.settings
    BY <1>1, <1>2 DEF Effective, Settings
  <1>4. \A k \in Keys : RunningNow.items[k] = Running(k)
    BY <1>1
  <1> HIDE DEF d
  <1>5. ASSUME NEW k \in Keys
        PROVE  Durable!Carried(d, RunningNow, k)
    <2> DEFINE same == Durable!RunningAs(RunningNow, k)
    <2>1. /\ same \subseteq Keys
          /\ \A j \in Keys : j \in same <=> Fold(j) = k /\ monitors[j] # None
      BY <1>4, RunningFacts DEF Durable!RunningAs
    <2> HIDE DEF same
    <2>2. CASE WrittenEntry(k, o) = None
      <3>1. d.items[k] = None
        BY <1>2, <2>2 DEF d, Effective
      <3>2. same = {}
        BY <2>1, <2>2, WrittenEntryFacts
      <3> QED
        BY <3>1, <3>2 DEF Durable!Carried, same
    <2>3. CASE WrittenEntry(k, o) # None
      <3>1. PICK i \in Keys, j \in Keys :
               /\ Fold(i) = k /\ monitors[i] # None
               /\ Fold(j) = k /\ monitors[j] # None
               /\ WrittenEntry(k, o) = [alert |-> monitors[i].alert,
                                        arg |-> monitors[i].arg,
                                        window |-> maintenance[j]]
        BY <2>3, WrittenEntryFacts
      <3>2. i \in same /\ j \in same
        BY <2>1, <3>1
      <3>3. /\ AtLeastOne(monitors[i].alert) = monitors[i].alert
            /\ Sound(i, monitors[i]) /\ i[1] = k[1]
            /\ Running(i) = [alert |-> monitors[i].alert, arg |-> monitors[i].arg,
                             window |-> maintenance[i]]
            /\ Running(j).window = maintenance[j]
        BY <3>1, RunningFacts, KeyFacts
      <3>4. Argument(k, WrittenEntry(k, o)) = monitors[i].arg
        BY <3>1, <3>3 DEF Argument, Sound
      <3>5. d.items[k] = [alert |-> monitors[i].alert, arg |-> monitors[i].arg,
                          window |-> maintenance[j]]
        BY <1>2, <2>3, <3>1, <3>3, <3>4 DEF d, Effective
      <3>6. d.items[k] = [RunningNow.items[i] EXCEPT !.window = RunningNow.items[j].window]
        BY <1>4, <3>1, <3>3, <3>5
      <3>7. \E x, y \in same : d.items[k] = [RunningNow.items[x] EXCEPT
                                               !.window = RunningNow.items[y].window]
        BY <3>2, <3>6
      <3> QED
        BY <3>2, <3>7 DEF Durable!Carried, same
    <2> QED
      BY <2>2, <2>3
  <1> QED
    BY <1>3, <1>5 DEF Durable!Image, c, d

\* What a start makes of a part of the text, or of none of it, is a remnant of
\* that image.
LEMMA CutIsRemnant ==
    ASSUME IInv, up, Rebuilt, NEW text \in Texts, NEW f \in Content, Accepted(f),
           NEW end \in TextEnds, Cut(f, text, end)
    PROVE  Durable!Remnant(Effective(f), RunningNow)
  <1> DEFINE d == Effective(f)
             r == RunningNow
             def == Effective(Defaults)
             spoilt == {k \in Keys : d.items[k] # def.items[k] /\ ~Durable!Carried(d, r, k)}
             changed == {x \in DOMAIN r.settings :
                           d.settings[x] \notin {def.settings[x], r.settings[x]}}
  <1>1. /\ text \in Content /\ Durable!Image(Effective(text), r)
        /\ text.interval = period /\ text.title = config.title
        /\ text.webhook = config.webhook
    BY WrittenFacts, WrittenIsImage DEF Texts
  <1>2. r.settings = Settings
    BY MappedFacts DEF Mapped
  <1>3. spoilt \subseteq end.keys
    <2>1. ASSUME NEW k \in Keys, k \notin end.keys
          PROVE  d.items[k] = def.items[k] \/ Durable!Carried(d, r, k)
      <3>1. CASE f.entries[k] = Defaults.entries[k]
        BY <3>1 DEF Effective
      <3>2. CASE f.entries[k] = text.entries[k]
        <4>1. d.items[k] = Effective(text).items[k]
          BY <3>2 DEF Effective
        <4>2. Durable!Carried(Effective(text), r, k)
          BY <1>1 DEF Durable!Image
        <4> QED
          BY <4>1, <4>2 DEF Durable!Carried
      <3> QED
        BY <2>1, <3>1, <3>2 DEF Cut
    <2> QED
      BY <2>1
  <1>4. changed \subseteq end.settings
    <2>1. /\ DOMAIN r.settings = {"interval", "title", "webhook"}
          /\ r.settings.interval = text.interval /\ r.settings.title = text.title
          /\ r.settings.webhook = text.webhook
      BY <1>1, <1>2 DEF Settings
    <2>2. /\ d.settings.interval = f.interval /\ d.settings.title = f.title
          /\ d.settings.webhook = f.webhook /\ def.settings.interval = Defaults.interval
          /\ def.settings.title = Defaults.title /\ def.settings.webhook = Defaults.webhook
      BY DEF Effective
    <2> HIDE DEF d, def, r
    <2> QED
      BY <2>1, <2>2 DEF Cut
  <1>5. ASSUME NEW k \in spoilt, d.items[k] # None
        PROVE  def.items[k] # None \/ Durable!RunningAs(r, k) # {}
    <2>1. f.entries[k] # None /\ k \in Keys
      BY <1>5 DEF Effective
    <2>2. CASE Defaults.entries[k] # None
      <3>1. /\ Effective(Defaults).items[k] \in Entry
        <4>1. Defaults.entries[k] \in Entry
          BY <2>1, <2>2, NoFile, EntryFacts
        <4>2. /\ AtLeastOne(Defaults.entries[k].alert) \in Nat
              /\ Argument(k, Defaults.entries[k]) \in Args
          BY <4>1 DEF Entry, AtLeastOne, Argument, Args
        <4> QED
          BY <2>1, <2>2, <4>1, <4>2 DEF Effective, Entry
      <3> QED
        BY <3>1, FormsAssumption
    <2>3. CASE text.entries[k] # None
      <3>1. Effective(text).items[k] # None
        <4>1. text.entries[k] \in Entry
          BY <1>1, <2>1, <2>3, EntryFacts
        <4>2. /\ AtLeastOne(text.entries[k].alert) \in Nat
              /\ Argument(k, text.entries[k]) \in Args
          BY <4>1 DEF Entry, AtLeastOne, Argument, Args
        <4>3. Effective(text).items[k] \in Entry
          BY <2>1, <2>3, <4>1, <4>2 DEF Effective, Entry
        <4> QED
          BY <4>3, FormsAssumption
      <3>2. Durable!Carried(Effective(text), r, k)
        BY <1>1, <2>1 DEF Durable!Image
      <3> QED
        BY <3>1, <3>2 DEF Durable!Carried
    <2> QED
      BY <2>1, <2>2, <2>3 DEF Cut
  <1> QED
    BY <1>3, <1>4, <1>5 DEF Durable!Remnant

\* An empty file leaves the defaults.
LEMMA DefaultsAreRemnant ==
    ASSUME IInv, up
    PROVE  Durable!Remnant(Effective(Defaults), RunningNow)
  <1>1. DOMAIN RunningNow.settings = {"interval", "title", "webhook"}
    BY MappedFacts DEF Mapped, Settings
  <1>2. \E end \in TextEnds : TRUE
    BY EndFacts
  <1> QED
    BY <1>1, <1>2 DEF Durable!Remnant

LEMMA SaveMaps ==
    ASSUME IInv,
           SaveToConfig \/ OpenFails \/ Truncate \/ WritePart \/ WriteFile \/ WriteFails
    PROVE  [Durable!Next]_(Durable!vars)
  <1>1. /\ pc \in {"save", "open", "write"} /\ up /\ up'
        /\ UNCHANGED <<monitors, maintenance, period>>
        /\ config'.title = config.title /\ config'.webhook = config.webhook
    BY DEF IInv, TypeOK, Content, SaveToConfig, OpenFails, Truncate, WritePart,
       WriteFile, WriteFails
  <1>2. UNCHANGED RunningNow
    BY <1>1 DEF RunningNow, Running, Settings
  <1>3. ASSUME UNCHANGED file, pc' # "idle"
        PROVE  UNCHANGED Durable!vars
    <2>1. UNCHANGED DurableNow
      BY <1>3 DEF DurableNow, Startable, Loaded
    <2>2. UNCHANGED (pc # "idle")
      BY <1>1, <1>3
    <2> QED
      BY <1>2, <2>1, <2>2 DEF Durable!vars, RunningNow, DurableNow, Settings
  <1>4. ASSUME UNCHANGED file, pc' = "idle"
        PROVE  Durable!GiveUp
    <2>1. UNCHANGED DurableNow
      BY <1>4 DEF DurableNow, Startable, Loaded
    <2> QED
      BY <1>1, <1>2, <1>4, <2>1 DEF Durable!GiveUp, RunningNow, DurableNow, Settings
  <1>5. ASSUME \/ file' = Torn
               \/ /\ Startable(file') /\ Loaded(file') \in Content
                  /\ Durable!Remnant(Effective(Loaded(file')), RunningNow)
        PROVE  Durable!Lose
    <2>1. DurableNow' = Unreadable \/ Durable!Remnant(DurableNow', RunningNow)
      BY <1>5, NoFile DEF DurableNow, Startable, Loaded
    <2> QED
      BY <1>1, <1>2, <2>1 DEF Durable!Lose, RunningNow, DurableNow, Settings
  <1>6. ASSUME pc = "write", pc' = "idle", NEW o \in Orders, file' = Written(o)
        PROVE  Durable!Commit
    <2>1. Rebuilt
      BY <1>6 DEF IInv, ConfigKept
    <2>2. Written(o) \in Content /\ Startable(Written(o))
      BY <1>1, <2>1, WrittenFacts
    <2>3. /\ Loaded(Written(o)) = Written(o)
          /\ Effective(Written(o)) # Unreadable
      BY <2>2, ContentFields, EffectiveFacts
    <2>4. DurableNow' = Effective(Written(o))
      BY <1>6, <2>2, <2>3 DEF DurableNow, Startable, Loaded
    <2>5. Durable!Image(DurableNow', RunningNow)
      BY <1>1, <2>1, <2>4, WrittenIsImage
    <2>6. DurableNow' # Unreadable
      BY <2>3, <2>4
    <2> QED
      BY <1>1, <1>2, <1>6, <2>5, <2>6 DEF Durable!Commit, RunningNow, DurableNow, Settings
  <1>7. CASE SaveToConfig
    BY <1>3, <1>7 DEF SaveToConfig
  <1>8. CASE OpenFails
    BY <1>4, <1>8 DEF OpenFails, Durable!Next
  <1>9. CASE Truncate
    <2>1. Durable!Remnant(Effective(Defaults), RunningNow)
      BY <1>1, DefaultsAreRemnant
    <2> QED
      BY <1>5, <1>9, <2>1, NoFile DEF Truncate, Durable!Next
  <1>10. CASE WritePart
    <2>1. PICK text \in Texts : file' \in CutShort(text)
      BY <1>10 DEF WritePart
    <2>2. CASE file' = Torn
      BY <1>5, <2>2 DEF Durable!Next
    <2>3. CASE file' # Torn
      <3>1. Rebuilt
        BY <1>10 DEF WritePart, IInv, ConfigKept
      <3>2. PICK end \in TextEnds : /\ Cut(file', text, end) /\ file' \in Content
                                    /\ Startable(file')
        BY <1>1, <2>1, <2>3, <3>1, CutShortFacts
      <3>3. Loaded(file') = file' /\ Accepted(file')
        BY <3>2, ContentFields
      <3>4. Durable!Remnant(Effective(file'), RunningNow)
        BY <1>1, <3>1, <3>2, <3>3, CutIsRemnant
      <3> QED
        BY <1>5, <3>2, <3>3, <3>4 DEF Durable!Next
    <2> QED
      BY <2>2, <2>3
  <1>11. CASE WriteFile
    BY <1>6, <1>11 DEF WriteFile, Texts, Durable!Next
  <1>12. CASE WriteFails
    <2>1. pc = "write" /\ pc' = "idle" /\ file' \in {file} \union Texts
      BY <1>12 DEF WriteFails
    <2>2. CASE file' = file
      BY <1>4, <2>1, <2>2 DEF Durable!Next
    <2>3. CASE file' \in Texts
      BY <1>6, <2>1, <2>3 DEF Texts, Durable!Next
    <2> QED
      BY <2>1, <2>2, <2>3
  <1> QED
    BY <1>7, <1>8, <1>9, <1>10, <1>11, <1>12

LEMMA InitMaps == Init => Durable!Init
  <1> SUFFICES ASSUME Init PROVE Durable!Init
    OBVIOUS
  <1>1. Startable(file) /\ file \in Content \union {Absent}
    BY FilesAssumption DEF Init
  <1>2. Loaded(file) \in Content /\ Accepted(Loaded(file))
    BY <1>1, NoFile, ContentFields DEF Startable
  <1>3. DurableNow # Unreadable
    BY <1>1, <1>2, EffectiveFacts DEF DurableNow
  <1>4. RunningNow = Down /\ pc = "idle"
    BY DEF Init, RunningNow
  <1> QED
    BY <1>3, <1>4 DEF Durable!Init, RunningNow, DurableNow, Settings

LEMMA NextMaps == IInv /\ IInv' /\ [Next]_vars => [Durable!Next]_(Durable!vars)
  <1> SUFFICES ASSUME IInv, IInv', [Next]_vars PROVE [Durable!Next]_(Durable!vars)
    OBVIOUS
  <1>1. CASE Start \/ Crash
    BY <1>1, StartMaps, CrashMaps
  <1>2. CASE SaveToConfig \/ OpenFails \/ Truncate \/ WritePart \/ WriteFile \/ WriteFails
    BY <1>2, SaveMaps
  <1>3. CASE UNCHANGED vars
    <2>1. UNCHANGED <<RunningNow, DurableNow, pc>>
      BY <1>3 DEF vars, RunningNow, DurableNow, Running, Settings, Startable, Loaded
    <2> QED
      BY <2>1 DEF Durable!vars, RunningNow, DurableNow, Settings
  <1> QED
    BY <1>1, <1>2, <1>3, RequestMaps DEF Next

\* Service.Save, Loader.Save, Load and SetConfig together implement the
\* abstract store, for all names, kinds and ways names fold: whatever comes
\* between two steps of a save, a restart brings back the last complete one, or
\* a part of the one under way with defaults for the rest, but for what the end
\* of the text spoilt, or nothing readable.
THEOREM ImplementsDurableConfigHolds == Spec => ImplementsDurableConfig
  <1>1. Init /\ [][Next]_vars => Durable!Init /\ [][Durable!Next]_(Durable!vars)
    BY InitMaps, NextMaps, Invariance, PTL DEF Spec
  <1> QED
    BY <1>1 DEF Spec, ImplementsDurableConfig, Durable!Spec
=============================================================================
