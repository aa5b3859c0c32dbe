------------------------------ MODULE CpuUsage ------------------------------
(***************************************************************************)
(* The cpu monitor.  Its result is the share of busy time between two      *)
(* readings of the machine's cpu times, and the earlier one is kept in the *)
(* monitor's provider: a result depends on when the check before it looked.*)
(* Checks of one provider overlap (Add starts one, every cycle another),   *)
(* the system form replaces the provider, and reading the times may fail.  *)
(***************************************************************************)
EXTENDS Status, Integers, FiniteSets

CONSTANTS
    Providers,    \* providers that can be referred to at a time (bound)
    Checks,       \* goroutines that can run a check at a time (bound)
    Thresholds,   \* of the cpu monitor, in percent; nothing bounds them
    Boot,         \* the cpu times when the process starts
    MaxTicks,     \* bound on the cpu time that passes
    None

ASSUME ConstantsAssumption ==
    /\ Thresholds \subseteq Int
    /\ Boot \in [busy : Nat, idle : Nat]
    /\ MaxTicks \in Nat /\ Boot.busy + Boot.idle <= MaxTicks
    /\ None \notin Providers \union Checks

VARIABLES
    times,     \* the machine's cpu times: ticks spent busy, ticks spent idle
    cpu,       \* the provider of the registered monitor
    threshold, \* the threshold of each provider's monitor
    prev,      \* prevCPUTimes of each provider
    mu,        \* the check that holds each provider's mutex
    chk,       \* each check: where it is, its provider, what it has read
    since,     \* history: kinds of time passed since each provider's reading
    reading    \* history: the last result, the threshold and the kinds of
               \* time it is of

vars == <<times, cpu, threshold, prev, mu, chk, since, reading>>
env == <<times, cpu, threshold>>

Kinds == {"busy", "idle"}
NoTimes == [busy |-> 0, idle |-> 0]

IdleCheck ==
    [pc |-> "idle", impl |-> None, times |-> NoTimes, usage |-> 0, kinds |-> {}]
InFlight(p) == {s \in Checks : chk[s].impl = p}

Init ==
    /\ times = Boot
    /\ cpu \in Providers
    /\ threshold \in [Providers -> Thresholds]
    /\ prev = [p \in Providers |-> Boot]
    /\ mu = [p \in Providers |-> None]
    /\ chk = [s \in Checks |-> IdleCheck]
    /\ since = [p \in Providers |-> {}]
    /\ reading = None

\* The machine spends a tick of time.
TimePasses(kind) ==
    /\ times.busy + times.idle < MaxTicks
    /\ times' = [times EXCEPT ![kind] = @ + 1]
    /\ since' = [p \in Providers |-> since[p] \union {kind}]
    /\ UNCHANGED <<cpu, threshold, prev, mu, chk, reading>>

\* Goroutine s starts a check with provider p.
Start(s, p) ==
    /\ chk[s].pc = "idle"
    /\ chk' = [chk EXCEPT ![s] = [IdleCheck EXCEPT !.pc = "lock", !.impl = p]]

\* NewCpu makes a provider, whose first reading is its baseline. If that one
\* fails, the zero value is: the next reading is of all time since the boot.
NewCpu(p) ==
    /\ p # cpu /\ InFlight(p) = {}
    /\ cpu' = p
    /\ \E t \in Thresholds : threshold' = [threshold EXCEPT ![p] = t]
    /\ \/ /\ prev' = [prev EXCEPT ![p] = times]
          /\ since' = [since EXCEPT ![p] = {}]
       \/ /\ prev' = [prev EXCEPT ![p] = NoTimes]
          /\ since' = [since EXCEPT ![p] = {k \in Kinds : times[k] > 0}]

\* The system form, or SetConfig: a new monitor is added and checked at once.
Edit(p, s) ==
    /\ NewCpu(p)
    /\ Start(s, p)
    /\ UNCHANGED <<times, mu, reading>>

\* A cycle checks the registered monitor.
Cycle(s) ==
    /\ Start(s, cpu)
    /\ UNCHANGED <<env, prev, mu, since, reading>>

-----------------------------------------------------------------------------
(* Usage, and Check around it. *)

\* Mutant: Usage without its mutex.
UsageUnlocked(s) ==
    /\ chk[s].pc = "lock"
    /\ chk' = [chk EXCEPT ![s].pc = "read"]
    /\ UNCHANGED <<env, prev, mu, since, reading>>

Lock(s) ==
    /\ chk[s].pc = "lock"
    /\ mu[chk[s].impl] = None
    /\ mu' = [mu EXCEPT ![chk[s].impl] = s]
    /\ chk' = [chk EXCEPT ![s].pc = "read"]
    /\ UNCHANGED <<env, prev, since, reading>>

ReadTimes(s) ==
    /\ chk[s].pc = "read"
    /\ chk' = [chk EXCEPT ![s].pc = "compute", ![s].times = times,
                          ![s].kinds = since[chk[s].impl]]
    /\ since' = [since EXCEPT ![chk[s].impl] = {}]
    /\ UNCHANGED <<env, prev, mu, reading>>

\* The deferred unlock, and the result of Check.
Return(s, status) ==
    /\ mu' = [p \in Providers |-> IF mu[p] = s THEN None ELSE mu[p]]
    /\ reading' = [status |-> status, usage |-> chk[s].usage,
                   kinds |-> chk[s].kinds, limit |-> threshold[chk[s].impl]]
    /\ chk' = [chk EXCEPT ![s] = IdleCheck]

\* The cpu times, or the load average, cannot be had.
ReadFails(s) ==
    /\ chk[s].pc = "read"
    /\ Return(s, RAGError)
    /\ UNCHANGED <<env, prev, since>>

Total(t) == t.busy + t.idle

\* Mutant: the busy time is not taken since the previous reading.
BusySinceBoot(current, previous) ==
    LET total == Total(current) - Total(previous)
    IN  IF total > 0 THEN (1000 * current.busy) \div total ELSE 0

\* The busy share in tenths of a percent; zero if no time has passed.
CpuPercentage(current, previous) ==
    LET total == Total(current) - Total(previous)
    IN  IF total > 0
        THEN (1000 * (current.busy - previous.busy)) \div total ELSE 0

Compute(s) ==
    /\ chk[s].pc = "compute"
    /\ chk' = [chk EXCEPT ![s].pc = "store",
         ![s].usage = CpuPercentage(chk[s].times, prev[chk[s].impl])]
    /\ UNCHANGED <<env, prev, mu, since, reading>>

StoreAndReturn(s) ==
    LET p == chk[s].impl
    IN  /\ chk[s].pc = "store"
        /\ prev' = [prev EXCEPT ![p] = chk[s].times]
        /\ Return(s, UsageStatus(chk[s].usage, threshold[p]))
        /\ UNCHANGED <<env, since>>

Usage(s) == \/ Lock(s)
            \/ ReadTimes(s)
            \/ ReadFails(s)
            \/ Compute(s)
            \/ StoreAndReturn(s)

Next ==
    \/ \E kind \in Kinds : TimePasses(kind)
    \/ \E p \in Providers, s \in Checks : Edit(p, s)
    \/ \E s \in Checks : Cycle(s)
    \/ \E s \in Checks : Usage(s)

Spec == Init /\ [][Next]_vars

-----------------------------------------------------------------------------
(* Properties *)

Times == [busy : 0..MaxTicks, idle : 0..MaxTicks]

CheckType ==
    [pc : {"idle", "lock", "read", "compute", "store"},
     impl : Providers \union {None}, times : Times, usage : 0..1000,
     kinds : SUBSET Kinds]

\* Every variable has its type; the usage is a share, from nothing to a hundred
\* percent, although it is a quotient of differences (cpu.go:125-132).
TypeOK ==
    /\ times \in Times /\ cpu \in Providers
    /\ threshold \in [Providers -> Thresholds]
    /\ prev \in [Providers -> Times]
    /\ mu \in [Providers -> Checks \union {None}]
    /\ chk \in [Checks -> CheckType]
    /\ since \in [Providers -> SUBSET Kinds]
    /\ reading # None => reading \in
          [status : RAG, usage : 0..1000, kinds : SUBSET Kinds, limit : Thresholds]

\* However checks overlap, fail and are replaced, each result is about the time
\* since the provider's last reading and about all of it: if the machine was
\* busy at every tick of that time the result is red, unless the threshold is
\* more than a hundred, if it was idle green, unless it is zero or less, and if
\* it was both the usage is not the whole. The mutex is held from the reading
\* of the times to their store (cpu.go:83-103), and a reading that fails leaves
\* its time to the next one.
LoadIsSeen ==
    reading # None /\ reading.status # RAGError =>
        /\ reading.kinds = {"busy"} /\ reading.limit <= 100 => reading.status = RAGRed
        /\ reading.kinds = {"idle"} /\ reading.limit > 0 => reading.status = RAGGreen
        /\ reading.kinds = Kinds => reading.usage < 1000
=============================================================================
