--------------------------- MODULE CpuUsageProofs ---------------------------
(***************************************************************************)
(* What is proved of CpuUsage for every set of providers and checks, every *)
(* threshold and every amount of time.                                     *)
(***************************************************************************)
EXTENDS CpuUsage, TLAPS

-----------------------------------------------------------------------------
(* The percentage *)

\* Time only passes: Before(t, u) when t was read no later than u.
Before(t, u) == t.busy <= u.busy /\ t.idle <= u.idle

\* The kinds of time that passed between two readings.
Elapsed(t, u) == {k \in Kinds : t[k] < u[k]}

\* A share of a positive total is between nothing and a thousand tenths, and
\* only the whole is all of it.
LEMMA ShareIsBounded ==
    ASSUME NEW b \in Nat, NEW t \in Nat, 0 < t, b <= t
    PROVE  /\ (1000 * b) \div t \in 0..1000
           /\ b = 0 => (1000 * b) \div t = 0
           /\ b = t => (1000 * b) \div t = 1000
           /\ b < t => (1000 * b) \div t < 1000
  OBVIOUS

\* The percentage of the time between two readings: what it is for a machine
\* that was busy throughout, idle throughout, or both.
LEMMA PercentageOfElapsed ==
    ASSUME NEW t \in Times, NEW u \in Times, Before(t, u)
    PROVE  /\ CpuPercentage(u, t) \in 0..1000
           /\ Elapsed(t, u) = {"busy"} => CpuPercentage(u, t) = 1000
           /\ Elapsed(t, u) = {"idle"} => CpuPercentage(u, t) = 0
           /\ Elapsed(t, u) = Kinds => CpuPercentage(u, t) < 1000
  <1> DEFINE b == u.busy - t.busy
             i == u.idle - t.idle
             n == Total(u) - Total(t)
  <1>1. /\ t.busy \in Nat /\ t.idle \in Nat /\ u.busy \in Nat /\ u.idle \in Nat
    BY ConstantsAssumption DEF Times
  <1>2. b \in Nat /\ i \in Nat /\ n = b + i
    BY <1>1 DEF Before, Total
  <1>3. /\ "busy" \in Elapsed(t, u) <=> b > 0
        /\ "idle" \in Elapsed(t, u) <=> i > 0
    BY <1>1 DEF Elapsed, Kinds
  <1>4. CpuPercentage(u, t) = IF n > 0 THEN (1000 * b) \div n ELSE 0
    BY DEF CpuPercentage
  <1> HIDE DEF b, i, n
  <1>5. CASE n > 0
    <2>1. /\ (1000 * b) \div n \in 0..1000
          /\ b = 0 => (1000 * b) \div n = 0
          /\ b = n => (1000 * b) \div n = 1000
          /\ b < n => (1000 * b) \div n < 1000
      BY <1>2, <1>5, ShareIsBounded
    <2>2. /\ Elapsed(t, u) = {"busy"} => b = n
          /\ Elapsed(t, u) = {"idle"} => b = 0
          /\ Elapsed(t, u) = Kinds => b < n
      BY <1>2, <1>3 DEF Kinds
    <2> QED
      BY <1>4, <1>5, <2>1, <2>2
  <1>6. CASE ~(n > 0)
    <2>1. "busy" \notin Elapsed(t, u) /\ "idle" \notin Elapsed(t, u)
      BY <1>2, <1>3, <1>6
    <2> QED
      BY <1>4, <1>6, <2>1 DEF Kinds
  <1> QED
    BY <1>5, <1>6, <1>2

-----------------------------------------------------------------------------
(* The inductive invariant *)

\* The machine's total cpu time is within the bound of the model.
Clock == times \in Times /\ times.busy + times.idle <= MaxTicks

\* A check that is under way has a provider, and holds its mutex from the
\* reading of the times on.
HoldsMutex ==
    \A s \in Checks :
        /\ chk[s].pc # "idle" => chk[s].impl \in Providers
        /\ chk[s].pc \in {"read", "compute", "store"} => mu[chk[s].impl] = s

\* What a check that has read the times carries: they are between the baseline
\* of its provider and now, and the history agrees with both differences.
ReadingInHand(s) ==
    LET p == chk[s].impl
    IN  /\ Before(prev[p], chk[s].times) /\ Before(chk[s].times, times)
        /\ chk[s].kinds = Elapsed(prev[p], chk[s].times)
        /\ since[p] = Elapsed(chk[s].times, times)
        /\ chk[s].pc = "store" =>
              chk[s].usage = CpuPercentage(chk[s].times, prev[p])

InHand(s) == chk[s].pc \in {"compute", "store"}

\* A provider none of whose checks has a reading in hand: its history is that
\* of the time since its baseline.
BaselineHolds(p) ==
    (\A s \in Checks : InHand(s) => chk[s].impl # p) =>
        /\ Before(prev[p], times)
        /\ since[p] = Elapsed(prev[p], times)

ReadingsAgree ==
    /\ \A s \in Checks : InHand(s) => ReadingInHand(s)
    /\ \A p \in Providers : BaselineHolds(p)

IInv == TypeOK /\ Clock /\ HoldsMutex /\ ReadingsAgree

\* The record of no check.
LEMMA IdleCheckIsTyped == IdleCheck \in CheckType /\ IdleCheck.pc = "idle"
  BY ConstantsAssumption DEF IdleCheck, CheckType, NoTimes, Times, Kinds

LEMMA InitHolds == Init => IInv /\ LoadIsSeen
  <1> SUFFICES ASSUME Init PROVE IInv /\ LoadIsSeen
    OBVIOUS
  <1> USE ConstantsAssumption
  <1>1. Boot \in Times
    BY DEF Times
  <1>2. IdleCheck \in CheckType /\ IdleCheck.pc = "idle"
    BY IdleCheckIsTyped
  <1>3. TypeOK /\ Clock
    BY <1>1, <1>2 DEF Init, TypeOK, Clock
  <1>4. HoldsMutex
    BY <1>2 DEF Init, HoldsMutex
  <1>5. ReadingsAgree
    <2>1. Before(Boot, Boot) /\ Elapsed(Boot, Boot) = {}
      BY <1>1 DEF Before, Elapsed, Kinds, Times
    <2> QED
      BY <1>2, <2>1 DEF Init, ReadingsAgree, InHand, BaselineHolds
  <1> QED
    BY <1>3, <1>4, <1>5 DEF Init, LoadIsSeen, IInv

\* The record of a check that starts.
LEMMA StartedCheck ==
    ASSUME TypeOK, NEW s \in Checks, NEW p \in Providers, Start(s, p)
    PROVE  /\ chk[s].pc = "idle"
           /\ chk' \in [Checks -> CheckType]
           /\ chk'[s].pc = "lock" /\ chk'[s].impl = p
           /\ \A x \in Checks : x # s => chk'[x] = chk[x]
  <1> DEFINE r == [IdleCheck EXCEPT !.pc = "lock", !.impl = p]
  <1>1. r \in CheckType /\ r.pc = "lock" /\ r.impl = p
    <2>1. IdleCheck \in CheckType
      BY IdleCheckIsTyped
    <2> QED
      BY <2>1 DEF CheckType
  <1>2. chk' = [chk EXCEPT ![s] = r] /\ chk[s].pc = "idle"
    BY DEF Start
  <1> HIDE DEF r
  <1> QED
    BY <1>1, <1>2 DEF TypeOK

\* What Return leaves of a check, and of the mutex it held.
LEMMA ReturnedCheck ==
    ASSUME TypeOK, NEW s \in Checks, NEW status \in RAG, Return(s, status)
    PROVE  /\ chk' \in [Checks -> CheckType]
           /\ chk'[s].pc = "idle"
           /\ \A x \in Checks : x # s => chk'[x] = chk[x]
           /\ mu' \in [Providers -> Checks \union {None}]
           /\ \A p \in Providers : mu[p] # s => mu'[p] = mu[p]
           /\ chk[s].impl \in Providers =>
                reading' \in [status : RAG, usage : 0..1000, kinds : SUBSET Kinds,
                             limit : Thresholds]
  <1>1. IdleCheck \in CheckType /\ IdleCheck.pc = "idle"
    BY IdleCheckIsTyped
  <1>2. chk[s] \in CheckType /\ chk' = [chk EXCEPT ![s] = IdleCheck]
    BY DEF TypeOK, Return
  <1>3. chk[s].usage \in 0..1000 /\ chk[s].kinds \in SUBSET Kinds
    BY <1>2 DEF CheckType
  <1> QED
    BY <1>1, <1>2, <1>3 DEF TypeOK, Return

\* What a new provider is given: a baseline, and the history that goes with it.
LEMMA NewProvider ==
    ASSUME TypeOK, Clock, NEW p \in Providers, NewCpu(p)
    PROVE  /\ p # cpu /\ cpu' = p /\ \A s \in Checks : chk[s].impl # p
           /\ threshold' \in [Providers -> Thresholds]
           /\ prev' \in [Providers -> Times]
           /\ since' \in [Providers -> SUBSET Kinds]
           /\ Before(prev'[p], times) /\ since'[p] = Elapsed(prev'[p], times)
           /\ \A q \in Providers : q # p => prev'[q] = prev[q] /\ since'[q] = since[q]
  <1> USE ConstantsAssumption
  <1>1. times \in Times /\ NoTimes \in Times
    BY DEF TypeOK, NoTimes, Times
  <1>2. /\ p # cpu /\ cpu' = p /\ \A s \in Checks : chk[s].impl # p
        /\ threshold' \in [Providers -> Thresholds]
    BY DEF NewCpu, InFlight, TypeOK
  <1>3. CASE prev' = [prev EXCEPT ![p] = times] /\ since' = [since EXCEPT ![p] = {}]
    <2>1. Before(times, times) /\ Elapsed(times, times) = {}
      BY <1>1 DEF Before, Elapsed, Kinds, Times
    <2> QED
      BY <1>1, <1>2, <1>3, <2>1 DEF TypeOK
  <1>4. CASE /\ prev' = [prev EXCEPT ![p] = NoTimes]
             /\ since' = [since EXCEPT ![p] = {k \in Kinds : times[k] > 0}]
    <2>1. Before(NoTimes, times) /\ Elapsed(NoTimes, times) = {k \in Kinds : times[k] > 0}
      BY <1>1 DEF Before, Elapsed, Kinds, Times, NoTimes
    <2> QED
      BY <1>1, <1>2, <1>4, <2>1 DEF TypeOK
  <1> QED
    BY <1>2, <1>3, <1>4 DEF NewCpu

\* One field of a check's record changes, and possibly two more.
LEMMA ReadTimesEffect ==
    ASSUME IInv, NEW s \in Checks, ReadTimes(s)
    PROVE  /\ chk[s].pc = "read" /\ chk[s].impl \in Providers
           /\ chk' \in [Checks -> CheckType]
           /\ chk'[s].pc = "compute" /\ chk'[s].impl = chk[s].impl
           /\ chk'[s].times = times /\ chk'[s].kinds = since[chk[s].impl]
           /\ \A x \in Checks : x # s => chk'[x] = chk[x]
  <1> DEFINE r == [chk[s] EXCEPT !.pc = "compute", !.times = times,
                                 !.kinds = since[chk[s].impl]]
  <1>1. /\ chk[s] \in CheckType /\ chk[s].pc = "read" /\ chk[s].impl \in Providers
        /\ times \in Times /\ since[chk[s].impl] \in SUBSET Kinds
    BY DEF IInv, TypeOK, HoldsMutex, ReadTimes
  <1>2. /\ r \in CheckType /\ r.pc = "compute" /\ r.impl = chk[s].impl
        /\ r.times = times /\ r.kinds = since[chk[s].impl]
    BY <1>1 DEF CheckType
  <1>3. chk' = [chk EXCEPT ![s] = r]
    BY DEF ReadTimes, IInv, TypeOK
  <1> HIDE DEF r
  <1> QED
    BY <1>1, <1>2, <1>3 DEF IInv, TypeOK

LEMMA ComputeEffect ==
    ASSUME IInv, NEW s \in Checks, Compute(s)
    PROVE  /\ chk[s].pc = "compute" /\ chk[s].impl \in Providers
           /\ chk' \in [Checks -> CheckType]
           /\ chk'[s].pc = "store" /\ chk'[s].impl = chk[s].impl
           /\ chk'[s].times = chk[s].times /\ chk'[s].kinds = chk[s].kinds
           /\ chk'[s].usage = CpuPercentage(chk[s].times, prev[chk[s].impl])
           /\ \A x \in Checks : x # s => chk'[x] = chk[x]
  <1> DEFINE usage == CpuPercentage(chk[s].times, prev[chk[s].impl])
             r == [chk[s] EXCEPT !.pc = "store", !.usage = usage]
  <1>1. /\ chk[s] \in CheckType /\ chk[s].pc = "compute" /\ chk[s].impl \in Providers
        /\ prev[chk[s].impl] \in Times /\ Before(prev[chk[s].impl], chk[s].times)
    BY DEF IInv, TypeOK, HoldsMutex, ReadingsAgree, InHand, ReadingInHand, Compute
  <1>2. chk[s].times \in Times
    BY <1>1 DEF CheckType
  <1>3. usage \in 0..1000
    <2> DEFINE t == prev[chk[s].impl]
               u == chk[s].times
    <2>1. t \in Times /\ u \in Times /\ Before(t, u)
      BY <1>1, <1>2
    <2> HIDE DEF t, u
    <2>2. CpuPercentage(u, t) \in 0..1000
      BY <2>1, PercentageOfElapsed
    <2> QED
      BY <2>2 DEF t, u
  <1>4. chk' = [chk EXCEPT ![s] = r]
    BY DEF Compute, IInv, TypeOK
  <1> HIDE DEF usage
  <1>5. /\ r \in CheckType /\ r.pc = "store" /\ r.impl = chk[s].impl
        /\ r.times = chk[s].times /\ r.kinds = chk[s].kinds /\ r.usage = usage
    BY <1>1, <1>3 DEF CheckType
  <1> HIDE DEF r
  <1>6. chk'[s] = r /\ chk' \in [Checks -> CheckType]
        /\ \A x \in Checks : x # s => chk'[x] = chk[x]
    BY <1>4, <1>5 DEF IInv, TypeOK
  <1> QED
    BY <1>1, <1>5, <1>6 DEF usage

LEMMA LockEffect ==
    ASSUME IInv, NEW s \in Checks, Lock(s)
    PROVE  /\ chk[s].pc = "lock" /\ chk[s].impl \in Providers
           /\ chk' \in [Checks -> CheckType]
           /\ chk'[s].pc = "read" /\ chk'[s].impl = chk[s].impl
           /\ \A x \in Checks : x # s => chk'[x] = chk[x]
           /\ mu[chk[s].impl] = None
           /\ mu' = [mu EXCEPT ![chk[s].impl] = s]
  <1> DEFINE r == [chk[s] EXCEPT !.pc = "read"]
  <1>1. chk[s] \in CheckType /\ chk[s].pc = "lock" /\ chk[s].impl \in Providers
    BY DEF IInv, TypeOK, HoldsMutex, Lock
  <1>2. r \in CheckType /\ r.pc = "read" /\ r.impl = chk[s].impl
    BY <1>1 DEF CheckType
  <1>3. chk' = [chk EXCEPT ![s] = r]
    BY DEF Lock, IInv, TypeOK
  <1> HIDE DEF r
  <1> QED
    BY <1>1, <1>2, <1>3 DEF IInv, TypeOK, Lock

\* A tick of time reaches every history.
LEMMA TickElapsed ==
    ASSUME TypeOK, Clock, NEW kind \in Kinds, TimePasses(kind)
    PROVE  /\ Clock' /\ times' \in Times
           /\ \A t \in Times : Before(t, times) =>
                 /\ Before(t, times')
                 /\ Elapsed(t, times') = Elapsed(t, times) \union {kind}
  <1>1. times \in Times /\ times.busy + times.idle < MaxTicks /\ MaxTicks \in Nat
    BY ConstantsAssumption DEF TypeOK, TimePasses
  <1>2. /\ times' \in [busy : Nat, idle : Nat]
        /\ times'.busy = IF kind = "busy" THEN times.busy + 1 ELSE times.busy
        /\ times'.idle = IF kind = "idle" THEN times.idle + 1 ELSE times.idle
    <2>1. times' = [times EXCEPT ![kind] = @ + 1]
      BY DEF TimePasses
    <2>2. CASE kind = "busy"
      BY <1>1, <2>1, <2>2 DEF Times
    <2>3. CASE kind = "idle"
      BY <1>1, <2>1, <2>3 DEF Times
    <2> QED
      BY <2>2, <2>3 DEF Kinds
  <1>3. times' \in Times /\ times'.busy + times'.idle <= MaxTicks
    BY <1>1, <1>2 DEF Times, Kinds
  <1>4. ASSUME NEW t \in Times, Before(t, times)
        PROVE  /\ Before(t, times')
               /\ Elapsed(t, times') = Elapsed(t, times) \union {kind}
    BY <1>1, <1>2, <1>4 DEF Before, Elapsed, Times, Kinds
  <1> QED
    BY <1>3, <1>4 DEF Clock

\* A check starts, with the registered provider or with a new one.
LEMMA StartStep ==
    ASSUME IInv, NEW s \in Checks, NEW p \in Providers,
           Edit(p, s) \/ (p = cpu /\ Cycle(s))
    PROVE  IInv'
  <1> USE ConstantsAssumption
  <1>1. TypeOK /\ Clock /\ HoldsMutex /\ ReadingsAgree
    BY DEF IInv
  <1>2. /\ Start(s, p) /\ UNCHANGED <<times, mu, reading>>
        /\ NewCpu(p) \/ UNCHANGED <<cpu, threshold, prev, since>>
    BY DEF Edit, Cycle, env
  <1>3. /\ chk[s].pc = "idle"
        /\ chk' \in [Checks -> CheckType]
        /\ chk'[s].pc = "lock" /\ chk'[s].impl = p
        /\ \A x \in Checks : x # s => chk'[x] = chk[x]
    BY <1>1, <1>2, StartedCheck
  <1>4. HoldsMutex'
    BY <1>1, <1>2, <1>3 DEF HoldsMutex
  <1>5. \A x \in Checks : InHand(x)' <=> InHand(x)
    BY <1>3 DEF InHand
  <1>6. CASE UNCHANGED <<cpu, threshold, prev, since>>
    <2>1. \A x \in Checks : InHand(x) => ReadingInHand(x)'
      BY <1>1, <1>2, <1>3, <1>6 DEF ReadingsAgree, InHand, ReadingInHand
    <2>2. \A q \in Providers : BaselineHolds(q)'
      BY <1>1, <1>2, <1>3, <1>5, <1>6 DEF ReadingsAgree, InHand, BaselineHolds
    <2> QED
      BY <1>1, <1>2, <1>3, <1>4, <1>5, <1>6, <2>1, <2>2
         DEF IInv, TypeOK, Clock, ReadingsAgree
  <1>7. CASE NewCpu(p)
    <2>1. /\ cpu' = p /\ \A x \in Checks : chk[x].impl # p
          /\ threshold' \in [Providers -> Thresholds]
          /\ prev' \in [Providers -> Times]
          /\ since' \in [Providers -> SUBSET Kinds]
          /\ Before(prev'[p], times) /\ since'[p] = Elapsed(prev'[p], times)
          /\ \A q \in Providers :
               q # p => prev'[q] = prev[q] /\ since'[q] = since[q]
      BY <1>1, <1>7, NewProvider
    <2>2. ASSUME NEW x \in Checks, InHand(x) PROVE ReadingInHand(x)'
      <3>1. chk[x].impl \in Providers /\ chk[x].impl # p /\ x # s
        BY <1>1, <1>3, <2>1, <2>2 DEF HoldsMutex, InHand
      <3> QED
        BY <1>1, <1>2, <1>3, <2>1, <2>2, <3>1 DEF ReadingsAgree, ReadingInHand
    <2>3. ASSUME NEW q \in Providers PROVE BaselineHolds(q)'
      <3>1. CASE q = p
        BY <1>2, <2>1, <3>1 DEF BaselineHolds
      <3>2. CASE q # p
        BY <1>1, <1>2, <1>3, <1>5, <2>1, <3>2 DEF ReadingsAgree, BaselineHolds, InHand
      <3> QED
        BY <3>1, <3>2
    <2> QED
      BY <1>1, <1>2, <1>3, <1>4, <1>5, <2>1, <2>2, <2>3
         DEF IInv, TypeOK, Clock, ReadingsAgree
  <1> QED
    BY <1>2, <1>6, <1>7

\* Only the check that holds a provider's mutex has a reading of it in hand.
LEMMA OthersInHand ==
    ASSUME HoldsMutex, NEW s \in Checks, NEW x \in Checks, x # s, InHand(x),
           chk[s].pc \in {"read", "compute", "store"}
    PROVE  chk[x].impl # chk[s].impl /\ chk[x].impl \in Providers
  BY DEF HoldsMutex, InHand

LEMMA LockStep ==
    ASSUME IInv, NEW s \in Checks, Lock(s)
    PROVE  IInv'
  <1> USE ConstantsAssumption
  <1>1. TypeOK /\ Clock /\ HoldsMutex /\ ReadingsAgree
    BY DEF IInv
  <1>2. UNCHANGED <<times, cpu, threshold, prev, since, reading>>
    BY DEF Lock, env
  <1>3. /\ chk[s].pc = "lock" /\ chk[s].impl \in Providers
        /\ chk' \in [Checks -> CheckType]
        /\ chk'[s].pc = "read" /\ chk'[s].impl = chk[s].impl
        /\ \A x \in Checks : x # s => chk'[x] = chk[x]
        /\ mu[chk[s].impl] = None
        /\ mu' = [mu EXCEPT ![chk[s].impl] = s]
    BY LockEffect
  <1>4. HoldsMutex'
    BY <1>1, <1>3 DEF HoldsMutex, TypeOK
  <1>5. \A x \in Checks : InHand(x)' <=> InHand(x)
    BY <1>3 DEF InHand
  <1>6. \A x \in Checks : InHand(x) => ReadingInHand(x)'
    BY <1>1, <1>2, <1>3 DEF ReadingsAgree, InHand, ReadingInHand
  <1>7. \A q \in Providers : BaselineHolds(q)'
    BY <1>1, <1>2, <1>3, <1>5 DEF ReadingsAgree, InHand, BaselineHolds
  <1> QED
    BY <1>1, <1>2, <1>3, <1>4, <1>5, <1>6, <1>7
       DEF IInv, TypeOK, Clock, ReadingsAgree

LEMMA ReadTimesStep ==
    ASSUME IInv, NEW s \in Checks, ReadTimes(s)
    PROVE  IInv'
  <1> USE ConstantsAssumption
  <1> DEFINE p == chk[s].impl
  <1>1. TypeOK /\ Clock /\ HoldsMutex /\ ReadingsAgree
    BY DEF IInv
  <1>2. /\ UNCHANGED <<times, cpu, threshold, prev, mu, reading>>
        /\ since' = [since EXCEPT ![p] = {}]
    BY DEF ReadTimes, env
  <1>3. /\ chk[s].pc = "read" /\ p \in Providers
        /\ chk' \in [Checks -> CheckType]
        /\ chk'[s].pc = "compute" /\ chk'[s].impl = p
        /\ chk'[s].times = times /\ chk'[s].kinds = since[p]
        /\ \A x \in Checks : x # s => chk'[x] = chk[x]
    BY ReadTimesEffect
  <1>4. HoldsMutex'
    BY <1>1, <1>2, <1>3 DEF HoldsMutex
  <1>5. \A x \in Checks : InHand(x) => x # s /\ chk[x].impl # p /\ chk[x].impl \in Providers
    BY <1>1, <1>3, OthersInHand DEF InHand
  <1>6. Before(prev[p], times) /\ since[p] = Elapsed(prev[p], times)
    BY <1>1, <1>3, <1>5 DEF ReadingsAgree, BaselineHolds
  <1>7. Before(times, times) /\ Elapsed(times, times) = {}
    BY <1>1 DEF TypeOK, Before, Elapsed, Kinds, Times
  <1>8. \A q \in Providers : since'[q] = IF q = p THEN {} ELSE since[q]
    BY <1>1, <1>2 DEF TypeOK
  <1> HIDE DEF p
  <1>9. ReadingInHand(s)'
    BY <1>2, <1>3, <1>6, <1>7, <1>8 DEF ReadingInHand
  <1>10. ASSUME NEW x \in Checks, InHand(x)' PROVE ReadingInHand(x)'
    <2>1. CASE x # s
      <3>1. InHand(x)
        BY <1>3, <1>10, <2>1 DEF InHand
      <3> QED
        BY <1>1, <1>2, <1>3, <1>5, <1>8, <2>1, <3>1 DEF ReadingsAgree, ReadingInHand
    <2> QED
      BY <1>9, <2>1
  <1>11. ASSUME NEW q \in Providers PROVE BaselineHolds(q)'
    <2>1. CASE q = p
      BY <1>3, <2>1 DEF BaselineHolds, InHand
    <2>2. CASE q # p
      <3>1. (\A x \in Checks : InHand(x)' => chk'[x].impl # q)
              => \A x \in Checks : InHand(x) => chk[x].impl # q
        BY <1>3, <1>5 DEF InHand
      <3> QED
        BY <1>1, <1>2, <1>8, <2>2, <3>1 DEF ReadingsAgree, BaselineHolds
    <2> QED
      BY <2>1, <2>2
  <1>12. since' \in [Providers -> SUBSET Kinds]
    BY <1>1, <1>2 DEF TypeOK
  <1> QED
    BY <1>1, <1>2, <1>3, <1>4, <1>10, <1>11, <1>12
       DEF IInv, TypeOK, Clock, ReadingsAgree

LEMMA ComputeStep ==
    ASSUME IInv, NEW s \in Checks, Compute(s)
    PROVE  IInv'
  <1> USE ConstantsAssumption
  <1>1. TypeOK /\ Clock /\ HoldsMutex /\ ReadingsAgree
    BY DEF IInv
  <1>2. UNCHANGED <<times, cpu, threshold, prev, mu, since, reading>>
    BY DEF Compute, env
  <1>3. /\ chk[s].pc = "compute" /\ chk[s].impl \in Providers
        /\ chk' \in [Checks -> CheckType]
        /\ chk'[s].pc = "store" /\ chk'[s].impl = chk[s].impl
        /\ chk'[s].times = chk[s].times /\ chk'[s].kinds = chk[s].kinds
        /\ chk'[s].usage = CpuPercentage(chk[s].times, prev[chk[s].impl])
        /\ \A x \in Checks : x # s => chk'[x] = chk[x]
    BY ComputeEffect
  <1>4. HoldsMutex'
    BY <1>1, <1>2, <1>3 DEF HoldsMutex
  <1>5. \A x \in Checks : (InHand(x)' <=> InHand(x)) /\ chk'[x].impl = chk[x].impl
    BY <1>3 DEF InHand
  <1>6. ASSUME NEW x \in Checks, InHand(x) PROVE ReadingInHand(x)'
    BY <1>1, <1>2, <1>3, <1>6 DEF ReadingsAgree, InHand, ReadingInHand
  <1>7. \A q \in Providers : BaselineHolds(q)'
    BY <1>1, <1>2, <1>5 DEF ReadingsAgree, BaselineHolds
  <1> QED
    BY <1>1, <1>2, <1>3, <1>4, <1>5, <1>6, <1>7
       DEF IInv, TypeOK, Clock, ReadingsAgree

\* Return, after a failed reading or a store: it leaves what other checks hold.
LEMMA ReturnStep ==
    ASSUME IInv, NEW s \in Checks, NEW status \in RAG, Return(s, status),
           chk[s].pc \in {"read", "store"},
           UNCHANGED <<times, cpu, threshold, since>>,
           prev' = IF chk[s].pc = "read" THEN prev
                   ELSE [prev EXCEPT ![chk[s].impl] = chk[s].times]
    PROVE  IInv'
  <1> USE ConstantsAssumption
  <1> DEFINE p == chk[s].impl
  <1>1. TypeOK /\ Clock /\ HoldsMutex /\ ReadingsAgree
    BY DEF IInv
  <1>2. /\ chk' \in [Checks -> CheckType]
        /\ chk'[s].pc = "idle"
        /\ \A x \in Checks : x # s => chk'[x] = chk[x]
        /\ mu' \in [Providers -> Checks \union {None}]
        /\ \A q \in Providers : mu[q] # s => mu'[q] = mu[q]
        /\ reading' \in [status : RAG, usage : 0..1000, kinds : SUBSET Kinds,
                         limit : Thresholds]
    BY <1>1, ReturnedCheck DEF HoldsMutex
  <1>3. p \in Providers /\ chk[s] \in CheckType
    BY <1>1 DEF HoldsMutex, TypeOK
  <1>4. /\ prev' \in [Providers -> Times]
        /\ \A q \in Providers : q # p \/ chk[s].pc = "read" => prev'[q] = prev[q]
        /\ chk[s].pc = "store" => prev'[p] = chk[s].times
    BY <1>1, <1>3 DEF TypeOK, CheckType
  <1>5. HoldsMutex'
    BY <1>1, <1>2 DEF HoldsMutex
  <1>6. ASSUME NEW x \in Checks, x # s, InHand(x)
        PROVE  chk[x].impl # p /\ chk[x].impl \in Providers
    BY <1>1, <1>6, OthersInHand
  <1>7. ASSUME NEW x \in Checks, InHand(x)' PROVE ReadingInHand(x)'
    <2>1. x # s /\ InHand(x)
      BY <1>2, <1>7 DEF InHand
    <2> QED
      BY <1>1, <1>2, <1>4, <1>6, <2>1 DEF ReadingsAgree, ReadingInHand
  <1>8. ASSUME NEW q \in Providers PROVE BaselineHolds(q)'
    <2>1. CASE q = p /\ chk[s].pc = "store"
      <3>1. ReadingInHand(s)
        BY <1>1, <2>1 DEF ReadingsAgree, InHand
      <3> QED
        BY <1>4, <2>1, <3>1 DEF ReadingInHand, BaselineHolds
    <2>2. CASE q # p \/ chk[s].pc = "read"
      <3>1. (\A x \in Checks : InHand(x)' => chk'[x].impl # q)
              => \A x \in Checks : InHand(x) => chk[x].impl # q
        BY <1>2, <2>2 DEF InHand
      <3>2. prev'[q] = prev[q]
        BY <1>4, <2>2
      <3> QED
        BY <1>1, <3>1, <3>2 DEF ReadingsAgree, BaselineHolds
    <2> QED
      BY <2>1, <2>2
  <1> QED
    BY <1>1, <1>2, <1>4, <1>5, <1>7, <1>8
       DEF IInv, TypeOK, Clock, ReadingsAgree

LEMMA UsageStatusIsStatus ==
    ASSUME NEW usage \in 0..1000, NEW t \in Thresholds
    PROVE  /\ UsageStatus(usage, t) \in RAG
           /\ usage = 1000 /\ t <= 100 => UsageStatus(usage, t) = RAGRed
           /\ usage = 0 /\ t > 0 => UsageStatus(usage, t) = RAGGreen
  <1>1. t \in Int
    BY ConstantsAssumption
  <1> QED
    BY <1>1 DEF UsageStatus, Band, RAG, RAGUnknown, RAGRed, RAGAmber, RAGGreen

\* Only a check that ends gives a result, and it is about its reading.
LEMMA ResultStep ==
    ASSUME IInv, NEW s \in Checks, StoreAndReturn(s)
    PROVE  IInv' /\ LoadIsSeen'
  <1> DEFINE p == chk[s].impl
             status == UsageStatus(chk[s].usage, threshold[p])
  <1>1. /\ chk[s].pc = "store" /\ p \in Providers /\ chk[s] \in CheckType
        /\ prev[p] \in Times /\ threshold[p] \in Thresholds
        /\ ReadingInHand(s)
    BY DEF StoreAndReturn, IInv, TypeOK, HoldsMutex, ReadingsAgree, InHand
  <1>2. /\ chk[s].times \in Times /\ chk[s].usage \in 0..1000
        /\ chk[s].usage = CpuPercentage(chk[s].times, prev[p])
        /\ Before(prev[p], chk[s].times)
        /\ chk[s].kinds = Elapsed(prev[p], chk[s].times)
    BY <1>1 DEF CheckType, ReadingInHand
  <1>3. status \in RAG
    BY <1>1, <1>2, UsageStatusIsStatus
  <1>4. Return(s, status) /\ UNCHANGED <<times, cpu, threshold, since>>
        /\ prev' = [prev EXCEPT ![p] = chk[s].times]
    BY DEF StoreAndReturn, env
  <1>5. IInv'
    <2> HIDE DEF status
    <2> QED
      BY <1>1, <1>3, <1>4, ReturnStep
  <1>6. reading' = [status |-> status, usage |-> chk[s].usage, kinds |-> chk[s].kinds,
                    limit |-> threshold[p]]
    BY <1>4 DEF Return
  <1>7. /\ chk[s].kinds = {"busy"} => chk[s].usage = 1000
        /\ chk[s].kinds = {"idle"} => chk[s].usage = 0
        /\ chk[s].kinds = Kinds => chk[s].usage < 1000
    <2> DEFINE t == prev[p]
               u == chk[s].times
    <2>1. t \in Times /\ u \in Times /\ Before(t, u)
      BY <1>1, <1>2
    <2> HIDE DEF t, u
    <2>2. /\ Elapsed(t, u) = {"busy"} => CpuPercentage(u, t) = 1000
          /\ Elapsed(t, u) = {"idle"} => CpuPercentage(u, t) = 0
          /\ Elapsed(t, u) = Kinds => CpuPercentage(u, t) < 1000
      BY <2>1, PercentageOfElapsed
    <2>3. chk[s].kinds = Elapsed(t, u) /\ chk[s].usage = CpuPercentage(u, t)
      BY <1>2 DEF t, u
    <2> QED
      BY <2>2, <2>3
  <1>8. /\ chk[s].usage = 1000 /\ threshold[p] <= 100 => status = RAGRed
        /\ chk[s].usage = 0 /\ threshold[p] > 0 => status = RAGGreen
    <2> DEFINE usage == chk[s].usage
               limit == threshold[p]
    <2>1. usage \in 0..1000 /\ limit \in Thresholds
      BY <1>1, <1>2
    <2> HIDE DEF usage, limit
    <2>2. /\ usage = 1000 /\ limit <= 100 => UsageStatus(usage, limit) = RAGRed
          /\ usage = 0 /\ limit > 0 => UsageStatus(usage, limit) = RAGGreen
      BY <2>1, UsageStatusIsStatus
    <2> QED
      BY <2>2 DEF usage, limit
  <1>9. LoadIsSeen'
    <2> HIDE DEF status
    <2> QED
      BY <1>6, <1>7, <1>8 DEF LoadIsSeen
  <1> QED
    BY <1>5, <1>9

LEMMA IInvStep == IInv /\ LoadIsSeen /\ [Next]_vars => IInv' /\ LoadIsSeen'
  <1> SUFFICES ASSUME IInv, LoadIsSeen, [Next]_vars
               PROVE  IInv' /\ LoadIsSeen'
    OBVIOUS
  <1> USE ConstantsAssumption
  <1>1. ASSUME NEW kind \in Kinds, TimePasses(kind)
        PROVE  IInv' /\ LoadIsSeen'
    <2>1. TypeOK /\ Clock /\ HoldsMutex /\ ReadingsAgree
      BY DEF IInv
    <2>2. UNCHANGED <<cpu, threshold, prev, mu, chk, reading>>
          /\ since' = [p \in Providers |-> since[p] \union {kind}]
      BY <1>1 DEF TimePasses
    <2>3. /\ Clock' /\ times' \in Times
          /\ \A t \in Times : Before(t, times) =>
                /\ Before(t, times')
                /\ Elapsed(t, times') = Elapsed(t, times) \union {kind}
      BY <1>1, <2>1, TickElapsed
    <2>4. ASSUME NEW s \in Checks, InHand(s) PROVE ReadingInHand(s)'
      <3>1. chk[s].times \in Times /\ chk[s].impl \in Providers
        BY <2>1, <2>4 DEF TypeOK, CheckType, HoldsMutex, InHand
      <3> QED
        BY <2>1, <2>2, <2>3, <2>4, <3>1 DEF ReadingsAgree, ReadingInHand
    <2>5. ASSUME NEW q \in Providers PROVE BaselineHolds(q)'
      <3>1. prev[q] \in Times
        BY <2>1 DEF TypeOK
      <3> QED
        BY <2>1, <2>2, <2>3, <3>1 DEF ReadingsAgree, BaselineHolds, InHand
    <2> QED
      BY <2>1, <2>2, <2>3, <2>4, <2>5
         DEF IInv, TypeOK, HoldsMutex, ReadingsAgree, InHand, LoadIsSeen
  <1>2. ASSUME NEW p \in Providers, NEW s \in Checks, Edit(p, s)
        PROVE  IInv' /\ LoadIsSeen'
    BY <1>2, StartStep DEF Edit, LoadIsSeen
  <1>3. ASSUME NEW s \in Checks, Cycle(s) PROVE IInv' /\ LoadIsSeen'
    <2>1. cpu \in Providers
      BY DEF IInv, TypeOK
    <2> QED
      BY <1>3, <2>1, StartStep DEF Cycle, LoadIsSeen
  <1>4. ASSUME NEW s \in Checks, Lock(s) PROVE IInv' /\ LoadIsSeen'
    <2>1. IInv'
      BY <1>4, LockStep
    <2>2. UNCHANGED reading
      BY <1>4 DEF Lock
    <2> QED
      BY <2>1, <2>2 DEF LoadIsSeen
  <1>5. ASSUME NEW s \in Checks, ReadTimes(s) PROVE IInv' /\ LoadIsSeen'
    <2>1. IInv'
      BY <1>5, ReadTimesStep
    <2>2. UNCHANGED reading
      BY <1>5 DEF ReadTimes
    <2> QED
      BY <2>1, <2>2 DEF LoadIsSeen
  <1>6. ASSUME NEW s \in Checks, ReadFails(s) PROVE IInv' /\ LoadIsSeen'
    <2>1. RAGError \in RAG
      BY DEF RAG, RAGError, RAGUnknown, RAGGreen
    <2>2. /\ chk[s].pc = "read" /\ Return(s, RAGError)
          /\ UNCHANGED <<times, cpu, threshold, prev, since>>
      BY <1>6 DEF ReadFails, env
    <2>3. IInv'
      BY <2>1, <2>2, ReturnStep
    <2>4. reading'.status = RAGError
      BY <2>2 DEF Return
    <2> QED
      BY <2>3, <2>4 DEF LoadIsSeen
  <1>7. ASSUME NEW s \in Checks, Compute(s) PROVE IInv' /\ LoadIsSeen'
    <2>1. IInv'
      BY <1>7, ComputeStep
    <2>2. UNCHANGED reading
      BY <1>7 DEF Compute
    <2> QED
      BY <2>1, <2>2 DEF LoadIsSeen
  <1>8. ASSUME NEW s \in Checks, StoreAndReturn(s) PROVE IInv' /\ LoadIsSeen'
    BY <1>8, ResultStep
  <1>9. CASE UNCHANGED vars
    BY <1>9 DEF vars, IInv, TypeOK, Clock, HoldsMutex, ReadingsAgree, InHand,
       ReadingInHand, BaselineHolds, LoadIsSeen
  <1> QED
    BY <1>1, <1>2, <1>3, <1>4, <1>5, <1>6, <1>7, <1>8, <1>9 DEF Next, Usage

\* Every reachable state is well typed: the usage stays a share although it is a
\* quotient of differences of readings taken by different checks.
THEOREM TypeCorrect == Spec => []TypeOK
  <1>1. IInv => TypeOK
    BY DEF IInv
  <1> QED
    BY <1>1, InitHolds, IInvStep, PTL DEF Spec

\* Each result is about all of the time since the provider's last reading,
\* however checks overlap, fail and are replaced, for any integer threshold.
THEOREM LoadIsSeenHolds == Spec => []LoadIsSeen
  BY InitHolds, IInvStep, PTL DEF Spec
=============================================================================
