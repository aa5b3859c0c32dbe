----------------------- MODULE ContainerMonitorProofs -----------------------
(***************************************************************************)
(* What is proved of ContainerMonitor for every set of containers and      *)
(* monitors, every whitelist and every threshold.                          *)
(***************************************************************************)
EXTENDS ContainerMonitor, IntegerLemmas, SequenceTheorems, TLAPS

-----------------------------------------------------------------------------
(* Lists, counts and statuses *)

\* What is left of a list after its first element.
LEMMA HeadAndTail ==
    ASSUME NEW S, NEW s \in Seq(S), s # <<>>
    PROVE  /\ Head(s) \in Elements(s) /\ Tail(s) \in Seq(S)
           /\ Elements(s) = {Head(s)} \union Elements(Tail(s))
           /\ Elements(s) \subseteq S
           /\ Len(s) \in Nat /\ (Len(s) > 1 <=> Tail(s) # <<>>)
  <1>1. /\ Len(s) \in Nat \ {0} /\ DOMAIN s = 1..Len(s)
        /\ \A i \in 1..Len(s) : s[i] \in S
    BY EmptySeq, LenProperties, ElementOfSeq
  <1>2. /\ Head(s) = s[1] /\ Tail(s) \in Seq(S) /\ Len(Tail(s)) = Len(s) - 1
        /\ \A i \in 1..Len(Tail(s)) : Tail(s)[i] = s[i + 1]
    BY HeadTailProperties
  <1>3. DOMAIN Tail(s) = 1..(Len(s) - 1)
    BY <1>2, LenProperties
  <1>4. Elements(s) = {Head(s)} \union Elements(Tail(s))
    <2>1. ASSUME NEW x \in Elements(s)
          PROVE  x = Head(s) \/ x \in Elements(Tail(s))
      <3>1. PICK i \in 1..Len(s) : x = s[i]
        BY <1>1 DEF Elements
      <3>2. CASE i = 1
        BY <1>2, <3>1, <3>2
      <3>3. CASE i # 1
        <4>1. i - 1 \in 1..(Len(s) - 1) /\ s[i] = Tail(s)[i - 1]
          BY <1>1, <1>2, <3>3
        <4> QED
          BY <1>3, <3>1, <4>1 DEF Elements
      <3> QED
        BY <3>2, <3>3
    <2>2. ASSUME NEW x \in Elements(Tail(s)) PROVE x \in Elements(s)
      <3>1. PICK i \in 1..(Len(s) - 1) : x = Tail(s)[i]
        BY <1>3 DEF Elements
      <3>2. i + 1 \in 1..Len(s) /\ x = s[i + 1]
        BY <1>1, <1>2, <3>1
      <3> QED
        BY <1>1, <3>2 DEF Elements
    <2>3. Head(s) \in Elements(s)
      BY <1>1, <1>2 DEF Elements
    <2> QED
      BY <2>1, <2>2, <2>3
  <1>5. Elements(s) \subseteq S
    BY <1>1 DEF Elements
  <1>6. Len(s) > 1 <=> Tail(s) # <<>>
    <2>1. Len(<<>>) = 0 /\ (Tail(s) # <<>> => Len(Tail(s)) \in Nat \ {0})
      BY <1>2, EmptySeq
    <2> QED
      BY <1>1, <1>2, <2>1
  <1> QED
    BY <1>1, <1>2, <1>4, <1>5, <1>6

LEMMA NothingLeft == Elements(<<>>) = {}
  BY DEF Elements

\* The largest of a set of counts.
LEMMA MaxRestartsIsLargest ==
    ASSUME NEW counts \in SUBSET Counts
    PROVE  /\ MaxRestarts(counts) \in counts \union {0} /\ MaxRestarts(counts) \in Nat
           /\ \A k \in counts : k <= MaxRestarts(counts)
  <1> DEFINE S == counts \union {0}
  <1>1. /\ S \in SUBSET Int /\ S # {} /\ MaxCount + 1 \in Int
        /\ \A x \in S : x < MaxCount + 1
    BY ListAssumption DEF Counts
  <1>2. \E x \in S : \A y \in S : y <= x
    BY <1>1, GreatestOfBounded
  <1>3. \E x \in S : \A y \in counts : y <= x
    BY <1>2
  <1>4. /\ MaxRestarts(counts) \in counts \union {0}
        /\ \A k \in counts : k <= MaxRestarts(counts)
    BY <1>3 DEF MaxRestarts
  <1>5. \A x \in S : x \in Nat
    BY DEF Counts
  <1> QED
    BY <1>4, <1>5

\* What a status of a docker monitor says of the number it is of.
LEMMA RestartStatusMeans ==
    ASSUME NEW n \in Nat, NEW t \in Nat
    PROVE  /\ RestartStatus(n, t) \in {RAGRed, RAGAmber, RAGGreen}
           /\ RestartStatus(n, t) = RAGGreen => n < AmberRestarts(t)
           /\ RestartStatus(n, t) = RAGRed => n >= t
           /\ AmberRestarts(t) \in Nat
  BY DEF RestartStatus, Band, AmberRestarts, RAGRed, RAGAmber, RAGGreen

\* The extremes of two counts, one of which may be that of no container.
LEMMA LeastIsBelow ==
    ASSUME NEW a \in Counts \union {Gone}, NEW b \in Counts \union {Gone}
    PROVE  /\ Least(a, b) \in Counts \union {Gone}
           /\ a # Gone => Least(a, b) # Gone /\ Least(a, b) <= a
           /\ b # Gone => Least(a, b) # Gone /\ Least(a, b) <= b
  BY ListAssumption DEF Least, Counts

LEMMA MostIsAbove ==
    ASSUME NEW a \in Counts \union {Gone}, NEW b \in Counts \union {Gone}
    PROVE  /\ Most(a, b) \in Counts \union {Gone}
           /\ a # Gone => Most(a, b) # Gone /\ Most(a, b) >= a
           /\ b # Gone => Most(a, b) # Gone /\ Most(a, b) >= b
  BY ListAssumption DEF Most, Counts

-----------------------------------------------------------------------------
(* The inductive invariant *)

\* What a request has restarted and has still to restart make up what it may;
\* it has answered OK only if nothing is left.
Wanted == {c \in Elements(List[request]) : IsAllowed(c)}

RequestHolds ==
    /\ request \in Monitors =>
         /\ done \subseteq Wanted
         /\ todo # {} => /\ reply = 0
                         /\ Wanted = done \union {List[request][i] : i \in todo}
         /\ reply = 200 => todo = {} /\ Wanted # {} /\ done = Wanted
    /\ request \notin Monitors => done = {} /\ reply # 200

\* During a check: what is left to inspect is of the list, and the extremes of
\* each container span its present count.
Spans(m) ==
    /\ Elements(check[m]) \subseteq Elements(List[m])
    /\ \A c \in Elements(List[m]) : count[c] # Gone =>
          /\ low[m][c] # Gone /\ low[m][c] <= count[c]
          /\ high[m][c] # Gone /\ high[m][c] >= count[c]

\* Every container inspected so far existed during the check and is witnessed by
\* a count that was read, and every count that was read by a container.
Witnessed(m) ==
    /\ \A c \in Elements(List[m]) \ Elements(check[m]) :
          \E n \in seen[m] : low[m][c] # Gone /\ low[m][c] <= n
    /\ \A c \in Elements(List[m]) \ Elements(check[m]) : high[m][c] # Gone
    /\ \A n \in seen[m] : \E c \in Elements(List[m]) :
          high[m][c] # Gone /\ high[m][c] >= n

\* What a status says, and that it is of containers that existed.
StatusHolds == StatusIsWitnessed /\ MissingIsReported

ChecksHold ==
    \A m \in DockerMonitors : check[m] # <<>> => Spans(m) /\ Witnessed(m)

IInv == TypeOK /\ RequestHolds /\ ChecksHold /\ StatusHolds

LEMMA ListFacts ==
    /\ \A m \in Monitors : List[m] \in Seq(Containers)
                           /\ Elements(List[m]) \subseteq Containers
    /\ \A m \in DockerMonitors : /\ m \in Monitors /\ List[m] # <<>>
                                 /\ Threshold[m] \in Nat
  <1>1. \A m \in Monitors : List[m] \in Seq(Containers)
    BY ListAssumption
  <1>2. ASSUME NEW m \in Monitors PROVE Elements(List[m]) \subseteq Containers
    BY <1>1, LenProperties, ElementOfSeq DEF Elements
  <1> QED
    BY <1>1, <1>2, ListAssumption DEF Monitors

\* Extremes of the right shape, as a set.
ExtremesType(h) ==
    /\ DOMAIN h = DockerMonitors
    /\ \A m \in DockerMonitors : h[m] \in [Elements(List[m]) -> Counts \union {Gone}]

\* A change of a count: the extremes of the checks under way go on spanning it
\* and only move outwards, and those of the others stay.
LEMMA SetCountEffect ==
    ASSUME ExtremesType(low), ExtremesType(high),
           count \in [Containers -> Counts \union {Gone}],
           NEW c \in Containers, NEW n \in Counts \union {Gone}, SetCount(c, n),
           NEW m \in DockerMonitors
    PROVE  /\ low'[m] \in [Elements(List[m]) -> Counts \union {Gone}]
           /\ high'[m] \in [Elements(List[m]) -> Counts \union {Gone}]
           /\ check[m] = <<>> => low'[m] = low[m] /\ high'[m] = high[m]
           /\ \A x \in Elements(List[m]) :
                /\ low[m][x] # Gone => low'[m][x] # Gone /\ low'[m][x] <= low[m][x]
                /\ high[m][x] # Gone => high'[m][x] # Gone /\ high'[m][x] >= high[m][x]
                /\ check[m] # <<>> =>
                      /\ x # c => low'[m][x] = low[m][x] /\ high'[m][x] = high[m][x]
                      /\ x = c /\ n # Gone =>
                            /\ low'[m][x] # Gone /\ low'[m][x] <= n
                            /\ high'[m][x] # Gone /\ high'[m][x] >= n
  <1> DEFINE L == Elements(List[m])
  <1>1. /\ low[m] \in [L -> Counts \union {Gone}]
        /\ high[m] \in [L -> Counts \union {Gone}]
    BY DEF ExtremesType
  <1>2. /\ low'[m] = IF Watched(m, c) THEN [low[m] EXCEPT ![c] = Least(@, n)] ELSE low[m]
        /\ high'[m] = IF Watched(m, c) THEN [high[m] EXCEPT ![c] = Most(@, n)] ELSE high[m]
    BY DEF SetCount
  <1>3. Watched(m, c) <=> check[m] # <<>> /\ c \in L
    BY DEF Watched
  <1> HIDE DEF L
  <1>4. \A x \in L : (low[m][x] # Gone => low[m][x] <= low[m][x])
                     /\ (high[m][x] # Gone => high[m][x] >= high[m][x])
    BY <1>1, ListAssumption DEF Counts
  <1>5. CASE Watched(m, c)
    <2>1. low[m][c] \in Counts \union {Gone} /\ high[m][c] \in Counts \union {Gone}
      BY <1>1, <1>3, <1>5
    <2>2. /\ low'[m] = [low[m] EXCEPT ![c] = Least(low[m][c], n)]
          /\ high'[m] = [high[m] EXCEPT ![c] = Most(high[m][c], n)]
      BY <1>2, <1>5
    <2>3. /\ Least(low[m][c], n) \in Counts \union {Gone}
          /\ low[m][c] # Gone =>
               Least(low[m][c], n) # Gone /\ Least(low[m][c], n) <= low[m][c]
          /\ n # Gone => Least(low[m][c], n) # Gone /\ Least(low[m][c], n) <= n
      BY <2>1, LeastIsBelow
    <2>4. /\ Most(high[m][c], n) \in Counts \union {Gone}
          /\ high[m][c] # Gone =>
               Most(high[m][c], n) # Gone /\ Most(high[m][c], n) >= high[m][c]
          /\ n # Gone => Most(high[m][c], n) # Gone /\ Most(high[m][c], n) >= n
      BY <2>1, MostIsAbove
    <2> QED
      BY <1>1, <1>3, <1>4, <1>5, <2>2, <2>3, <2>4 DEF L
  <1>6. CASE ~Watched(m, c)
    BY <1>1, <1>2, <1>3, <1>4, <1>6 DEF L
  <1> QED
    BY <1>5, <1>6

\* A container's count changes: the checks lose nothing they have witnessed.
LEMMA CountStep ==
    ASSUME IInv, NEW c \in Containers, NEW n \in Counts \union {Gone},
           SetCount(c, n), UNCHANGED checkVars
    PROVE  /\ count' \in [Containers -> Counts \union {Gone}]
           /\ ExtremesType(low)' /\ ExtremesType(high)'
           /\ ChecksHold' /\ StatusHolds'
  <1>1. /\ ExtremesType(low) /\ ExtremesType(high) /\ ChecksHold /\ StatusHolds
        /\ count \in [Containers -> Counts \union {Gone}]
    BY DEF IInv, TypeOK, ExtremesType
  <1>2. /\ count' \in [Containers -> Counts \union {Gone}]
        /\ \A x \in Containers : count'[x] = IF x = c THEN n ELSE count[x]
    BY <1>1 DEF SetCount
  <1>3. UNCHANGED <<check, seen, status>>
    BY DEF checkVars
  <1>4. ASSUME NEW m \in DockerMonitors
        PROVE  /\ low'[m] \in [Elements(List[m]) -> Counts \union {Gone}]
               /\ high'[m] \in [Elements(List[m]) -> Counts \union {Gone}]
               /\ check[m] = <<>> => low'[m] = low[m] /\ high'[m] = high[m]
               /\ \A x \in Elements(List[m]) :
                    /\ low[m][x] # Gone =>
                          low'[m][x] # Gone /\ low'[m][x] <= low[m][x]
                    /\ high[m][x] # Gone =>
                          high'[m][x] # Gone /\ high'[m][x] >= high[m][x]
                    /\ check[m] # <<>> =>
                          /\ x # c => low'[m][x] = low[m][x] /\ high'[m][x] = high[m][x]
                          /\ x = c /\ n # Gone =>
                                /\ low'[m][x] # Gone /\ low'[m][x] <= n
                                /\ high'[m][x] # Gone /\ high'[m][x] >= n
    BY <1>1, SetCountEffect
  <1>5. ExtremesType(low)' /\ ExtremesType(high)'
    <2>1. DOMAIN low' = DockerMonitors /\ DOMAIN high' = DockerMonitors
      BY DEF SetCount
    <2> QED
      BY <1>4, <2>1 DEF ExtremesType
  <1>6. ASSUME NEW m \in DockerMonitors, check[m] # <<>>
        PROVE  Spans(m)' /\ Witnessed(m)'
    <2>1. Spans(m) /\ Witnessed(m) /\ Elements(List[m]) \subseteq Containers
      BY <1>1, <1>6, ListFacts DEF ChecksHold
    <2>2. Spans(m)'
      BY <1>2, <1>3, <1>4, <1>6, <2>1 DEF Spans
    <2>3. ASSUME NEW x \in Elements(List[m]) \ Elements(check[m])
          PROVE  \E k \in seen[m] : low'[m][x] # Gone /\ low'[m][x] <= k
      <3>1. PICK k \in seen[m] : low[m][x] # Gone /\ low[m][x] <= k
        BY <2>1 DEF Witnessed
      <3>2. k \in Nat /\ low[m][x] \in Nat
        BY <1>1, <3>1, ListAssumption DEF IInv, TypeOK, Counts
      <3>3. low'[m][x] # Gone /\ low'[m][x] <= low[m][x] /\ low'[m][x] \in Nat
        BY <1>4, <3>1, ListAssumption DEF Counts
      <3> QED
        BY <3>1, <3>2, <3>3
    <2>4. ASSUME NEW k \in seen[m]
          PROVE  \E x \in Elements(List[m]) : high'[m][x] # Gone /\ high'[m][x] >= k
      <3>1. PICK x \in Elements(List[m]) : high[m][x] # Gone /\ high[m][x] >= k
        BY <2>1 DEF Witnessed
      <3>2. k \in Nat /\ high[m][x] \in Nat
        BY <1>1, <3>1, ListAssumption DEF IInv, TypeOK, Counts
      <3>3. high'[m][x] # Gone /\ high'[m][x] >= high[m][x] /\ high'[m][x] \in Nat
        BY <1>4, <3>1, ListAssumption DEF Counts
      <3> QED
        BY <3>1, <3>2, <3>3
    <2>5. ASSUME NEW x \in Elements(List[m]) \ Elements(check[m])
          PROVE  high'[m][x] # Gone
      BY <1>4, <2>1 DEF Witnessed
    <2> QED
      BY <1>3, <2>2, <2>3, <2>4, <2>5 DEF Witnessed
  <1>7. ChecksHold'
    BY <1>3, <1>6 DEF ChecksHold
  <1>8. StatusHolds'
    BY <1>1, <1>3, <1>4 DEF StatusHolds, StatusIsWitnessed, MissingIsReported
  <1> QED
    BY <1>2, <1>5, <1>7, <1>8

\* What a request does leaves the checks alone, and what a check does the
\* request.
LEMMA ChecksUntouched ==
    ASSUME IInv, UNCHANGED <<count, check, seen, status, low, high>>
    PROVE  ChecksHold' /\ StatusHolds'
  BY DEF IInv, ChecksHold, Spans, Witnessed, StatusHolds, StatusIsWitnessed, MissingIsReported

LEMMA RequestUntouched ==
    ASSUME IInv, UNCHANGED requestVars
    PROVE  RequestHolds'
  BY DEF IInv, RequestHolds, Wanted, requestVars

\* The place a request is at, and the container there.
LEMMA PlaceIsNext ==
    ASSUME TypeOK, todo # {}
    PROVE  /\ request \in Monitors /\ Place \in todo
           /\ List[request][Place] \in Containers
           /\ List[request][Place] \in Wanted
  <1>1. /\ request \in Monitors /\ List[request] \in Seq(Containers)
        /\ todo \subseteq ToRestart(request)
    BY ListFacts DEF TypeOK
  <1>2. todo \subseteq 1..Len(List[request]) /\ Len(List[request]) \in Nat
        /\ DOMAIN List[request] = 1..Len(List[request])
    BY <1>1, LenProperties DEF ToRestart
  <1>3. \E i \in todo : \A j \in todo : i <= j
    BY <1>2, LeastOfBounded
  <1>4. Place \in todo
    BY <1>3 DEF Place
  <1>5. List[request][Place] \in Containers
    BY <1>1, <1>2, <1>4, ElementOfSeq
  <1>6. List[request][Place] \in Wanted
    BY <1>1, <1>4 DEF Wanted, ToRestart, Elements
  <1> QED
    BY <1>1, <1>4, <1>5, <1>6

LEMMA RestartRequestStep ==
    ASSUME IInv, NEW id \in Monitors \union Unregistered, RestartRequest(id)
    PROVE  IInv'
  <1>1. UNCHANGED <<count, check, seen, status, low, high>>
    BY DEF RestartRequest, checkVars
  <1>2. ChecksHold' /\ StatusHolds'
    BY <1>1, ChecksUntouched
  <1>3. /\ todo = {} /\ request' = id /\ done' = {}
        /\ \/ todo' = {} /\ reply' \in {302, 500}
           \/ id \in Monitors /\ todo' = ToRestart(id) /\ reply' = 0
    BY DEF RestartRequest, Respond
  <1>4. TypeOK'
    BY <1>1, <1>3 DEF IInv, TypeOK
  <1>5. RequestHolds'
    BY <1>3 DEF RequestHolds, Wanted, ToRestart, Elements
  <1> QED
    BY <1>2, <1>4, <1>5 DEF IInv

LEMMA RestartNextStep ==
    ASSUME IInv, RestartNext
    PROVE  IInv'
  <1> DEFINE c == List[request][Place]
  <1>1. /\ todo # {} /\ SetCount(c, 0) /\ done' = done \union {c}
        /\ todo' = todo \ {Place} /\ UNCHANGED <<request, check, seen, status>>
        /\ reply' = IF todo = {Place} THEN 200 ELSE reply
    BY DEF RestartNext, AfterRestart, Respond, checkVars
  <1>2. request \in Monitors /\ Place \in todo /\ c \in Containers /\ c \in Wanted
    BY <1>1, PlaceIsNext DEF IInv
  <1>3. 0 \in Counts \union {Gone} /\ UNCHANGED checkVars
    BY <1>1, ListAssumption DEF Counts, checkVars
  <1>4. /\ count' \in [Containers -> Counts \union {Gone}]
        /\ ExtremesType(low)' /\ ExtremesType(high)'
        /\ ChecksHold' /\ StatusHolds'
    BY <1>1, <1>2, <1>3, CountStep
  <1>5. TypeOK'
    BY <1>1, <1>2, <1>4 DEF IInv, TypeOK, ExtremesType
  <1>6. RequestHolds'
    <2>1. /\ reply = 0 /\ Wanted = done \union {List[request][i] : i \in todo}
          /\ done \subseteq Wanted
      BY <1>1, <1>2 DEF IInv, RequestHolds
    <2>2. Wanted' = Wanted
      BY <1>1 DEF Wanted
    <2>3. Wanted = done' \union {List[request][i] : i \in todo'}
      BY <1>1, <1>2, <2>1
    <2>4. reply' = 200 => todo' = {}
      BY <1>1, <2>1
    <2>5. todo' # {} => reply' = 0
      BY <1>1, <2>1
    <2> HIDE DEF c
    <2> QED
      BY <1>1, <1>2, <2>1, <2>2, <2>3, <2>4, <2>5 DEF RequestHolds
  <1> QED
    BY <1>4, <1>5, <1>6 DEF IInv

LEMMA RestartFailsStep ==
    ASSUME IInv, RestartFails
    PROVE  IInv'
  <1>1. /\ UNCHANGED <<count, check, seen, status, low, high, request, done>>
        /\ todo # {} /\ todo' = {} /\ reply' = 500
    BY DEF RestartFails, Respond, checkVars
  <1>2. ChecksHold' /\ StatusHolds'
    BY <1>1, ChecksUntouched
  <1>3. TypeOK'
    BY <1>1 DEF IInv, TypeOK
  <1>4. RequestHolds'
    BY <1>1 DEF IInv, TypeOK, RequestHolds, Wanted
  <1> QED
    BY <1>2, <1>3, <1>4 DEF IInv

-----------------------------------------------------------------------------
(* The daemon *)

\* A step that only changes a count.
LEMMA DaemonStep ==
    ASSUME IInv, NEW c \in Containers, NEW n \in Counts \union {Gone},
           SetCount(c, n), UNCHANGED <<requestVars, checkVars>>
    PROVE  IInv'
  <1>1. UNCHANGED requestVars /\ UNCHANGED checkVars
    OBVIOUS
  <1>2. /\ count' \in [Containers -> Counts \union {Gone}]
        /\ ExtremesType(low)' /\ ExtremesType(high)'
        /\ ChecksHold' /\ StatusHolds'
    BY <1>1, CountStep
  <1>3. RequestHolds'
    BY <1>1, RequestUntouched
  <1>4. TypeOK'
    BY <1>1, <1>2 DEF IInv, TypeOK, ExtremesType, requestVars, checkVars
  <1> QED
    BY <1>2, <1>3, <1>4 DEF IInv

LEMMA DaemonSteps ==
    ASSUME IInv, NEW c \in Containers, Crashes(c) \/ Disappears(c) \/ Created(c)
    PROVE  IInv'
  <1>1. count[c] \in Counts \union {Gone}
    BY DEF IInv, TypeOK
  <1>2. CASE Crashes(c)
    <2>1. count[c] + 1 \in Counts \union {Gone}
      BY <1>1, <1>2, ListAssumption DEF Crashes, Counts
    <2>2. SetCount(c, count[c] + 1) /\ UNCHANGED <<requestVars, checkVars>>
      BY <1>2 DEF Crashes
    <2> QED
      BY <2>1, <2>2, DaemonStep
  <1>3. CASE Disappears(c)
    BY <1>3, DaemonStep DEF Disappears
  <1>4. CASE Created(c)
    <2>1. 0 \in Counts \union {Gone}
      BY ListAssumption DEF Counts
    <2> QED
      BY <1>4, <2>1, DaemonStep DEF Created
  <1> QED
    BY <1>2, <1>3, <1>4

-----------------------------------------------------------------------------
(* Checks *)

LEMMA StartCheckStep ==
    ASSUME IInv, NEW m \in DockerMonitors, StartCheck(m)
    PROVE  IInv'
  <1> DEFINE L == Elements(List[m])
             lows == [c \in L |-> count[c]]
  <1>1. /\ m \in Monitors /\ List[m] \in Seq(Containers) /\ List[m] # <<>>
        /\ L \subseteq Containers
    BY ListFacts
  <1>2. /\ TypeOK /\ ExtremesType(low) /\ ExtremesType(high)
        /\ ChecksHold /\ StatusHolds
    BY DEF IInv, TypeOK, ExtremesType
  <1>3. lows \in [L -> Counts \union {Gone}]
    BY <1>1, <1>2 DEF TypeOK
  <1>4. /\ check' = [check EXCEPT ![m] = List[m]] /\ seen' = [seen EXCEPT ![m] = {}]
        /\ low' = [low EXCEPT ![m] = lows]
        /\ UNCHANGED <<count, status>> /\ UNCHANGED requestVars
    BY DEF StartCheck
  <1>5. low'[m] = lows
    BY <1>2, <1>4 DEF ExtremesType
  <1>6. high' = [high EXCEPT ![m] = lows]
    BY <1>5 DEF StartCheck
  <1>7. /\ check'[m] = List[m] /\ seen'[m] = {} /\ high'[m] = lows
        /\ \A k \in DockerMonitors \ {m} :
              /\ check'[k] = check[k] /\ seen'[k] = seen[k]
              /\ low'[k] = low[k] /\ high'[k] = high[k]
    BY <1>2, <1>4, <1>6 DEF TypeOK, ExtremesType
  <1>8. TypeOK'
    <2>1. ExtremesType(low)' /\ ExtremesType(high)'
      BY <1>2, <1>3, <1>4, <1>5, <1>6, <1>7 DEF ExtremesType
    <2>2. check' \in [DockerMonitors -> Seq(Containers)]
          /\ seen' \in [DockerMonitors -> SUBSET Counts]
      BY <1>1, <1>2, <1>4 DEF TypeOK
    <2> QED
      BY <1>2, <1>4, <2>1, <2>2 DEF TypeOK, ExtremesType, requestVars
  <1>9. RequestHolds'
    BY <1>4, RequestUntouched
  <1>10. ASSUME NEW k \in DockerMonitors, check'[k] # <<>>
         PROVE  Spans(k)' /\ Witnessed(k)'
    <2>1. CASE k = m
      <3>1. \A c \in L : lows[c] = count[c] /\ count[c] \in Counts \union {Gone}
        BY <1>1, <1>2 DEF TypeOK
      <3>2. \A c \in L : count[c] # Gone => count[c] <= count[c]
        BY <3>1, ListAssumption DEF Counts
      <3>3. /\ check'[m] = List[m] /\ low'[m] = lows /\ high'[m] = lows
            /\ seen'[m] = {} /\ count' = count
        BY <1>4, <1>5, <1>7
      <3> HIDE DEF lows
      <3>4. Spans(m)'
        BY <3>1, <3>2, <3>3 DEF Spans
      <3>5. Witnessed(m)'
        BY <3>3 DEF Witnessed
      <3> QED
        BY <2>1, <3>4, <3>5
    <2>2. CASE k # m
      <3>1. /\ check'[k] = check[k] /\ seen'[k] = seen[k]
            /\ low'[k] = low[k] /\ high'[k] = high[k] /\ count' = count
        BY <1>4, <1>7, <2>2
      <3>2. Spans(k) /\ Witnessed(k)
        BY <1>2, <1>10, <3>1 DEF ChecksHold
      <3> HIDE DEF lows
      <3> QED
        BY <3>1, <3>2 DEF Spans, Witnessed
    <2> QED
      BY <2>1, <2>2
  <1>11. StatusHolds'
    BY <1>1, <1>2, <1>4, <1>7 DEF StatusHolds, StatusIsWitnessed, MissingIsReported
  <1> QED
    BY <1>8, <1>9, <1>10, <1>11 DEF IInv, ChecksHold

\* A container is inspected: it is witnessed from now on, and after the last
\* one of the list the status is.
LEMMA InspectStep ==
    ASSUME IInv, NEW m \in DockerMonitors, Inspect(m)
    PROVE  IInv'
  <1> DEFINE L == Elements(List[m])
             h == Head(check[m])
             read == seen[m] \union {count[h]}
             result == RestartStatus(MaxRestarts(read), Threshold[m])
  <1>1. /\ TypeOK /\ ExtremesType(low) /\ ExtremesType(high)
        /\ ChecksHold /\ StatusHolds
    BY DEF IInv, TypeOK, ExtremesType
  <1>2. /\ check[m] # <<>> /\ count[h] # Gone
        /\ check' = [check EXCEPT ![m] = Tail(check[m])]
        /\ seen' = [seen EXCEPT ![m] = read]
        /\ UNCHANGED <<count, low, high>> /\ UNCHANGED requestVars
    BY DEF Inspect
  <1>3. /\ check[m] \in Seq(Containers) /\ Threshold[m] \in Nat
        /\ Spans(m) /\ Witnessed(m)
    BY <1>1, <1>2, ListFacts DEF TypeOK, ChecksHold
  <1>4. /\ h \in Elements(check[m]) /\ Tail(check[m]) \in Seq(Containers)
        /\ Elements(check[m]) = {h} \union Elements(Tail(check[m]))
        /\ Elements(check[m]) \subseteq Containers
        /\ (Len(check[m]) > 1 <=> Tail(check[m]) # <<>>)
    BY <1>2, <1>3, HeadAndTail
  <1>5. h \in L /\ h \in Containers /\ count[h] \in Counts
    BY <1>1, <1>2, <1>3, <1>4 DEF TypeOK, Spans
  <1>6. read \in SUBSET Counts
    BY <1>1, <1>5 DEF TypeOK
  <1>7. /\ check'[m] = Tail(check[m]) /\ seen'[m] = read
        /\ \A k \in DockerMonitors \ {m} : check'[k] = check[k] /\ seen'[k] = seen[k]
    BY <1>1, <1>2 DEF TypeOK
  <1>8. status' = IF Tail(check[m]) # <<>> THEN status
                  ELSE [status EXCEPT ![m] = result]
    <2>1. status' = IF Len(check[m]) > 1 THEN status
                    ELSE [status EXCEPT ![m] =
                             RestartStatus(MaxRestarts(seen'[m]), Threshold[m])]
      BY DEF Inspect
    <2> QED
      BY <1>4, <1>7, <2>1
  <1>9. /\ MaxRestarts(read) \in read \union {0} /\ MaxRestarts(read) \in Nat
        /\ \A k \in read : k <= MaxRestarts(read)
    BY <1>6, MaxRestartsIsLargest
  <1>10. /\ result \in {RAGRed, RAGAmber, RAGGreen}
         /\ result = RAGGreen => MaxRestarts(read) < AmberRestarts(Threshold[m])
         /\ result = RAGRed => MaxRestarts(read) >= Threshold[m]
         /\ AmberRestarts(Threshold[m]) \in Nat
    BY <1>3, <1>9, RestartStatusMeans
  <1>11. /\ low[m] \in [L -> Counts \union {Gone}]
         /\ high[m] \in [L -> Counts \union {Gone}]
    BY <1>1 DEF ExtremesType
  <1> HIDE DEF read, result, h
  <1>12. Spans(m)'
    BY <1>2, <1>3, <1>4, <1>7 DEF Spans
  <1>13. Witnessed(m)'
    <2>1. low[m][h] # Gone /\ low[m][h] <= count[h]
          /\ high[m][h] # Gone /\ high[m][h] >= count[h]
      BY <1>2, <1>3, <1>5 DEF Spans
    <2>2. ASSUME NEW c \in L \ Elements(Tail(check[m]))
          PROVE  \E n \in read : low[m][c] # Gone /\ low[m][c] <= n
      BY <1>3, <1>4, <2>1 DEF Witnessed, read
    <2>3. ASSUME NEW n \in read
          PROVE  \E c \in L : high[m][c] # Gone /\ high[m][c] >= n
      BY <1>3, <1>5, <2>1 DEF Witnessed, read
    <2>4. ASSUME NEW c \in L \ Elements(Tail(check[m])) PROVE high[m][c] # Gone
      BY <1>3, <1>4, <2>1 DEF Witnessed
    <2> QED
      BY <1>2, <1>7, <2>2, <2>3, <2>4 DEF Witnessed
  <1>14. ChecksHold'
    BY <1>1, <1>2, <1>7, <1>12, <1>13 DEF ChecksHold, Spans, Witnessed
  <1>15. TypeOK'
    <2>1. check' \in [DockerMonitors -> Seq(Containers)]
          /\ seen' \in [DockerMonitors -> SUBSET Counts]
      BY <1>1, <1>2, <1>4, <1>6 DEF TypeOK
    <2>2. status' \in [DockerMonitors -> RAG]
      BY <1>1, <1>8, <1>10 DEF TypeOK, RAG, RAGUnknown, RAGRed, RAGAmber, RAGGreen
    <2> QED
      BY <1>1, <1>2, <2>1, <2>2 DEF TypeOK, requestVars
  <1>16. StatusHolds'
    <2>1. ASSUME NEW k \in DockerMonitors \ {m}
          PROVE  status'[k] = status[k]
      BY <1>1, <1>8 DEF TypeOK
    <2>2. ASSUME check'[m] = <<>>
          PROVE  status'[m] = result
      BY <1>1, <1>7, <1>8, <2>2 DEF TypeOK
    <2>3. ASSUME check'[m] = <<>>, result = RAGGreen, NEW c \in L
          PROVE  low[m][c] < AmberRestarts(Threshold[m])
      <3>1. c \notin Elements(check'[m])
        BY <2>3, NothingLeft
      <3>2. PICK n \in read : low[m][c] # Gone /\ low[m][c] <= n
        BY <1>2, <1>7, <1>13, <3>1 DEF Witnessed
      <3>3. n \in Nat /\ low[m][c] \in Nat /\ n <= MaxRestarts(read)
        BY <1>6, <1>9, <1>11, <3>2, ListAssumption DEF Counts
      <3> QED
        BY <1>9, <1>10, <2>3, <3>2, <3>3
    <2>4. ASSUME check'[m] = <<>>, result = RAGRed
          PROVE  \E c \in L : high[m][c] # Gone /\ high[m][c] >= Threshold[m]
      <3>1. PICK n \in read : n >= MaxRestarts(read)
        BY <1>5, <1>9, ListAssumption DEF read, Counts
      <3>2. PICK c \in L : high[m][c] # Gone /\ high[m][c] >= n
        BY <1>2, <1>7, <1>13 DEF Witnessed
      <3>3. n \in Nat /\ high[m][c] \in Nat
        BY <1>6, <1>11, <3>2, ListAssumption DEF Counts
      <3> QED
        BY <1>3, <1>9, <1>10, <2>4, <3>1, <3>2, <3>3
    <2>5. ASSUME check'[m] = <<>>, NEW c \in L PROVE high[m][c] # Gone
      <3>1. c \notin Elements(check'[m])
        BY <2>5, NothingLeft
      <3> QED
        BY <1>2, <1>13, <3>1 DEF Witnessed
    <2>6. StatusIsWitnessed'
      BY <1>1, <1>2, <1>7, <2>1, <2>2, <2>3, <2>4 DEF StatusHolds, StatusIsWitnessed
    <2>7. MissingIsReported'
      BY <1>1, <1>2, <1>7, <2>1, <2>5 DEF StatusHolds, MissingIsReported
    <2> QED
      BY <2>6, <2>7 DEF StatusHolds
  <1>17. RequestHolds'
    BY <1>2, RequestUntouched
  <1> QED
    BY <1>14, <1>15, <1>16, <1>17 DEF IInv

LEMMA InspectFailsStep ==
    ASSUME IInv, NEW m \in DockerMonitors, InspectFails(m)
    PROVE  IInv'
  <1>1. TypeOK /\ ChecksHold /\ StatusHolds
    BY DEF IInv
  <1>2. /\ check' = [check EXCEPT ![m] = <<>>]
        /\ status' = [status EXCEPT ![m] = RAGError]
        /\ UNCHANGED <<count, seen, low, high>> /\ UNCHANGED requestVars
    BY DEF InspectFails
  <1>3. /\ check'[m] = <<>> /\ status'[m] = RAGError
        /\ \A k \in DockerMonitors \ {m} : check'[k] = check[k] /\ status'[k] = status[k]
    BY <1>1, <1>2 DEF TypeOK
  <1>4. TypeOK'
    <2>1. <<>> \in Seq(Containers) /\ RAGError \in RAG
      BY EmptySeq DEF RAG, RAGUnknown, RAGError, RAGGreen
    <2>2. /\ check' \in [DockerMonitors -> Seq(Containers)]
          /\ status' \in [DockerMonitors -> RAG]
      BY <1>1, <1>2, <2>1 DEF TypeOK
    <2> QED
      BY <1>1, <1>2, <2>2 DEF TypeOK, requestVars
  <1>5. ChecksHold'
    BY <1>1, <1>2, <1>3 DEF ChecksHold, Spans, Witnessed
  <1>6. StatusHolds'
    <2>1. RAGError # RAGGreen /\ RAGError # RAGRed /\ ~(RAGError > RAGError)
      BY DEF RAGError, RAGGreen, RAGRed
    <2> QED
      BY <1>1, <1>2, <1>3, <2>1 DEF StatusHolds, StatusIsWitnessed, MissingIsReported
  <1>7. RequestHolds'
    BY <1>2, RequestUntouched
  <1> QED
    BY <1>4, <1>5, <1>6, <1>7 DEF IInv

-----------------------------------------------------------------------------
(* The invariant, and what follows from it *)

LEMMA InitHolds == Init => IInv
  <1> SUFFICES ASSUME Init PROVE IInv
    OBVIOUS
  <1>1. TypeOK
    <2>1. /\ 0 \in Counts /\ <<>> \in Seq(Containers) /\ RAGUnknown \in RAG
      BY ListAssumption, EmptySeq DEF Counts, RAG, RAGUnknown, RAGGreen
    <2>2. ExtremesType(low) /\ high = low
      BY <2>1 DEF Init, ExtremesType
    <2> QED
      BY <2>1, <2>2 DEF Init, TypeOK, ExtremesType
  <1>2. RequestHolds
    BY DEF Init, RequestHolds
  <1>3. ChecksHold
    BY DEF Init, ChecksHold
  <1>4. StatusHolds
    BY DEF Init, StatusHolds, StatusIsWitnessed, MissingIsReported,
       RAGUnknown, RAGError, RAGGreen, RAGRed
  <1> QED
    BY <1>1, <1>2, <1>3, <1>4 DEF IInv

LEMMA IInvStep == IInv /\ [Next]_vars => IInv'
  <1> SUFFICES ASSUME IInv, [Next]_vars PROVE IInv'
    OBVIOUS
  <1>1. ASSUME NEW c \in Containers, Crashes(c) \/ Disappears(c) \/ Created(c)
        PROVE  IInv'
    BY <1>1, DaemonSteps
  <1>2. ASSUME NEW id \in Monitors \union Unregistered, RestartRequest(id)
        PROVE  IInv'
    BY <1>2, RestartRequestStep
  <1>3. CASE RestartNext
    BY <1>3, RestartNextStep
  <1>4. CASE RestartFails
    BY <1>4, RestartFailsStep
  <1>5. ASSUME NEW m \in DockerMonitors, StartCheck(m) \/ Inspect(m) \/ InspectFails(m)
        PROVE  IInv'
    BY <1>5, StartCheckStep, InspectStep, InspectFailsStep
  <1>6. CASE UNCHANGED vars
    <2>1. /\ UNCHANGED <<count, check, seen, status, low, high>>
          /\ UNCHANGED <<request, todo, done, reply>>
      BY <1>6 DEF vars
    <2>2. ChecksHold' /\ StatusHolds'
      BY <2>1, ChecksUntouched
    <2>3. RequestHolds'
      BY <2>1, RequestUntouched DEF requestVars
    <2>4. TypeOK'
      BY <2>1 DEF IInv, TypeOK
    <2> QED
      BY <2>2, <2>3, <2>4 DEF IInv
  <1> QED
    BY <1>1, <1>2, <1>3, <1>4, <1>5, <1>6 DEF Next

\* The inductive invariant holds of every reachable state.
LEMMA Invariance == Spec => []IInv
  BY InitHolds, IInvStep, PTL DEF Spec

\* Requests, checks and the containers' histories keep their types, and a
\* request never points outside the list of its own monitor.
THEOREM TypeCorrect == Spec => []TypeOK
  <1>1. IInv => TypeOK
    BY DEF IInv
  <1> QED
    BY <1>1, Invariance, PTL

\* RestartContainers and its handlers: whatever the list, the whitelist and
\* the daemon do, a request restarts only what it may, and OK means all of it.
THEOREM RestartIsExactHolds == Spec => []RestartIsExact
  <1>1. IInv => RestartIsExact
    BY DEF IInv, RequestHolds, RestartIsExact, Wanted
  <1> QED
    BY <1>1, Invariance, PTL

\* DockerMonitor.Check: counts that move while they are read one by one never
\* make a green result of a container that was at the amber level throughout,
\* nor a red one where none had reached the threshold.
THEOREM StatusIsWitnessedHolds == Spec => []StatusIsWitnessed
  <1>1. IInv => StatusIsWitnessed
    BY DEF IInv, StatusHolds
  <1> QED
    BY <1>1, Invariance, PTL

\* GetRestartCounts and Check: a container that is missing all through a check
\* makes its result an error, whatever the others' counts are and whatever the
\* daemon does meanwhile.
THEOREM MissingIsReportedHolds == Spec => []MissingIsReported
  <1>1. IInv => MissingIsReported
    BY DEF IInv, StatusHolds
  <1> QED
    BY <1>1, Invariance, PTL
=============================================================================
