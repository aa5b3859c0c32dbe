-------------------------- MODULE ContainerMonitor --------------------------
(***************************************************************************)
(* Docker monitors.  A check inspects its containers one after another and *)
(* takes the worst; a restart request, of a docker monitor or of a health  *)
(* check that names containers, restarts those the whitelist allows one    *)
(* after another, with Server.mu held, and stops at the first that fails.  *)
(* The daemon goes on by itself meanwhile: containers crash, disappear and *)
(* are created again.                                                      *)
(***************************************************************************)
EXTENDS Status, Sequences, FiniteSets

CONSTANTS
    Containers,
    DockerMonitors, HealthMonitors,  \* registered monitors
    Unregistered,                    \* ids of no monitor
    List,          \* the containers of each monitor, as configured
    Allowed,       \* allowedrestartcontainers; empty allows all
    Threshold,     \* of each docker monitor
    None, Gone,
    MaxCount       \* bound on a restart count

Monitors == DockerMonitors \union HealthMonitors
Elements(s) == {s[i] : i \in DOMAIN s}

ASSUME ListAssumption ==
    /\ List \in [Monitors -> Seq(Containers)]
    /\ \A m \in DockerMonitors : List[m] # <<>>
    /\ Allowed \subseteq Containers /\ Threshold \in [DockerMonitors -> Nat]
    /\ Gone \notin Nat /\ MaxCount \in Nat

VARIABLES
    count,     \* RestartCount of each container; Gone if there is none
    request,   \* the last restart request: the monitor it is for
    todo,      \* the places in its list still to restart; mu is held meanwhile
    done,      \* those it has restarted
    reply,     \* its response; 0 while there is none
    check,     \* each docker monitor's check: what is still to inspect
    seen,      \* the restart counts the check has read
    status,    \* the result of its last check
    low, high  \* history: the extremes of each count since a check began
vars == <<count, request, todo, done, reply, check, seen, status, low, high>>
requestVars == <<request, todo, done, reply>>
checkVars == <<check, seen, status>>

Least(a, b) == IF a = Gone \/ (b # Gone /\ b < a) THEN b ELSE a
Most(a, b) == IF a = Gone \/ (b # Gone /\ b > a) THEN b ELSE a

Init ==
    /\ count = [c \in Containers |-> 0]
    /\ request = None /\ todo = {} /\ done = {} /\ reply = 0
    /\ check = [m \in DockerMonitors |-> <<>>]
    /\ seen = [m \in DockerMonitors |-> {}]
    /\ status = [m \in DockerMonitors |-> RAGUnknown]
    /\ low = [m \in DockerMonitors |-> [c \in Elements(List[m]) |-> 0]] /\ high = low

Watched(m, c) == check[m] # <<>> /\ c \in Elements(List[m])

\* A count changes, and the extremes of the checks under way with it.
SetCount(c, n) ==
    /\ count' = [count EXCEPT ![c] = n]
    /\ low' = [m \in DockerMonitors |->
          IF Watched(m, c) THEN [low[m] EXCEPT ![c] = Least(@, n)] ELSE low[m]]
    /\ high' = [m \in DockerMonitors |->
          IF Watched(m, c) THEN [high[m] EXCEPT ![c] = Most(@, n)] ELSE high[m]]

----------------------------------------------------------------------------
(* The daemon: a container's restart policy, its removal, its creation.    *)

Crashes(c) ==
    /\ count[c] # Gone /\ count[c] < MaxCount
    /\ SetCount(c, count[c] + 1) /\ UNCHANGED <<requestVars, checkVars>>
Disappears(c) ==
    /\ count[c] # Gone
    /\ SetCount(c, Gone) /\ UNCHANGED <<requestVars, checkVars>>
Created(c) ==
    /\ count[c] = Gone
    /\ SetCount(c, 0) /\ UNCHANGED <<requestVars, checkVars>>

----------------------------------------------------------------------------
(* Restart requests.                                                       *)

IsAllowed(c) == Allowed = {} \/ c \in Allowed

\* filterAllowedContainers: the places of the allowed ones in a monitor's list.
ToRestart(m) == {i \in DOMAIN List[m] : IsAllowed(List[m][i])}

\* The list is restarted from the front.
Place == CHOOSE i \in todo : \A j \in todo : i <= j

\* Mutant: No customResponseWriter.
RespondAsIs(code) == reply' = code

\* LoggingHandler turns every 404 into a redirect to the 404 page.
Respond(code) == reply' = IF code = 404 THEN 302 ELSE code

RestartRequest(id) ==
    /\ todo = {}
    /\ request' = id /\ done' = {}
    /\ \/ /\ id \in Unregistered /\ Respond(404) /\ UNCHANGED todo
       \/ /\ id \in Monitors /\ ToRestart(id) = {} /\ Respond(500) /\ UNCHANGED todo
       \/ /\ id \in Monitors /\ ToRestart(id) # {}
          /\ todo' = ToRestart(id) /\ reply' = 0
    /\ UNCHANGED <<count, checkVars, low, high>>

\* Mutant: OK after the first container.
AfterFirstRestart == todo' = todo \ {Place} /\ Respond(200)

\* What a request does after a container was restarted: the next, or OK.
AfterRestart ==
    /\ todo' = todo \ {Place}
    /\ IF todo = {Place} THEN Respond(200) ELSE UNCHANGED reply

\* The daemon clears the count of a container that is restarted by hand.
RestartNext ==
    LET c == List[request][Place] IN
    /\ todo # {} /\ count[c] # Gone
    /\ SetCount(c, 0)
    /\ done' = done \union {c}
    /\ AfterRestart
    /\ UNCHANGED <<request, checkVars>>

\* No such container, an error of the daemon, or the server is stopping.
RestartFails ==
    /\ todo # {}
    /\ todo' = {} /\ Respond(500)
    /\ UNCHANGED <<count, request, done, checkVars, low, high>>

----------------------------------------------------------------------------
(* Checks.                                                                 *)

StartCheck(m) ==
    /\ check[m] = <<>>
    /\ check' = [check EXCEPT ![m] = List[m]]
    /\ seen' = [seen EXCEPT ![m] = {}]
    /\ low' = [low EXCEPT ![m] = [c \in Elements(List[m]) |-> count[c]]]
    /\ high' = [high EXCEPT ![m] = low'[m]]
    /\ UNCHANGED <<count, requestVars, status>>

\* Mutant: The smallest of the counts.
FewestRestarts(counts) == CHOOSE n \in counts : \A k \in counts : k >= n

MaxRestarts(counts) == CHOOSE n \in counts \union {0} : \A k \in counts : k <= n

Inspect(m) ==
    /\ check[m] # <<>> /\ count[Head(check[m])] # Gone
    /\ check' = [check EXCEPT ![m] = Tail(@)]
    /\ seen' = [seen EXCEPT ![m] = @ \union {count[Head(check[m])]}]
    /\ status' = IF Len(check[m]) > 1 THEN status
                 ELSE [status EXCEPT ![m] = RestartStatus(MaxRestarts(seen'[m]), Threshold[m])]
    /\ UNCHANGED <<count, requestVars, low, high>>

\* Mutant: GetRestartCounts goes on after a container that does not exist.
InspectSkips(m) ==
    /\ check[m] # <<>> /\ count[Head(check[m])] = Gone
    /\ check' = [check EXCEPT ![m] = Tail(@)]
    /\ status' = IF Len(check[m]) > 1 THEN status
                 ELSE [status EXCEPT ![m] = RestartStatus(MaxRestarts(seen[m]), Threshold[m])]
    /\ UNCHANGED <<count, requestVars, seen, low, high>>

\* No such container, an error of the daemon, or the check's context is done.
InspectFails(m) ==
    /\ check[m] # <<>>
    /\ check' = [check EXCEPT ![m] = <<>>]
    /\ status' = [status EXCEPT ![m] = RAGError]
    /\ UNCHANGED <<count, requestVars, seen, low, high>>

Next ==
    \/ \E c \in Containers : Crashes(c) \/ Disappears(c) \/ Created(c)
    \/ \E id \in Monitors \union Unregistered : RestartRequest(id)
    \/ RestartNext \/ RestartFails
    \/ \E m \in DockerMonitors : StartCheck(m) \/ Inspect(m) \/ InspectFails(m)

Spec == Init /\ [][Next]_vars

----------------------------------------------------------------------------
(* Properties.                                                             *)

Counts == 0..MaxCount
TypeOK ==
    /\ count \in [Containers -> Counts \union {Gone}]
    /\ request \in Monitors \union Unregistered \union {None}
    /\ todo # {} => request \in Monitors /\ todo \subseteq ToRestart(request)
    /\ done \subseteq Containers
    /\ reply \in {0, 200, 302, 500}
    /\ check \in [DockerMonitors -> Seq(Containers)]
    /\ seen \in [DockerMonitors -> SUBSET Counts]
    /\ status \in [DockerMonitors -> RAG]
    /\ \A h \in {low, high} : DOMAIN h = DockerMonitors /\
          \A m \in DockerMonitors : h[m] \in [Elements(List[m]) -> Counts \union {Gone}]

\* Whatever becomes of a restart request, it only ever restarts containers
\* of its own monitor that the whitelist allows; it answers OK only when there
\* were such and it has restarted all of them, so a list cut short by a failure
\* is never reported as a success.
RestartIsExact ==
    request # None =>
        LET wanted == IF request \in Monitors
                      THEN {c \in Elements(List[request]) : IsAllowed(c)} ELSE {} IN
        /\ done \subseteq wanted
        /\ reply = 200 => wanted # {} /\ done = wanted

\* A check is no snapshot: containers crash, and are restarted by a request,
\* while it reads them one by one.  Still a green result means that each
\* container was below the amber level at some time during the check, and a
\* red one that some container had reached the threshold during it.
StatusIsWitnessed ==
    \A m \in DockerMonitors : check[m] = <<>> =>
        LET of == Elements(List[m]) IN
        /\ status[m] = RAGGreen => \A c \in of : low[m][c] < AmberRestarts(Threshold[m])
        /\ status[m] = RAGRed => \E c \in of :
              high[m][c] # Gone /\ high[m][c] >= Threshold[m]

\* GetRestartCounts gives up at the first container it cannot inspect, so the
\* loss of one is never hidden behind the counts of the others: a check that
\* ends green, amber or red found each container of its list at some time of it.
MissingIsReported ==
    \A m \in DockerMonitors : check[m] = <<>> /\ status[m] > RAGError =>
        \A c \in Elements(List[m]) : high[m][c] # Gone
============================================================================
