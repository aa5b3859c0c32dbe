----------------------------- MODULE AlertPolicy -----------------------------
(***************************************************************************)
(* What the monitor service promises the people it notifies, with no       *)
(* goroutines, maps or counter cells: after Threshold[n] failures in a row *)
(* they are told once that the monitor is down, and at the first success   *)
(* after that they are told once that it is well again.                    *)
(*                                                                         *)
(* The promise is stated on what the receiver was last told, which the     *)
(* code never records: it decides from the previous result and the count   *)
(* (checkStoreAndPush, src/monitors/monitors.go).  MonitorService          *)
(* implements this policy when checks of a name do not overlap.            *)
(***************************************************************************)
EXTENDS Naturals

CONSTANTS Names,        \* what is monitored
          Threshold,    \* per name, failures in a row before they are told:
                        \* positive, and less than MaxFailures
          MaxFailures   \* the count of failures stays here (bound)

VARIABLES failures,  \* failures in a row observed, per name
          told,      \* what the receiver was last told: "none", "down", "ok"
          owed       \* what it is about to be told, or "none"

vars == <<failures, told, owed>>

Init == /\ failures = [n \in Names |-> 0]
        /\ told = [n \in Names |-> "none"]
        /\ owed = [n \in Names |-> "none"]

\* Another failure: the receiver has to know of it at the threshold.
Fail(n) ==
    LET f == IF failures[n] < MaxFailures THEN failures[n] + 1 ELSE MaxFailures
    IN  /\ owed[n] = "none"
        /\ failures' = [failures EXCEPT ![n] = f]
        /\ owed' = [owed EXCEPT ![n] =
                      IF f >= Threshold[n] /\ told[n] # "down"
                      THEN "down" ELSE "none"]
        /\ UNCHANGED told

\* A success: a receiver that believes the monitor down has to be told.
Succeed(n) ==
    /\ owed[n] = "none"
    /\ failures' = [failures EXCEPT ![n] = 0]
    /\ owed' = [owed EXCEPT ![n] = IF told[n] = "down" THEN "ok" ELSE "none"]
    /\ UNCHANGED told

Deliver(n) ==
    /\ owed[n] # "none"
    /\ told' = [told EXCEPT ![n] = owed[n]]
    /\ owed' = [owed EXCEPT ![n] = "none"]
    /\ UNCHANGED failures

Next == \E n \in Names : Fail(n) \/ Succeed(n) \/ Deliver(n)

Spec == Init /\ [][Next]_vars
=============================================================================
