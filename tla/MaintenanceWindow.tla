-------------------------- MODULE MaintenanceWindow --------------------------
(***************************************************************************)
(* Maintenance windows: the configuration a monitor is given               *)
(* (ValidateMaintenanceConfig and MaintenancePtr, src/config/config.go)    *)
(* and the test the service applies to it as time passes                   *)
(* (IsInMaintenanceWindow, src/monitors/maintenance.go).                   *)
(*                                                                         *)
(* A valid cron expression is the set of instants it triggers at.  The     *)
(* cron library's Next(t) is modelled by what it promises: the first       *)
(* trigger strictly after t, or the zero time when it finds none within    *)
(* the years it searches.                                                  *)
(***************************************************************************)
EXTENDS Integers

CONSTANTS
    Configs,      \* maintenance configurations a request or the file can hold
    SearchLimit,  \* how far Next looks for a trigger (five years in the library)
    ZeroTime,     \* time.Time{}, before every instant of the model
    MaxTime,      \* the clock runs from 0 to MaxTime (bound)
    None          \* no window configured: the nil of MaintenancePtr

Cron == {"empty", "invalid", "valid"}

ASSUME WindowAssumption ==
    /\ Configs \subseteq [cron : Cron, triggers : SUBSET Int, Duration : Int]
    /\ SearchLimit \in Nat \ {0}
    /\ MaxTime \in Nat
    /\ ZeroTime \in Int /\ ZeroTime < 0
    /\ None \notin Configs

VARIABLES window,  \* the window in force for the monitor, or None
          now      \* the clock, in UTC

vars == <<window, now>>

-----------------------------------------------------------------------------

Later(T, t) == {x \in T : t < x /\ x <= t + SearchLimit}

\* schedule.Next(t)
NextTrigger(T, t) ==
    IF Later(T, t) = {} THEN ZeroTime
    ELSE CHOOSE x \in Later(T, t) : \A y \in Later(T, t) : x <= y

\* Mutant: the instant Duration before now is included.
SearchFromInclusive(mc, t) == t - mc.Duration - 1

\* The instant after which the first trigger is looked for.
SearchFrom(mc, t) == t - mc.Duration

IsInMaintenanceWindow(mc, t) ==
    /\ mc # None
    /\ mc.cron = "valid"
    /\ mc.Duration > 0
    /\ NextTrigger(mc.triggers, SearchFrom(mc, t)) <= t

\* Mutant: the duration is not checked.
ValidCron(mc) == mc.cron # "invalid"

\* ValidateMaintenanceConfig returns nil.
Valid(mc) == mc.cron = "empty" \/ (mc.cron = "valid" /\ mc.Duration > 0)

MaintenancePtr(mc) == IF mc.cron = "empty" THEN None ELSE mc

-----------------------------------------------------------------------------

Init == window = None /\ now = 0

\* Every way to give a monitor a window goes through the mapper, which refuses
\* an invalid one and leaves the window in force alone.
SetWindow(mc) == /\ Valid(mc)
                 /\ window' = MaintenancePtr(mc)
                 /\ UNCHANGED now

Advance == /\ now < MaxTime
           /\ now' = now + 1
           /\ UNCHANGED window

Next == Advance \/ \E mc \in Configs : SetWindow(mc)

Spec == Init /\ [][Next]_vars

-----------------------------------------------------------------------------
(* Properties *)

\* The clock is in its range, and what is in force passed validation.
TypeOK == /\ window \in Configs \union {None}
          /\ window # None => window.cron = "valid" /\ window.Duration > 0
          /\ now \in 0 .. MaxTime

\* A trigger at or before t whose Duration is not over covers t.
Covered(mc, t) == \E x \in mc.triggers : x <= t /\ t < x + mc.Duration

\* From any instant the search of Next reaches a trigger.
Recurs(mc) == \A t \in (-mc.Duration) .. MaxTime : Later(mc.triggers, t) # {}

\* Looking only at the first trigger after now - Duration is enough: while the
\* schedule recurs, the monitor is in its window exactly when some trigger
\* covers the present time, overlapping and back-to-back windows included
\* (maintenance.go:37-43).
WindowIsCovered ==
    window # None /\ Recurs(window) =>
        (IsInMaintenanceWindow(window, now) <=> Covered(window, now))
=============================================================================
