------------------------- MODULE MCMaintenanceWindow -------------------------
(* Small instances of MaintenanceWindow for TLC: schedules that repeat every
   Cycle instants, unrolled over the times the model looks at. *)
EXTENDS MaintenanceWindow

Cycle == 4
Unrolled(residues) == {x \in -6 .. 20 : x % Cycle \in residues}

\* Every repeating schedule, with durations shorter and longer than a cycle,
\* and configurations validation refuses.
Repeating ==
    [cron : Cron, Duration : -1 .. 6,
     triggers : {Unrolled(r) : r \in (SUBSET (0 .. Cycle - 1)) \ {{}}}]

ZeroInstant == -100
=============================================================================
