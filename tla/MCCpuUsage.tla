----------------------------- MODULE MCCpuUsage -----------------------------
(* A machine that was idle and busy before the process started. *)
EXTENDS CpuUsage, TLC

CONSTANTS p1, p2, g1, g2

MCBoot == [busy |-> 1, idle |-> 1]
Symmetric == Permutations(Checks) \union Permutations(Providers)
=============================================================================
