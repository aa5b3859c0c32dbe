---------------------------- MODULE MCCheckCycle ----------------------------
(* Small instances of CheckCycle for TLC. *)
EXTENDS CheckCycle, TLC

CONSTANTS a, b, g1, g2

Symmetric == Permutations(Checks)
=============================================================================
