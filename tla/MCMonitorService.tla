-------------------------- MODULE MCMonitorService --------------------------
(* Small instances of MonitorService for TLC. *)
EXTENDS MonitorService, TLC

CONSTANTS disk, cpu, w, c1, c2, c3, g1, g2, Red

Instance(n, t, window) ==
    [name |-> n, alertThreshold |-> t, maintenance |-> window]

\* One instance with a window; one of each of two names; edited to have a
\* window; edited from one threshold to another.
CpuOnce == {Instance(cpu, 1, w)}
DiskAndCpu == {Instance(disk, 1, None), Instance(cpu, 1, None)}
Rewindowed == {Instance(disk, 2, None), Instance(disk, 2, w)}
Rethresholded == {Instance(cpu, 2, None), Instance(cpu, 1, None)}

\* States that differ in a counter nothing refers to, or in the notification
\* history (which no step reads), have the same future.
View ==
    <<monitors, result, failureCount, maintenance, api, sched, chk, health, open,
      quiet,
      [c \in Counters \ FreeCounters |-> <<count[c], alerts[c]>>]>>

Symmetric == Permutations(Checks) \union Permutations(Counters)
=============================================================================
