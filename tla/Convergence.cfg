\* Overlapping checks of the cpu monitor, which the system form edits.
SPECIFICATION FairSpec
CONSTANTS
    disk = disk
    cpu = cpu
    w = w
    c1 = c1
    c2 = c2
    c3 = c3
    g1 = g1
    g2 = g2
    Red = Red
    None = None
    Green = Green
    Names = {cpu}
    Monitors <- CpuOnce
    SystemNames = {cpu}
    Removable = {}
    Statuses = {Green, Red}
    Windows = {w}
    Checks = {g1, g2}
    Counters = {c1}
    MaxCount = 2
INVARIANTS NoDuplicateFailureAlert OutageIsAlerted
PROPERTIES Convergence
