\* Two monitors are removed and added again under running checks and cycles.
SPECIFICATION Spec
CONSTANTS
    disk = disk
    cpu = cpu
    w = w
    c1 = c1
    c2 = c2
    c3 = c3
    g1 = g1
    g2 = g2
    Red = Red
    None = None
    Green = Green
    Names = {disk, cpu}
    Monitors <- DiskAndCpu
    SystemNames = {}
    Removable = {disk, cpu}
    Statuses = {Green}
    Windows = {}
    Checks = {g1, g2}
    Counters = {c1, c2, c3}
    MaxCount = 2
SYMMETRY Symmetric
VIEW View
INVARIANTS TypeOK QuietRemoval 
PROPERTY RemovalStopsChecks
