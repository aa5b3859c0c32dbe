\* The checks of one name never overlap; its window is edited.
SPECIFICATION SerialFairSpec
CONSTANTS
    disk = disk
    cpu = cpu
    w = w
    c1 = c1
    c2 = c2
    c3 = c3
    g1 = g1
    g2 = g2
    Red = Red
    None = None
    Green = Green
    Names = {disk}
    Monitors <- Rewindowed
    SystemNames = {}
    Removable = {}
    Statuses = {Green, Red}
    Windows = {w}
    Checks = {g1, g2}
    Counters = {c1}
    MaxCount = 3
INVARIANTS ResultMatchesCount
PROPERTIES ImplementsAlertPolicy OutageIsReported NoCheckInsideWindow
