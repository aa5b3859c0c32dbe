\* The threshold is lowered below a count already reached.
SPECIFICATION SerialSpec
CONSTANTS
    disk = disk
    cpu = cpu
    w = w
    c1 = c1
    c2 = c2
    c3 = c3
    g1 = g1
    g2 = g2
    Red = Red
    None = None
    Green = Green
    Names = {cpu}
    Monitors <- Rethresholded
    SystemNames = {cpu}
    Removable = {}
    Statuses = {Green, Red}
    Windows = {}
    Checks = {g1, g2}
    Counters = {c1}
    MaxCount = 3
PROPERTY FailureIsAlerted
