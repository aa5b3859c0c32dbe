\* The interval is set to zero.
SPECIFICATION FairSpec
CONSTANTS
    a = a
    b = b
    g1 = g1
    g2 = g2
    Server = Server
    Generations = {a, b}
    Checks = {g1}
    Intervals = {0, 3}
    InitialTimeout = 9
    InitialPeriod = 6
    Healths = {"up"}
    Threshold = 1
    ReceiverFails = TRUE
PROPERTIES ChecksRestart
CHECK_DEADLOCK FALSE
