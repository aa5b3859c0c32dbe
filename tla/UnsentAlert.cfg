\* A check that hangs until its cycle times out.
SPECIFICATION Spec
CONSTANTS
    a = a
    b = b
    g1 = g1
    g2 = g2
    Server = Server
    Generations = {a, b}
    Checks = {g1, g2}
    Intervals = {3}
    InitialTimeout = 9
    InitialPeriod = 6
    Healths = {"hung"}
    Threshold = 1
    ReceiverFails = FALSE
PROPERTIES EveryAlertIsSent
CHECK_DEADLOCK FALSE
