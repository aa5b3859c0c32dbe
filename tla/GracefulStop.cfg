\* A signal while a handler is at work.
SPECIFICATION Spec
CONSTANTS
    a = a
    b = b
    g1 = g1
    g2 = g2
    Server = Server
    Generations = {a, b}
    Checks = {g1}
    Intervals = {3}
    InitialTimeout = 9
    InitialPeriod = 6
    Healths = {"up"}
    Threshold = 1
    ReceiverFails = TRUE
PROPERTIES GracefulStop
CHECK_DEADLOCK FALSE
