\* Every repeating schedule of a short cycle.
SPECIFICATION Spec
CONSTANTS
    None = None
    Configs <- Repeating
    SearchLimit = 4
    ZeroTime <- ZeroInstant
    MaxTime = 12
INVARIANTS TypeOK WindowIsCovered
