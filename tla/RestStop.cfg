CONSTANTS
    MaxCorrections = 1
    MaxNoProgress = 2
    Kinds = {"passive"}
    Directions = 2
    MaxFaults = 0
    EarlySignals = FALSE
SPECIFICATION LifecycleSpec
INVARIANTS
    StopEndsRest
CHECK_DEADLOCK FALSE
