CONSTANTS
    MaxCorrections = 1
    MaxNoProgress = 2
    Kinds = {"passive"}
    Directions = 2
    MaxFaults = 0
    EarlySignals = TRUE
SPECIFICATION LifecycleSpec
INVARIANTS
    EveryDisconnectIsLast
CHECK_DEADLOCK FALSE
