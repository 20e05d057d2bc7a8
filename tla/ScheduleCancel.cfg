CONSTANTS
    Ids = {s, t}
    NoId = NoId
    MaxActive = 2
    MaxFaults = 2
SPECIFICATION Spec
PROPERTY
    CancelledNeverWakes
CHECK_DEADLOCK FALSE
