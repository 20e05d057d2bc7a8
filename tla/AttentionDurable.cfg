CONSTANTS
    Private = {p}
    Group = {}
    LastRow = 2
    MaxEntries = 5
SPECIFICATION AttentionSpec
INVARIANT
    PendingIsDurable
CHECK_DEADLOCK FALSE
