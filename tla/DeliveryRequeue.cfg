CONSTANTS
    Mailboxes = {p, g}
    NoBox = NoBox
    Fresh = {}
    MaxRow = 4
    MaxFaults = 1
    BacklogThreshold = 4
    PageSize = 2
    LateVisibility = FALSE
    CommitMayFail = TRUE
    AckMayBeLost = FALSE
SPECIFICATION Spec
INVARIANT
    FailedCommitLosesNothing
CHECK_DEADLOCK FALSE
