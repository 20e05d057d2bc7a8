CONSTANTS
    Cores = {a, b}
    NoCore = NoCore
    Batches <- MCBatches
    MaxId = 4
    MaxContinuity = 2
    LockMayDrop = TRUE
    AckMayBeLost = TRUE
    MaxRowId = 4
    MaxRepeats = 1
    MaxDamage = 1
    MaxHistory = 5
    MaxCalls = 2
    Mailboxes = {g, p}
    Groups = {g}
    Lease = 1
    LightAfter = 2
    FullAfterRounds = 2
    FullAfterTokens = 1
    EndOfTime = 2
    MaxRounds = 2
    MaxTokens = 1
    MaxCompactions = 1
SPECIFICATION LedgerSpec
INVARIANTS
    ViewIsPrefixProjection NothingDroppedUnsummarized
    HistoryInv RequestInv
PROPERTIES
    ImplementsHistory
SYMMETRY CoreSymmetry
CHECK_DEADLOCK FALSE
