CONSTANTS
    Cores = {a, b}
    NoCore = NoCore
    Batches <- MCBatches3
    MaxId = 6
    MaxContinuity = 3
    LockMayDrop = FALSE
    AckMayBeLost = FALSE
    Facts = {tea, noTea}
    Negations = {noTea}
    Sources = {m1, m2}
    MaxEntries = 3
    MaxForgets = 1
    Topics = {t1, t2}
    GeneralTopics = {t1, t2}
    TopicLimit = 1
    Notes = {n1, n2}
    NoNote = NoNote
    Months = {1, 2}
    Paths = {p, q}
    Contents = {c1, c2}
    NoFile = NoFile
    MaxCheckpoints = 3
    Symbols = {btc, cc}
    SelfSymbols = {btc}
    OrderIds = {o1, o2}
    Prices = {5, 10}
    InitialCash = 40
    FeePercent = 20
    SelfOrderPercent = 30
    SelfPositionPercent = 60
    MaxQuantity = 2
    MaxResets = 1
    MaxCalls = 3
    SiteFiles = {page, style}
    OtherFiles = {script}
    Trees = {"src"}
    TreeOf <- MCTreeOf
    Versions = {v1, v2}
    NoVersion = NoVersion
    MaxOwnerEdits = 1
    MaxCorrections = 1
    MaxNoProgress = 2
    Kinds = {"private", "passive"}
    Directions = 2
    MaxFaults = 1
    EarlySignals = FALSE
SPECIFICATION CoreSpec
INVARIANTS
    AlwaysLoadable RememberedIsKept FilesAreKept PaperAccounted
    LifecycleInv LoopInv
PROPERTIES
    ContinuityNeverRollsBack EveryEntryIsInspected
    EveryEventReachesARound StopEndsLoop
CHECK_DEADLOCK FALSE
