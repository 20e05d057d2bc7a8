CONSTANTS
    Mailboxes = {p, g}
    NoBox = NoBox
    Fresh = {}
    MaxRow = 3
    MaxFaults = 1
    BacklogThreshold = 1
    PageSize = 2
    LateVisibility = FALSE
    CommitMayFail = FALSE
    AckMayBeLost = FALSE
    Groups = {g}
    Privates = {p}
    NoScope = NoScope
    BackfillCount = 2
    MaxAttempts = 2
    MaxMessages = 2
    MaxIngressFaults = 2
    PageLimit = 2
    OutputCap = 5
    ContextMax = 2
    Sizes = {1, 2, 4}
    MaxInboxRows = 4
    MaxRetries = 2
    MaxContinuations = 2
    HasFallback = TRUE
    Width = 2
    AnswerCap = 2
    CaptureCap = 7
    MaxOutput = 5
    MaxTableRows = 4
    MaxCommandCalls = 1
SPECIFICATION ConversationSpec
INVARIANTS
    CursorPassesOnlyDisclosed FactsFollowEvents CursorCoversShown RecoveryIsBounded CommandInv
PROPERTIES
    EveryMessageDisclosed EveryGroupMessageStored EveryCallIsAnswered
CHECK_DEADLOCK FALSE
