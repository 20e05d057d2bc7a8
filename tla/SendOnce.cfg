CONSTANTS
    Mailboxes = {m1, m2}
    NoBox = NoBox
    Fresh = {m1, m2}
    MaxRow = 3
    MaxFaults = 2
    BacklogThreshold = 1
    PageSize = 2
    LateVisibility = TRUE
    CommitMayFail = TRUE
    AckMayBeLost = TRUE
    Private = {p}
    Group = {g}
    LastRow = 2
    MaxEntries = 5
    Targets <- MCTargets
    Texts = {x, none}
    NoText = none
    NoTarget = NoTarget
    MonitoredGroups <- MCMonitored
    AmbientGroups = {}
    PrivateCooldown = 1
    DuplicateWindow = 2
    RetryLimit = 2
    MaxActions = 2
    MaxTime = 2
    Media = {i, j}
    InView = {i}
    Blobs = {b}
    NoBlob = NoBlob
    Descriptions = {d}
    NoCaption = NoCaption
    Undescribed = Undescribed
    Oversize = Oversize
    MaxMediaFaults = 1
    Offered <- MCOffered
    MaxCalls = 2
    ActionSlots = {a1, a2}
    MaxBrowserPages = 3
    MaxLaunches = 2
    FeishuGroups = {fg}
    FeishuPrivate = {fp}
    Pictures = {fg}
    GroupSettings = {{fg}, {}}
    IngestAttempts = 2
    MaxReceipts = 3
    MaxGatewayStarts = 2
    MaxGatewayFaults = 1
SPECIFICATION MessageSpec
INVARIANT
    DeliveredOncePerAction
CHECK_DEADLOCK FALSE
