CONSTANTS
    Ids = {s, t}
    NoId = NoId
    MaxActive = 2
    MaxFaults = 3
    LaneCount = 2
    Concurrency <- MCConcurrency
    Resources = {r1, r2}
    DedupeKeys = {k1}
    NoKey = NoKey
    MaxJobs = 3
    MaxTasks = 3
    MaxActiveTasks = 2
    MaxWriteFailures = 1
    MaxRestarts = 1
    MaxQueued = 2
    StartRequests = {s1}
    Entries = {memory, site}
    Knowledge = {memory}
    RecentLimit = 1
    MaxRuns = 2
    MaxPreviews = 1
    MaxPids = 2
    MaxRows = 2
    MaxCoreStarts = 1
    MaxResetFaults = 1
    Sidecars = {gw, mw}
    AgentCore = core
SPECIFICATION BackSpec
INVARIANTS
    NoWakeLost WakeCommittedOnce SchedulerInv BackgroundInv OperationsInv
PROPERTIES
    EveryScheduleWakes EveryTaskIsTold EveryWaiterAnswered
CHECK_DEADLOCK FALSE
