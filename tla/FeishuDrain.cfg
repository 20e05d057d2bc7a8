CONSTANTS
    FeishuGroups = {fg}
    FeishuPrivate = {fp}
    Pictures = {fg}
    GroupSettings = {{fg}, {}}
    IngestAttempts = 2
    MaxReceipts = 3
    MaxGatewayStarts = 2
    MaxGatewayFaults = 1
SPECIFICATION FeishuSpec
INVARIANT
    ReceivedIsKept
CHECK_DEADLOCK FALSE
