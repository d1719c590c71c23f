CONSTANTS
    Docs = {d1, d2}
    Handlers = {1}
    RetryJob = RetryJob
    Operator = Operator
    MaxEntries = 4
    MaxTries = 0
    MaxAttempts = 2
    PageSize = 1
    MaxFailures = 0
    MaxCrashes = 1
    MaxPresses = 0
    Window = 50
    SkippedPushes = 0
    Connected = TRUE
    Overlap = FALSE
    OwnWrites = FALSE
    PullRowsFail = FALSE
    KeyIsHandle = TRUE
SPECIFICATION FairSpec
INVARIANTS
    WatermarkCovers
PROPERTIES
    FollowsErpnext
CHECK_DEADLOCK FALSE
