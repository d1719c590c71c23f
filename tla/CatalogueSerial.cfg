CONSTANTS
    Docs = {d1}
    Handlers = {1}
    RetryJob = RetryJob
    Operator = Operator
    MaxEntries = 3
    MaxTries = 1
    MaxAttempts = 2
    PageSize = 1
    MaxFailures = 1
    MaxCrashes = 0
    MaxPresses = 0
    Window = 50
    SkippedPushes = 0
    Connected = TRUE
    Overlap = FALSE
    OwnWrites = TRUE
    PullRowsFail = TRUE
    KeyIsHandle = FALSE
SPECIFICATION FairSpec
PROPERTIES
    OffSale
CHECK_DEADLOCK FALSE
