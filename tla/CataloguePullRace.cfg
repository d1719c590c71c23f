CONSTANTS
    Docs = {d1}
    Handlers = {1}
    RetryJob = RetryJob
    Operator = Operator
    MaxEntries = 3
    MaxTries = 0
    MaxAttempts = 2
    PageSize = 1
    MaxFailures = 0
    MaxCrashes = 0
    MaxPresses = 0
    Window = 50
    SkippedPushes = 0
    Connected = TRUE
    Overlap = TRUE
    OwnWrites = FALSE
    PullRowsFail = FALSE
    KeyIsHandle = TRUE
SPECIFICATION FairSpec
PROPERTIES
    OffSale
CHECK_DEADLOCK FALSE
