CONSTANTS
    Docs = {d1}
    Handlers = {1}
    RetryJob = RetryJob
    Operator = Operator
    MaxEntries = 3
    MaxTries = 1
    MaxAttempts = 2
    PageSize = 1
    MaxFailures = 0
    MaxCrashes = 0
    MaxPresses = 0
    Window = 50
    SkippedPushes = 0
    Connected = TRUE
    Overlap = FALSE
    OwnWrites = FALSE
    PullRowsFail = FALSE
    KeyIsHandle = FALSE
SPECIFICATION Spec
PROPERTIES
    LeftAloneStaysUp
CHECK_DEADLOCK FALSE
