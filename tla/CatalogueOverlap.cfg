CONSTANTS
    Docs = {d1}
    Handlers = {1, 2}
    RetryJob = RetryJob
    Operator = Operator
    MaxEntries = 2
    MaxTries = 2
    MaxAttempts = 2
    PageSize = 1
    MaxFailures = 1
    MaxCrashes = 1
    MaxPresses = 1
    Window = 2
    SkippedPushes = 1
    Connected = FALSE
    Overlap = TRUE
    OwnWrites = FALSE
    PullRowsFail = FALSE
    KeyIsHandle = FALSE
SPECIFICATION DeliverySpec
INVARIANTS
    TypeOK
    OneApplyPerDelivery
PROPERTIES
    AppliedStaysApplied
    DeliveriesSettle
CHECK_DEADLOCK FALSE
