CONSTANTS
    Records = {r1}
    Values = {a, b}
    Qualifying = {a}
    SkipUnchanged = FALSE
    KeyFound = TRUE
    MaxEdits = 2
    MaxAttempts = 2
    Window = 1
    MaxFailures = 1
    MaxCrashes = 0
    MaxReplays = 0
SPECIFICATION FairSpec
PROPERTIES
    RowsSettle
CHECK_DEADLOCK FALSE
