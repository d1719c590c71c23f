CONSTANTS
    Records = {r1}
    Values = {a, b}
    Qualifying = {a, b}
    SkipUnchanged = TRUE
    KeyFound = TRUE
    MaxEdits = 3
    MaxAttempts = 2
    Window = 3
    MaxFailures = 0
    MaxCrashes = 0
    MaxReplays = 0
SPECIFICATION Spec
PROPERTIES
    SkipIsNoOp
CHECK_DEADLOCK FALSE
