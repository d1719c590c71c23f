CONSTANTS
    Records = {r1, r2}
    Values = {a}
    Qualifying = {a}
    SkipUnchanged = FALSE
    KeyFound = TRUE
    MaxEdits = 2
    MaxAttempts = 2
    Window = 2
    MaxFailures = 2
    MaxCrashes = 1
    MaxReplays = 1
SPECIFICATION FairSpec
INVARIANTS
    TypeOK
    NothingForgotten
PROPERTIES
    MirrorsRecords
    RowsSettle
    ReachesErpnext
CHECK_DEADLOCK FALSE
