CONSTANTS
    Payments = {p1, p2}
    InStep = TRUE
    LostLinks = TRUE
    MaxEvents = 3
    MaxFailures = 1
    MaxCrashes = 1
SPECIFICATION Spec
INVARIANT
    NothingMadeTwice
CHECK_DEADLOCK FALSE
