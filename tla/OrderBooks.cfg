CONSTANTS
    Payments = {p1, p2}
    InStep = TRUE
    LostLinks = FALSE
    MaxEvents = 3
    MaxFailures = 1
    MaxCrashes = 1
SPECIFICATION FairSpec
INVARIANTS
    NothingMadeTwice
    SaleLeavesTrace
PROPERTIES
    KeepsBooks
    OverIsUnwound
    PaidIsBooked
CHECK_DEADLOCK FALSE
