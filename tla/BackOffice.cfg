CONSTANTS
    Sweepers = {s1, s2}
    Appliers = {h1}
    SweepLimit = 4
    MaxRows = 2
    MaxMoves = 1
    MaxWalletFaults = 1
    Statements <- StatementsOf
    GstTolerance = 1
    MaxGatewayFaults = 2
    MaxMeddles = 1
    StoreOrders = {o1}
    Refreshers = {r1, r2}
    Rates = {1, 2}
    Safety = 1
    MaxStock = 2
    MaxStockMoves = 2
    MaxStockFaults = 1
    Draws <- DrawsOf
    Ordered <- OrderedOf
    TakenBack <- NotesTakenBack
    MaxDeliveryFaults = 1
    MaxCopyFaults = 2
    Pushers = {p1, p2}
    MaxEdits = 3
    CustomerPushers = {u1, u2}
    MaxCustomerFaults = 1
    Rounders = {g1, g2}
    Carts <- CartsOf
    Rules <- RulesOf
    Gift = 500
    MaxChanges = 1
    RateRefreshers = {t1, t2}
    Percents = {5, 12, 18}
    DefaultPercent = 18
    MaxTemplates = 2
    MaxGstFaults = 1
    Webhooks <- WebhooksOf
    OnSelection = {"Item"}
    MaxSettings = 2
    MaxDeskEdits = 1
    MaxSetupFaults = 1
    MaxRuns = 3
    Tabs = {b1, b2}
    PushNeeds = {"name"}
    PullNeeds = {"price"}
    OtherPairs = {}
    Shipped <- ShippedOf
    MaxSaves = 2
    MaxRehearsals = 1
    MaxDriftChecks = 1
    Zones <- ZonesOf
    Instants = {5, 6, 7, 8, 9, 12, 13}
    WallTimes = {0, 2, 6, 8, 10, 12, 14}
    DayLength = 12
    MaxFieldEdits = 2
    Conditions <- ConditionsOf
    MaxTyping = 1
    MaxLength = 12
SPECIFICATION FairSpec
INVARIANTS
    TypesOK
    BookedInTurn
    ClearsTheAccount
    FulfilledOnce
    ReversalIsTold
    OfferedIsIssued
    PaidIsInvoiced
    OkMeansReady
    ReadsAsWritten
PROPERTIES
    MirrorsLedgers
    LedgersAgree
    SettlementIsBooked
    EachUnitHeldOnce
    PriceFollows
    NotesShip
    IssuedIsOffered
    EndsInStep
    SecondNeedsReason
    RetiredStaysOff
    ApprovedComeBack
    ChargedAtItemsRate
    LiveWasTried
    CopiesSettle
CHECK_DEADLOCK FALSE
