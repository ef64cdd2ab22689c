SPECIFICATION FairSpec
CONSTANTS
    TickSize = 1
    DigitQuantum = 1
    StopDistance = 1
    BeTriggerR = 1
    BeOffset = 1
    TightTriggerR = 3
    WideDistance = 3
    TightDistance = 2
    MinImprovement = 1
    MaxRetries = 1
    Orders <- BuyOrder
    Preopened = TRUE
    LateFills = TRUE
    SavedBefore = {TRUE}
    Prices = {13}
    TakeProfits = {0}
    UserStops = {}
    UserEntries = {}
    Permissions = {TRUE}
    AtrKnown = {TRUE}
    Outages = TRUE
    DataGaps = FALSE
    SendFailures = FALSE
    Restarts = FALSE
    DiskFailures = TRUE
    Callers = {ui}
    Commands = {"pause"}
    Untracked = Untracked
    ui = ui
PROPERTIES
    StaleResolves
    GetsProtected
    PauseBecomesDurable
