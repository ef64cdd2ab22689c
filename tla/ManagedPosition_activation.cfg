SPECIFICATION Spec
CONSTANTS
    TickSize = 1
    DigitQuantum = 1
    StopDistance = 1
    BeTriggerR = 1
    BeOffset = 1
    TightTriggerR = 3
    WideDistance = 3
    TightDistance = 2
    MinImprovement = 1
    MaxRetries = 1
    Orders <- BuyOrder
    Preopened = TRUE
    LateFills = TRUE
    SavedBefore = {TRUE}
    Prices = {9, 13, 15, 17}
    TakeProfits = {0}
    UserStops = {}
    UserEntries = {}
    Permissions = {TRUE}
    AtrKnown = {TRUE}
    Outages = FALSE
    DataGaps = FALSE
    SendFailures = FALSE
    Restarts = FALSE
    DiskFailures = FALSE
    Callers = {scanner}
    Commands = {"other"}
    Untracked = Untracked
    scanner = scanner
PROPERTIES
    FileKeepsOpenPosition
