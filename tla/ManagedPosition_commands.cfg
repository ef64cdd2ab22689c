SPECIFICATION Spec
CONSTANTS
    TickSize = 1
    DigitQuantum = 1
    StopDistance = 1
    BeTriggerR = 1
    BeOffset = 1
    TightTriggerR = 3
    WideDistance = 3
    TightDistance = 2
    MinImprovement = 1
    MaxRetries = 1
    Orders <- BuyOrder
    Preopened = FALSE
    LateFills = FALSE
    SavedBefore = {FALSE}
    Prices = {13, 15}
    TakeProfits = {0}
    UserStops = {}
    UserEntries = {11}
    Permissions = {TRUE, FALSE}
    AtrKnown = {TRUE}
    Outages = FALSE
    DataGaps = TRUE
    SendFailures = FALSE
    Restarts = FALSE
    DiskFailures = FALSE
    Callers = {ui}
    Commands = {"register", "pause", "resume", "unregister", "other"}
    Untracked = Untracked
    ui = ui
INVARIANTS
    IntentIsCurrent
PROPERTIES
    NeverSelfRevives
    TrackedUntilClosed
