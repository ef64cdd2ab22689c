SPECIFICATION Spec
CONSTANTS
    TickSize = 1
    DigitQuantum = 1
    StopDistance = 3
    BeTriggerR = 1
    BeOffset = 1
    TightTriggerR = 3
    WideDistance = 3
    TightDistance = 2
    MinImprovement = 1
    MaxRetries = 1
    Orders <- EitherOrder
    Preopened = TRUE
    LateFills = TRUE
    SavedBefore = {TRUE}
    Prices = {7, 11, 13, 15, 19}
    TakeProfits = {0, 20}
    UserStops = {0, 12, 14}
    UserEntries = {}
    Permissions = {TRUE}
    AtrKnown = {TRUE}
    Outages = TRUE
    DataGaps = TRUE
    SendFailures = TRUE
    Restarts = TRUE
    DiskFailures = FALSE
    Callers = {}
    Commands = {}
    Untracked = Untracked
INVARIANTS
    TypeOK
    RatchetAtSend
    HardGate
    ProfitLocked
    NoOrphanedIntent
    RetryBudget
    DurableAtRest
PROPERTIES
    LoadedFileKeepsPosition
