SPECIFICATION Spec
CONSTANTS
    Scans = {s1, s2}
    Ui = Ui
    Nothing = Nothing
    EarlyCore = TRUE
    DiskFailures = TRUE
    s1 = s1
    s2 = s2
CHECK_DEADLOCK FALSE
INVARIANTS
    NoSilentInterruption
