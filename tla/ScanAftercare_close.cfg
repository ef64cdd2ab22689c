SPECIFICATION FairSpec
CONSTANTS
    Scans = {s1, s2}
    Ui = Ui
    Nothing = Nothing
    EarlyCore = FALSE
    DiskFailures = TRUE
    s1 = s1
    s2 = s2
CHECK_DEADLOCK FALSE
INVARIANTS
    TypeOK
    MarkerIsTruthful
    NoSilentInterruption
PROPERTIES
    MarkerNeverReverts
    ShutdownBounded
