SPECIFICATION FairSpec
CONSTANTS
    Futures = {f1, f2, f3, f4, f5}
    None = None
    MaxOperations = 2
    f1 = f1
    f2 = f2
    f3 = f3
    f4 = f4
    f5 = f5
CHECK_DEADLOCK FALSE
INVARIANTS
    TypeOK
    ResultsAreRead
    BacklogIsBounded
    QueuedAreCancelled
    AnsweredBeforeDisconnect
PROPERTIES
    ShutdownCompletes
