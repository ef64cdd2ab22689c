SPECIFICATION Spec
CONSTANTS
    Calls = {c1, c2}
    Requests <- AllRequests
    Accounts = {demo, live}
    Symbols = {eur, jpy}
    Values = {1, 2}
    Starts <- MCStarts
    MaxVolume = 2
    LostReplies = {"cancel", "modify"}
    SwitchMidCall = FALSE
    MaxMoves = 2
    Gone = Gone
    None = None
    c1 = c1
    c2 = c2
    demo = demo
    live = live
    eur = eur
    jpy = jpy
CHECK_DEADLOCK FALSE
INVARIANTS
    TypeOK
PROPERTIES
    KeepsPromise
    OtherAccountUntouched
    OmittedFieldsKept
