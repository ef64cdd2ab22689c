SPECIFICATION Spec
CONSTANTS
    Timeframes = {h1, h4}
    Interval <- MCInterval
    Counts = {2, 4}
    Accounts = {demo, live}
    NoAccount = NoAccount
    None = None
    Garbled = Garbled
    MidScanSwitch = FALSE
    Pauses = {1, 3}
    MaxClock = 6
    MaxLag = 1
    h1 = h1
    h4 = h4
    demo = demo
    live = live
SYMMETRY Symmetry
INVARIANTS
    TypeOK
    OneLoad
    WarmIsFull
