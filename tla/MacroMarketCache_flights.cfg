SPECIFICATION FairSpec
CONSTANTS
    Threads = {scanner, dashboard}
    Ttl = 2
    StaleIfError = 3
    RetryTtl = 2
    MaxClock = 3
    None = None
    scanner = scanner
    dashboard = dashboard
INVARIANTS
    TypeOK
    FailureIsRemembered
PROPERTIES
    NoNeedlessDownload
    EveryCallReturns
