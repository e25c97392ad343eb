SPECIFICATION FairSpec
CONSTANTS
    None = None
    c1 = c1
    c2 = c2
    Client = {c1, c2}
    Threads = 4
    MaxCalls = 1
    MaxToken = 2
    MaxStarts = 2
INVARIANTS
    LoginFindsSession
    LoginIsPersisted
PROPERTIES
    HomeserverReachesMonitor
    RefreshIsSaved
CHECK_DEADLOCK FALSE
