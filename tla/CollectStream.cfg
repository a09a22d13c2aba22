CONSTANTS
    e1 = e1  e2 = e2  page = page  board = board
    NoEntry = NoEntry
    Post <- MCPost
    Client <- MCClient
    Everything <- MCEverything
    Concurrency = 1
    QueueSize = 2
    MaxFaults = 2
SPECIFICATION FairSpec
CHECK_DEADLOCK FALSE
INVARIANTS
    EndIsHeard
    CompletedCounts
    NoCacheLeft
PROPERTIES
    SubscribersEnd
