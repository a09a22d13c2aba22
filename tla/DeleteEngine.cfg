CONSTANTS
    c1 = c1  c2 = c2  c3 = c3  w1 = w1  w2 = w2
    NoComment = NoComment
    Comment <- MCComment
    Worker <- MCWorker
    Replies <- MCReplies
    BatchSize = 2
    FlushRetries = 2
    MaxRetries = 1
    Threshold = 1
    MaxFaults = 2
SPECIFICATION FairSpec
CHECK_DEADLOCK FALSE
INVARIANTS
    NoOutcomeLost
    AbortStopsWorkers
    OpenStopsRequests
    ProgressExact
PROPERTIES
    KeepsPromise
    Termination
