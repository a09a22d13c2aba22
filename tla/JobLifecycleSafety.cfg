CONSTANTS
    j1 = j1  j2 = j2  r1 = r1  r2 = r2  t1 = t1  t2 = t2
    NoJob = NoJob  NoTask = NoTask  NoRequest = NoRequest
    Job <- MCJob
    Request <- MCRequest
    Task <- MCTask
    Kinds <- DeleteAndCollect
    MaxFaults = 1
    MaxStops = 1
SYMMETRY LifecycleSymmetry
SPECIFICATION Spec
INVARIANTS
    OneDeleteAtATime
    UnfinishedIsRegistered
    OnlyOrphansBlock
    QuietCancelledByUser
PROPERTIES
    TerminalIsFinal
    KeepsPromise
