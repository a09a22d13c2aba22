CONSTANTS
    j1 = j1  j2 = j2  r1 = r1  r2 = r2  t1 = t1  t2 = t2
    NoJob = NoJob  NoTask = NoTask  NoRequest = NoRequest
    Job <- MCOneJob
    Request <- MCRequest
    Task <- MCTask
    Kinds <- DeleteAndDiscover
    MaxFaults = 1
    MaxStops = 1
SPECIFICATION FairSpec
PROPERTIES
    TasksEnd
    RequestsEnd
