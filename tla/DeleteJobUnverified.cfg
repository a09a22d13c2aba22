CONSTANTS
    c1 = c1  c2 = c2  j1 = j1  j2 = j2  r1 = r1  r2 = r2
    NoJob = NoJob  NoComment = NoComment  NoRequest = NoRequest
    Comment <- MCComment
    Job <- MCOneJob
    Request <- MCRequest
    MaxEvents = 0
SPECIFICATION Spec
CHECK_DEADLOCK FALSE
INVARIANTS
    CompletedIsVerified
