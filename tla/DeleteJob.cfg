CONSTANTS
    c1 = c1  c2 = c2  j1 = j1  j2 = j2  r1 = r1  r2 = r2
    NoJob = NoJob  NoComment = NoComment  NoRequest = NoRequest
    Comment <- MCComment
    Job <- MCJob
    Request <- MCRequest
    MaxEvents = 1
SYMMETRY JobSymmetry
SPECIFICATION Spec
CHECK_DEADLOCK FALSE
INVARIANTS
    BarredLeftAlone
    AskedIsBackedUp
    DeletedIsGone
    SettledTotals
PROPERTIES
    FirstRunEndsTrue
    DeletedStays
    KeepsPromise
