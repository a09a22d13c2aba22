CONSTANTS
    r1 = r1  r2 = r2
    NoFile = NoFile
    Comment <- MCComment
    Data <- MCData
    Admin <- MCAdmin
    Request <- MCRequest
    Filters <- MCFilters
    Files <- MCFiles
    Chunk = 2
    MaxEvents = 4
    MaxFaults = 1
SYMMETRY RequestSymmetry
SPECIFICATION Spec
CHECK_DEADLOCK FALSE
INVARIANTS
    SettledIsCurrent
    PartNeverWorse
    SelectionIsAsCounted
    OwnerNeverDeleted
