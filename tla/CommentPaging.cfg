CONSTANTS
    NoCursor = NoCursor  NoSince = NoSince
    Comment <- MCComment4
    Times <- MCTimes3
    BatchSize = 2
    Minute = 2
SPECIFICATION FairSpec
CHECK_DEADLOCK FALSE
INVARIANTS
    NothingMissed
    NothingMissedSince
PROPERTIES
    ReadingEnds
