CONSTANTS
    e1 = e1  e2 = e2  c1 = c1  c2 = c2  c3 = c3  c4 = c4
    Entry <- MCEntry
    Comment <- MCComment
    EntryOf <- MCEntryOf
SPECIFICATION Spec
CHECK_DEADLOCK FALSE
INVARIANTS
    VerifiedIsTrue
    WholeCorrectedIsGone
