CONSTANTS
    a = a
    b = b
    c = c
    None = None
    Trans <- MCTrans
    Unmanaged <- MCUnmanaged
    Eager = FALSE
    Nested = FALSE
SPECIFICATION FairSpec
INVARIANTS OneAtATime
PROPERTIES ServesEachOnce
CHECK_DEADLOCK FALSE
