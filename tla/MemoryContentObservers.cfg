CONSTANTS
    o1 = o1
    o2 = o2
    o3 = o3
    Nobody = Nobody
    Observers <- MCObservers
    Watches <- MCWatches
    Accesses <- MCAccesses
    Requested = {3}
    Size = 6
    Top = 7
    PageSize = 2
    MaxDepth = 2
    RequestsInside = FALSE
SPECIFICATION Spec
INVARIANTS
    NoAccessIsMissed
    WatchedWordsAreNotHeld
    TableIsExact
PROPERTIES
    NoCallAfterUnregister
