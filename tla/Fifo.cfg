CONSTANTS
    Values <- MCValues
    Sizes <- MCSizes
    AlmostEmptyLevel = 1
    AlmostFullLevel = 2
    Reenter <- MCReenter
    MaxDepth = 3
    MaxElements = 3
SPECIFICATION Spec
INVARIANTS PushTellsTheTruth FlagsCanBeReliedOn
PROPERTIES KeepsItsPromise
CHECK_DEADLOCK FALSE
