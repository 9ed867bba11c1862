SPECIFICATION Spec
CONSTANTS
    source = source
    divider = divider
    mirror = mirror
    NoClock = NoClock
    Clock <- TwoClocks
    Parent <- TwoParents
    Inverted = {}
    StartMultiplier <- OneStartMultiplier
    Period = {2, 3}
    Multiplier = {1, 2}
    RoundedDown = {}
    MaxOffset = 1
    EndOfSim = 8
    MaxChanges = 3
CHECK_DEADLOCK FALSE
INVARIANTS
    UpdateHasAnEdge
    SignalShape
    DividersAligned
PROPERTY
    NewParametersStartAhead
