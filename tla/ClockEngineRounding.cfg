SPECIFICATION Spec
CONSTANTS
    source = source
    divider = divider
    mirror = mirror
    NoClock = NoClock
    Clock <- TwoClocks
    Parent <- TwoParents
    Inverted = {}
    StartMultiplier <- NoStartMultiplier
    Period = {2}
    Multiplier = {22}
    RoundedDown <- LostPeriods
    MaxOffset = 0
    EndOfSim = 50
    MaxChanges = 2
CHECK_DEADLOCK FALSE
INVARIANTS
    DividersAligned
