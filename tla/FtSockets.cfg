CONSTANTS
    i1 = i1
    i2 = i2
    outerI = outerI
    t1 = t1
    outerT = outerT
    twinT = twinT
    Initiators <- MCInitiators
    Targets <- MCTargets
    Optional <- MCOptional
    Encloses <- MCEncloses
    Construction <- MCConstruction
    ClockPeriods <- MCClockPeriods
    EarlyIntercepts = FALSE
    NoSocket = NoSocket
    Intercept = Intercept
SPECIFICATION FtSpec
INVARIANTS CommandsFollowTheCalls ForwardPointersAreRight ClocksAgree
CHECK_DEADLOCK FALSE
