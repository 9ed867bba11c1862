SPECIFICATION FairSpec
CONSTANTS
    m1 = m1
    m2 = m2
    m3 = m3
    Module = {m1, m2, m3}
    Period <- TwoPeriods
    MaxSimTime = 12
    EndOfSim = 6
    MaxOffset = 3
    MaxSkip = 2
    MaxDelay = 2
    LateCancel = FALSE
    LateCreation = FALSE
INVARIANTS
    RequestsAgree
    RootArmed
    TriggersOnTime
    TicksExact
PROPERTIES
    ServiceSpec
    DueIsServed
