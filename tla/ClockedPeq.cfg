SPECIFICATION Spec
CONSTANTS
    Delay = {0, 1, 2}
    PastTicks = {}
    MaxTicks = 5
    MaxPushes = 4
CHECK_DEADLOCK FALSE
INVARIANTS
    NoLostWakeup
    RequestsNeverAbort
