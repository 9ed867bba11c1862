SPECIFICATION TimerSpec
CONSTANTS
    Periods = {0, 1, 2, 3}
    Shots <- ShotCounts
    MaxTicks = 7
    ElaborationCalls = FALSE
CHECK_DEADLOCK FALSE
INVARIANTS
    AlarmAccountedFor
    RequestMatchesState
PROPERTIES
    Promise
    CounterExact
