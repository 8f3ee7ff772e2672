CONSTANTS
    Keys <- MCKeys
    Scales = {s1, s2}
    Capacity = 2
    MaxCalls = 5
SPECIFICATION FairSpec
INVARIANTS
    TypeOK
    LifetimeSafe
    LastUseCoversPriorUses
    ScaleRetained
    StatsBalance
    WaitsOnlyUnderPressure
PROPERTIES
    EvictsLeastRecentReady
    CallsReturn
    LifetimeSpec
CHECK_DEADLOCK FALSE
