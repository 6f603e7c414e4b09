SPECIFICATION FairSpec
CONSTANTS
    Half = Half
    Absent = Absent
    Nothing = Nothing
    NoCall = NoCall
    NoGrid = NoGrid
    K1 = K1
    K2 = K2
    EN82 = EN82
    Calls = {K1, K2}
    Grids = {EN82}
    Sessions <- AllSessions
    QueueDepth = 2
    MaxThreads = 3
    Window = 3
    MinSamples = 2
    FailsBeforeUnknown = 3
    MaxLosses = 2
    MaxPosted = 2
INVARIANTS
    BeaconsAsWanted
    OffIsSilent
    AirIsSaved
    ConfigSurvives
    PositionIsFresh
PROPERTY
    SosKeepsGoing
CHECK_DEADLOCK FALSE
