SPECIFICATION FairSpec
CONSTANTS
    a = a
    b = b
    c = c
    group = group
    t1 = t1
    t2 = t2
    AllCall = allcall
    NoText = none
    Stations <- ThreeStations
    Groups <- OneGroup
    Plans <- AllPlans
    QueueDepth = 2
    MaxTries = 2
    MaxErrors = 1
CHECK_DEADLOCK FALSE
INVARIANTS
    TypeOK
    AckedIsStored
    PrivateMail
PROPERTIES
    MailLifecycle
    FallsSilent
