SPECIFICATION FairSpec
CONSTANTS
    Us = us
    Group = group
    k1 = k1
    Sessions <- AllSessions
    MaxFaults = 1
INVARIANTS
    EditOnlyOnSetup
    UnconfiguredIsConfined
    NoMailUnderreported
PROPERTIES
    DraftSurvives
    GesturesEnd
