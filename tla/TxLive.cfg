SPECIFICATION FairSpec
CONSTANTS
    k1 = k1
    app = app
    beacon = beacon
    NoCall = nocall
    Calls <- OneCall
    App = app
    Beacons <- OneBeacon
    Offers <- MailAndBeat
    MaxMsgs = 2
    QueueDepth = 1
    MaxAttempts = 2
    AckSlots = 1
    AgeCap = 2
    MaxCrashes = 1
    MaxErrors = 0
    MaxClockSteps = 0
PROPERTIES
    EventuallySettled
    RefinesLifecycle
