SPECIFICATION FairSpec
CONSTANTS
    k1 = k1
    app = app
    beacon = beacon
    NoCall = nocall
    Calls <- OneCall
    App = app
    Beacons <- OneBeacon
    Offers <- MailAndBeat
    MaxMsgs = 2
    QueueDepth = 2
    MaxAttempts = 2
    AckSlots = 2
    AgeCap = 3
    MaxCrashes = 0
    MaxErrors = 0
    MaxClockSteps = 0
PROPERTY
    DeliveredIsFinal
