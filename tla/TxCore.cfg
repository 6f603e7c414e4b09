SPECIFICATION Spec
CONSTANTS
    k1 = k1
    app = app
    beacon = beacon
    NoCall = nocall
    Calls <- OneCall
    App = app
    Beacons <- OneBeacon
    Offers <- MailAndBeat
    MaxMsgs = 2
    QueueDepth = 2
    MaxAttempts = 2
    AckSlots = 2
    AgeCap = 3
    MaxCrashes = 1
    MaxErrors = 1
    MaxClockSteps = 1
CONSTRAINT
    AtMostOneFault
INVARIANTS
    TypeOK
    AttemptsBounded
    SendingIsOwned
    BurstIsRemembered
    NeverSendsUnencoded
    CacheHoldsLiveAudio
    DeliveredIsAcknowledged
    CreditSparesBurst
    FramesConsecutive
    NoStaleBroadcast
    CutOffNotResent
