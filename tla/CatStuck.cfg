SPECIFICATION FairSpec
CONSTANTS
    MaxFrames = 2
    SlotTicks = 3
    PerFrame = 4
    Grace = 1
    DefaultHold = 4
    PlayTimeout = 6
    MaxFaults = 1
    MaxHangs = 0
    MaxStops = 0
PROPERTY
    BurstsEndUnkeyed
