SPECIFICATION Spec
CONSTANTS
    Period = 4
    Second = 8
    Slot = 16
    Day = 32
    Lag = 4
    Block = 3
    Length = 7
    Setups <- Halves
    PlayTimeout = 15
    CaptureBlock = 4
    Ring = 32
    Cycle = 64
    MaxLate = 4
    MaxDecode = 13
    MaxFaults = 1
INVARIANTS
    WholeFrame
    OnBoundary
    SlotIsHeard
PROPERTY
    NoSlotSkipped
