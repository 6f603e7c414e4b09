SPECIFICATION FairSpec
CONSTANTS
    us = us
    all = all
    alice = alice
    bob = bob
    carol = carol
    Script <- Busy
    Drift = {0, 2}
    FrameTimeout = 6
    NonBufferedTimeout = 4
    SlotTicks = 3
INVARIANTS
    NoFrameTwice
    HeardWholeIsDelivered
PROPERTY
    EveryBufferEnds
