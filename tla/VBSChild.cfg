SPECIFICATION FairSpec
CONSTANTS
    SATURATED_SIZE = 2
    Threads = 2
    MaxQueued = 5
INVARIANTS NoLostWakeup OvershootBounded
PROPERTY Implements
CHECK_DEADLOCK FALSE
