SPECIFICATION FairSpec
CONSTANTS
    Callers = {c1, c2}
    MaxCalls = 3
    Keys = {1, 2}
    Tag = 3
    Rids = {4}
INVARIANTS NoLateTouch NotLost
PROPERTIES Returns
CHECK_DEADLOCK FALSE
