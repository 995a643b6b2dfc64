SPECIFICATION FairSpec
CONSTANTS
    Keys = {"a", "c"}
    Rids = {"r", "s"}
    MARK = "MARK"
    NoKey = "none"
    Sizes <- MCSizes
    MaxBlock = 2
    Capacity = 2
    MaxTime = 3
INVARIANTS WithinCapacity AccountsBalance ListInOrder
PROPERTIES NewerThanMarkKept PutEnds
