SPECIFICATION FairSpec
CONSTANTS
    NChildren = 2
    Keys = {k1}
    Async = {2}
    Loads <- Live
    Syncers = {s1}
    MaxReqs = 5
PROPERTIES AllAnswered SyncEnds NeedFilled
