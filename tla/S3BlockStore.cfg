SPECIFICATION Spec
CONSTANTS
    Keys = {1, 2}
    Rids = {4}
    MARK = 9
    Callers = {c1, c2}
    c1 = c1
    c2 = c2
    BlockSize = 2
    Capacity = 2
    SizeMod = 16
    MaxRetries = 2
    MaxOut = 1
    MaxTime = 2
    MaxFaults = 1
    MaxCrashes = 1
    MaxOps = 4
INVARIANTS SleeperWoken
 
CHECK_DEADLOCK FALSE
SYMMETRY CallerSymmetry
