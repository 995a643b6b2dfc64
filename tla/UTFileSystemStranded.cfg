SPECIFICATION Spec
CONSTANTS
    NFiles = 1
    NDIRECT = 0
    NUMREF = 2
    Values = {v}
    Zero = Zero
    Capacity = 5
    MaxRef = 4
INVARIANT SyncedReadable
CHECK_DEADLOCK FALSE
