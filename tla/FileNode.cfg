SPECIFICATION Spec
CONSTANTS
    INLSZ = 1
    BLKSZ = 2
    NDIRECT = 1
    NUMREF = 2
    Writes <- MCWrites
    Sizes <- MCSizes
INVARIANTS BlocksExact RefreshExact
PROPERTIES Implements
CHECK_DEADLOCK FALSE
