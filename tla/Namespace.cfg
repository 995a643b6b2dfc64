SPECIFICATION Spec
CONSTANTS
    NNames = 2
    MaxDepth = 2
    MaxNodes = 2
    Values = {0, 1}
    Changing = {"leaf"}
CONSTRAINT LinkFree
INVARIANTS NoDanglingTouch
PROPERTIES Implements
CHECK_DEADLOCK FALSE
