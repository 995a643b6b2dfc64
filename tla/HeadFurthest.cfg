SPECIFICATION FairSpec
CONSTANTS
    NChildren = 2
    Nodes = {"a", "b", "c", "d"}
    NoRef = "none"
    Hns = {"none", "a"}
    Known <- MCKnown
    Late <- MCLate
INVARIANTS AnswerExact FillsCounted FullFillWorksAlone
PROPERTY Settles
CHECK_DEADLOCK FALSE
