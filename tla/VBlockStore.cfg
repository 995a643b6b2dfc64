SPECIFICATION Spec
CONSTANTS
    NChildren = 2
    Keys = {k1}
    Async = {2}
    Loads <- Safety
    Syncers = {}
    MaxReqs = 5
INVARIANTS AnsweredOnce OutstandingExact TrackedUntilDone StartMeansAll
CHECK_DEADLOCK FALSE
