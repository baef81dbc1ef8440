SPECIFICATION Spec
CONSTANTS
    Node = {1, 2}
    Loaded <- LoadedOne
    MaxRings = 3
    MaxRestarts = 0
INVARIANTS
    TypeOK
    ActivatedByAll
    AbortedOrActivated
CHECK_DEADLOCK FALSE
