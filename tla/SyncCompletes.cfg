SPECIFICATION FairSpec
CONSTANTS
    Node = {1, 2}
    Loaded <- LoadedSome
    MaxRings = 2
    MaxRestarts = 1
INVARIANTS
    ServiceListsAgree
    ActivatedByAll
PROPERTIES
    Completes
CHECK_DEADLOCK FALSE
