SPECIFICATION SpecDisturbed
CONSTANTS
    Node = {1, 2}
    FlgCount = 3
    Rotations = 2
    CrashWindows = {"sent"}
    MaxRingSeq = 10
    MaxTokenSeq = 9
    MaxStarts = 2
    MaxDisturbances = 1
    Disturbing = {"crash", "token"}
INVARIANTS
    
    RingIdsGrow
CHECK_DEADLOCK FALSE
