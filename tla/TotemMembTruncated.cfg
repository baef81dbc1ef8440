SPECIFICATION SpecDisturbed
CONSTANTS
    Node = {1, 2}
    FlgCount = 3
    Rotations = 2
    CrashWindows = {"truncated"}
    MaxRingSeq = 10
    MaxTokenSeq = 9
    MaxStarts = 2
    MaxDisturbances = 0
    Disturbing = {}
INVARIANTS
    RingIdsGrow
CHECK_DEADLOCK FALSE
