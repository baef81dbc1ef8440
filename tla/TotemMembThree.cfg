SPECIFICATION SpecDisturbed
CONSTANTS
    Node = {1, 2, 3}
    FlgCount = 1
    Rotations = 1
    CrashWindows = {}
    MaxRingSeq = 9
    MaxTokenSeq = 4
    MaxStarts = 1
    MaxDisturbances = 0
    Disturbing = {}
INVARIANTS
    InstalledByAgreement
    RingIdNamesRing
CHECK_DEADLOCK FALSE
