SPECIFICATION SpecDisturbed
CONSTANTS
    Node = {1, 2}
    FlgCount = 1
    Rotations = 1
    CrashWindows = {}
    MaxRingSeq = 9
    MaxTokenSeq = 4
    MaxStarts = 1
    MaxDisturbances = 2
    Disturbing = {"crash", "leave", "token", "consensus", "merge", "mcast", "fail"}
INVARIANTS
    TypeOK
    InstalledByAgreement
    
    TransitionMutual
CHECK_DEADLOCK FALSE
