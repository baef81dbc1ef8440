SPECIFICATION SpecDisturbed
CONSTANTS
    Node = {1, 2, 3}
    Conf <- ConfTie
    Asked = {}
    MaxRings = 4
    MaxRestarts = 0
    MaxRequests = 0
    MaxInterrupts = 0
INVARIANTS
    NoSplitBrain
CHECK_DEADLOCK FALSE
