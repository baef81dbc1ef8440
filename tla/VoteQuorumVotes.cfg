SPECIFICATION SpecDisturbed
CONSTANTS
    Node = {1, 2, 3}
    Conf <- ConfVotes
    Asked = {}
    MaxRings = 3
    MaxRestarts = 1
    MaxRequests = 0
    MaxInterrupts = 0
INVARIANTS
    NoSplitBrain
    QuorateAgreed
CHECK_DEADLOCK FALSE
