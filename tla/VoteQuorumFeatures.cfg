SPECIFICATION SpecDisturbed
CONSTANTS
    Node = {1, 2}
    Conf <- ConfFeatures
    Asked = {3}
    MaxRings = 2
    MaxRestarts = 1
    MaxRequests = 1
    MaxInterrupts = 1
INVARIANTS
    TypeOK
    
    
CHECK_DEADLOCK FALSE
