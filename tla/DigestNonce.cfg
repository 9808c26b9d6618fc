CONSTANTS
    Requests = {r1, r2}
    MaxNonces = 9
    None = None
    NonceTTL = 1
    MaxTime = 1
    MaxRepeats = 1
SPECIFICATION Spec
INVARIANTS
    TypeOK
    AcceptedOnce
PROPERTIES
    RequestServed
CHECK_DEADLOCK FALSE
