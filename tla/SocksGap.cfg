CONSTANTS
    Streams = {s1}
    QueueCap = 2
    ChanCap = 1
    MaxUp = 4
    MaxDown = 0
    Accepted = Accepted
    Refused = Refused
    Closed = Closed
    Addresses = {remote}
    OurNetwork = {}
    LocalRange = {}
    LocalAllowed = {}
SPECIFICATION Spec
INVARIANTS
    NoGap
CHECK_DEADLOCK FALSE
