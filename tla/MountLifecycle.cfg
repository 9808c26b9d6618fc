CONSTANTS
    Callers = {c1, c2}
    Resources = {r1, r2}
    Ports = {1, 2}
    MaxServers = 2
    None = None
SPECIFICATION Spec
INVARIANTS
    TypeOK
    MountedIsServed
    HandleKept
PROPERTIES
    UnmountStops
    DriveUnmounted
CHECK_DEADLOCK FALSE
