CONSTANTS
    Resources = {r1, r2}
    Sessions = {s1, s2}
    None = None
    Lively = s1
    InCap = 1
    ResizeCap = 1
    OutCap = 1
    PtyCap = 1
    MaxOutput = 1
    Backends = {"linux", "windows", "macos", "synthetic", "none"}
    MaxFrames = 3
    MaxBusErrors = 2
SPECIFICATION SessionsSpec
INVARIANTS
    TypesOK
    OutputDelivered
PROPERTIES
    RegisteredShellLives
    StopEndsSession
    ExitEndsSession
    HonoursCapture
    StopHeeded
CHECK_DEADLOCK FALSE
