CONSTANTS
    Resources = {r1}
    Sessions = {s1}
    None = None
    InCap = 1
    ResizeCap = 1
    OutCap = 1
    PtyCap = 1
    MaxOutput = 1
SPECIFICATION Spec
PROPERTIES
    StopKillsShell
CHECK_DEADLOCK FALSE
