CONSTANTS
    a = a  b = b  t1 = t1  t2 = t2  f1 = f1  f2 = f2  x = x  y = y
    Nodes = {a, b}
    Installations = {{a, b}}
    Transfers = {t1, t2}
    Paths = {f1, f2}
    Blocks = {x, y}
    Hole = Hole
    None = None
    Eof = Eof
    Fault = Fault
    Job <- MCJob
    Written <- MCWritten
    MountMayEnd = TRUE
    InitialDisks <- MCInitialDisks
    IoMayFail = TRUE
    PipeCap = 1
    MaxEdits = 1
SPECIFICATION DavSpec
INVARIANTS
    OpenReturnsFile
    WriteArrives
    TempFilesRemoved
PROPERTIES
    WriteEnds
    OperationsEnd
CHECK_DEADLOCK FALSE
