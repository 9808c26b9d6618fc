CONSTANTS
    d = d  f = f  g = g  root = root
    Ops = {o1, o2}
    Paths = {d, f, g}
    Root = root
    Parent <- MCParent
    Calls <- MCCalls
    Junk = {f}
    None = None
    InitialTree <- MCTree
    CacheTime = 1
    MaxTime = 1
    MaxEdits = 1
    MaxUnread = 1
SPECIFICATION Spec
INVARIANTS
    TypeOK
    AnswersWereTrue
    PendingIsWaiting
PROPERTIES
    OpsReturn
CHECK_DEADLOCK FALSE
