CONSTANTS
    Asking = asking
    Peer = peer
    Sides = {asking, peer}
    Folders = {"docs"}
    Dirs = {"here"}
    Files <- MCFiles
    Blocks = {"x", "y"}
    MaxBlocks = 2
    MaxEdits = 1
    NewContents <- MCNewContents
    InitialDisks <- MCDisks
    ResourceLists <- MCResourceLists
    Absent = Absent
    Unopened = Unopened
    ShareLists <- MCShareLists
    LocalNames = {"s", "t", "a", "b", "d:"}
    Entries <- MCEntries
    Up = ".."
    DriveNames = {"d:"}
    VirtualPaths <- MCVirtualPaths
    InitialTrees <- MCTrees
    MaxDepth = 3
    MaxChanges = 2
SPECIFICATION FoldersSpec
INVARIANTS
    VerdictsTrue
    
CHECK_DEADLOCK FALSE
