CONSTANTS
    Subjects = {"filter", "file"}
    a = a
    b = b
    Key = {a, b}
    NoKey = none
    Bits = 2
    K = 2
    Index <- MCIndex
    Window = 4
    Requests = {p, q}
    Patience = 1
    StartTime = 1
    MaxTime = 7
    MaxRequests = 3
    MaxCrashes = 1
    Parent = parent
    Savers = {parent, child}
    Inode = {i1, i2, i3}
    NoInode = noinode
    Exclusive = TRUE
    MaxUpdates = 3
    MaxFaults = 2
SYMMETRY Symm
SPECIFICATION SharedSpec
INVARIANTS OnlyRecent DiskUsable DurableOnDisk
PROPERTIES SeenWhileKept SurvivesRestart NeverBack
CHECK_DEADLOCK FALSE
