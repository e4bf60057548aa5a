CONSTANTS
    Subjects = {"file"}
    a = a
    b = b
    Key = {a, b}
    NoKey = none
    Bits = 2
    K = 2
    Index <- MCIndex
    Window = 4
    Requests = {p, q}
    Patience = 1
    StartTime = 1
    MaxTime = 7
    MaxRequests = 4
    MaxCrashes = 1
    Parent = parent
    Savers = {parent, child}
    Inode = {i1, i2, i3}
    NoInode = noinode
    Exclusive = FALSE
    MaxUpdates = 3
    MaxFaults = 0
SPECIFICATION SharedSpec
PROPERTIES SurvivesRestart
CHECK_DEADLOCK FALSE
