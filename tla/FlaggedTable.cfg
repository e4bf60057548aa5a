CONSTANTS
    a = a
    b = b
    w1 = w1
    r1 = r1
    Capacity = 2
    ProbeLimit = 2
    MaxSpins = 1
    Key = {a, b}
    NoKey = NoKey
    Asked = {a}
    Flags = {f}
    Bucket <- MCBucket
    Nets <- MCNets
    TTLs = {1}
    Writers = {w1}
    Readers = {r1}
    NoWriter = NoWriter
    Hoist = FALSE
    MaxTime = 3
    MaxOps = 3
    MaxCrashes = 1
SPECIFICATION Spec
INVARIANTS OneEntryPerKey MissJustified
PROPERTIES ImplementsFlagStore
