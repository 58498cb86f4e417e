SPECIFICATION Spec
CONSTANTS
    n1 = n1
    n2 = n2
    t1 = t1
    t2 = t2
    t3 = t3
    Nodes = {n1, n2}
    Threads = {t1, t2, t3}
    NodeOf <- ThreeThreads
    SlotCount = 1
    LaneOf <- OneLane
    Cap = 1
    Entries = 1
    GenLimit = 2
    MaxLive = 1
    MinIdle = 1
    MaxIdle = 1
    MaxConcurrency = 1
    Mixes <- Sleepers
    MaxInstalls = 1
    MaxLeases = 2
    MaxFence = 2
    MaxCrashes = 1
INVARIANTS
    NoSleepOverRoom
    AcceptsSound
SYMMETRY Siblings
CHECK_DEADLOCK FALSE
