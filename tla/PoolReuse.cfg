SPECIFICATION Spec
CONSTANTS
    n1 = n1
    n2 = n2
    t1 = t1
    t2 = t2
    t3 = t3
    Nodes = {n1, n2}
    Threads = {t1, t2}
    NodeOf <- TwoNodes
    SlotCount = 2
    LaneOf <- TwoLanes
    Cap = 2
    Entries = 2
    GenLimit = 2
    MaxLive = 2
    MinIdle = 1
    MaxIdle = 1
    MaxConcurrency = 1
    Mixes <- Reusers
    MaxInstalls = 2
    MaxLeases = 2
    MaxFence = 3
    MaxCrashes = 1
PROPERTIES
    AcceptedOnceEver
CHECK_DEADLOCK FALSE
