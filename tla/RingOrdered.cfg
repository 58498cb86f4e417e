SPECIFICATION Spec
CONSTANTS
    w1 = w1
    w2 = w2
    w3 = w3
    p1 = p1
    p2 = p2
    r1 = r1
    NoOne = NoOne
    Writers = {w1, w2, w3}
    Procs = {p1, p2}
    ProcOf <- TwoAndOne
    Owner = p1
    Readers = {r1}
    Ops = {"poll", "id"}
    Topologies = {"PerNode", "SharedOrdered"}
    Capacity = 2
    BatchSizes = {1, 2, 3}
    Lapping = TRUE
    MaxCounter = 3
    MaxCrashes = 1
SYMMETRY Threads
INVARIANTS
    ReadsAreSound
    NoVisibleHole
PROPERTIES
    HeadNeverRetreats
    IsAppendOnlyLog
