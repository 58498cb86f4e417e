SPECIFICATION Spec
CONSTANTS
    w1 = w1
    w2 = w2
    w3 = w3
    p1 = p1
    p2 = p2
    r1 = r1
    NoOne = NoOne
    Writers = {w1, w2}
    Procs = {p1, p2}
    ProcOf <- OneAndOne
    Owner = p1
    Readers = {r1}
    Ops = {"poll", "id"}
    Topologies = {"Shared"}
    Capacity = 2
    BatchSizes = {1, 2}
    Lapping = FALSE
    MaxCounter = 4
    MaxCrashes = 1
SYMMETRY Twins
INVARIANTS
    ReadsAreSound
PROPERTIES
    IsAppendOnlyLog
