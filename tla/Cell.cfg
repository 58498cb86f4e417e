SPECIFICATION FairSpec
CONSTANTS
    t1 = t1
    t2 = t2
    t3 = t3
    p1 = p1
    p2 = p2
    NoOne = NoOne
    Threads = {t1, t2}
    Procs = {p1, p2}
    ProcOf <- OneAndOne
    Capacity = 1
    Tags = {"flag", "tally"}
    By = 2
    Limit = 3
    MaxGen = 2
    MaxSeq = 2
    MaxChanges = 2
    MaxCrashes = 2
INVARIANTS
    CellsSound
PROPERTIES
    WaitsEnd
CHECK_DEADLOCK FALSE
