SPECIFICATION Spec
CONSTANTS
    Threads = {"a", "a2", "b"}
    ProcOf <- MCProcOf
    Stores = {"s"}
    Keys = {"k"}
    LaneFrames = 1
    Setup <- Late
INVARIANTS
    LastWriteWinsAlways
CHECK_DEADLOCK FALSE
