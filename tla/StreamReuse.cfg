SPECIFICATION Spec
CONSTANTS
    a1 = a1
    a2 = a2
    b = b
    c = c
    na = na
    nb = nb
    nc = nc
    Procs = {a1, a2, b, c}
    Nodes = {na, nb, nc}
    NodeOf <- MCNodeOf
    Lane = na
    Bounds <- Reused
INVARIANTS
    HeldSlotStays
    HeldSideStays
    HeldOnce
    NothingLeft
    ReportStays
CHECK_DEADLOCK FALSE
