SPECIFICATION Spec
CONSTANTS
    w1 = w1
    w2 = w2
    r1 = r1
    r2 = r2
    Writers = {w1, w2}
    Readers = {r1, r2}
    Bounds <- Instances
INVARIANTS
    TurnsKept
    AcceptedNotLost
    NobodyStuck
SYMMETRY Twins
CHECK_DEADLOCK FALSE
