SPECIFICATION GatesSpec
CONSTANTS
    sa1 = sa1
    sa2 = sa2
    sb = sb
    sc = sc
    na = na
    nb = nb
    nc = nc
    r1 = r1
    r2 = r2
    Requests = {r1, r2}
    Options <- MCOptions
    MaxPauses = 1
SYMMETRY Alike
INVARIANTS
    WithinEnvelope
    HonestAnswer
    CountsAddUp
    NobodyForgotten
    HeldSafely
    PeersTold
    SlotReturns
CHECK_DEADLOCK FALSE
