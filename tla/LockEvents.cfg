SPECIFICATION Spec
CONSTANTS
    c1 = c1
    c2 = c2
    k1 = k1
    k2 = k2
    k3 = k3
    NoOne = NoOne
    Clients = {c1, c2}
    Keys = {k1, k2, k3}
    Capacity = 2
    Home <- Homes
    Ttls = {1, 2}
    CounterMax = 2
    MaxRevision = 3
    MaxTime = 2
    MaxFaults = 1
SYMMETRY ProcessesAndKeys
INVARIANTS
    EventsAreSuccessful
CHECK_DEADLOCK FALSE
