SPECIFICATION Spec
CONSTANTS
    Threads = {"a", "a2", "b"}
    HandleOf <- MCHandleOf
    SetOf <- MCSetOf
    NOwners = 2
    GenerationMax = 2
    NWays = 2
    ValueMax = 2
    Setup <- Stored
INVARIANTS
    OneEntryPerKey
CHECK_DEADLOCK FALSE
