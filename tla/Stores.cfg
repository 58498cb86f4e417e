SPECIFICATION StoresSpec
CONSTANTS
    Members = {"p", "q"}
    Readers = {"r"}
    MaxObjects = 4
    Setup <- Segments
INVARIANTS
    DeliveredIntact
    CreditReturns
    EntryStays
    RoomReturns
    SingleUse
    NoTrace
    NoSetStuck
    LastWriteWins
    SegmentKept
PROPERTIES
    NoResurrection
    SnapshotHonest
CHECK_DEADLOCK FALSE
