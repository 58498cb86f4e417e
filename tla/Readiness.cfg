SPECIFICATION FairSpec
CONSTANTS
    p1 = p1
    p2 = p2
    Publishers = {p1, p2}
    Forms = {"always", "parked"}
    MaxPublish = 2
    MaxDeaths = 1
INVARIANTS
    DriverSound
PROPERTIES
    EveryPublishSeen
    DropEnds
CHECK_DEADLOCK FALSE
