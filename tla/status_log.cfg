SPECIFICATION FairSpec
CONSTANTS
    Sends = {s1, s2, s3}
    EquipmentId <- MCEquipmentId
    EquipmentHash <- MCEquipmentHash
    StatusesOf <- MCStatusesOf
    Keys = {"EQ-1"}
    Instants = {1, 2, 3}
    Upper <- MCUpper
    SeoulOffset = 1
    MaxFaults = 1
    MaxCrashes = 1
    NoId = NoId
    Naive = Naive
    NoRow = NoRow
    s1 = s1
    s2 = s2
    s3 = s3
INVARIANTS
    TypeOK
    LogIsDelivered
    AcceptedStays
PROPERTIES
    RefinesTimeline
    EverySnapshotLands
