SPECIFICATION FairSpec
CONSTANTS
    Batches = {b1, b2}
    Contents = {c1, c2}
    Requests = {r1, r2}
    Reprocs = {p1, p2}
    BatchOf <- PairBatchOf
    ContentOf <- PairContentOf
    HashesOf <- MCHashesOf
    PoolMax = 2
    JobConcurrency = 1
    NotifyMode = "off"
    DriverWaits = TRUE
    MaxFaults = 1
    MaxCrashes = 1
    NoRow = NoRow
    b1 = b1
    b2 = b2
    c1 = c1
    c2 = c2
    r1 = r1
    r2 = r2
    r3 = r3
    p1 = p1
    p2 = p2
    p3 = p3
INVARIANTS
    NoCircularWait
PROPERTIES
    AcceptedIsIndexed
    EveryTaskEnds
