SPECIFICATION FairLifeSpec
CONSTANTS
    Batches = {b1, b2}
    Contents = {c1}
    Requests = {r1, r2}
    Reprocs = {p1}
    BatchOf <- MCBatchOf
    ContentOf <- MCContentOf
    HashesOf <- MCHashesOf
    Runs = {n1, n2}
    Scheduled = {n1}
    PoolMax = 2
    JobConcurrency = 1
    NotifyMode = "badkey"
    DriverWaits = TRUE
    MaxFaults = 0
    MaxCrashes = 0
    NoRow = NoRow
    b1 = b1
    b2 = b2
    c1 = c1
    r1 = r1
    r2 = r2
    p1 = p1
    n1 = n1
    n2 = n2
INVARIANTS
    NoRowLeftProcessing
    TrackedJobsAreServed
    SharedPoolNeverCircular
PROPERTIES
    ShutdownEnds
    SharedPoolServesAll
