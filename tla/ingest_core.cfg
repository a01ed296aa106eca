SPECIFICATION Spec
CONSTANTS
    Batches = {b1}
    Contents = {c1, c2}
    Requests = {r1, r2, r3}
    Reprocs = {p1, p2}
    BatchOf <- CoreBatchOf
    ContentOf <- CoreContentOf
    HashesOf <- MCHashesOf
    PoolMax = 3
    JobConcurrency = 2
    NotifyMode = "on"
    DriverWaits = TRUE
    MaxFaults = 2
    MaxCrashes = 1
    NoRow = NoRow
    b1 = b1
    b2 = b2
    c1 = c1
    c2 = c2
    r1 = r1
    r2 = r2
    r3 = r3
    p1 = p1
    p2 = p2
    p3 = p3
INVARIANTS
    TypeOK
    PipelineInv
    AnswersStayTrue
    OneWorkerPerBatch
    ChunksExact
    TrackerExact
PROPERTIES
    NotifySeesChunks
    RefinesLedger
