SPECIFICATION Spec
CONSTANTS
    Batches <- MCBatches
    DispatchedAt <- MCDispatchedAt
    PageSize = 2
INVARIANTS
    TypeOK
    SweepMissesNothing
    QuietSweepIsExact
    SweepInv
