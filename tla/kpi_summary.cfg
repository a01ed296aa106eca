SPECIFICATION Spec
CONSTANTS
    Batches = {b1, b2, b3, b4}
    LotOf <- MCLotOf
    EquipmentOf <- MCEquipmentOf
    DispatchedAt <- MCDispatchedAt
    EquipmentIdOf <- MCEquipmentIdOf
    Inspected <- MCInspected
    FailsOf <- MCFailsOf
    CodedOf <- MCCodedOf
    JudgmentOf <- MCJudgmentOf
    RecipeOf <- MCRecipeOf
    HistoryOf <- MCHistoryOf
    AlarmsOf <- MCAlarmsOf
    Snapshots <- MCSnapshots
    Equipment = {e1, e2, e3}
    Reasons = {x1, x2, x3}
    Master = {e1}
    ReasonLimit = 2
    Absent = Absent
    Statuses = {"RUN", "IDLE", "STOP"}
    Horizon = 6
    DayLength = 3
    Queries <- MCQueries
    Anything = Anything
    MaxDuring = 2
    NoRow = NoRow
    NotRead = NotRead
    b1 = b1
    b2 = b2
    b3 = b3
    b4 = b4
    l1 = l1
    l2 = l2
    l3 = l3
    e1 = e1
    e2 = e2
    e3 = e3
    x1 = x1
    x2 = x2
    x3 = x3
    c1 = c1
    c2 = c2
INVARIANTS
    TypeOK
    QuietPartsAgree
    ListedCoversCounted
    LotCountedOnce
    LaterPartsCoverEarlier
    ReportAddsUp
