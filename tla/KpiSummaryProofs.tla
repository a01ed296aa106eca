-------------------------- MODULE KpiSummaryProofs --------------------------
(***************************************************************************)
(* Theorems of KpiSummary for any plant, any snapshots and any queries:     *)
(* the tables and the answer keep their shape, the list covers the header,  *)
(* and the sums of an answer agree.  The lemmas about one state of the      *)
(* tables come first (SumTheorems supplies what a sum does), then the       *)
(* inductive invariant SummaryInv and the steps that keep it.               *)
(***************************************************************************)
EXTENDS KpiSummary, SumTheorems, TLAPS

LEMMA CommitTyped ==
    ASSUME TypeOK, Commit
    PROVE  during' \in 0..MaxDuring
BY SnapshotAssumption DEF TypeOK, Commit

LEMMA StatementTyped ==
    ASSUME TypeOK, NEW part \in Parts, NEW values, NEW next \in Parts \cup {"done"},
           Statement(part, values, next)
    PROVE  TypeOK'
BY DEF TypeOK, Statement

LEMMA LogTyped ==
    ASSUME TypeOK, NEW s \in Snapshots, IngestStatus(s)
    PROVE  /\ log' \in [Equipment -> [Times -> Statuses \cup {NoRow}]]
           /\ \A e \in Equipment, t \in Times :
                  log[e][t] # NoRow => log'[e][t] # NoRow
<1>1. /\ s.equipment \in Equipment
      /\ \A t \in DOMAIN s.rows : s.rows[t] \in Statuses /\ s.rows[t] # NoRow
  BY SnapshotAssumption
<1>2. \A e \in Equipment : log[e] \in [Times -> Statuses \cup {NoRow}]
  BY DEF TypeOK
<1>3. log' = [log EXCEPT ![s.equipment] =
                 [t \in Times |-> IF t \in DOMAIN s.rows
                                    THEN s.rows[t] ELSE log[s.equipment][t]]]
  BY DEF IngestStatus
<1>4. [t \in Times |-> IF t \in DOMAIN s.rows THEN s.rows[t] ELSE log[s.equipment][t]]
          \in [Times -> Statuses \cup {NoRow}]
  BY <1>1, <1>2
<1>5. log' \in [Equipment -> [Times -> Statuses \cup {NoRow}]]
  BY <1>1, <1>3, <1>4 DEF TypeOK
<1>6. ASSUME NEW e \in Equipment, NEW t \in Times, log[e][t] # NoRow
      PROVE  log'[e][t] # NoRow
  BY <1>1, <1>3, <1>6 DEF TypeOK
<1> QED
  BY <1>5, <1>6

(* Tables, query and answer keep their shape, however statements and        *)
(* commits interleave.                                                      *)
THEOREM SummaryTyped == Spec => []TypeOK
<1>1. Init => TypeOK
  BY SnapshotAssumption DEF Init, TypeOK
<1>2. ASSUME TypeOK, [Next]_vars PROVE TypeOK'
  <2>1. ASSUME NEW q \in Queries, Ask(q) PROVE TypeOK'
    BY <1>2, <2>1, SnapshotAssumption DEF TypeOK, Ask, Parts
  <2>2. CASE ReadSummary
    BY <1>2, <2>2, StatementTyped DEF ReadSummary, Parts
  <2>3. CASE ReadGroups
    BY <1>2, <2>3, StatementTyped DEF ReadGroups, Parts
  <2>7. CASE ReadReport
    BY <1>2, <2>7, StatementTyped DEF ReadReport, Parts
  <2>4. ASSUME NEW b \in Batches, IngestBatch(b) PROVE TypeOK'
    BY <1>2, <2>4, CommitTyped DEF TypeOK, IngestBatch
  <2>5. ASSUME NEW s \in Snapshots, IngestStatus(s) PROVE TypeOK'
    BY <1>2, <2>5, CommitTyped, LogTyped DEF TypeOK, IngestStatus
  <2>6. CASE UNCHANGED vars
    BY <1>2, <2>6 DEF TypeOK, vars
  <2> QED
    BY <1>2, <2>1, <2>2, <2>3, <2>4, <2>5, <2>6, <2>7 DEF Next
<1> QED
  BY <1>1, <1>2, PTL DEF Spec

-----------------------------------------------------------------------------
\* What makes ListedCoversCounted inductive: the list is read after the
\* header, and what the header counted is still observed then.
BeforeDetails == {"idle", "base", "judgments", "equipment", "availability",
                  "reasons", "details"}
HeaderInv ==
    /\ pc \in BeforeDetails => ~Read("details")
    /\ Read("equipment") =>
           /\ answer["equipment"].active \subseteq Observed(query)
           /\ CountsObserved(query) =>
                  /\ answer["equipment"].total \in Nat
                  /\ answer["equipment"].total <= Cardinality(Observed(query))

LEMMA SizesGrow ==
    ASSUME NEW S \in SUBSET Equipment, NEW T \in SUBSET S
    PROVE  /\ Cardinality(S) \in Nat /\ Cardinality(T) \in Nat
           /\ Cardinality(T) <= Cardinality(S)
<1>1. IsFiniteSet(S)
  BY BatchAssumption, FS_Subset
<1>q. QED  BY <1>1, FS_Subset, FS_CardinalityType

LEMMA ObservedGrows ==
    ASSUME TypeOK, NEW s \in Snapshots, IngestStatus(s)
    PROVE  /\ Observed(query) \subseteq Observed(query)'
           /\ Observed(query)' \subseteq Equipment
<1>1. query' = query
  BY DEF IngestStatus
<1>2. \A e \in Equipment : Rows(e, 0, query.to) \subseteq Rows(e, 0, query.to)'
  BY <1>1, LogTyped DEF Rows
<1> QED
  BY <1>1, <1>2 DEF Observed

LEMMA OtherStatement ==
    ASSUME TypeOK, HeaderInv, ListedCoversCounted,
           NEW part \in Parts \ {"equipment", "details"}, NEW values,
           NEW next \in Parts \cup {"done"}, Statement(part, values, next),
           part \in BeforeDetails \/ next \notin BeforeDetails
    PROVE  HeaderInv' /\ ListedCoversCounted'
<1>1. /\ answer'["equipment"] = answer["equipment"]
      /\ answer'["details"] = answer["details"]
  BY DEF Statement, TypeOK, Parts
<1>2. pc = part /\ pc' = next /\ query' = query /\ log' = log
  BY DEF Statement
<1>3. Observed(query)' = Observed(query)
  BY <1>2 DEF Observed, Rows
<1>4. CountsObserved(query)' <=> CountsObserved(query)
  BY <1>2 DEF CountsObserved
<1> QED
  BY <1>1, <1>2, <1>3, <1>4 DEF HeaderInv, ListedCoversCounted, Read

LEMMA HeaderKept ==
    ASSUME TypeOK, HeaderInv, ListedCoversCounted, [Next]_vars
    PROVE  HeaderInv' /\ ListedCoversCounted'
<1>1. ASSUME NEW q \in Queries, Ask(q) PROVE HeaderInv' /\ ListedCoversCounted'
  BY <1>1 DEF Ask, HeaderInv, ListedCoversCounted, Read, Parts
<1>2. CASE ReadSummary
  <2>1. CASE Statement("equipment", {EquipmentCounts(query)}, "availability")
    <3>1. /\ answer'["equipment"] = EquipmentCounts(query)
          /\ answer'["details"] = answer["details"]
      BY <2>1 DEF Statement, TypeOK, Parts
    <3>2. /\ Observed(query)' = Observed(query) /\ ~Read("details")
          /\ CountsObserved(query)' <=> CountsObserved(query)
      BY <2>1 DEF Statement, Observed, Rows, HeaderInv, BeforeDetails, CountsObserved
    <3>3. Observed(query) \in SUBSET Equipment
      BY DEF Observed
    <3>4. /\ EquipmentCounts(query).active \subseteq Observed(query)
          /\ CountsObserved(query) =>
                 EquipmentCounts(query).total = Cardinality(Observed(query))
      BY DEF EquipmentCounts
    <3>5. Cardinality(Observed(query)) \in Nat
      BY <3>3, SizesGrow
    <3> QED
      BY <2>1, <3>1, <3>2, <3>4, <3>5
      DEF Statement, HeaderInv, ListedCoversCounted, Read
  <2>2. CASE Statement("details", {Details(query)}, "metrics")
    <3>1. /\ answer'["equipment"] = answer["equipment"]
          /\ answer'["details"] = Details(query)
      BY <2>2 DEF Statement, TypeOK, Parts
    <3>2. /\ Observed(query)' = Observed(query) /\ pc' = "metrics"
          /\ CountsObserved(query)' <=> CountsObserved(query)
      BY <2>2 DEF Statement, Observed, Rows, CountsObserved
    <3>3. /\ DOMAIN Details(query) = Listed(query)
          /\ Observed(query) \in SUBSET Listed(query)
          /\ Listed(query) \in SUBSET Equipment
      BY BatchAssumption
      DEF Details, Listed, Observed, WithRecords, Deduped, Hits, TypeOK
    <3>4. /\ Cardinality(Observed(query)) \in Nat
          /\ Cardinality(Listed(query)) \in Nat
          /\ Cardinality(Observed(query)) <= Cardinality(Listed(query))
      BY <3>3, SizesGrow
    <3>5. Read("equipment")' =>
              /\ answer["equipment"].active \subseteq Listed(query)
              /\ CountsObserved(query) =>
                     answer["equipment"].total <= Cardinality(Listed(query))
      BY <3>1, <3>3, <3>4 DEF HeaderInv, Read
    <3> QED
      BY <3>1, <3>2, <3>3, <3>5
      DEF HeaderInv, BeforeDetails, ListedCoversCounted, Read
  <2>3. CASE Statement("base", {Base(query)}, "judgments")
    BY <2>3, OtherStatement DEF Parts, BeforeDetails
  <2>4. CASE Statement("judgments", {Judgments(query)}, "equipment")
    BY <2>4, OtherStatement DEF Parts, BeforeDetails
  <2>5. CASE Statement("availability", {Availability(query)}, "reasons")
    BY <2>5, OtherStatement DEF Parts, BeforeDetails
  <2>6. CASE Statement("reasons", TopReasons(Deduped(query)), "details")
    BY <2>6, OtherStatement DEF Parts, BeforeDetails
  <2>7. CASE Statement("metrics", {Metrics(query)}, "reasonsBy")
    BY <2>7, OtherStatement DEF Parts, BeforeDetails
  <2>8. CASE Statement("reasonsBy", ReasonsBy(query),
                  IF query.groupBy = "none" THEN "done" ELSE "groupDowntime")
    BY <2>8, OtherStatement DEF Parts, BeforeDetails
  <2> QED
    BY <1>2, <2>1, <2>2, <2>3, <2>4, <2>5, <2>6, <2>7, <2>8 DEF ReadSummary
<1>3. CASE ReadGroups
  BY <1>3, OtherStatement DEF ReadGroups, Parts, BeforeDetails
<1>7. CASE ReadReport
  BY <1>7, OtherStatement DEF ReadReport, Parts, BeforeDetails
<1>4. ASSUME NEW b \in Batches, IngestBatch(b)
      PROVE  HeaderInv' /\ ListedCoversCounted'
  BY <1>4
  DEF IngestBatch, HeaderInv, ListedCoversCounted, Read, Observed, Rows, CountsObserved
<1>5. ASSUME NEW s \in Snapshots, IngestStatus(s)
      PROVE  HeaderInv' /\ ListedCoversCounted'
  <2>1. UNCHANGED <<pc, query, answer>>
    BY <1>5 DEF IngestStatus
  <2>2. /\ Observed(query) \subseteq Observed(query)'
        /\ Observed(query)' \subseteq Equipment
    BY <1>5, ObservedGrows
  <2>3. /\ Cardinality(Observed(query)) \in Nat
        /\ Cardinality(Observed(query)') \in Nat
        /\ Cardinality(Observed(query)) <= Cardinality(Observed(query)')
    BY <2>2, SizesGrow
  <2>4. CountsObserved(query)' <=> CountsObserved(query)
    BY <2>1 DEF CountsObserved
  <2>5. ListedCoversCounted'
    BY <2>1, <2>4 DEF ListedCoversCounted, Read
  <2>6. HeaderInv'
    BY <2>1, <2>2, <2>3, <2>4 DEF HeaderInv, Read
  <2> QED
    BY <2>5, <2>6
<1>6. CASE UNCHANGED vars
  BY <1>6 DEF vars, HeaderInv, ListedCoversCounted, Read, Observed, Rows, CountsObserved
<1> QED
  BY <1>1, <1>2, <1>3, <1>4, <1>5, <1>6, <1>7 DEF Next

(* No equipment that the header counts as active is missing from the list,  *)
(* and the list is as long as the status log made the header expect,        *)
(* however many snapshots and batches are committed between the two         *)
(* statements.                                                              *)
THEOREM CountedIsListed == Spec => []ListedCoversCounted
<1>1. Init => HeaderInv /\ ListedCoversCounted
  BY DEF Init, HeaderInv, ListedCoversCounted, Read, Parts
<1>2. TypeOK /\ HeaderInv /\ ListedCoversCounted /\ [Next]_vars
          => HeaderInv' /\ ListedCoversCounted'
  BY HeaderKept
<1> QED
  BY <1>1, <1>2, SummaryTyped, PTL DEF Spec


-----------------------------------------------------------------------------
(* The tables *)

Tables == TypeOK /\ IsFiniteSet(stored)

LEMMA PlantIsFinite ==
    /\ IsFiniteSet(Times) /\ Times \subseteq Nat \ {0}
    /\ IsFiniteSet(Equipment \X Times)
<1>1. IsFiniteSet(Times)
  BY FS_Interval, SnapshotAssumption DEF Times
<1>2. IsFiniteSet(Equipment \X Times)
  BY <1>1, FS_Product, BatchAssumption
<1>q. QED  BY <1>1, <1>2, SnapshotAssumption DEF Times

LEMMA CountsAreNat ==
    ASSUME NEW b \in Batches
    PROVE  /\ Inspected[b] \in Nat /\ Inspected[b] \in Int
           /\ FailsOf[b] \in Nat /\ FailsOf[b] \in Int
           /\ DispatchedAt[b] \in Int
           /\ FailsOf[b] <= Inspected[b]
           /\ \A r \in Reasons : CodedOf[b][r] \in Nat /\ CodedOf[b][r] <= Inspected[b]
<1>1. /\ Inspected[b] \in Nat /\ FailsOf[b] \in 0..Inspected[b]
      /\ \A r \in Reasons : CodedOf[b][r] \in 0..Inspected[b]
      /\ DispatchedAt[b] \in Times
  BY BatchAssumption
<1>2. \A t \in Times : t \in Int
  BY SnapshotAssumption DEF Times
<1>q. QED  BY <1>1, <1>2

LEMMA HitsAreFinite ==
    ASSUME Tables, NEW q
    PROVE  /\ Hits(q) \in SUBSET Batches /\ IsFiniteSet(Hits(q))
           /\ Deduped(q) \in SUBSET Hits(q) /\ IsFiniteSet(Deduped(q))
           /\ ReportHits(q) \in SUBSET Batches /\ IsFiniteSet(ReportHits(q))
           /\ \A S \in SUBSET Batches : \A T \in SUBSET stored : IsFiniteSet(T)
<1>1. /\ Hits(q) \in SUBSET stored /\ Deduped(q) \in SUBSET Hits(q)
      /\ Deduped(q) \in SUBSET stored /\ ReportHits(q) \in SUBSET stored
      /\ stored \in SUBSET Batches
  BY DEF Hits, Deduped, ReportHits, Tables, TypeOK
<1>2. \A T \in SUBSET stored : IsFiniteSet(T)
  BY FS_Subset DEF Tables
<1>q. QED  BY <1>1, <1>2

-----------------------------------------------------------------------------
(* A LOT has one batch in a period *)

LEMMA OneBatchPerLot ==
    ASSUME Tables, NEW q
    PROVE  /\ \A lot \in LotsOf(Hits(q)) : \E b \in Deduped(q) : LotOf[b] = lot
           /\ \A b, c \in Deduped(q) : LotOf[b] = LotOf[c] => b = c
<1>1. ASSUME NEW lot \in LotsOf(Hits(q)) PROVE \E b \in Deduped(q) : LotOf[b] = lot
  <2> DEFINE S == {b \in Hits(q) : LotOf[b] = lot}
  <2>1. S # {} /\ S \in SUBSET Hits(q) /\ S \in SUBSET Batches
    BY HitsAreFinite DEF LotsOf
  <2>2. IsFiniteSet(S)
    BY <2>1, HitsAreFinite, FS_Subset
  <2>3. \A b \in S : DispatchedAt[b] \in Int
    BY <2>1, CountsAreNat
  <2>4. PICK b \in S : \A c \in S : DispatchedAt[c] <= DispatchedAt[b]
    <3> HIDE DEF S
    <3>q. QED  BY <2>1, <2>2, <2>3, LargestExists
  <2>q. QED  BY <2>4 DEF Deduped
<1>2. ASSUME NEW b \in Deduped(q), NEW c \in Deduped(q), LotOf[b] = LotOf[c]
      PROVE  b = c
  <2>1. b \in Hits(q) /\ c \in Hits(q) /\ b \in Batches /\ c \in Batches
    BY HitsAreFinite
  <2>2. DispatchedAt[b] <= DispatchedAt[c] /\ DispatchedAt[c] <= DispatchedAt[b]
    BY <1>2, <2>1 DEF Deduped
  <2>3. DispatchedAt[b] = DispatchedAt[c]
    BY <2>1, <2>2, CountsAreNat
  <2>q. QED  BY <1>2, <2>1, <2>3, DispatchAssumption
<1>q. QED  BY <1>1, <1>2

LEMMA RecordsOfLot ==
    ASSUME DispatchRepeats, NEW b \in Batches
    PROVE  RecordsOf[LotOf[b]] = Inspected[b]
<1> DEFINE c == CHOOSE c \in Batches : LotOf[c] = LotOf[b]
<1>1. c \in Batches /\ LotOf[c] = LotOf[b]
  OBVIOUS
<1>2. Inspected[c] = Inspected[b]
  BY <1>1 DEF DispatchRepeats
<1>3. LotOf[b] \in LotsOf(Batches)
  BY DEF LotsOf
<1>4. RecordsOf[LotOf[b]] = Inspected[c]
  BY <1>3, Zenon DEF RecordsOf
<1>q. QED  BY <1>2, <1>4

\* De-duplicated batches count the records of the LOTs in the period.
LEMMA UnitsAreRecords ==
    ASSUME Tables, DispatchRepeats, NEW q
    PROVE  /\ IsFiniteSet(LotsOf(Hits(q)))
           /\ \A lot \in LotsOf(Hits(q)) : RecordsOf[lot] \in Nat
           /\ Base(q).units = SumFunctionOnSet(RecordsOf, LotsOf(Hits(q)))
<1> DEFINE lots == LotsOf(Hits(q))
           group == [lot \in lots |-> {b \in Deduped(q) : LotOf[b] = lot}]
<1>1. IsFiniteSet(lots)
  BY HitsAreFinite, ImageIsFinite DEF LotsOf
<1>2. \A b \in Deduped(q) : b \in Batches /\ Inspected[b] \in Nat /\ LotOf[b] \in lots
  BY HitsAreFinite, CountsAreNat DEF LotsOf
<1>3. ASSUME NEW lot \in lots
      PROVE  /\ RecordsOf[lot] \in Nat
             /\ RecordsOf[lot] = SumFunctionOnSet(Inspected, group[lot])
  <2>1. PICK b \in Deduped(q) : LotOf[b] = lot
    BY OneBatchPerLot
  <2>2. group[lot] = {b}
    BY <2>1, OneBatchPerLot
  <2>3. RecordsOf[lot] = Inspected[b] /\ Inspected[b] \in Nat
    BY <1>2, <2>1, RecordsOfLot
  <2>4. SumFunctionOnSet(Inspected, {b}) = Inspected[b]
    BY <2>3, SumOne
  <2>q. QED  BY <2>2, <2>3, <2>4
<1>4. /\ \A lot \in lots : group[lot] \in SUBSET Deduped(q)
      /\ \A lot \in lots : \A b \in Deduped(q) : b \in group[lot] <=> LotOf[b] = lot
  OBVIOUS
<1>5. IsFiniteSet(Deduped(q))
  BY HitsAreFinite
<1> HIDE DEF group, lots
<1>6. SumFunctionOnSet(RecordsOf, lots) = SumFunctionOnSet(Inspected, Deduped(q))
  BY <1>1, <1>2, <1>3, <1>4, <1>5, SumOfKeys
<1>q. QED  BY <1>1, <1>3, <1>6 DEF Base, Totals, lots

-----------------------------------------------------------------------------
(* The parts of a KPI answer that one state of the tables gives *)

LEMMA ListedIsFinite ==
    ASSUME Tables, NEW q
    PROVE  /\ Listed(q) \in SUBSET Equipment /\ IsFiniteSet(Listed(q))
           /\ \A b \in Deduped(q) :
                  /\ b \in Batches
                  /\ \/ EquipmentOf[b] \in Listed(q)
                     \/ (Inspected[b] = 0 /\ FailsOf[b] = 0)
<1>1. \A b \in Deduped(q) : b \in Batches /\ EquipmentOf[b] \in Equipment
  BY HitsAreFinite, BatchAssumption
<1>2. Listed(q) \in SUBSET Equipment
  BY <1>1 DEF Listed, Observed, WithRecords
<1>3. IsFiniteSet(Listed(q))
  BY <1>2, FS_Subset, BatchAssumption
<1>4. ASSUME NEW b \in Deduped(q)
      PROVE  EquipmentOf[b] \in Listed(q) \/ (Inspected[b] = 0 /\ FailsOf[b] = 0)
  <2>1. Inspected[b] \in Nat /\ FailsOf[b] \in Nat /\ FailsOf[b] <= Inspected[b]
    BY <1>1, CountsAreNat
  <2>2. CASE Inspected[b] > 0
    BY <2>2 DEF Listed, WithRecords
  <2>3. CASE Inspected[b] = 0
    BY <2>1, <2>3
  <2>q. QED  BY <2>1, <2>2, <2>3
<1>q. QED  BY <1>1, <1>2, <1>3, <1>4

\* The equipment list loses no record of the batches in S.
LEMMA SumOfListed ==
    ASSUME Tables, NEW q, NEW S \in SUBSET Deduped(q), NEW f,
           \A b \in S : f[b] \in Int,
           \A b \in S : Inspected[b] = 0 /\ FailsOf[b] = 0 => f[b] = 0,
           NEW sums,
           \A e \in Listed(q) : sums[e] = SumFunctionOnSet(f, OfEquipment(e, S))
    PROVE  SumFunctionOnSet(sums, Listed(q)) = SumFunctionOnSet(f, S)
<1> DEFINE group == [e \in Listed(q) |-> OfEquipment(e, S)]
<1>1. /\ \A e \in Listed(q) : group[e] \in SUBSET S
      /\ \A e \in Listed(q) : \A b \in S : b \in group[e] <=> EquipmentOf[b] = e
      /\ \A e \in Listed(q) : sums[e] = SumFunctionOnSet(f, group[e])
  BY DEF OfEquipment
<1>2. IsFiniteSet(S) /\ IsFiniteSet(Listed(q))
  BY HitsAreFinite, FS_Subset, ListedIsFinite
<1>3. \A b \in S : EquipmentOf[b] \in Listed(q) \/ f[b] = 0
  BY ListedIsFinite
<1> HIDE DEF group
<1>q. QED  BY <1>1, <1>2, <1>3, SumOfKeys

LEMMA DetailsAddUp ==
    ASSUME Tables, NEW q
    PROVE  LET details == Details(q) IN
           /\ DOMAIN details = Listed(q)
           /\ SumFunction([e \in DOMAIN details |-> details[e].totals.units])
                = Base(q).units
           /\ SumFunction([e \in DOMAIN details |-> details[e].totals.fails])
                = Base(q).fails
           /\ SumFunction([e \in DOMAIN details |-> details[e].warnings])
                <= Judgments(q)["WARNING"]
<1> DEFINE details == Details(q)
           units == [e \in Listed(q) |-> details[e].totals.units]
           fails == [e \in Listed(q) |-> details[e].totals.fails]
           warnings == [e \in Listed(q) |-> details[e].warnings]
           S == {b \in Deduped(q) : JudgmentOf[b] = "WARNING"}
           group == [e \in Listed(q) |->
                       {b \in OfEquipment(e, Deduped(q)) : JudgmentOf[b] = "WARNING"}]
           U == {b \in S : \E e \in Listed(q) : b \in group[e]}
<1>1. DOMAIN details = Listed(q)
  BY DEF Details
<1>2. \A e \in Listed(q) :
          /\ units[e] = SumFunctionOnSet(Inspected, OfEquipment(e, Deduped(q)))
          /\ fails[e] = SumFunctionOnSet(FailsOf, OfEquipment(e, Deduped(q)))
          /\ warnings[e] = Cardinality(group[e])
  BY DEF Details, Totals
<1>3. \A b \in Deduped(q) : Inspected[b] \in Int /\ FailsOf[b] \in Int
  BY HitsAreFinite, CountsAreNat
<1>4. /\ \A e \in Listed(q) : group[e] \in SUBSET S
      /\ \A d, e \in Listed(q) : \A b \in group[d] : b \in group[e] => d = e
      /\ U \in SUBSET S
      /\ \A b \in S : b \in U <=> \E e \in Listed(q) : b \in group[e]
  BY DEF OfEquipment
<1>5. IsFiniteSet(S) /\ IsFiniteSet(Listed(q))
  BY HitsAreFinite, FS_Subset, ListedIsFinite
<1>6. Judgments(q)["WARNING"] = Cardinality(S)
  BY DEF Judgments
<1>7. /\ SumFunction(units) = SumFunctionOnSet(units, Listed(q))
      /\ SumFunction(fails) = SumFunctionOnSet(fails, Listed(q))
      /\ SumFunction(warnings) = SumFunctionOnSet(warnings, Listed(q))
  BY DEF SumFunction
<1>8. /\ SumFunction([e \in DOMAIN details |-> details[e].totals.units])
            = SumFunction(units)
      /\ SumFunction([e \in DOMAIN details |-> details[e].totals.fails])
            = SumFunction(fails)
      /\ SumFunction([e \in DOMAIN details |-> details[e].warnings])
            = SumFunction(warnings)
  BY <1>1
<1> HIDE DEF units, fails, warnings, S, group, U
<1>9. SumFunctionOnSet(units, Listed(q)) = SumFunctionOnSet(Inspected, Deduped(q))
  BY <1>2, <1>3, SumOfListed
<1>10. SumFunctionOnSet(fails, Listed(q)) = SumFunctionOnSet(FailsOf, Deduped(q))
  BY <1>2, <1>3, SumOfListed
<1>11. SumFunctionOnSet(warnings, Listed(q)) = Cardinality(U)
  BY <1>2, <1>4, <1>5, CountOfGroups
<1>12. Cardinality(U) <= Cardinality(S)
  BY <1>4, <1>5, FS_Subset
<1>q. QED
  BY <1>1, <1>6, <1>7, <1>8, <1>9, <1>10, <1>11, <1>12 DEF Base, Totals

\* The records of each batch that carry r.
Coded(r) == [b \in Batches |-> CodedOf[b][r]]

LEMMA CountsOfReason ==
    ASSUME NEW S \in SUBSET Batches, IsFiniteSet(S), NEW r \in Reasons,
           NEW T \in SUBSET S
    PROVE  /\ ReasonCounts(T)[r] = SumFunctionOnSet(Coded(r), T)
           /\ ReasonCounts(T)[r] \in Nat /\ ReasonCounts(S)[r] \in Nat
           /\ ReasonCounts(T)[r] <= ReasonCounts(S)[r]
<1>1. ASSUME NEW U \in SUBSET S PROVE ReasonCounts(U)[r] = SumFunctionOnSet(Coded(r), U)
  <2> DEFINE mine == [b \in U |-> CodedOf[b][r]]
  <2>1. IsFiniteSet(U) /\ \A b \in U : mine[b] = Coded(r)[b]
    BY FS_Subset DEF Coded
  <2>2. ReasonCounts(U)[r] = SumFunctionOnSet(mine, U)
    BY DEF ReasonCounts, SumFunction
  <2> HIDE DEF mine
  <2>q. QED  BY <2>1, <2>2, SumSame
<1>2. \A b \in S : Coded(r)[b] \in Nat
  BY CountsAreNat DEF Coded
<1>3. \A U \in SUBSET S :
          /\ SumFunctionOnSet(Coded(r), U) \in Nat
          /\ SumFunctionOnSet(Coded(r), U) <= SumFunctionOnSet(Coded(r), S)
  BY <1>2, SumGrows
<1>q. QED  BY <1>1, <1>3

\* However the ties fall, a list of top reasons of S leaves out no more than it
\* has room for.
LEMMA TopExplains ==
    ASSUME NEW S \in SUBSET Batches, IsFiniteSet(S), NEW top \in TopReasons(S)
    PROVE  /\ DOMAIN top \in SUBSET Reasons
           /\ \A r \in DOMAIN top : top[r] = ReasonCounts(S)[r]
           /\ \A r \in Reasons : \A n \in Nat :
                  n <= ReasonCounts(S)[r] => Explains(top, r, n)
           /\ ~Full(top) => \A r \in Reasons \ DOMAIN top : ReasonCounts(S)[r] = 0
<1> DEFINE counts == ReasonCounts(S)
           present == {r \in Reasons : counts[r] > 0}
<1>1. PICK R \in SUBSET Reasons : IsTop(R, counts) /\ top = [r \in R |-> counts[r]]
  BY DEF TopReasons
<1>2. DOMAIN top = R /\ \A r \in R : top[r] = counts[r]
  BY <1>1
<1>3. \A r \in Reasons : counts[r] \in Nat
  BY CountsOfReason
<1>4. /\ R = present \/ Cardinality(R) = ReasonLimit
      /\ \A r \in R, other \in present \ R : counts[other] <= counts[r]
  BY <1>1 DEF IsTop
<1> HIDE DEF counts
<1>5. ASSUME NEW r \in Reasons \ R, counts[r] > 0
      PROVE  Full(top) /\ \A other \in R : counts[r] <= counts[other]
  BY <1>2, <1>4, <1>5 DEF Full
<1>6. ASSUME NEW r \in Reasons, NEW n \in Nat, n <= counts[r] PROVE Explains(top, r, n)
  <2>1. CASE r \in R
    BY <1>2, <1>6, <2>1 DEF Explains
  <2>2. CASE r \notin R
    <3>1. SUFFICES ASSUME n > 0 PROVE Full(top) /\ \A other \in R : n <= top[other]
      BY <1>2, <2>2 DEF Explains
    <3>2. counts[r] > 0
      BY <1>3, <1>6, <3>1
    <3>q. QED  BY <1>2, <1>3, <1>5, <1>6, <2>2, <3>2
  <2>q. QED  BY <2>1, <2>2
<1>7. ASSUME NEW r \in Reasons \ R, counts[r] # 0 PROVE Full(top)
  BY <1>3, <1>5, <1>7
<1>q. QED  BY <1>2, <1>6, <1>7 DEF counts

\* The reasons that the equipment shows, against those of the fleet.
LEMMA ReasonsAddUp ==
    ASSUME Tables, NEW q, NEW r \in Reasons,
           NEW top \in TopReasons(Deduped(q)), NEW by \in ReasonsBy(q)
    PROVE  /\ Explains(top, r, ReasonShown(by, Listed(q), r))
           /\ (\A e \in Listed(q) : ~Full(by[e])) /\ r \in DOMAIN top =>
                  top[r] = ReasonShown(by, Listed(q), r)
<1> DEFINE D == Deduped(q)
           count == [e \in Listed(q) |-> ReasonCounts(OfEquipment(e, D))[r]]
           L == {e \in Listed(q) : r \in DOMAIN by[e]}
           shown == [e \in L |-> by[e][r]]
<1>1. /\ D \in SUBSET Batches /\ IsFiniteSet(D)
      /\ IsFiniteSet(Listed(q)) /\ Listed(q) \in SUBSET Equipment
  BY HitsAreFinite, ListedIsFinite
<1>2. ASSUME NEW e \in Listed(q)
      PROVE  /\ OfEquipment(e, D) \in SUBSET Batches
             /\ OfEquipment(e, D) \in SUBSET D
             /\ IsFiniteSet(OfEquipment(e, D))
             /\ by[e] \in TopReasons(OfEquipment(e, D))
  <2>1. OfEquipment(e, D) \in SUBSET D
    BY DEF OfEquipment
  <2>2. by[e] \in TopReasons(OfEquipment(e, D))
    BY <1>1 DEF ReasonsBy
  <2>q. QED  BY <1>1, <2>1, <2>2, FS_Subset
<1>3. ASSUME NEW e \in Listed(q)
      PROVE  /\ count[e] = SumFunctionOnSet(Coded(r), OfEquipment(e, D))
             /\ count[e] \in Nat
  BY <1>1, <1>2, CountsOfReason
<1>4. /\ ReasonCounts(D)[r] = SumFunctionOnSet(Coded(r), D)
      /\ ReasonCounts(D)[r] \in Nat
  BY <1>1, CountsOfReason
<1>5. /\ \A b \in D : Coded(r)[b] \in Int
      /\ \A b \in D : Inspected[b] = 0 /\ FailsOf[b] = 0 => Coded(r)[b] = 0
  BY <1>1, CountsAreNat DEF Coded
<1>6. \A e \in L : shown[e] = count[e]
  <2>1. SUFFICES ASSUME NEW e \in L PROVE by[e][r] = ReasonCounts(OfEquipment(e, D))[r]
    OBVIOUS
  <2>q. QED  BY <1>2, <2>1, TopExplains
<1>7. ASSUME \A e \in Listed(q) : ~Full(by[e]) PROVE \A e \in Listed(q) \ L : count[e] = 0
  BY <1>2, <1>7, TopExplains
<1>8. ReasonShown(by, Listed(q), r) = SumFunctionOnSet(shown, L)
  BY DEF ReasonShown, SumFunction
<1>9. L \in SUBSET Listed(q) /\ D \in SUBSET Deduped(q)
  OBVIOUS
<1>10. Explains(top, r, ReasonCounts(D)[r]) /\ (r \in DOMAIN top => top[r] = ReasonCounts(D)[r])
  BY <1>1, <1>4, TopExplains
<1>11. \A n \in Nat : n <= ReasonCounts(D)[r] => Explains(top, r, n)
  BY <1>1, TopExplains
<1> HIDE DEF D, count, L, shown
<1>12. SumFunctionOnSet(count, Listed(q)) = ReasonCounts(D)[r]
  BY <1>3, <1>4, <1>5, <1>9, SumOfListed
<1>13. SumFunctionOnSet(shown, L) = SumFunctionOnSet(count, L)
  BY <1>1, <1>6, <1>9, FS_Subset, SumSame
<1>14. /\ SumFunctionOnSet(count, L) \in Nat
       /\ SumFunctionOnSet(count, L) <= SumFunctionOnSet(count, Listed(q))
  BY <1>1, <1>3, <1>9, SumGrows
<1>15. ASSUME \A e \in Listed(q) : ~Full(by[e])
       PROVE  SumFunctionOnSet(count, L) = SumFunctionOnSet(count, Listed(q))
  <2>1. \A e \in Listed(q) : count[e] \in Int
    BY <1>3
  <2>q. QED  BY <1>1, <1>7, <1>9, <1>15, <2>1, SumDropsZeros
<1>q. QED
  BY <1>8, <1>10, <1>11, <1>12, <1>13, <1>14, <1>15

LEMMA GroupsAddUp ==
    ASSUME Tables, NEW q
    PROVE  LET groups == Groups(q) IN
           SumFunction([k \in DOMAIN groups |-> groups[k].units]) = Base(q).units
<1> DEFINE K == {BatchGroup(q, b) : b \in WithRecords(Deduped(q))}
           key == [b \in Deduped(q) |-> BatchGroup(q, b)]
           group == [k \in K |-> {b \in Deduped(q) : BatchGroup(q, b) = k}]
           units == [k \in K |-> Groups(q)[k].units]
<1>1. IsFiniteSet(Deduped(q)) /\ \A b \in Deduped(q) : Inspected[b] \in Nat
  BY HitsAreFinite, CountsAreNat
<1>2. IsFiniteSet(K)
  <2> DEFINE S == WithRecords(Deduped(q))
  <2>1. S \in SUBSET Deduped(q)
    BY DEF WithRecords
  <2>2. IsFiniteSet(S) /\ K = {key[b] : b \in S}
    BY <1>1, <2>1, FS_Subset
  <2> HIDE DEF S, key, K
  <2>q. QED  BY <2>2, ImageIsFinite
<1>3. \A b \in Deduped(q) : key[b] \in K \/ Inspected[b] = 0
  BY <1>1 DEF WithRecords
<1>4. /\ \A k \in K : group[k] \in SUBSET Deduped(q)
      /\ \A k \in K : \A b \in Deduped(q) : b \in group[k] <=> key[b] = k
  OBVIOUS
<1>5. DOMAIN Groups(q) = K /\ \A k \in K : units[k] = SumFunctionOnSet(Inspected, group[k])
  BY DEF Groups, Totals
<1>6. SumFunction(units) = SumFunctionOnSet(units, K)
  BY DEF SumFunction
<1>7. \A b \in Deduped(q) : Inspected[b] \in Int
  BY <1>1
<1> HIDE DEF K, key, group, units
<1>8. SumFunctionOnSet(units, K) = SumFunctionOnSet(Inspected, Deduped(q))
  BY <1>1, <1>2, <1>3, <1>4, <1>5, <1>7, SumOfKeys
<1>q. QED  BY <1>5, <1>6, <1>8 DEF Base, Totals, units

\* The intervals of a period are finitely many, and each lasts.
LEMMA IntervalsLast ==
    ASSUME Tables, NEW q
    PROVE  /\ Intervals(q) \in SUBSET (Equipment \X Times)
           /\ IsFiniteSet(Intervals(q))
           /\ \A i \in Intervals(q) : Length(q, i) \in Nat
<1>1. Intervals(q) \in SUBSET (Equipment \X Times)
  BY DEF Intervals
<1>2. IsFiniteSet(Intervals(q))
  BY <1>1, PlantIsFinite, FS_Subset
<1>3. ASSUME NEW i \in Intervals(q) PROVE Length(q, i) \in Nat
  <2> DEFINE R == Rows(i[1], i[2] + 1, q.to)
  <2>1. R # {} /\ R \in SUBSET Times /\ \A t \in R : t \in Nat /\ i[2] + 1 <= t
    BY PlantIsFinite DEF Intervals, Rows
  <2>2. IsFiniteSet(R)
    BY <2>1, PlantIsFinite, FS_Subset
  <2>3. \A t \in R : t \in Int
    BY <2>1
  <2>4. \E t \in R : \A u \in R : t <= u
    <3> HIDE DEF R
    <3>q. QED  BY <2>1, <2>2, <2>3, SmallestExists
  <2>5. Min(R) \in R
    BY <2>4, Zenon DEF Min
  <2>6. i[2] \in Nat /\ Length(q, i) = Min(R) - i[2]
    BY <1>1, PlantIsFinite DEF Length
  <2> HIDE DEF R
  <2>q. QED  BY <2>1, <2>5, <2>6
<1>q. QED  BY <1>1, <1>2, <1>3

\* The durations of the groups of S, by any key, add up to the duration of S.
LEMMA SecondsOfGroups ==
    ASSUME Tables, NEW q, NEW S \in SUBSET Intervals(q), NEW K, IsFiniteSet(K),
           NEW key, NEW group, \A k \in K : group[k] \in SUBSET S,
           \A k \in K : \A i \in S : i \in group[k] <=> key[i] = k,
           NEW sums, \A k \in K : sums[k] = Seconds(q, group[k])
    PROVE  /\ Seconds(q, S) \in Nat
           /\ \A L \in SUBSET K : SumFunctionOnSet(sums, L) <= Seconds(q, S)
           /\ (\A i \in S : key[i] \in K) => SumFunctionOnSet(sums, K) = Seconds(q, S)
<1> DEFINE length == [i \in S |-> Length(q, i)]
<1>1. IsFiniteSet(S) /\ \A i \in S : length[i] \in Nat
  BY IntervalsLast, FS_Subset
<1>2. ASSUME NEW T \in SUBSET S PROVE Seconds(q, T) = SumFunctionOnSet(length, T)
  <2> DEFINE mine == [i \in T |-> Length(q, i)]
  <2>1. IsFiniteSet(T) /\ \A i \in T : mine[i] = length[i]
    BY <1>1, FS_Subset
  <2>2. Seconds(q, T) = SumFunctionOnSet(mine, T)
    BY DEF Seconds, SumFunction
  <2> HIDE DEF mine, length
  <2>q. QED  BY <2>1, <2>2, SumSame
<1> HIDE DEF length
<1>3. \A k \in K : sums[k] = SumFunctionOnSet(length, group[k])
  BY <1>2
<1>4. ASSUME NEW L \in SUBSET K
      PROVE  SumFunctionOnSet(sums, L) = SumFunctionOnSet(length, {i \in S : key[i] \in L})
  <2> DEFINE U == {i \in S : key[i] \in L}
  <2>1. IsFiniteSet(L) /\ U \in SUBSET S
    BY FS_Subset
  <2>2. \A i \in S : i \in U <=> \E k \in L : i \in group[k]
    OBVIOUS
  <2>3. \A j, k \in L : \A i \in group[j] : i \in group[k] => j = k
    OBVIOUS
  <2>4. \A i \in S : length[i] \in Int
    BY <1>1
  <2>5. \A k \in L : group[k] \in SUBSET S /\ sums[k] = SumFunctionOnSet(length, group[k])
    BY <1>3
  <2> HIDE DEF U
  <2>6. SumFunctionOnSet(sums, L) = SumFunctionOnSet(length, U)
    BY <1>1, <2>1, <2>2, <2>3, <2>4, <2>5, SumOfGroups
  <2>q. QED  BY <2>6 DEF U
<1>5. \A T \in SUBSET S :
          /\ SumFunctionOnSet(length, T) \in Nat
          /\ SumFunctionOnSet(length, T) <= SumFunctionOnSet(length, S)
  BY <1>1, SumGrows
<1>6. ASSUME \A i \in S : key[i] \in K PROVE SumFunctionOnSet(sums, K) = Seconds(q, S)
  <2>1. {i \in S : key[i] \in K} = S
    BY <1>6
  <2>q. QED  BY <1>2, <1>4, <2>1
<1>7. ASSUME NEW L \in SUBSET K PROVE SumFunctionOnSet(sums, L) <= Seconds(q, S)
  <2>1. {i \in S : key[i] \in L} \in SUBSET S
    OBVIOUS
  <2>q. QED  BY <1>2, <1>4, <1>5, <2>1
<1>8. Seconds(q, S) \in Nat
  BY <1>2, <1>5
<1>q. QED  BY <1>6, <1>7, <1>8

LEMMA MetricsAddUp ==
    ASSUME Tables, NEW q
    PROVE  LET metrics == Metrics(q) IN
           /\ DOMAIN metrics \subseteq Listed(q)
           /\ SumFunction([e \in DOMAIN metrics |-> metrics[e].stop])
                = Availability(q).stop
<1> DEFINE K == {e \in Equipment : Selects(q, e) /\ Rows(e, q.from, q.to) # {}}
           S == InStatus(Intervals(q), "STOP")
           mine(e) == {i \in Intervals(q) : i[1] = e}
           group == [e \in K |-> InStatus(mine(e), "STOP")]
           key == [i \in S |-> i[1]]
           sums == [e \in K |-> Metrics(q)[e].stop]
<1>1. IsFiniteSet(K) /\ S \in SUBSET Intervals(q)
  BY BatchAssumption, FS_Subset DEF InStatus
<1>2. DOMAIN Metrics(q) = K
  BY DEF Metrics
<1>3. \A e \in K : sums[e] = Seconds(q, group[e])
  BY DEF Metrics, Durations
<1>4. /\ \A e \in K : group[e] \in SUBSET S
      /\ \A e \in K : \A i \in S : i \in group[e] <=> key[i] = e
  BY DEF InStatus
<1>5. \A i \in S : key[i] \in K
  BY DEF InStatus, Intervals
<1>6. SumFunction(sums) = SumFunctionOnSet(sums, K)
  BY DEF SumFunction
<1>7. Availability(q).stop = Seconds(q, S)
  BY DEF Availability, Durations
<1>8. K \subseteq Listed(q)
  <2>1. SUFFICES ASSUME NEW e \in K PROVE e \in Observed(q)
    BY DEF Listed
  <2>2. PICK t \in Times : q.from <= t /\ t <= q.to /\ log[e][t] # NoRow
    BY DEF Rows
  <2>3. t \in Rows(e, 0, q.to)
    BY <2>2, PlantIsFinite DEF Rows
  <2>q. QED  BY <2>3 DEF Observed
<1> HIDE DEF K, S, group, key, sums
<1>9. SumFunctionOnSet(sums, K) = Seconds(q, S)
  BY <1>1, <1>3, <1>4, <1>5, SecondsOfGroups
<1>q. QED  BY <1>2, <1>6, <1>7, <1>8, <1>9 DEF sums

LEMMA DowntimeIsWithin ==
    ASSUME Tables, NEW q, NEW L \in SUBSET DOMAIN GroupDowntime(q)
    PROVE  SumFunctionOnSet(GroupDowntime(q), L) <= Availability(q).stop
<1> DEFINE S == InStatus(Intervals(q), "STOP")
           key == [i \in S |-> GroupOf(q, i[1], i[2])]
           K == {GroupOf(q, i[1], i[2]) : i \in S}
           group == [k \in K |-> {i \in S : GroupOf(q, i[1], i[2]) = k}]
<1>1. S \in SUBSET Intervals(q)
  BY DEF InStatus
<1>2. IsFiniteSet(K)
  <2>1. IsFiniteSet(S) /\ K = {key[i] : i \in S}
    BY <1>1, IntervalsLast, FS_Subset
  <2> HIDE DEF S, K, key
  <2>q. QED  BY <2>1, ImageIsFinite
<1>3. DOMAIN GroupDowntime(q) = K
  BY DEF GroupDowntime
<1>4. \A k \in K : GroupDowntime(q)[k] = Seconds(q, group[k])
  BY DEF GroupDowntime
<1>5. /\ \A k \in K : group[k] \in SUBSET S
      /\ \A k \in K : \A i \in S : i \in group[k] <=> key[i] = k
  OBVIOUS
<1>6. Availability(q).stop = Seconds(q, S)
  BY DEF Availability, Durations
<1> HIDE DEF S, K, key, group
<1>q. QED  BY <1>1, <1>2, <1>3, <1>4, <1>5, <1>6, SecondsOfGroups

-----------------------------------------------------------------------------
(* The parts of a report that one state of the tables gives *)

LEMMA CountByAddsUp ==
    ASSUME NEW S, IsFiniteSet(S), NEW key
    PROVE  /\ SumFunction(CountBy(key, S)) <= Cardinality(S)
           /\ \A k \in DOMAIN CountBy(key, S) :
                  CountBy(key, S)[k] = Cardinality({b \in S : key[b] = k})
           /\ \A k : k # Absent /\ k \notin DOMAIN CountBy(key, S) =>
                  {b \in S : key[b] = k} = {}
<1> DEFINE K == Present(key, S)
           all == {key[b] : b \in S}
           U == {b \in S : key[b] # Absent}
           group == [k \in K |-> {b \in S : key[b] = k}]
           counts == CountBy(key, S)
<1>1. IsFiniteSet(K)
  <2>1. IsFiniteSet(all) /\ K \in SUBSET all
    BY ImageIsFinite DEF Present
  <2>q. QED  BY <2>1, FS_Subset
<1>2. DOMAIN counts = K /\ \A k \in K : counts[k] = Cardinality({b \in S : key[b] = k})
  BY DEF CountBy
<1>3. /\ \A k \in K : group[k] \in SUBSET S /\ counts[k] = Cardinality(group[k])
      /\ \A j, k \in K : \A b \in group[j] : b \in group[k] => j = k
      /\ U \in SUBSET S
      /\ \A b \in S : b \in U <=> \E k \in K : b \in group[k]
  BY <1>2 DEF Present
<1>4. \A k : k # Absent /\ k \notin K => {b \in S : key[b] = k} = {}
  BY DEF Present
<1>5. SumFunction(counts) = SumFunctionOnSet(counts, K)
  BY <1>2 DEF SumFunction
<1> HIDE DEF group
<1>6. SumFunctionOnSet(counts, K) = Cardinality(U)
  <2> HIDE DEF K, counts, U
  <2>q. QED  BY <1>1, <1>3, CountOfGroups
<1>7. Cardinality(U) <= Cardinality(S)
  BY <1>3, FS_Subset
<1>q. QED  BY <1>2, <1>4, <1>5, <1>6, <1>7

\* A report's reasons explain all that the KPI query counts.
LEMMA ReportExplains ==
    ASSUME Tables, NEW q, q.equipment = Anything, NEW top \in TopReasons(ReportHits(q)),
           NEW r \in Reasons
    PROVE  Explains(top, r, ReasonCounts(Deduped(q))[r])
<1>1. Hits(q) = ReportHits(q)
  BY DEF Hits, ReportHits, Selects
<1>2. /\ Deduped(q) \in SUBSET ReportHits(q) /\ ReportHits(q) \in SUBSET Batches
      /\ IsFiniteSet(ReportHits(q))
  BY <1>1, HitsAreFinite DEF Deduped
<1>3. /\ ReasonCounts(Deduped(q))[r] \in Nat
      /\ ReasonCounts(Deduped(q))[r] <= ReasonCounts(ReportHits(q))[r]
  BY <1>2, CountsOfReason
<1>q. QED  BY <1>2, <1>3, TopExplains

LEMMA HistoryAddsUp ==
    ASSUME Tables, NEW S \in SUBSET stored
    PROVE  HistorySeconds(S, {"RUN"}) + HistorySeconds(S, {"STOP"})
             <= HistorySeconds(S, Statuses)
<1> DEFINE I(statuses) == {i \in S \X Times : /\ i[2] \in DOMAIN HistoryOf[i[1]]
                                              /\ HistoryOf[i[1]][i[2]] \in statuses
                                              /\ HistoryAfter(i[1], i[2]) # {}}
           All == I(Statuses)
           seconds == [i \in All |-> Min(HistoryAfter(i[1], i[2])) - i[2]]
<1>1. IsFiniteSet(All)
  <2>1. IsFiniteSet(S) /\ All \in SUBSET (S \X Times)
    BY FS_Subset DEF Tables
  <2>q. QED  BY <2>1, PlantIsFinite, FS_Product, FS_Subset
<1>2. ASSUME NEW i \in All PROVE seconds[i] \in Nat
  <2> DEFINE R == HistoryAfter(i[1], i[2])
  <2>1. i[1] \in Batches /\ i[2] \in Nat
    BY PlantIsFinite DEF Tables, TypeOK
  <2>2. R \in SUBSET Times /\ R # {} /\ \A t \in R : t \in Nat /\ t > i[2]
    BY <2>1, PlantIsFinite, BatchAssumption DEF HistoryAfter
  <2>3. IsFiniteSet(R) /\ \A t \in R : t \in Int
    BY <2>2, PlantIsFinite, FS_Subset
  <2>4. \E t \in R : \A u \in R : t <= u
    <3> HIDE DEF R
    <3>q. QED  BY <2>2, <2>3, SmallestExists
  <2>5. Min(R) \in R
    BY <2>4, Zenon DEF Min
  <2>6. seconds[i] = Min(R) - i[2]
    OBVIOUS
  <2> HIDE DEF R
  <2>q. QED  BY <2>1, <2>2, <2>5, <2>6
<1>3. ASSUME NEW statuses \in SUBSET Statuses
      PROVE  /\ I(statuses) \in SUBSET All
             /\ HistorySeconds(S, statuses) = SumFunctionOnSet(seconds, I(statuses))
  <2> DEFINE J == I(statuses)
             mine == [i \in J |-> Min(HistoryAfter(i[1], i[2])) - i[2]]
  <2>1. J \in SUBSET All
    OBVIOUS
  <2>2. IsFiniteSet(J)
    BY <1>1, <2>1, FS_Subset
  <2>3. \A i \in J : mine[i] = seconds[i]
    BY <2>1
  <2>4. HistorySeconds(S, statuses) = SumFunctionOnSet(mine, J)
    BY DEF HistorySeconds, SumFunction
  <2> HIDE DEF J, mine, seconds
  <2>5. SumFunctionOnSet(mine, J) = SumFunctionOnSet(seconds, J)
    BY <2>2, <2>3, SumSame
  <2>q. QED  BY <2>1, <2>4, <2>5 DEF J
<1> DEFINE Run == I({"RUN"})
           Stop == I({"STOP"})
<1>4. /\ Run \in SUBSET All /\ Stop \in SUBSET (All \ Run)
      /\ HistorySeconds(S, {"RUN"}) = SumFunctionOnSet(seconds, Run)
      /\ HistorySeconds(S, {"STOP"}) = SumFunctionOnSet(seconds, Stop)
      /\ HistorySeconds(S, Statuses) = SumFunctionOnSet(seconds, All)
  <2>1. {"RUN"} \in SUBSET Statuses /\ {"STOP"} \in SUBSET Statuses
    BY SnapshotAssumption
  <2>2. \A i \in Run : i \notin Stop
    OBVIOUS
  <2>3. Run \in SUBSET All /\ Stop \in SUBSET All
    BY <1>3, <2>1
  <2>q. QED  BY <1>3, <2>1, <2>2, <2>3
<1> HIDE DEF Run, Stop, All, seconds
<1>5. \A i \in All : seconds[i] \in Int
  BY <1>2
<1>6. SumFunctionOnSet(seconds, All)
        = SumFunctionOnSet(seconds, Run) + SumFunctionOnSet(seconds, All \ Run)
  BY <1>1, <1>4, <1>5, SumSplit
<1>7. IsFiniteSet(All \ Run) /\ \A i \in All \ Run : seconds[i] \in Nat
  BY <1>1, <1>2, FS_Subset
<1>8. /\ SumFunctionOnSet(seconds, Stop) \in Nat
      /\ SumFunctionOnSet(seconds, Stop) <= SumFunctionOnSet(seconds, All \ Run)
      /\ SumFunctionOnSet(seconds, All \ Run) \in Nat
  BY <1>4, <1>7, SumGrows
<1>9. SumFunctionOnSet(seconds, Run) \in Nat
  BY <1>1, <1>2, <1>4, SumGrows
<1>q. QED  BY <1>4, <1>6, <1>8, <1>9

-----------------------------------------------------------------------------
(* The inductive invariant.  An answer is read part by part: which parts a  *)
(* query has passed follows from the statement it is at.                    *)

\* A query executes its statements in this order: 1-10 are the KPI query,
\* 11-18 a report.
Position ==
    [base |-> 1, judgments |-> 2, equipment |-> 3, availability |-> 4, reasons |-> 5,
     details |-> 6, metrics |-> 7, reasonsBy |-> 8, groupDowntime |-> 9, groups |-> 10,
     production |-> 11, reportReasons |-> 12, recipes |-> 13, equipmentMetrics |-> 14,
     distribution |-> 15, marginal |-> 16, history |-> 17, alarms |-> 18, done |-> 19]
LastOf(q) == CASE q.groupBy = "report" -> 18 [] q.groupBy = "none" -> 8
               [] OTHER -> 10
PartsOf(q) ==
    {p \in Parts : /\ Position[p] > 10 <=> q.groupBy = "report"
                   /\ Position[p] <= LastOf(q)}
HasPassed(p) ==
    pc # "idle" /\ p \in PartsOf(query) /\ Position[p] < Position[pc]

\* What the statement may read when the tables are as they are now.
Values(p) ==
    CASE p = "base" -> {Base(query)}
      [] p = "judgments" -> {Judgments(query)}
      [] p = "equipment" -> {EquipmentCounts(query)}
      [] p = "availability" -> {Availability(query)}
      [] p = "reasons" -> TopReasons(Deduped(query))
      [] p = "details" -> {Details(query)}
      [] p = "metrics" -> {Metrics(query)}
      [] p = "reasonsBy" -> ReasonsBy(query)
      [] p = "groupDowntime" -> {GroupDowntime(query)}
      [] p = "groups" -> {Groups(query)}
      [] p = "production" -> {Production(query)}
      [] p = "reportReasons" -> TopReasons(ReportHits(query))
      [] p = "recipes" -> {Recipes(query)}
      [] p = "equipmentMetrics" -> {EquipmentMetrics(query)}
      [] p = "distribution" -> {Distribution(query)}
      [] p = "marginal" -> {Marginal(query)}
      [] p = "history" -> {History(query)}
      [] p = "alarms" -> {Alarms(query)}

\* Nothing is read out of order, and as long as nothing was committed, what was
\* read is what the tables still hold.  Once the query is over a commit does not
\* count as coming during it, so nothing is said of the tables then.
Underway == pc \notin {"idle", "done"}
StoryInv ==
    /\ IsFiniteSet(stored)
    /\ pc \in PartsOf(query) \cup {"idle", "done"}
    /\ \A p \in Parts : Read(p) => HasPassed(p)
    /\ Underway /\ during = 0 =>
           \A p \in Parts : HasPassed(p) => answer[p] \in Values(p)

\* What commits between two statements cannot undo: no part claims more than
\* the tables hold by now, and each part covers what the earlier ones claimed.
GrowthInv ==
    /\ DispatchRepeats =>
           /\ HasPassed("base") =>
                  answer["base"].units \in Nat /\ answer["base"].units <= Base(query).units
           /\ HasPassed("details") =>
                  /\ DetailUnits \in Nat /\ DetailUnits <= Base(query).units
                  /\ answer["base"].units <= DetailUnits
           /\ HasPassed("groups") => DetailUnits <= GroupUnits
    /\ HasPassed("distribution") => Warnings \in Nat /\ Warnings <= Marginal(query)
    /\ HasPassed("marginal") => Warnings <= answer["marginal"]

\* Only stored, log and the query decide what a statement reads.
LEMMA SameTables ==
    ASSUME UNCHANGED <<stored, log, query>>
    PROVE  \A p : Values(p)' = Values(p)
<1>1. stored' = stored /\ log' = log /\ query' = query
  OBVIOUS
<1>2. Hits(query)' = Hits(query) /\ ReportHits(query)' = ReportHits(query)
  BY <1>1 DEF Hits, ReportHits
<1>3. Deduped(query)' = Deduped(query)
  BY <1>1, <1>2 DEF Deduped
<1>5. Observed(query)' = Observed(query)
  BY <1>1 DEF Observed, Rows
<1>6. \A e : LastStatus(query, e)' = LastStatus(query, e)
  BY <1>1 DEF LastStatus, Rows
<1>7. Intervals(query)' = Intervals(query)
  BY <1>1 DEF Intervals, Rows
<1>9. Availability(query)' = Availability(query)
  BY <1>1, <1>7 DEF Availability, Durations, Seconds, InStatus, Length, Rows
<1>10. Metrics(query)' = Metrics(query)
  BY <1>1, <1>7 DEF Metrics, Durations, Seconds, InStatus, Length, Rows
<1>11. GroupDowntime(query)' = GroupDowntime(query)
  BY <1>1, <1>7 DEF GroupDowntime, Seconds, InStatus, Length, Rows
<1>12. Details(query)' = Details(query)
  BY <1>1, <1>3, <1>5, <1>6 DEF Details, Listed
<1>13. /\ Base(query)' = Base(query) /\ Judgments(query)' = Judgments(query)
       /\ EquipmentCounts(query)' = EquipmentCounts(query)
       /\ TopReasons(Deduped(query))' = TopReasons(Deduped(query))
       /\ ReasonsBy(query)' = ReasonsBy(query)
       /\ Groups(query)' = Groups(query)
  BY <1>1, <1>3, <1>5, <1>6 DEF Base, Judgments, EquipmentCounts, ReasonsBy, Groups
<1>14. /\ Production(query)' = Production(query)
       /\ TopReasons(ReportHits(query))' = TopReasons(ReportHits(query))
       /\ Recipes(query)' = Recipes(query)
       /\ EquipmentMetrics(query)' = EquipmentMetrics(query)
       /\ Distribution(query)' = Distribution(query)
       /\ Marginal(query)' = Marginal(query)
       /\ History(query)' = History(query)
       /\ Alarms(query)' = Alarms(query)
  BY <1>1, <1>2 DEF Production, Recipes, EquipmentMetrics, Distribution, Marginal, History, Alarms
<1>q. QED
  BY <1>9, <1>10, <1>11, <1>12, <1>13, <1>14, Zenon DEF Values

\* One statement of a query: it reads its part from the tables, and the part
\* joins those that have been read.
ReadsPart(p) ==
    /\ p \in PartsOf(query) /\ pc = p
    /\ ~HasPassed(p) /\ answer[p] = NotRead
    /\ \E value \in Values(p) : answer' = [answer EXCEPT ![p] = value]
    /\ UNCHANGED <<stored, log, query, during>>
    /\ pc' \in PartsOf(query) \cup {"done"}
    /\ \A x \in Parts : HasPassed(x)' <=> HasPassed(x) \/ x = p
    /\ pc' = "done" => \A x \in PartsOf(query) : HasPassed(x)'

LEMMA StatementReads ==
    ASSUME StoryInv, TypeOK, NEW p \in Parts, NEW next, Statement(p, Values(p), next),
           \/ next \in Parts /\ Position[next] = Position[p] + 1
                 /\ Position[p] # 10 /\ Position[p] # LastOf(query)
           \/ next = "done" /\ Position[p] = LastOf(query)
    PROVE  ReadsPart(p)
<1>1. /\ pc = p /\ pc' = next
      /\ \E value \in Values(p) : answer' = [answer EXCEPT ![p] = value]
      /\ UNCHANGED <<stored, log, query, during>>
  BY DEF Statement
<1>2. p \in PartsOf(query)
  BY <1>1 DEF StoryInv, Parts
<1>3. /\ \A x \in Parts : Position[x] \in 1..18
      /\ \A x, y \in Parts : Position[x] = Position[y] => x = y
      /\ Position["done"] = 19
      /\ LastOf(query) \in {8, 10, 18}
      /\ LastOf(query) = 18 <=> query.groupBy = "report"
  BY DEF Parts, Position, LastOf
<1>4. next \in PartsOf(query) \cup {"done"}
  BY <1>2, <1>3 DEF PartsOf
<1>5. \A x \in Parts : HasPassed(x)' <=> x \in PartsOf(query) /\ Position[x] < Position[next]
  BY <1>1, <1>3 DEF HasPassed, Parts, PartsOf
<1>6. \A x \in Parts : HasPassed(x) <=> x \in PartsOf(query) /\ Position[x] < Position[p]
  BY <1>1 DEF HasPassed, Parts
<1>7. \A x \in PartsOf(query) : x \in Parts /\ Position[x] <= LastOf(query)
  BY DEF PartsOf
<1>8. ~HasPassed(p)
  BY <1>3, <1>6
<1>9. \A x \in Parts : HasPassed(x)' <=> HasPassed(x) \/ x = p
  BY <1>2, <1>3, <1>5, <1>6, <1>7
<1>10. next = "done" => \A x \in PartsOf(query) : HasPassed(x)'
  BY <1>3, <1>5, <1>7
<1>q. QED
  BY <1>1, <1>2, <1>4, <1>8, <1>9, <1>10 DEF ReadsPart, StoryInv, Read

\* The eighteen statements of the model are reads of their parts.
LEMMA EveryStatementReads ==
    ASSUME StoryInv, TypeOK, ReadSummary \/ ReadGroups \/ ReadReport
    PROVE  \E p \in Parts : ReadsPart(p)
<1>1. /\ Position["base"] = 1 /\ Position["judgments"] = 2 /\ Position["equipment"] = 3
      /\ Position["availability"] = 4 /\ Position["reasons"] = 5
      /\ Position["details"] = 6 /\ Position["metrics"] = 7 /\ Position["reasonsBy"] = 8
      /\ Position["groupDowntime"] = 9 /\ Position["groups"] = 10
      /\ Position["production"] = 11 /\ Position["reportReasons"] = 12
      /\ Position["recipes"] = 13 /\ Position["equipmentMetrics"] = 14
      /\ Position["distribution"] = 15 /\ Position["marginal"] = 16
      /\ Position["history"] = 17 /\ Position["alarms"] = 18
  BY DEF Position
<1>2. pc \in Parts => /\ (Position[pc] > 10 <=> query.groupBy = "report")
                       /\ Position[pc] <= LastOf(query)
  BY DEF StoryInv, PartsOf, Parts
<1>3. /\ query.groupBy = "report" => LastOf(query) = 18
      /\ query.groupBy = "none" => LastOf(query) = 8
      /\ query.groupBy \notin {"report", "none"} => LastOf(query) = 10
  BY DEF LastOf
<1>4. LastOf(query) \in {8, 10, 18}
  BY <1>3
<1>5. CASE ReadSummary
  <2>1. CASE Statement("reasonsBy", ReasonsBy(query),
                IF query.groupBy = "none" THEN "done" ELSE "groupDowntime")
    <3>1. Values("reasonsBy") = ReasonsBy(query) /\ pc = "reasonsBy"
      BY <2>1 DEF Values, Statement
    <3>q. QED  BY <1>1, <1>2, <1>3, <2>1, <3>1, StatementReads DEF Parts
  <2>2. /\ Values("base") = {Base(query)} /\ Values("judgments") = {Judgments(query)}
        /\ Values("equipment") = {EquipmentCounts(query)}
        /\ Values("availability") = {Availability(query)}
        /\ Values("reasons") = TopReasons(Deduped(query))
        /\ Values("details") = {Details(query)} /\ Values("metrics") = {Metrics(query)}
    BY DEF Values
  <2>3. CASE Statement("base", Values("base"), "judgments")
    BY <1>1, <1>4, <2>3, StatementReads DEF Parts
  <2>4. CASE Statement("judgments", Values("judgments"), "equipment")
    BY <1>1, <1>4, <2>4, StatementReads DEF Parts
  <2>5. CASE Statement("equipment", Values("equipment"), "availability")
    BY <1>1, <1>4, <2>5, StatementReads DEF Parts
  <2>6. CASE Statement("availability", Values("availability"), "reasons")
    BY <1>1, <1>4, <2>6, StatementReads DEF Parts
  <2>7. CASE Statement("reasons", Values("reasons"), "details")
    BY <1>1, <1>4, <2>7, StatementReads DEF Parts
  <2>8. CASE Statement("details", Values("details"), "metrics")
    BY <1>1, <1>4, <2>8, StatementReads DEF Parts
  <2>9. CASE Statement("metrics", Values("metrics"), "reasonsBy")
    BY <1>1, <1>4, <2>9, StatementReads DEF Parts
  <2>q. QED
    BY <1>5, <2>1, <2>2, <2>3, <2>4, <2>5, <2>6, <2>7, <2>8, <2>9 DEF ReadSummary
<1>6. CASE ReadGroups
  BY <1>1, <1>2, <1>3, <1>6, StatementReads DEF ReadGroups, Values, Parts, Statement
<1>7. CASE ReadReport
  BY <1>1, <1>2, <1>3, <1>7, StatementReads DEF ReadReport, Values, Parts, Statement
<1>q. QED  BY <1>5, <1>6, <1>7


-----------------------------------------------------------------------------
(* Commits of batches only add *)

LEMMA SameBatches ==
    ASSUME UNCHANGED <<stored, query>>
    PROVE  /\ Base(query)' = Base(query)
           /\ Marginal(query)' = Marginal(query)
<1>1. Hits(query)' = Hits(query) /\ ReportHits(query)' = ReportHits(query)
  BY DEF Hits, ReportHits
<1>q. QED  BY <1>1 DEF Base, Deduped, Marginal

\* What UnitsAreRecords says of a state, to be used of the next one too.
UnitsOfLots ==
    Tables /\ DispatchRepeats =>
        /\ IsFiniteSet(LotsOf(Hits(query)))
        /\ \A lot \in LotsOf(Hits(query)) : RecordsOf[lot] \in Nat
        /\ Base(query).units = SumFunctionOnSet(RecordsOf, LotsOf(Hits(query)))

LEMMA UnitsOfLotsNow == UnitsOfLots
BY UnitsAreRecords DEF UnitsOfLots

LEMMA UnitsOfLotsNext == UnitsOfLots'
BY UnitsOfLotsNow, PTL

\* A batch that is committed adds to every count, even when it replaces the
\* earlier dispatch of its LOT.
LEMMA BatchAdds ==
    ASSUME Tables, NEW b \in Batches, IngestBatch(b)
    PROVE  /\ Tables'
           /\ DispatchRepeats =>
                  /\ Base(query).units \in Nat /\ Base(query)'.units \in Nat
                  /\ Base(query).units <= Base(query)'.units
           /\ Marginal(query) \in Nat /\ Marginal(query)' \in Nat
           /\ Marginal(query) <= Marginal(query)'
<1>1. stored' = stored \cup {b} /\ UNCHANGED <<log, pc, query, answer>> /\ Commit
  BY DEF IngestBatch
<1>2. Tables'
  <2>1. during' \in 0..MaxDuring
    BY <1>1, SnapshotAssumption DEF Tables, TypeOK, Commit
  <2>2. IsFiniteSet(stored')
    BY <1>1, FS_AddElement DEF Tables
  <2>q. QED  BY <1>1, <2>1, <2>2 DEF Tables, TypeOK
<1>3. ASSUME DispatchRepeats
      PROVE  /\ Base(query).units \in Nat /\ Base(query)'.units \in Nat
             /\ Base(query).units <= Base(query)'.units
  <2> DEFINE before == LotsOf(Hits(query))
             after == LotsOf(Hits(query)')
  <2>1. /\ IsFiniteSet(before) /\ \A lot \in before : RecordsOf[lot] \in Nat
        /\ Base(query).units = SumFunctionOnSet(RecordsOf, before)
    BY <1>3, UnitsOfLotsNow DEF UnitsOfLots
  <2>2. /\ IsFiniteSet(after) /\ \A lot \in after : RecordsOf[lot] \in Nat
        /\ Base(query)'.units = SumFunctionOnSet(RecordsOf, after)
    BY <1>2, <1>3, UnitsOfLotsNext DEF UnitsOfLots
  <2>3. before \in SUBSET after
    BY <1>1 DEF LotsOf, Hits
  <2> HIDE DEF before, after
  <2>q. QED  BY <2>1, <2>2, <2>3, SumGrows
<1>4. /\ IsFiniteSet(ReportHits(query)') /\ ReportHits(query)' \in SUBSET Batches
      /\ ReportHits(query) \in SUBSET ReportHits(query)'
  <2>1. ReportHits(query)' \in SUBSET stored' /\ stored' \in SUBSET Batches
    BY <1>1 DEF ReportHits, Tables, TypeOK
  <2>2. IsFiniteSet(ReportHits(query)')
    BY <1>2, <2>1, FS_Subset DEF Tables
  <2>q. QED  BY <1>1, <2>1, <2>2 DEF ReportHits
<1>5. Marginal(query) \in Nat /\ Marginal(query)' \in Nat
      /\ Marginal(query) <= Marginal(query)'
  <2> DEFINE before == {c \in ReportHits(query) : JudgmentOf[c] = "WARNING"}
             after == {c \in ReportHits(query)' : JudgmentOf[c] = "WARNING"}
  <2>1. Marginal(query) = Cardinality(before) /\ Marginal(query)' = Cardinality(after)
    BY DEF Marginal
  <2>2. before \in SUBSET after /\ after \in SUBSET ReportHits(query)'
    BY <1>4
  <2> HIDE DEF before, after
  <2>3. IsFiniteSet(after)
    BY <1>4, <2>2, FS_Subset
  <2>q. QED  BY <2>1, <2>2, <2>3, FS_Subset, FS_CardinalityType
<1>q. QED  BY <1>2, <1>3, <1>5


-----------------------------------------------------------------------------
(* Every step keeps the invariant *)

\* A statement leaves what it does not read as it was, and the tables alone.
LEMMA AfterReading ==
    ASSUME TypeOK, StoryInv, NEW p \in Parts, ReadsPart(p)
    PROVE  /\ answer'[p] \in Values(p)
           /\ \A x \in Parts : x # p => answer'[x] = answer[x]
           /\ \A x \in Parts : HasPassed(x)' /\ during = 0 =>
                  answer'[x] \in Values(x) /\ answer'[x] \in Values(x)'
           /\ Tables => Tables'
           /\ UNCHANGED <<stored, log, query, during>>
<1>1. /\ answer'[p] \in Values(p)
      /\ \A x \in Parts : x # p => answer'[x] = answer[x]
  BY DEF ReadsPart, TypeOK
<1>2. \A x \in Parts : Values(x)' = Values(x)
  BY SameTables DEF ReadsPart
<1>3. pc \notin {"idle", "done"} /\ pc \in Parts /\ pc' \in Parts \cup {"done"}
  BY DEF ReadsPart, PartsOf, Parts
<1>4. \A x \in Parts : HasPassed(x)' /\ during = 0 => answer'[x] \in Values(x)
  BY <1>1, <1>3 DEF ReadsPart, StoryInv, Underway
<1>5. DOMAIN answer' = Parts
  BY DEF ReadsPart, TypeOK
<1>6. Tables => Tables'
  BY <1>3, <1>5 DEF Tables, TypeOK, ReadsPart
<1>q. QED  BY <1>1, <1>2, <1>4, <1>6 DEF ReadsPart

\* A new question forgets the answer to the previous one.
LEMMA Starts ==
    ASSUME TypeOK, NEW q \in Queries, Ask(q)
    PROVE  /\ pc' \in PartsOf(query')
           /\ \A p \in Parts : ~HasPassed(p)' /\ ~Read(p)'
           /\ Tables => Tables'
<1>1. /\ query' = q /\ UNCHANGED <<stored, log>>
      /\ pc' = IF q.groupBy = "report" THEN "production" ELSE "base"
      /\ answer' = [p \in Parts |-> NotRead] /\ during' = 0
  BY DEF Ask
<1>2. LastOf(q) \in {8, 10, 18} /\ (q.groupBy = "report" => LastOf(q) = 18)
  BY DEF LastOf
<1>3. /\ \A x \in Parts : Position[x] \in 1..18
      /\ Position["base"] = 1 /\ Position["production"] = 11
  BY DEF Parts, Position
<1>4. pc' \in PartsOf(q) /\ pc' \in Parts
  BY <1>1, <1>2, <1>3 DEF PartsOf, Parts
<1>5. \A p \in Parts : ~HasPassed(p)'
  BY <1>1, <1>3 DEF HasPassed, PartsOf
<1>6. \A p \in Parts : ~Read(p)'
  BY <1>1 DEF Read
<1>7. Tables => Tables'
  BY <1>1, <1>4, SnapshotAssumption DEF Tables, TypeOK
<1>q. QED  BY <1>1, <1>4, <1>5, <1>6, <1>7

\* Once a commit has come in between, or the query is over, nothing is said of
\* the tables as they are.
LEMMA StoryKept ==
    ASSUME TypeOK, StoryInv, [Next]_vars
    PROVE  StoryInv'
<1>1. ASSUME NEW q \in Queries, Ask(q) PROVE StoryInv'
  BY <1>1, Starts DEF StoryInv, Tables, Ask
<1>2. CASE ReadSummary \/ ReadGroups \/ ReadReport
  <2>1. PICK p \in Parts : ReadsPart(p)
    BY <1>2, EveryStatementReads
  <2>2. IsFiniteSet(stored') /\ pc' \in PartsOf(query') \cup {"idle", "done"}
    BY <2>1 DEF ReadsPart, StoryInv
  <2>3. \A x \in Parts : Read(x)' => HasPassed(x)'
    BY <2>1, AfterReading DEF ReadsPart, StoryInv, Read
  <2>4. during' = 0 => \A x \in Parts : HasPassed(x)' => answer'[x] \in Values(x)'
    BY <2>1, AfterReading
  <2>q. QED  BY <2>2, <2>3, <2>4 DEF StoryInv
<1>3. ASSUME UNCHANGED <<pc, query, answer>>, IsFiniteSet(stored'),
             Underway /\ during' = 0 => UNCHANGED <<stored, log, during>>
      PROVE  StoryInv'
  <2>1. \A x \in Parts : (Read(x)' <=> Read(x)) /\ (HasPassed(x)' <=> HasPassed(x))
    BY <1>3 DEF Read, HasPassed
  <2>2. ASSUME Underway', during' = 0 PROVE \A x \in Parts : Values(x)' = Values(x)
    BY <1>3, <2>2, SameTables DEF Underway
  <2>q. QED  BY <1>3, <2>1, <2>2 DEF StoryInv, Underway
<1>4. ASSUME NEW b \in Batches, IngestBatch(b) PROVE StoryInv'
  <2>1. IsFiniteSet(stored')
    BY <1>4, FS_AddElement DEF IngestBatch, StoryInv
  <2>2. Underway => during' # 0
    BY <1>4, SnapshotAssumption DEF IngestBatch, Commit, Underway, TypeOK
  <2>q. QED  BY <1>3, <1>4, <2>1, <2>2 DEF IngestBatch
<1>5. ASSUME NEW s \in Snapshots, IngestStatus(s) PROVE StoryInv'
  <2>1. Underway => during' # 0
    BY <1>5, SnapshotAssumption DEF IngestStatus, Commit, Underway, TypeOK
  <2>q. QED  BY <1>3, <1>5, <2>1 DEF IngestStatus, StoryInv
<1>6. CASE UNCHANGED vars
  BY <1>3, <1>6 DEF vars, StoryInv
<1>q. QED  BY <1>1, <1>2, <1>4, <1>5, <1>6 DEF Next


\* Who is at a statement, or past it, is past the ones before it.
LEMMA EarlierHavePassed ==
    ASSUME TypeOK, NEW p \in Parts, p \in PartsOf(query), pc = p \/ HasPassed(p)
    PROVE  /\ p \in {"details", "groups"} => HasPassed("base")
           /\ p = "groups" => HasPassed("details")
           /\ p = "marginal" => HasPassed("distribution")
<1>1. /\ Position["base"] = 1 /\ Position["details"] = 6 /\ Position["groups"] = 10
      /\ Position["distribution"] = 15 /\ Position["marginal"] = 16
      /\ \A x \in Parts : Position[x] \in 1..18
      /\ Position["done"] = 19
  BY DEF Position, Parts
<1>2. LastOf(query) \in {8, 10, 18} /\ (pc # "idle")
  BY DEF LastOf, Parts, HasPassed
<1>3. pc = p \/ Position[p] < Position[pc]
  BY DEF HasPassed
<1>4. ASSUME NEW x \in Parts, Position[x] < Position[p],
             Position[x] > 10 <=> Position[p] > 10
      PROVE  HasPassed(x)
  <2>1. x \in PartsOf(query)
    BY <1>1, <1>2, <1>4 DEF PartsOf
  <2>2. CASE pc = p
    BY <1>2, <1>4, <2>1, <2>2 DEF HasPassed
  <2>3. CASE HasPassed(p)
    <3>1. Position[p] < Position[pc] /\ Position[pc] \in Nat
      BY <1>1, <1>2, <2>3 DEF HasPassed, TypeOK
    <3>q. QED  BY <1>1, <1>2, <1>4, <2>1, <3>1 DEF HasPassed
  <2>q. QED  BY <2>2, <2>3
<1>q. QED  BY <1>1, <1>4 DEF Parts

LEMMA CountsOfNow ==
    ASSUME Tables
    PROVE  Base(query).units \in Nat /\ Marginal(query) \in Nat
<1>1. /\ \A b \in Deduped(query) : Inspected[b] \in Nat
      /\ IsFiniteSet(Deduped(query)) /\ IsFiniteSet(ReportHits(query))
  BY HitsAreFinite, CountsAreNat
<1>2. SumFunctionOnSet(Inspected, Deduped(query)) \in Nat
  BY <1>1, SumGrows
<1>3. Marginal(query) \in Nat
  BY <1>1, FS_Subset, FS_CardinalityType DEF Marginal
<1>q. QED  BY <1>2, <1>3 DEF Base, Totals

\* What a report reads of one state of the tables.
LEMMA ReportPartsAddUp ==
    ASSUME Tables
    PROVE  /\ SumFunction(Recipes(query)) <= Production(query)
           /\ SumFunction(Distribution(query)) <= Production(query)
           /\ (IF "WARNING" \in DOMAIN Distribution(query)
                  THEN Distribution(query)["WARNING"] ELSE 0) = Marginal(query)
           /\ DOMAIN Alarms(query) \subseteq EquipmentMetrics(query)
           /\ History(query).run + History(query).stop <= History(query).total
<1>1. IsFiniteSet(ReportHits(query)) /\ ReportHits(query) \in SUBSET stored
  BY HitsAreFinite DEF ReportHits
<1>2. /\ SumFunction(Recipes(query)) <= Production(query)
      /\ SumFunction(Distribution(query)) <= Production(query)
  BY <1>1, CountByAddsUp DEF Recipes, Distribution, Production
<1>3. (IF "WARNING" \in DOMAIN Distribution(query)
         THEN Distribution(query)["WARNING"] ELSE 0) = Marginal(query)
  <2> DEFINE H == ReportHits(query)
             counts == Distribution(query)
  <2>1. /\ \A k \in DOMAIN counts : counts[k] = Cardinality({b \in H : JudgmentOf[b] = k})
        /\ \A k : k # Absent /\ k \notin DOMAIN counts =>
               {b \in H : JudgmentOf[b] = k} = {}
    BY <1>1, CountByAddsUp DEF Distribution
  <2>2. Marginal(query) = Cardinality({b \in H : JudgmentOf[b] = "WARNING"})
    BY DEF Marginal
  <2> HIDE DEF H, counts
  <2>3. CASE "WARNING" \in DOMAIN counts
    BY <2>1, <2>2, <2>3 DEF counts
  <2>4. CASE "WARNING" \notin DOMAIN counts
    BY <2>1, <2>2, <2>4, FS_EmptySet, BatchAssumption DEF counts
  <2>q. QED  BY <2>3, <2>4
<1>4. DOMAIN Alarms(query) \subseteq EquipmentMetrics(query)
  BY DEF Alarms, EquipmentMetrics, Present
<1>5. History(query).run + History(query).stop <= History(query).total
  BY <1>1, HistoryAddsUp DEF History
<1>q. QED  BY <1>2, <1>3, <1>4, <1>5


LEMMA GrowthRead ==
    ASSUME TypeOK, StoryInv, GrowthInv, NEW p \in Parts, ReadsPart(p)
    PROVE  GrowthInv'
<1>1. /\ answer'[p] \in Values(p)
      /\ \A x \in Parts : x # p => answer'[x] = answer[x]
      /\ \A x \in Parts : HasPassed(x)' <=> HasPassed(x) \/ x = p
      /\ UNCHANGED <<stored, log, query>>
      /\ p \in PartsOf(query) /\ pc = p
  BY AfterReading DEF ReadsPart
<1>2. Tables
  BY DEF Tables, StoryInv
<1>3. /\ Base(query)' = Base(query)
      /\ Marginal(query)' = Marginal(query)
  BY <1>1, SameBatches
<1>4. ASSUME DispatchRepeats, HasPassed("base")'
      PROVE  answer'["base"].units \in Nat /\ answer'["base"].units <= Base(query)'.units
  <2>1. CASE p = "base"
    BY <1>1, <1>2, <1>3, <2>1, CountsOfNow DEF Values
  <2>2. CASE p # "base"
    BY <1>1, <1>3, <1>4, <2>2 DEF GrowthInv, Parts
  <2>q. QED  BY <2>1, <2>2
<1>5. ASSUME DispatchRepeats, HasPassed("details")'
      PROVE  /\ DetailUnits' \in Nat /\ DetailUnits' <= Base(query)'.units
             /\ answer'["base"].units <= DetailUnits'
  <2>1. CASE p = "details"
    <3>1. answer'["details"] = Details(query) /\ HasPassed("base")
          /\ answer'["base"] = answer["base"]
      BY <1>1, <2>1, EarlierHavePassed DEF Values, Parts
    <3>2. DetailUnits' = Base(query).units
      BY <1>2, <3>1, DetailsAddUp DEF DetailUnits
    <3>q. QED  BY <1>2, <1>3, <1>5, <3>1, <3>2, CountsOfNow DEF GrowthInv
  <2>2. CASE p # "details"
    <3>1. answer'["details"] = answer["details"] /\ HasPassed("details")
      BY <1>1, <1>5, <2>2 DEF Parts
    <3>2. p # "base"
      BY <1>1, <3>1, EarlierHavePassed DEF HasPassed, Parts, ReadsPart
    <3>3. answer'["base"] = answer["base"]
      BY <1>1, <3>2 DEF Parts
    <3>4. DetailUnits' = DetailUnits
      BY <3>1 DEF DetailUnits
    <3>q. QED  BY <1>3, <1>5, <3>1, <3>3, <3>4 DEF GrowthInv
  <2>q. QED  BY <2>1, <2>2
<1>6. ASSUME DispatchRepeats, HasPassed("groups")' PROVE DetailUnits' <= GroupUnits'
  <2>1. CASE p = "groups"
    <3>1. answer'["groups"] = Groups(query) /\ HasPassed("details")
          /\ answer'["details"] = answer["details"]
      BY <1>1, <2>1, EarlierHavePassed DEF Values, Parts
    <3>2. GroupUnits' = Base(query).units /\ DetailUnits' = DetailUnits
      BY <1>2, <3>1, GroupsAddUp DEF GroupUnits, DetailUnits
    <3>q. QED  BY <1>6, <3>1, <3>2 DEF GrowthInv
  <2>2. CASE p # "groups"
    <3>1. answer'["groups"] = answer["groups"] /\ HasPassed("groups")
      BY <1>1, <1>6, <2>2 DEF Parts
    <3>2. p # "details"
      BY <1>1, <3>1, EarlierHavePassed DEF HasPassed, Parts, ReadsPart
    <3>3. answer'["details"] = answer["details"]
      BY <1>1, <3>2 DEF Parts
    <3>q. QED  BY <1>6, <3>1, <3>3 DEF GrowthInv, DetailUnits, GroupUnits
  <2>q. QED  BY <2>1, <2>2
<1>7. ASSUME HasPassed("distribution")' PROVE Warnings' \in Nat /\ Warnings' <= Marginal(query)'
  <2>1. CASE p = "distribution"
    <3>1. answer'["distribution"] = Distribution(query)
      BY <1>1, <2>1 DEF Values
    <3>2. Warnings' = Marginal(query)
      BY <1>2, <3>1, ReportPartsAddUp DEF Warnings
    <3>q. QED  BY <1>2, <1>3, <3>2, CountsOfNow
  <2>2. CASE p # "distribution"
    BY <1>1, <1>3, <1>7, <2>2 DEF GrowthInv, Parts, Warnings
  <2>q. QED  BY <2>1, <2>2
<1>8. ASSUME HasPassed("marginal")' PROVE Warnings' <= answer'["marginal"]
  <2>1. CASE p = "marginal"
    <3>1. /\ answer'["marginal"] = Marginal(query) /\ HasPassed("distribution")
          /\ answer'["distribution"] = answer["distribution"]
      BY <1>1, <2>1, EarlierHavePassed DEF Values, Parts
    <3>q. QED  BY <3>1 DEF GrowthInv, Warnings
  <2>2. CASE p # "marginal"
    <3>1. p # "distribution"
      BY <1>1, <1>8, <2>2, EarlierHavePassed DEF HasPassed, Parts, ReadsPart
    <3>q. QED  BY <1>1, <1>8, <2>2, <3>1 DEF GrowthInv, Parts, Warnings
  <2>q. QED  BY <2>1, <2>2
<1>q. QED
  BY <1>4, <1>5, <1>6, <1>7, <1>8 DEF GrowthInv

LEMMA GrowthKept ==
    ASSUME TypeOK, StoryInv, GrowthInv, [Next]_vars
    PROVE  GrowthInv'
<1>1. ASSUME NEW q \in Queries, Ask(q) PROVE GrowthInv'
  <2>1. \A p \in Parts : ~HasPassed(p)'
    BY <1>1, Starts
  <2>q. QED  BY <2>1 DEF GrowthInv, Parts
<1>2. CASE ReadSummary \/ ReadGroups \/ ReadReport
  BY <1>2, EveryStatementReads, GrowthRead
<1>3. ASSUME UNCHANGED <<pc, query, answer>>
      PROVE  /\ \A x \in Parts : HasPassed(x)' <=> HasPassed(x)
             /\ DetailUnits' = DetailUnits /\ GroupUnits' = GroupUnits
             /\ Warnings' = Warnings
  BY <1>3 DEF HasPassed, DetailUnits, GroupUnits, Warnings
<1>4. ASSUME NEW b \in Batches, IngestBatch(b) PROVE GrowthInv'
  <2>1. UNCHANGED <<pc, query, answer>> /\ Tables
    BY <1>4 DEF IngestBatch, Tables, StoryInv
  <2>2. /\ DispatchRepeats =>
              /\ HasPassed("base") =>
                     answer["base"].units \in Nat /\ answer["base"].units <= Base(query)'.units
              /\ HasPassed("details") =>
                     /\ DetailUnits \in Nat /\ DetailUnits <= Base(query)'.units
                     /\ answer["base"].units <= DetailUnits
              /\ HasPassed("groups") => DetailUnits <= GroupUnits
    BY <1>4, <2>1, BatchAdds DEF GrowthInv
  <2>3. HasPassed("distribution") => Warnings \in Nat /\ Warnings <= Marginal(query)'
    BY <1>4, <2>1, BatchAdds DEF GrowthInv
  <2>q. QED  BY <1>3, <2>1, <2>2, <2>3 DEF GrowthInv, Parts
<1>5. ASSUME UNCHANGED <<stored, pc, query, answer>> PROVE GrowthInv'
  <2>1. /\ Base(query)' = Base(query)
        /\ Marginal(query)' = Marginal(query)
    BY <1>5, SameBatches
  <2>q. QED  BY <1>3, <1>5, <2>1 DEF GrowthInv, Parts
<1>6. ASSUME NEW s \in Snapshots, IngestStatus(s) PROVE GrowthInv'
  BY <1>5, <1>6 DEF IngestStatus
<1>7. CASE UNCHANGED vars
  BY <1>5, <1>7 DEF vars
<1>q. QED  BY <1>1, <1>2, <1>4, <1>6, <1>7 DEF Next


\* The parts of an answer, when all were read of one state of the tables.
LEMMA OneStateAgrees ==
    ASSUME TypeOK, StoryInv, NEW p \in Parts, ReadsPart(p),
           pc' = "done", during = 0, HasPassed("base")'
    PROVE  QuietPartsAgree'
<1>1. Tables /\ query' = query
  BY DEF Tables, StoryInv, ReadsPart
<1>2. query.groupBy # "report"
  BY <1>1 DEF HasPassed, PartsOf, Position
<1>3. /\ {"base", "judgments", "equipment", "availability", "reasons", "details",
          "metrics", "reasonsBy"} \subseteq PartsOf(query)
      /\ query.groupBy # "none" => {"groupDowntime", "groups"} \subseteq PartsOf(query)
  BY <1>2 DEF PartsOf, Position, LastOf, Parts
<1>4. \A x \in PartsOf(query) : answer'[x] \in Values(x)
  BY AfterReading DEF ReadsPart, PartsOf
<1>5. /\ answer'["base"] = Base(query) /\ answer'["judgments"] = Judgments(query)
      /\ answer'["equipment"] = EquipmentCounts(query)
      /\ answer'["availability"] = Availability(query)
      /\ answer'["reasons"] \in TopReasons(Deduped(query))
      /\ answer'["details"] = Details(query) /\ answer'["metrics"] = Metrics(query)
      /\ answer'["reasonsBy"] \in ReasonsBy(query)
  BY <1>3, <1>4 DEF Values
<1>6. query.groupBy # "none" => /\ answer'["groupDowntime"] = GroupDowntime(query)
                                /\ answer'["groups"] = Groups(query)
  BY <1>3, <1>4 DEF Values
<1>7. /\ DetailUnits' = answer'["base"].units
      /\ SumFunction([e \in DOMAIN answer'["details"] |-> answer'["details"][e].totals.fails])
             = answer'["base"].fails
      /\ SumFunction([e \in DOMAIN answer'["details"] |-> answer'["details"][e].warnings])
             <= answer'["judgments"]["WARNING"]
  BY <1>1, <1>5, DetailsAddUp DEF DetailUnits
<1>8. answer'["equipment"].active =
          {e \in DOMAIN answer'["details"] : answer'["details"][e].status = "RUN"}
  <2>1. DOMAIN Details(query) = Listed(query) /\ Observed(query) \subseteq Listed(query)
    BY DEF Details, Listed
  <2>2. \A e \in Listed(query) :
            Details(query)[e].status =
                IF e \in Observed(query) THEN LastStatus(query, e) ELSE "UNKNOWN"
    BY DEF Details
  <2>3. EquipmentCounts(query).active =
            {e \in Observed(query) : LastStatus(query, e) = "RUN"}
    BY DEF EquipmentCounts
  <2>q. QED  BY <1>5, <2>1, <2>2, <2>3
<1>9. /\ DOMAIN answer'["metrics"] \subseteq DOMAIN answer'["details"]
      /\ SumFunction([e \in DOMAIN answer'["metrics"] |-> answer'["metrics"][e].stop])
             = answer'["availability"].stop
  BY <1>1, <1>5, MetricsAddUp, DetailsAddUp
<1>10. /\ \A r \in Reasons :
              Explains(answer'["reasons"], r,
                  ReasonShown(answer'["reasonsBy"], DOMAIN answer'["details"], r))
       /\ (\A e \in DOMAIN answer'["details"] : ~Full(answer'["reasonsBy"][e])) =>
              \A r \in DOMAIN answer'["reasons"] :
                  answer'["reasons"][r] =
                      ReasonShown(answer'["reasonsBy"], DOMAIN answer'["details"], r)
  <2>1. DOMAIN answer'["details"] = Listed(query)
    BY <1>5 DEF Details
  <2>2. DOMAIN answer'["reasons"] \in SUBSET Reasons
    BY <1>1, <1>5, HitsAreFinite, TopExplains
  <2>q. QED  BY <1>1, <1>5, <2>1, <2>2, ReasonsAddUp
<1>11. ASSUME query.groupBy # "none"
       PROVE  /\ GroupUnits' = answer'["base"].units
              /\ SumFunctionOnSet(answer'["groupDowntime"],
                     DOMAIN answer'["groupDowntime"] \cap DOMAIN answer'["groups"])
                   <= answer'["availability"].stop
  <2>1. GroupUnits' = answer'["base"].units
    BY <1>1, <1>5, <1>6, <1>11, GroupsAddUp DEF GroupUnits
  <2>q. QED  BY <1>1, <1>5, <1>6, <1>11, <2>1, DowntimeIsWithin
<1>q. QED
  BY <1>1, <1>7, <1>8, <1>9, <1>10, <1>11 DEF QuietPartsAgree

LEMMA AgreementKept ==
    ASSUME TypeOK, StoryInv, QuietPartsAgree, [Next]_vars
    PROVE  QuietPartsAgree'
<1>1. ASSUME NEW q \in Queries, Ask(q) PROVE QuietPartsAgree'
  BY <1>1, Starts DEF QuietPartsAgree, Parts
<1>2. CASE ReadSummary \/ ReadGroups \/ ReadReport
  <2>1. PICK p \in Parts : ReadsPart(p)
    BY <1>2, EveryStatementReads
  <2>2. Read("base")' => HasPassed("base")'
    BY StoryKept DEF StoryInv, Parts
  <2>3. CASE pc' = "done" /\ during = 0 /\ HasPassed("base")'
    BY <2>1, <2>3, OneStateAgrees
  <2>4. CASE pc' # "done" \/ during # 0 \/ ~Read("base")'
    BY <2>1, <2>4 DEF QuietPartsAgree, ReadsPart
  <2>q. QED  BY <2>2, <2>3, <2>4
<1>3. ASSUME UNCHANGED <<pc, query, answer>>, pc = "done" => during' = during
      PROVE  QuietPartsAgree'
  BY <1>3 DEF QuietPartsAgree, Read, DetailUnits, GroupUnits
<1>4. ASSUME NEW b \in Batches, IngestBatch(b) PROVE QuietPartsAgree'
  BY <1>3, <1>4 DEF IngestBatch, Commit
<1>5. ASSUME NEW s \in Snapshots, IngestStatus(s) PROVE QuietPartsAgree'
  BY <1>3, <1>5 DEF IngestStatus, Commit
<1>6. CASE UNCHANGED vars
  BY <1>3, <1>6 DEF vars
<1>q. QED  BY <1>1, <1>2, <1>4, <1>5, <1>6 DEF Next

\* What ReportAddsUp says of a report that nothing came between.
QuietReport ==
    Read("alarms") /\ during = 0 =>
        /\ SumFunction(answer["recipes"]) <= answer["production"]
        /\ SumFunction(answer["distribution"]) <= answer["production"]
        /\ Warnings = answer["marginal"]
        /\ DOMAIN answer["alarms"] \subseteq answer["equipmentMetrics"]
        /\ answer["history"].run + answer["history"].stop <= answer["history"].total

LEMMA QuietReportKept ==
    ASSUME TypeOK, StoryInv, QuietReport, [Next]_vars
    PROVE  QuietReport'
<1>1. ASSUME NEW q \in Queries, Ask(q) PROVE QuietReport'
  BY <1>1, Starts DEF QuietReport, Parts
<1>2. CASE ReadSummary \/ ReadGroups \/ ReadReport
  <2>1. PICK p \in Parts : ReadsPart(p)
    BY <1>2, EveryStatementReads
  <2>2. SUFFICES ASSUME Read("alarms")', during = 0 PROVE QuietReport'
    BY <2>1 DEF QuietReport, ReadsPart
  <2>3. HasPassed("alarms")'
    BY <2>2, StoryKept DEF StoryInv, Parts
  <2>4. /\ query' = query /\ Tables
        /\ "alarms" \in PartsOf(query) /\ Position["alarms"] < Position[pc']
        /\ pc' \in Parts \cup {"done"}
    BY <2>1, <2>3 DEF HasPassed, ReadsPart, PartsOf, Tables, StoryInv
  <2>5. pc' = "done" /\ query.groupBy = "report"
    BY <2>4 DEF Position, Parts, PartsOf
  <2>6. {"production", "reportReasons", "recipes", "equipmentMetrics", "distribution",
         "marginal", "history", "alarms"} \subseteq PartsOf(query)
    BY <2>5 DEF PartsOf, Position, LastOf, Parts
  <2>7. \A x \in PartsOf(query) : answer'[x] \in Values(x)
    BY <2>1, <2>2, <2>5, AfterReading DEF ReadsPart, PartsOf
  <2>8. /\ answer'["production"] = Production(query)
        /\ answer'["recipes"] = Recipes(query)
        /\ answer'["equipmentMetrics"] = EquipmentMetrics(query)
        /\ answer'["distribution"] = Distribution(query)
        /\ answer'["marginal"] = Marginal(query)
        /\ answer'["history"] = History(query) /\ answer'["alarms"] = Alarms(query)
    BY <2>6, <2>7 DEF Values
  <2>9. Warnings' = Marginal(query)
    BY <2>4, <2>8, ReportPartsAddUp DEF Warnings
  <2>q. QED  BY <2>4, <2>8, <2>9, ReportPartsAddUp DEF QuietReport
<1>3. ASSUME UNCHANGED <<pc, query, answer>>, during' = 0 => during = 0
      PROVE  QuietReport'
  BY <1>3 DEF QuietReport, Read, Warnings
<1>4. ASSUME NEW b \in Batches, IngestBatch(b) PROVE QuietReport'
  BY <1>3, <1>4 DEF IngestBatch, Commit, TypeOK
<1>5. ASSUME NEW s \in Snapshots, IngestStatus(s) PROVE QuietReport'
  BY <1>3, <1>5 DEF IngestStatus, Commit, TypeOK
<1>6. CASE UNCHANGED vars
  BY <1>3, <1>6 DEF vars
<1>q. QED  BY <1>1, <1>2, <1>4, <1>5, <1>6 DEF Next

-----------------------------------------------------------------------------
SummaryInv == TypeOK /\ StoryInv /\ GrowthInv /\ QuietPartsAgree /\ QuietReport

(* However statements and commits interleave, an answer is read in order,   *)
(* repeats the tables while nothing is committed, and never claims more     *)
(* than they hold.                                                          *)
THEOREM SummaryInvHolds == Spec => []SummaryInv
<1>1. Init => SummaryInv
  <2>1. ASSUME Init PROVE /\ \A p \in Parts : ~Read(p) /\ ~HasPassed(p)
                          /\ TypeOK /\ pc = "idle" /\ stored = {}
    BY <2>1, SnapshotAssumption DEF Init, Read, HasPassed, TypeOK
  <2>2. ASSUME Init PROVE StoryInv /\ GrowthInv /\ QuietPartsAgree /\ QuietReport
    BY <2>1, <2>2, FS_EmptySet
    DEF StoryInv, GrowthInv, QuietPartsAgree, QuietReport, Parts, Underway
  <2>q. QED  BY <2>1, <2>2 DEF SummaryInv
<1>2. SummaryInv /\ [Next]_vars /\ TypeOK' => SummaryInv'
  BY StoryKept, GrowthKept, AgreementKept, QuietReportKept DEF SummaryInv
<1>q. QED  BY <1>1, <1>2, SummaryTyped, PTL DEF Spec

(* When nothing is committed while the KPI query runs, its statements tell  *)
(* one story: list, groups and downtimes add up to the totals of the plant, *)
(* and lists of reasons differ only by what was cut from them, for any      *)
(* batches, LOTs, equipment, status rows and limit on the reasons.          *)
THEOREM OneStory == Spec => []QuietPartsAgree
BY SummaryInvHolds, PTL DEF SummaryInv

(* DISTINCT ON counts a LOT once however often it was dispatched: the total *)
(* is the number of records of the LOTs dispatched in the period.           *)
THEOREM CountedOnce == Spec => []LotCountedOnce
<1>1. SummaryInv => LotCountedOnce
  <2>1. SUFFICES ASSUME SummaryInv, DispatchRepeats, pc = "judgments", during = 0
                 PROVE  answer["base"].units = SumFunctionOnSet(RecordsOf, LotsOf(Hits(query)))
    BY DEF LotCountedOnce
  <2>2. HasPassed("base")
    BY <2>1 DEF SummaryInv, StoryInv, HasPassed, PartsOf, Position, LastOf, Parts
  <2>3. answer["base"] = Base(query)
    BY <2>1, <2>2 DEF SummaryInv, StoryInv, Underway, Values, Parts
  <2>q. QED  BY <2>1, <2>3, UnitsAreRecords DEF SummaryInv, StoryInv, Tables
<1>q. QED  BY <1>1, SummaryInvHolds, PTL

(* Whatever is committed between two statements, the equipment list shows   *)
(* at least the production of the totals, and the groups at least that of   *)
(* the list: replacing a LOT by its later dispatch loses no record.         *)
THEOREM LaterCovers == Spec => []LaterPartsCoverEarlier
<1>1. SummaryInv => LaterPartsCoverEarlier
  BY DEF SummaryInv, StoryInv, GrowthInv, LaterPartsCoverEarlier, Parts
<1>q. QED  BY <1>1, SummaryInvHolds, PTL

(* A report counts at least the warnings it shows, whatever is committed    *)
(* between its statements; when no batch is, its recipes and judgments stay *)
(* within its LOTs, and its reasons explain what the KPI query counts.      *)
THEOREM ReportAdds == Spec => []ReportAddsUp
<1>1. SummaryInv => ReportAddsUp
  <2>1. SUFFICES ASSUME SummaryInv PROVE ReportAddsUp
    OBVIOUS
  <2>2. /\ Tables
        /\ \A p \in Parts : Read(p) => HasPassed(p) /\ pc # "idle" /\ p \in PartsOf(query)
    BY <2>1 DEF SummaryInv, StoryInv, Tables, HasPassed
  <2>4. Read("marginal") => Warnings <= answer["marginal"]
    BY <2>1, <2>2 DEF SummaryInv, GrowthInv, Parts
  <2>5. ASSUME Read("reportReasons"), pc # "done", during = 0, NEW r \in Reasons
        PROVE  Explains(answer["reportReasons"], r, ReasonCounts(Deduped(query))[r])
    <3>1. answer["reportReasons"] \in TopReasons(ReportHits(query))
      BY <2>1, <2>2, <2>5 DEF SummaryInv, StoryInv, Underway, Values, Parts
    <3>2. query.equipment = Anything
      BY <2>1, <2>2, <2>5, QueryAssumption DEF PartsOf, Position, SummaryInv, TypeOK, Parts
    <3>q. QED  BY <2>2, <3>1, <3>2, ReportExplains
  <2>6. QuietReport
    BY <2>1 DEF SummaryInv
  <2>q. QED
    BY <2>4, <2>5, <2>6 DEF ReportAddsUp, QuietReport
<1>q. QED  BY <1>1, SummaryInvHolds, PTL
=============================================================================
