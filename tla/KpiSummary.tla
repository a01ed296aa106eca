----------------------------- MODULE KpiSummary -----------------------------
(***************************************************************************)
(* GET /api/batches/kpi-summary (aggregate_kpi_summary and                 *)
(* aggregate_kpi_groups of db/batches.py) and the metrics of a report      *)
(* (aggregate_metrics of llm/report_generator.py), statement by statement, *)
(* while batches and status snapshots are committed by other tasks.  A     *)
(* query holds one connection but opens no transaction, so each statement  *)
(* sees its own state of the tables, and the parts of one answer may stem  *)
(* from different ones.                                                    *)
(*                                                                         *)
(* Left out: averages (yield, UPH, yield trend, MTBF), sums of numbers the *)
(* dispatcher sends along (lotSummary.fail_count), the recipes and alarm   *)
(* histories of the KPI query, and a filter by equipment_hash where rows   *)
(* have an equipment_id; no other part of an answer is computed from them. *)
(* violated_rules is a list, so ->>'yield_grade' is never MARGINAL.        *)
(***************************************************************************)
EXTENDS Naturals, FiniteSets, FiniteSetsExt

CONSTANTS
    Batches, LotOf, EquipmentOf,
    DispatchedAt,   \* batch -> dispatched_at
    EquipmentIdOf,  \* batch -> equipment_id, EquipmentOf when there is one
    Inspected,      \* batch -> number of its records
    FailsOf,        \* batch -> records with overall_result = 'FAIL'
    CodedOf,        \* batch -> reason -> records with that fail_reason_code
    JudgmentOf,     \* batch -> oracleAnalysis[0].judgment, or Absent
    RecipeOf,       \* batch -> lotSummary.recipeHash, or Absent
    HistoryOf,      \* batch -> statusHistory, a function from times to statuses
    AlarmsOf,       \* batch -> length of alarmHistory
    Snapshots,      \* [equipment, rows], rows a function from times to statuses
    Equipment, Reasons, Statuses,
    Master,         \* settings.equipment_master_list
    ReasonLimit,    \* LIMIT 5, rn <= 5
    Absent,         \* NULL, or an empty string where the code drops it
    Horizon,        \* times are 1..Horizon
    DayLength,      \* date_trunc('day', t): this many times make a day
    Queries,        \* [equipment, from, to, groupBy]; a report has no equipment
    Anything,       \* no equipment filter
    MaxDuring,      \* bound on commits while a query runs
    NoRow, NotRead

Times == 1..Horizon
Parts == {"base", "judgments", "equipment", "availability", "reasons",
          "details", "metrics", "reasonsBy", "groupDowntime", "groups",
          "production", "reportReasons", "recipes", "equipmentMetrics",
          "distribution", "marginal", "history", "alarms"}

ASSUME BatchAssumption ==
    /\ EquipmentOf \in [Batches -> Equipment]
    /\ DispatchedAt \in [Batches -> Times]
    /\ IsFiniteSet(Equipment) /\ IsFiniteSet(Reasons) /\ IsFiniteSet(Master)
    /\ Absent # "WARNING" /\ ReasonLimit \in Nat \ {0}
    /\ \A b \in Batches :
           /\ Inspected[b] \in Nat /\ FailsOf[b] \in 0..Inspected[b]
           /\ \A r \in Reasons : CodedOf[b][r] \in 0..Inspected[b]
           /\ AlarmsOf[b] \in Nat /\ DOMAIN HistoryOf[b] \subseteq Times
           /\ EquipmentIdOf[b] \in {EquipmentOf[b], Absent}
\* Two dispatches of one LOT never carry the same time: DISTINCT ON would
\* choose between them anew in each statement.
ASSUME DispatchAssumption ==
    \A b, c \in Batches :
        LotOf[b] = LotOf[c] /\ DispatchedAt[b] = DispatchedAt[c] => b = c
ASSUME SnapshotAssumption ==
    /\ \A s \in Snapshots :
           /\ s.equipment \in Equipment
           /\ DOMAIN s.rows \subseteq Times
           /\ \A t \in DOMAIN s.rows : s.rows[t] \in Statuses
    /\ NoRow \notin Statuses /\ {"RUN", "STOP"} \subseteq Statuses
    /\ Horizon \in Nat /\ MaxDuring \in Nat /\ DayLength \in Nat \ {0}
ASSUME QueryAssumption ==
    \A q \in Queries :
        /\ q.groupBy \in {"none", "day", "equipment", "report"}
        /\ q.groupBy = "report" => q.equipment = Anything

VARIABLES
    stored,   \* ingest_batches
    log,      \* equipment_status_log: status of each (equipment, ts), or NoRow
    pc,       \* the statement the query executes next
    query,
    answer,   \* what the statements returned so far
    during    \* how many commits happened since the query began

vars == <<stored, log, pc, query, answer, during>>

Init ==
    /\ stored = {}
    /\ log = [e \in Equipment |-> [t \in Times |-> NoRow]]
    /\ pc = "idle"
    /\ query \in Queries
    /\ answer = [p \in Parts |-> NotRead]
    /\ during = 0

TypeOK ==
    /\ stored \subseteq Batches
    /\ log \in [Equipment -> [Times -> Statuses \cup {NoRow}]]
    /\ pc \in Parts \cup {"idle", "done"}
    /\ query \in Queries
    /\ DOMAIN answer = Parts
    /\ during \in 0..MaxDuring

-----------------------------------------------------------------------------
(* What a statement computes *)

Selects(q, e) == q.equipment = Anything \/ q.equipment = e

\* The rows _batch_where selects.
Hits(q) ==
    {b \in stored : Selects(q, EquipmentOf[b])
                    /\ q.from <= DispatchedAt[b] /\ DispatchedAt[b] <= q.to}

\* Mutant: each LOT is reduced to its latest dispatch before the period is
\* applied.
DedupedThenFiltered(q) ==
    {b \in Hits(q) : \A c \in stored :
        LotOf[c] = LotOf[b] => DispatchedAt[c] <= DispatchedAt[b]}

\* SELECT DISTINCT ON (lot_hash) ... ORDER BY lot_hash, dispatched_at DESC
Deduped(q) ==
    {b \in Hits(q) : \A c \in Hits(q) :
        LotOf[c] = LotOf[b] => DispatchedAt[c] <= DispatchedAt[b]}

Totals(S) == [units |-> SumFunctionOnSet(Inspected, S),
              fails |-> SumFunctionOnSet(FailsOf, S)]

\* Mutant: the base query reads ingest_batches itself.
BaseOfBatches(q) == Totals(Hits(q))
Base(q) == Totals(Deduped(q))

Judgments(q) ==
    [j \in {"WARNING", "DANGER"} |->
        Cardinality({b \in Deduped(q) : JudgmentOf[b] = j})]

\* Status rows of e with from <= ts <= to.
Rows(e, from, to) ==
    {t \in Times : from <= t /\ t <= to /\ log[e][t] # NoRow}

\* latest_status has no lower bound on ts.
Observed(q) == {e \in Equipment : Selects(q, e) /\ Rows(e, 0, q.to) # {}}
LastStatus(q, e) == log[e][Max(Rows(e, 0, q.to))]
\* Who is counted as active, and totalEquipmentCount.
CountsObserved(q) == q.equipment # Anything \/ Master = {}
EquipmentCounts(q) ==
    [active |-> {e \in Observed(q) : LastStatus(q, e) = "RUN"},
     total |-> Cardinality(IF CountsObserved(q) THEN Observed(q) ELSE Master)]

\* next_ts - ts with next_ts = LEAD(ts); the last row of the period has none.
Intervals(q) ==
    {i \in Equipment \X Times :
        /\ Selects(q, i[1])
        /\ i[2] \in Rows(i[1], q.from, q.to)
        /\ Rows(i[1], i[2] + 1, q.to) # {}}
Length(q, i) == Min(Rows(i[1], i[2] + 1, q.to)) - i[2]
Seconds(q, S) == SumFunction([i \in S |-> Length(q, i)])
InStatus(S, status) == {i \in S : log[i[1]][i[2]] = status}

Durations(q, S) ==
    [run |-> Seconds(q, InStatus(S, "RUN")), stop |-> Seconds(q, InStatus(S, "STOP")),
     total |-> Seconds(q, S)]
Availability(q) == Durations(q, Intervals(q))

\* COUNT( * ) of the records with a fail_reason_code, whatever their result.
ReasonCounts(S) == [r \in Reasons |-> SumFunction([b \in S |-> CodedOf[b][r]])]
\* ORDER BY count DESC LIMIT 5: reasons that tie come in any order.
IsTop(R, counts) ==
    LET present == {r \in Reasons : counts[r] > 0} IN
    /\ R \subseteq present /\ Cardinality(R) <= ReasonLimit
    /\ R = present \/ Cardinality(R) = ReasonLimit
    /\ \A r \in R, other \in present \ R : counts[other] <= counts[r]
TopReasons(S) ==
    LET counts == ReasonCounts(S) IN
    {[r \in R |-> counts[r]] : R \in {R \in SUBSET Reasons : IsTop(R, counts)}}

OfEquipment(e, S) == {b \in S : EquipmentOf[b] = e}
WithRecords(S) == {b \in S : Inspected[b] > 0}

\* Mutant: only equipment with a LOT is listed.
ListedByLots(q) == {EquipmentOf[b] : b \in WithRecords(Deduped(q))}
\* status_latest FULL OUTER JOIN agg
Listed(q) == Observed(q) \cup {EquipmentOf[b] : b \in WithRecords(Deduped(q))}
Details(q) ==
    [e \in Listed(q) |->
        [totals |-> Totals(OfEquipment(e, Deduped(q))),
         warnings |-> Cardinality({b \in OfEquipment(e, Deduped(q)) :
                                       JudgmentOf[b] = "WARNING"}),
         status |-> IF e \in Observed(q) THEN LastStatus(q, e) ELSE "UNKNOWN"]]

Metrics(q) ==
    [e \in {f \in Equipment : Selects(q, f) /\ Rows(f, q.from, q.to) # {}} |->
        Durations(q, {i \in Intervals(q) : i[1] = e})]

\* ROW_NUMBER() OVER (PARTITION BY equipment ORDER BY COUNT( * ) DESC) <= 5
ReasonsBy(q) ==
    LET tops == [e \in Equipment |-> TopReasons(OfEquipment(e, Deduped(q)))] IN
    {by \in [Equipment -> UNION {tops[e] : e \in Equipment}] :
        \A e \in Equipment : by[e] \in tops[e]}

Day(t) == (t - 1) \div DayLength
GroupOf(q, e, t) == IF q.groupBy = "day" THEN Day(t) ELSE e
BatchGroup(q, b) == GroupOf(q, EquipmentOf[b], DispatchedAt[b])

\* An interval belongs to the day it starts in.
GroupDowntime(q) ==
    LET stops == InStatus(Intervals(q), "STOP") IN
    [k \in {GroupOf(q, i[1], i[2]) : i \in stops} |->
        Seconds(q, {i \in stops : GroupOf(q, i[1], i[2]) = k})]

\* Mutant: each day is de-duplicated on its own.
GroupsByHits(q) ==
    [k \in {BatchGroup(q, b) : b \in WithRecords(Hits(q))} |->
        Totals({b \in Hits(q) : BatchGroup(q, b) = k})]
Groups(q) ==
    [k \in {BatchGroup(q, b) : b \in WithRecords(Deduped(q))} |->
        Totals({b \in Deduped(q) : BatchGroup(q, b) = k})]

-----------------------------------------------------------------------------
(* What a statement of a report computes, from the batches themselves       *)

\* Mutant: the period excludes its end.
HitsBeforeEnd(q) ==
    {b \in stored : q.from <= DispatchedAt[b] /\ DispatchedAt[b] < q.to}

\* dispatched_at BETWEEN start AND end; a LOT counts once per dispatch.
ReportHits(q) ==
    {b \in stored : q.from <= DispatchedAt[b] /\ DispatchedAt[b] <= q.to}

Production(q) == Cardinality(ReportHits(q))

\* SELECT key, COUNT( * ) ... GROUP BY key; a batch without the key is left out
\* by IS NOT NULL or by the comprehension that builds the answer.
Present(key, S) == {key[b] : b \in S} \ {Absent}
CountBy(key, S) ==
    [k \in Present(key, S) |-> Cardinality({b \in S : key[b] = k})]
Recipes(q) == CountBy(RecipeOf, ReportHits(q))
EquipmentMetrics(q) == Present(EquipmentIdOf, ReportHits(q))
Distribution(q) == CountBy(JudgmentOf, ReportHits(q))
Marginal(q) == Cardinality({b \in ReportHits(q) : JudgmentOf[b] = "WARNING"})

\* LEAD(time) OVER (PARTITION BY batch_id, equipment_id ORDER BY time)
HistoryAfter(b, t) == {u \in DOMAIN HistoryOf[b] : u > t}
HistorySeconds(S, statuses) ==
    LET intervals == {i \in S \X Times : /\ i[2] \in DOMAIN HistoryOf[i[1]]
                                         /\ HistoryOf[i[1]][i[2]] \in statuses
                                         /\ HistoryAfter(i[1], i[2]) # {}}
    IN SumFunction([i \in intervals |-> Min(HistoryAfter(i[1], i[2])) - i[2]])
History(q) ==
    [run |-> HistorySeconds(ReportHits(q), {"RUN"}),
     stop |-> HistorySeconds(ReportHits(q), {"STOP"}),
     total |-> HistorySeconds(ReportHits(q), Statuses)]

Alarms(q) ==
    LET alarmed == {b \in ReportHits(q) : AlarmsOf[b] > 0} IN
    [e \in Present(EquipmentIdOf, alarmed) |->
        SumFunctionOnSet(AlarmsOf, {b \in alarmed : EquipmentIdOf[b] = e})]

-----------------------------------------------------------------------------
(* The query *)

Ask(q) ==
    /\ pc \in {"idle", "done"}
    /\ query' = q
    /\ answer' = [p \in Parts |-> NotRead]
    /\ pc' = IF q.groupBy = "report" THEN "production" ELSE "base"
    /\ during' = 0
    /\ UNCHANGED <<stored, log>>

\* values: what the statement may return; more than one when rows tie.
Statement(part, values, next) ==
    /\ pc = part
    /\ \E value \in values : answer' = [answer EXCEPT ![part] = value]
    /\ pc' = next
    /\ UNCHANGED <<stored, log, query, during>>

ReadSummary ==
    \/ Statement("base", {Base(query)}, "judgments")
    \/ Statement("judgments", {Judgments(query)}, "equipment")
    \/ Statement("equipment", {EquipmentCounts(query)}, "availability")
    \/ Statement("availability", {Availability(query)}, "reasons")
    \/ Statement("reasons", TopReasons(Deduped(query)), "details")
    \/ Statement("details", {Details(query)}, "metrics")
    \/ Statement("metrics", {Metrics(query)}, "reasonsBy")
    \/ Statement("reasonsBy", ReasonsBy(query),
                 IF query.groupBy = "none" THEN "done" ELSE "groupDowntime")

ReadGroups ==
    \/ Statement("groupDowntime", {GroupDowntime(query)}, "groups")
    \/ Statement("groups", {Groups(query)}, "done")

ReadReport ==
    \/ Statement("production", {Production(query)}, "reportReasons")
    \/ Statement("reportReasons", TopReasons(ReportHits(query)), "recipes")
    \/ Statement("recipes", {Recipes(query)}, "equipmentMetrics")
    \/ Statement("equipmentMetrics", {EquipmentMetrics(query)}, "distribution")
    \/ Statement("distribution", {Distribution(query)}, "marginal")
    \/ Statement("marginal", {Marginal(query)}, "history")
    \/ Statement("history", {History(query)}, "alarms")
    \/ Statement("alarms", {Alarms(query)}, "done")

-----------------------------------------------------------------------------
(* Commits of other tasks *)

Commit ==
    IF pc \in {"idle", "done"}
      THEN UNCHANGED during
      ELSE during < MaxDuring /\ during' = during + 1

IngestBatch(b) ==
    /\ b \notin stored
    /\ stored' = stored \cup {b}
    /\ Commit
    /\ UNCHANGED <<log, pc, query, answer>>

\* Mutant: the status is stored as it was sent, not normalized.
IngestStatusRaw(s) ==
    /\ log' = [log EXCEPT ![s.equipment] =
                  [t \in Times |-> IF t \in DOMAIN s.rows THEN "running" ELSE @[t]]]
    /\ Commit
    /\ UNCHANGED <<stored, pc, query, answer>>

\* The transaction of ingest_status: upsert on (equipment_key, ts).
IngestStatus(s) ==
    /\ log' = [log EXCEPT ![s.equipment] =
                  [t \in Times |-> IF t \in DOMAIN s.rows THEN s.rows[t] ELSE @[t]]]
    /\ Commit
    /\ UNCHANGED <<stored, pc, query, answer>>

Next ==
    \/ \E q \in Queries : Ask(q)
    \/ ReadSummary \/ ReadGroups \/ ReadReport
    \/ \E b \in Batches : IngestBatch(b)
    \/ \E s \in Snapshots : IngestStatus(s)

Spec == Init /\ [][Next]_vars

-----------------------------------------------------------------------------
(* Safety *)

Read(part) == answer[part] # NotRead

\* The production that the equipment list and the groups show.
DetailUnits ==
    LET details == answer["details"] IN
    SumFunction([e \in DOMAIN details |-> details[e].totals.units])
GroupUnits ==
    LET groups == answer["groups"] IN
    SumFunction([k \in DOMAIN groups |-> groups[k].units])

\* What the equipment list shows of a reason, in the lists that it made.
ReasonShown(by, listed, r) ==
    SumFunction([e \in {d \in listed : r \in DOMAIN by[d]} |-> by[e][r]])
Full(top) == Cardinality(DOMAIN top) = ReasonLimit
\* A list of top reasons explains n records of r: it shows as many, or has no
\* room left for them.
Explains(top, r, n) ==
    IF r \in DOMAIN top
      THEN n <= top[r]
      ELSE n > 0 => Full(top) /\ \A s \in DOMAIN top : n <= top[s]

(* When nothing is committed while the KPI query runs, its ten statements   *)
(* tell one story: the equipment list and the groups add up to the totals,  *)
(* the header counts the running equipment of the list, the downtime of the *)
(* equipment is the fleet's, and the groups never show more than it (a day  *)
(* without LOTs has no group for its downtime).  The reasons, which are cut *)
(* in two ways, never contradict each other: what the equipment shows of a  *)
(* reason is in the fleet's list or had to give way there, and where no     *)
(* list of the equipment is full the two are equal.                         *)
QuietPartsAgree ==
    pc = "done" /\ during = 0 /\ Read("base") =>
        LET details == answer["details"]
            metrics == answer["metrics"]
            groups == answer["groups"]
            downtime == answer["groupDowntime"]
            by == answer["reasonsBy"]
        IN
        /\ DetailUnits = answer["base"].units
        /\ SumFunction([e \in DOMAIN details |-> details[e].totals.fails])
               = answer["base"].fails
        /\ SumFunction([e \in DOMAIN details |-> details[e].warnings])
               <= answer["judgments"]["WARNING"]
        /\ answer["equipment"].active =
               {e \in DOMAIN details : details[e].status = "RUN"}
        /\ DOMAIN metrics \subseteq DOMAIN details
        /\ SumFunction([e \in DOMAIN metrics |-> metrics[e].stop])
               = answer["availability"].stop
        /\ \A r \in Reasons :
               Explains(answer["reasons"], r, ReasonShown(by, DOMAIN details, r))
        /\ (\A e \in DOMAIN details : ~Full(by[e])) =>
               \A r \in DOMAIN answer["reasons"] :
                   answer["reasons"][r] = ReasonShown(by, DOMAIN details, r)
        /\ query.groupBy # "none" =>
               /\ GroupUnits = answer["base"].units
               /\ SumFunctionOnSet(downtime, DOMAIN downtime \cap DOMAIN groups)
                      <= answer["availability"].stop

(* Every equipment that the header counts as active is in the list below    *)
(* it, and the list is no shorter than the number of equipment the header   *)
(* found in the status log, even when snapshots and batches are committed   *)
(* in between.  When the header shows the size of the configured master,    *)
(* nothing relates that number to the list.                                 *)
ListedCoversCounted ==
    Read("equipment") /\ Read("details") =>
        /\ answer["equipment"].active \subseteq DOMAIN answer["details"]
        /\ CountsObserved(query) =>
               answer["equipment"].total <= Cardinality(DOMAIN answer["details"])

\* A LOT that is dispatched again carries the same records.
DispatchRepeats ==
    \A b, c \in Batches : LotOf[b] = LotOf[c] => Inspected[b] = Inspected[c]

(* A LOT is counted once, however often it was dispatched: the total is     *)
(* the number of records of the LOTs in the period.                         *)
LotsOf(S) == {LotOf[b] : b \in S}
RecordsOf == [lot \in LotsOf(Batches) |-> Inspected[CHOOSE b \in Batches : LotOf[b] = lot]]
LotCountedOnce ==
    DispatchRepeats /\ pc = "judgments" /\ during = 0 =>
        answer["base"].units = SumFunctionOnSet(RecordsOf, LotsOf(Hits(query)))

(* Commits during the query only add: a later part of the answer counts at  *)
(* least the production the earlier ones counted, although a late dispatch  *)
(* may replace a LOT's batch between two statements.                        *)
LaterPartsCoverEarlier ==
    DispatchRepeats /\ Read("base") /\ Read("details") =>
        /\ answer["base"].units <= DetailUnits
        /\ Read("groups") => DetailUnits <= GroupUnits

\* The warnings that the distribution of a report shows.
Warnings ==
    IF "WARNING" \in DOMAIN answer["distribution"]
      THEN answer["distribution"]["WARNING"] ELSE 0

(* However many batches are committed during a report, it counts at least   *)
(* the warnings it shows.  When none is, the recipes and the judgments (a   *)
(* batch may have neither) stay within the number of LOTs, the warnings are *)
(* those shown, no alarm is left without its equipment, and the reasons     *)
(* explain all that the KPI query counts for the same period (more, when a  *)
(* LOT was dispatched twice: a report counts dispatches).                   *)
ReportAddsUp ==
    /\ Read("marginal") => Warnings <= answer["marginal"]
    /\ Read("reportReasons") /\ pc # "done" /\ during = 0 =>
           LET counts == ReasonCounts(Deduped(query)) IN
           \A r \in Reasons : Explains(answer["reportReasons"], r, counts[r])
    /\ Read("alarms") /\ during = 0 =>
           /\ SumFunction(answer["recipes"]) <= answer["production"]
           /\ SumFunction(answer["distribution"]) <= answer["production"]
           /\ Warnings = answer["marginal"]
           /\ DOMAIN answer["alarms"] \subseteq answer["equipmentMetrics"]
           /\ answer["history"].run + answer["history"].stop <= answer["history"].total
=============================================================================
