# AI_Server in TLA+

TLA+ models of the Python AI server under `ai-server/`: a FastAPI process that
takes inspection batches (LOTs) from vision equipment, stores them in
PostgreSQL, chunks and embeds them in the background for vector search, answers
questions and KPI queries about them, and writes daily and weekly reports with
an LLM. The modules are model-checked with TLC on small instances and the core
results are proved with TLAPS for every value of the constants. All line numbers
below refer to files under `src/` (the repository); "ai-server/src/" is left out
of paths in the text.

## 1. Inventory

One process, one event loop. Every request handler, background job and report
run is an asyncio task; tasks lose the processor only at an `await`. They share
PostgreSQL tables (through one asyncpg pool), a job tracker, and a semaphore.

| Component | State | Operations | Interacts with | Hard behaviour | What makes it correct |
|---|---|---|---|---|---|
| Batch ingestion (`api/ingest.py`) | rows of `ingest_batches`, `ingest_jobs` | `POST /api/ingest`: check id, transaction {insert batch, insert job}, answer, spawn job | pool, tables, worker (background task) | check and insert are separated by an await; commit reply lost; crash after the answer | an answer stays true of the rows; one worker per batch; every accepted batch gets indexed when nothing fails |
| Background worker (`pipeline/job_worker.py`, `db/ingest_jobs.py`, `db/embeddings.py`) | `ingest_jobs.status`, `lot_embeddings` | `process_batch_job`, `get_batch_payload`, `_notify_backend`, `update_job_status`, `save_embeddings`, `reset_failed_job` | semaphore, pool (one connection, a second one nested), backend, tracker | failure or lost connection in every statement, also in the `except` clause; crash; re-processing; nested acquisition | chunks never duplicated, COMPLETED implies searchable; slot, connection and tracker entry come back on every path |
| Job tracker (`pipeline/jobs.py`) | set of batch ids, an event | `add_job`, `remove_job`, `wait_for_completion` | worker, shutdown | a set of ids, not of tasks | knows exactly the running jobs |
| Pool (`db/pool.py`) | connections | connect, acquire, disconnect | everything | limit reached, nested acquisition | no circular wait |
| Report runs (`scheduler/report_scheduler.py`, `api/report.py`, `db/reports.py`, `llm/report_generator.py`) | `analysis_reports`, the scheduler's running instances | cron firing, trigger, aggregate, LLM call, save, push, mark, read latest | pool, LLM, backend | overlapping runs, retries, timeouts after delivery, crash between save, push and mark | delivery record truthful, attempts exhausted before giving up, latest never older |
| LLM client (`llm/client.py`) | attempt counter | `get_completion` | LLM service | two retry branches with different tests of the limit | every call ends; the two branches agree on the last of max_retries + 1 attempts, whatever mix of timeouts and 5xx answers comes |
| Startup and shutdown (`main.py`) | pool, scheduler, tracker | connect, load model, start; stop, drain 20 s, disconnect | all | timeout while a job runs, pool closed under tasks that wait for it | no job row is left PROCESSING; tracked jobs are waited for; shutdown ends |
| Equipment status log (`db/status_log.py`) | `equipment_status_log`, key (equipment, ts) | `POST /api/ingest/status` | KPI queries | snapshots repeated, late, out of order; row locks of overlapping ones | an interval is counted once, a snapshot is visible whole or not at all, and lands in the end |
| KPI and batch queries (`db/batches.py`, `api/batches.py`) | none (reads) | list/count with OFFSET, details, summary, groups | all tables | about nine statements of one summary without a snapshot; re-dispatched LOTs | parts of one answer agree, or differ only where a list was cut; a LOT is counted once; a sweep through the pages misses no row |
| Question answering (`api/query.py`, `rag/*`) | none | retrieve, re-rank, build context, ask | vectors, LLM, worker (replaces chunks) | re-indexing meanwhile; failure of retrieval or of the LLM; an approximate index | sources are what the LLM saw, no chunk in two copies, cut and confidence fit the order |
| Chunking and statistics (`pipeline/chunker.py`, `preprocessor.py`, `derived_stats.py`) | none | pure functions | worker, batch details | absent, zero and unreadable values, unsorted history | tables made by different loops tell the same |
| Embedding model, health, models, config, prompts, auth, logging | none or static | | | | |

`PROJECT.json` lists each component with its files and status, and every hazard
with the line where it bites and the property that would catch it going wrong.

## 2. Modules

    BatchLedger            what the pipeline promises of one batch id (abstract)
       ^ INSTANCE (refinement mapping Phase)
    IngestPipeline         handler + worker + tracker + semaphore + pool + tables
       ^ EXTENDS
    IngestPipelineProofs   theorems      MCIngest   instances for TLC

    ReportRuns             scheduled/triggered runs, LLM retries, save/push/mark
       ^ EXTENDS
    ReportRunsProofs       theorems      MCReport   instances for TLC

    KpiSummary             the KPI query's statements between other commits
       ^ EXTENDS
    KpiSummaryProofs       theorems      MCKpi      a small plant for TLC

    BatchPaging            the paged batch list and a client that follows hasNext
       ^ EXTENDS
    BatchPagingProofs      theorems      MCPaging   instance for TLC

    StatusTimeline         what the status log promises of a snapshot (abstract)
       ^ INSTANCE (Timeline)
    StatusLog              status handlers, their transactions, locks, a dispatcher
       ^ EXTENDS
    StatusLogProofs        theorems      MCStatus   overlapping snapshots for TLC

    Lifespan               EXTENDS IngestPipeline: one life of the process, with
       ^ EXTENDS           report runs, the shared pool and shutdown
    LifespanProofs         theorems (EXTENDS IngestPipelineProofs as well)
                                         MCLifespan  instance for TLC

    LotStats               statistics and chunks of one payload (operators)
       ^ EXTENDS
    RagQuery               questions, details, and workers that index anew
       ^ EXTENDS
    RagQueryProofs         theorems      MCRag      batches, questions and payloads

    SumTheorems            lemmas on sums over finite sets, by induction
       ^ EXTENDS
    KpiSummaryProofs, ReportRunsProofs, RagQueryProofs

Definitions marked "Mutant:" are deliberately wrong variants of the operator
that follows them. They are not part of any specification; each shows that one
property does depend on the code: with the variant in place of the operator the
property is violated.

### IngestPipeline

A request `r` is one POST; the background task it spawns carries the same name.
A member of `Reprocs` is one later call `process_batch_job(batch_id)` without a
batch, which the docstring (job_worker.py:68) and `reset_failed_job` provide for
but no code in the repository makes: it is the only external action.

| variable | code |
|---|---|
| `batches[b]` | the row of `ingest_batches` (its payload), or `NoRow` |
| `status[b]` | `ingest_jobs.status`, or `NoRow` |
| `vectors[b]` | workers whose complete chunk set is in `lot_embeddings` |
| `notified` | workers whose `POST /api/batches/notify` arrived |
| `active_jobs` | `JobTracker.active_jobs` |
| `reqPc`, `answer` | where a handler is, what it returned |
| `jobPc` | where a worker is; who holds a connection or a semaphore slot follows from it (`Connected`, `InSemaphore`, `InUse`) |
| `faults`, `crashes` | how many failures have happened (bounds) |

An action is the code between two awaits that touch shared state. One SQL
statement is atomic, so is the transaction of the handler and the `executemany`
of `save_embeddings` (asyncpg runs it in an implicit transaction).

| action | code |
|---|---|
| `Receive`, `AcquireForIngest` | ingest.py:16-24 |
| `CheckExisting` | ingest.py:26-35 |
| `Store`, `StoreDuplicateKey`, `RequestFails` | ingest.py:45-57: committed; primary key violated; a statement failed |
| `TrackJob` … `LeaveJob` | job_worker.py:70-116, one action per await |
| `AcquireSecond`, `LoadPayload` | `get_batch_payload`, job_worker.py:49-63 |
| `DeleteOldChunks`, `InsertChunks` | the two statements of `save_embeddings` |
| `NotifyBackend` | job_worker.py:21-47; `NotifyMode` is the configuration: notification off, on, or on with a service key that cannot be parsed (only `RuntimeError` is caught around the token) |
| `StatementFails` | an exception inside the inner `try`: on to `except` |
| `WorkerAborts`, second disjunct of `Executed` | an exception the worker does not survive; in `Executed` the statement was applied, then the connection is lost, so that the update to FAILED raises too |
| `Reprocess` | `reset_failed_job`, then `process_batch_job(id)` |
| `CrashRestart` | the process dies; tables stay; startup looks at no job row |

Left out on purpose: `retry_count`, `last_error` and `updated_at` (nothing reads
them to decide), chunk texts and vectors, records and summaries, the moment a
connection goes back to the pool after the last statement of its block (it is
merged with that statement), the time limit of the notification. Chunking always
yields at least the `lot_summary` and `process` chunks (chunker.py:25-42), so the
"no chunks" branch of job_worker.py:93-96 cannot be taken and has no action.

### BatchLedger and the refinement

`BatchLedger` knows, for each batch id, the stored payload and a phase: absent,
stored, searchable, done. A payload is stored once; chunks are published, may be
withdrawn while the batch is not done, and stay once it is. `IngestPipeline!Phase`
computes the phase from `status` and `vectors`, and `RefinesLedger` says that every
step of the pipeline is a step of the ledger or leaves it unchanged.

### ReportRuns

A run is one execution of `run_daily_report` or `run_weekly_report`. `Fire` is a
cron firing (APScheduler runs one instance of each job at a time and skips the
firing that finds it running), `Trigger` is `POST /api/report/{type}`, which nothing
limits. One call of `messages.create` by `get_completion` comes to one of `LlmAnswers`,
`LlmTimesOut`, `LlmFailsServer` (5xx) and `LlmRefuses` (any other exception), one action
per branch of client.py:22-58, each with the branch's own test of the counter:
`attempt == max_retries` for a timeout, `attempt < max_retries` for a 5xx. `RetryLlm` and
`GiveUpLlm` are what follows, and `llmCalls` and `llmResult` record what the counter alone
would not show: how many calls there were and how the last one ended. They are local
to the call and forgotten when the report is saved (`ForgetLlm`).
`Compose` is the code from the end of that call to the
return of the report (report_generator.py:221-248, no await in it). `SaveReport`,
`PushSucceeds`, `PushFails`, `MarkPushed` and `RunFails` are the rest of the run.
`rows`, `pushed` are the table, `received` what the backend took in, `clock` and
`generatedAt` order the reports by the time they were stamped. Left out: metrics
(see `KpiSummary`) and texts, back-off pauses, the retries the Anthropic SDK makes
inside one call, and the connections the run holds (see `Lifespan`).

### KpiSummary

`stored` is `ingest_batches` (a batch id stands for its row, whose columns are the
constants `LotOf`, `EquipmentOf`, `DispatchedAt`, `Inspected`, ...), `log` is
`equipment_status_log`, keyed by equipment and time as its primary key is. `Ask`
is `GET /api/batches/kpi-summary`, and every disjunct of `ReadSummary` and
`ReadGroups` is one SQL statement, in the order of the code. `IngestBatch` and
`IngestStatus` are the commits of the two ingestion handlers; that a snapshot
enters the log in one step, as here, is what `StatusLog!RefinesTimeline` shows. What a statement
computes is an operator named after it:

| operator | statement (db/batches.py) |
|---|---|
| `Hits`, `Deduped` | `where_sql`, `deduped_cte`: filter first, then one row per LOT, the latest |
| `Base`, `Judgments`, `TopReasons` | 1., 2. and 5.; the reasons count every record with a `fail_reason_code`, whatever its result, and are cut to `ReasonLimit`; where counts tie, any of them may be cut |
| `EquipmentCounts`, `Availability` | 3. and 4.; `Intervals` and `Length` are `LEAD(ts)` over the rows of the period, the status feed having no lower bound in 3. The total is the size of the configured master (`Master`) unless that is empty or one equipment was asked for (`CountsObserved`) |
| `Details`, `Metrics`, `ReasonsBy` | 6., with `_status_metrics_by_equipment` and the reasons by equipment, cut to `ReasonLimit` for each |
| `GroupDowntime`, `Groups` | `_status_metrics_by_time_group` and the groups of `aggregate_kpi_groups` |
| `ReportHits`, `Production` … `Alarms` | `aggregate_metrics` (llm/report_generator.py:15-203), a query with `groupBy = "report"`: every dispatch of the period counts, status histories are those of the payloads, and rows without a recipe, a judgment or an `equipment_id` (`Absent`) are left out where the code leaves them out (`CountBy`, `Present`) |

Where the header counts active equipment, the model keeps the set. Left out: averages
(UPH, yield, trend), MTBF, and what is computed from other numbers of the payload
(`totalFailCount` of a report is the sum of `lotSummary.fail_count`, which nothing ties to
the records). Two dispatches of one LOT have different times
(`DispatchAssumption`): with equal times `DISTINCT ON` may choose differently in
each statement, and the parts need not agree even without a commit.

### BatchPaging

`List` and `Count` are the two statements of `GET /api/batches`, `Positions` are the places
a row can have in `ORDER BY dispatched_at DESC`, `InPage` is the LIMIT/OFFSET window. The
client is external: it asks for page 1, 2, ... while `hasNext` is true. Batches may
arrive at any time with any `dispatched_at`, because equipment sends late. The query
names no second key and the column is not unique, so rows of equal `dispatched_at`
(`Twins`) may come in another order in each statement. `PagesOf(n)` is every set of rows
that page n may show: the position of a group of twins is fixed by what is newer
(`Ahead`), and from each group come as many rows as it has positions in the window,
whichever they are.

### StatusLog and StatusTimeline

A member of `Sends` is one `POST /api/ingest/status` body; the dispatcher sends it
until it is accepted (external; status_snapshot.py:30 says that it sends what lies
behind its watermark). `log` is `equipment_status_log`, a cell is its primary key.

| action | code |
|---|---|
| `WriteRow` | one upsert of the `executemany` (db/status_log.py:28-35), blocked while another open transaction has written that cell |
| `Commit` | the end of `conn.transaction()` and the answer (api/ingest.py:76-82); second disjunct: applied, but the reply of PostgreSQL is lost |
| `Fail` | no connection or a failed statement: rolled back, 500 |
| `AbortDeadlock` | PostgreSQL ends one transaction of a circle of waiting ones; the handler answers 500 |
| `CrashRestart` | open transactions are rolled back |

`normalize_datetime_to_utc`, `normalize_equipment_status` and `equipment_key` are the
code's functions of the same name; `str.upper` is given by the constant `Upper`.
The rows a transaction has written are only visible at its commit, so `log` changes
there, by `Rows`: what the upserts of the whole snapshot write, the last one of a
cell winning. `StatusTimeline` has no transactions: a snapshot enters whole and
may be acknowledged then. `RefinesTimeline` says that the handlers do that.

### Lifespan

`Lifespan` extends `IngestPipeline` with the report runs as far as they hold
connections, and with the lifespan of main.py. Its actions call those of
`IngestPipeline` and add what the shared pool and the shutdown change:

| action | code |
|---|---|
| `Acquire`, `RunAcquires`, `Handle` | `acquire()` on a pool that everybody shares (`TotalInUse`) |
| `RefuseJob`, `RefuseRun` | `acquire()` on a closing pool, or `get_pool()` after `disconnect` (db/pool.py:32) raises; outside the inner `try` for a worker's first connection, inside it for the second |
| `LoseConnection` | the pool closed the connection of a worker it served late |
| `Leave` | `remove_job`; the last job to leave sets the event (jobs.py:21) |
| `BeginShutdown`, `Resume`, `TimeOut` | `wait_for_completion` (jobs.py:25-34); the tracker is looked at once, and a job that starts after the event was set does not take it back |
| `CancelScheduled` | `report_scheduler.stop()`: APScheduler cancels its own runs, not the triggered ones |
| `ClosePool` | `disconnect()` |

asyncpg's `Pool.close` (external) refuses new acquisitions, waits for the
connections that are out and closes all. A task that was already queued for a
connection when it began may be served after that; close does not wait again, so
its connection can be closed under it. These tasks are `late`, and
`NoRowLeftProcessing` excepts them: such a worker's row can stay PROCESSING.
When shutdown begins no request is open any more (the server answers them first),
but background tasks may run, also ones that are not in the tracker yet. uvicorn by
default waits for background tasks too, so that there is usually little left to
wait for; main.py does not rely on that, and the model does not either.

### LotStats and RagQuery

`LotStats` has no state: `Chunks` is `create_chunks`, `ReasonCounts` and `Availability`
are the preprocessor's statistics, `PerSlot` and `ErrorDistribution` the two tables of
`_slot_and_error_stats`. A payload is a record of what these read; `NoValue` stands
for what `_to_int` cannot read. Strings it can read as `nan` or `inf` are outside the model:
`int()` raises on them (derived_stats.py:65), and the query is answered with an error.

In `RagQuery` workers delete and insert the chunks of a batch (the two statements of
`save_embeddings`) while questions are answered: `Ask`, `Retrieve` (the SQL statement,
the re-ranking and the cut, with no await between them), `FindNothing`,
`RetrievalFails`, `Complete` (the LLM's answer, or the two error answers).
The vector index is approximate (schema.sql:59): `Retrieve` sees any non-empty subset
of the matching rows, and the nearest `TopK` of that; `FindNothing` may always happen.
`ShowDetail` is the detail and the latest query. The workers of one batch follow each
other, as `DriverWaits` has it in `IngestPipeline`. Distances, ages and anomalies are
in hundredths; `Score` is the code's weighted sum, times 100.

## 3. Runs

| run | question | instance |
|---|---|---|
| `ingest_core` | Do rows, answers, workers, chunks and tracker agree, and is the ledger implemented, under races, failures and a crash? | one batch id, two POSTs with equal hashes, one with others, two re-processing calls; 2 failures, 1 crash; driver waits |
| `ingest_live` | Does every handler and worker end, and every accepted batch become COMPLETED when nothing fails? Can workers that all wait for a second connection exhaust the pool? | 2 POSTs on two batches, 2 re-processing calls, pool 2, semaphore 1, 1 failure, 1 crash |
| `ingest_resend_500` | *violation:* a resend is answered 500 without a failure | 2 POSTs |
| `ingest_reprocess_twice` | *violation:* a COMPLETED job goes back to PROCESSING | 1 POST, 2 re-processing calls, driver does not wait |
| `report_runs` | Do overlapping runs keep the delivery record, retry as often as they may and no oftener, never replace the latest report by an older one, and end? | 2 scheduled and 1 triggered daily run; 3 LLM calls, 2 push attempts, 1 failure, 1 crash |
| `report_lost` | *violation:* an LLM answer of another JSON shape loses the report | 2 triggered runs |
| `kpi_summary` | Do the parts of one KPI answer agree when nothing is committed meanwhile, and what still holds when something is? | 4 batches: one LOT dispatched on both days, one LOT without records, recipe, judgment and `equipment_id`; 3 equipments, one of them without LOTs, one in the master; 3 reasons, lists of two; 3 status snapshots, two overlapping; 3 queries and a report; up to 2 commits during a query |
| `batch_paging` | Can a client that pages to the end miss a batch, or be given one twice? | 5 batches, two pairs of them dispatched at the same time, pages of 2, every order of arrival |
| `status_log` | Is the log the union of the snapshots that entered it, is an accepted snapshot there for good and whole, and does every one land? | 3 snapshots that overlap in opposite orders, times with and without zone, one instant reported twice; 1 failure, 1 crash |
| `shutdown` | Does a shutdown at any moment leave a job PROCESSING, cut a job it waits for, or hang? Do reports starve handlers and workers, or can all who hold a connection wait for another? | 2 batches, 2 POSTs, 1 re-processing, 1 scheduled and 1 triggered report, pool 2, semaphore 1 |
| `rag_query` | Do citations, order, cut and confidence of an answer belong together while chunks are replaced? Do the statistics of a batch agree? | 2 batches with 2 and 4 chunks, 3 workers, 4 questions, `TopK` 3, `ContextSize` 2; about 200 payloads |
| `rag_date_filter` | *violation:* a question with a date range is answered 500 | as `rag_query` |

**Why the bounds are enough to be interesting.** The races are between two
handlers of one id, a handler and a worker, and two workers of one batch: one
batch id and three POSTs contain them all. Two failures are what it takes to lose
a statement and then the update to FAILED, or a commit reply and then a
re-processing attempt; one crash separates what came before from what comes after,
and the two re-processing calls come on both sides of it. Production uses 10
connections and 2 slots; the runs use the smallest pools at which waiting
happens (3/2 and 2/1). For the report runs there are three LLM calls (`LlmRetries = 2`, the default of the
code), enough for every mix of timeouts and 5xx answers with a first, a middle and a last
call, and two push attempts instead of three; the theorems hold for any number.
For the KPI query two commits are enough to change both tables between any two statements,
or one of them twice. With room for two of three reasons, two of which tie, the fleet's
list and an equipment's are cut differently; the master is smaller than the plant, so that
more equipment can be active than it has. Five batches make three pages, so that rows move over two page
boundaries and the last page is partly filled; what has arrived decides whether a page
ends between two batches of equal `dispatched_at`. Two snapshots in opposite orders
deadlock, and the third waits for both. A pool of two is filled by a worker and a
report, by two reports, or by a handler and one of these, so that every kind of task
waits for every other; it is the smallest with `PoolMax > JobConcurrency`. The
shutdown run has no database failure (`MaxFaults = 0`): shutdown itself raises in every
place where a failure would, and the theorems about it hold for any number of
failures. In `rag_query` one batch is indexed three times by two workers' statements
around a question, `TopK` cuts the rows and `ContextSize` cuts them again; one detail
is looked at, before the first question, because the statistics depend on no state.

**Fairness.** `FairSpec` asks weak fairness of each started handler, worker and run,
never of a POST, a firing, a re-processing call or a crash. The event loop runs
every ready task. HTTP calls have a timeout (httpx 10 s and 30 s, Anthropic 120 s). SQL
statements have none, because db/pool.py sets no `command_timeout`: that each of them ends
or raises is an assumption on PostgreSQL and the network, and all liveness results rest on
it. A worker waiting for the
semaphore or the pool could in principle be overtaken for ever, and both serve
their waiters in FIFO order; because the workload is finite weak fairness is
enough in the model. `AcceptedIsIndexed` is conditional on `faults = 0 /\ crashes = 0`
for the whole behaviour: after a failure the code marks the job FAILED, after a
crash it leaves it PENDING or PROCESSING, and only a re-processing call helps.

`StatusLog!FairSpec` asks weak fairness of each handler and of the dispatcher's next
attempt, and strong fairness of each `WriteRow`: a row can be locked and released for
ever by others, and PostgreSQL wakes the transaction that waits for it. With weak
fairness alone a snapshot could starve behind ones that come again and again.
`Lifespan!FairLifeSpec` asks weak fairness of each handler, worker and report run
(its HTTP calls have a timeout, its statements end by the same assumption) and of the steps of
a shutdown that has begun; the pool's FIFO queue is again more than what is assumed.
`ShutdownEnds` is not obvious: `Pool.close` waits without a limit, and what it waits
for is that the LLM and the backend answer or time out and that PostgreSQL answers.

## 4. Proofs

**IngestPipelineProofs.** `TypeCorrect` needs no assumption besides the constants'.
All other safety results but the two on semaphore and pool follow from `PipelineInvariant`: `DriverWaits = TRUE` implies
`Spec => []PipelineInv`, the conjunction of the checked properties with
`RowInv` (both tables have the same batches, a worker's batch has a row, a
handler's worker exists only once the handler is done) and `WorkerInv` (what a
worker knows of the job row and the chunks at each location). `OneWorkerPerBatch`
alone is not inductive: that `Store` does not make a second worker follows from
`RowInv` (a batch with a worker has a row, so the insert fails). `ChunksExact`
alone is not either: that `MarkCompleted` finds chunks, and that
`InsertChunks` finds none, is what `WorkerInv` carries from statement to statement,
and it is preserved by the steps of *other* workers only because of `OneWorkerPerBatch`.
From it `AnswersAreStable`, `WorkersAreExclusive`, `ChunksAreExact`, `TrackerIsExact`,
`NotificationSeesChunks` and the refinement `PipelineImplementsLedger`.
`SemaphoreHolds` counts workers between the two ends of the semaphore, and
`PoolNeverCircular` uses it: with `PoolMax > JobConcurrency` (10 > 2 in the
configuration) workers that wait for their second connection cannot fill the pool.
It needs no driver discipline.

The assumption `DriverWaits` is the discipline re-processing must keep: without
it, two workers of one batch undo each other's work, as `ingest_reprocess_twice` shows.

**ReportRunsProofs.** `RunsInvariant` proves `TypeOK /\ RunInv` for any set of runs and
any attempts; `RunInv` ties the location of a run to its row, its attempts and what the
backend holds. `RunsTyped`, `DeliveryIsRecorded` and `RetriesAreExhausted` follow.
`LlmRetriesAreExhausted` needs from it that the counter of `get_completion` and the
calls that were made stay equal as long as the loop runs, whichever branch counted: only
then do the two tests, `=` and `<`, stop at the same call.
`LatestMovesForward` is the action property `LatestNeverOlder`. `GetLatestReport` is a
CHOOSE of a largest stamp, which says nothing unless a largest one exists, so the
proof needs `StampInv`: the rows are finitely many, and no stamp is ahead of the clock.
`StampsMoveForward` shows that rows are only added and that a run is stamped again
only with a later time; `LatestChosenNow` is then used of both ends of a step.

**SumTheorems.** `SumFunctionOnSet` of the community modules is a fold over a recursive
function that CHOOSE defines. `IterExists` and `IterUnique` show that there is exactly
one such function, for every finite set, and `SumRemove` that a sum is one summand and
the sum of the rest, whichever summand is taken out. From it come the facts the sums of
this server need: a sum splits (`SumSplit`), grows with set and summands (`SumGrows`),
forgets zeros (`SumDropsZeros`), and equals the sum over the groups of any partition
(`SumOfGroups`, `CountOfGroups`). Induction is by a smallest counterexample: the
ordering of the subsets of a finite set is well founded, so that a set of subsets which
violate a claim has a smallest member (`SmallestSubset`, `SubsetInduction`).

**BatchPagingProofs.** `SweepIsComplete` holds for any page size, any arrivals, any
times and any order among rows of equal time. The invariant `SweepInv` says that what was
not given yet lies behind the pages that were given, or has a twin: an arrival can only
increase what is ahead of a row (`AheadNeverFalls`), a page shows every row that shares its
time with no other and lies on it (`MissedIsBehind`, `LoneHasNoTwin`), and when `hasNext` is
false nothing lies behind the last page (`LastPage`, `AheadBelowTotal`). That the count is
taken *after* the rows is harmless, because it can only have grown. `QuietSweepsAreExact`
says what is left of the converse: without arrivals a row is repeated or missed only if
the end of a page falls among its twins (`Cut`). Both exceptions are real: TLC finds
sweeps that miss and repeat twins.

**KpiSummaryProofs.** `CountedIsListed`: the equipment that the header counts as active is
a subset of the list that a later statement returns, because rows of the status log are
never deleted (`ObservedGrows`) and the list has no lower bound in time either. The total
is bounded by the list only where the code counts what it observed; the size of the
configured master is related to nothing, and active may exceed it.

Everything else rests on `SummaryInvHolds`. Its invariant `SummaryInv` was checked by TLC
on the instance of `kpi_summary` first, and has these parts besides `TypeOK`:

- `StoryInv`: a query reads its parts in the order of the code (`Position`, `PartsOf`,
  `HasPassed`), and as long as nothing was committed each part that was read is what
  one its statement could return now (`Values`, more than one where reasons tie). This is what "one story" means, and the
  sums that must agree are then facts about one state of the tables: `DetailsAddUp`,
  `GroupsAddUp`, `ReasonsAddUp`, `MetricsAddUp`, `DowntimeIsWithin` for the KPI query,
  `CountByAddsUp`, `ReportExplains`, `HistoryAddsUp` for the report
  (`OneStateAgrees`, `ReportPartsAddUp`).
- `QuietPartsAgree` and `QuietReport`: what was established when the last part was read.
  They have to be kept of their own, because a commit after the end of a query does not
  count as coming during it, so that the finished answer need not repeat the tables.
- `GrowthInv`: with commits in between, no part claims more than the tables hold by
  now, and each covers what earlier ones claimed. A commit adds a batch, and the
  LOT it dispatches again keeps its records (`BatchAdds`).

The lists of reasons are cut, so they cannot be equal or add up. What they owe each other
is `Explains`: a list shows at least as many records of a reason as the other one, or is
full of reasons that are no rarer. `TopExplains` shows it of any list that `ORDER BY count
DESC LIMIT n` can return, however ties fall, and `ReasonsAddUp` of the equipment's lists
against the fleet's; where no list of the equipment is full, nothing was cut from them and the
fleet's counts are their sums.

`OneStory`, `CountedOnce`, `LaterCovers` and `ReportAdds` follow. Two properties have a
condition on the data, that a LOT dispatched again has as many records as before
(`DispatchRepeats`, part of the checked properties as well).

**StatusLogProofs.** `LogInv`, which `LogInvariant` proves, adds one thing to the
checked properties: a send that is accepted has entered and is done
(`AcceptedEntered`). Without it a resend after "accepted" could fail and take the
acknowledgement back. `LogDelivered` and `AcceptedIsKept` hold for any snapshots, contradicting
ones included where the property does not exclude them. `LogRefinesTimeline` maps
`Commit` to `Enter` and every other step to a stutter; it needs that a send that is
answered "accepted" is never sent again.

**LifespanProofs.** The lemmas of `IngestPipelineProofs` are used again:
`LifeStepCases` shows that every step of `Lifespan` is a step of the pipeline, a
raised exception (`RaiseInside`, `RaiseOutside`) or leaves the pipeline unchanged, so
that `PipelineInv` holds here too (`PipelineHolds`), and every life implements `BatchLedger`
(`LifeImplementsLedger`: an exception changes no table, every other step is one of
the pipeline). `NothingLeftProcessing` rests on
`Owned`: while nothing failed a PROCESSING row has a worker that holds a connection,
and `ClosedLate`: once the pool is closed only late ones do. It needs no driver
discipline. `TrackedAreServed` does, because the tracker is a set of batch ids; it speaks of a
worker's first connection, as a refused second one ends in FAILED on the first.
`SharedPoolIsNeverCircular` extends `PoolNeverCircular` to the pool that report runs share:
a run gives its first connection back before it takes the second, so whatever
they hold, only the workers inside the semaphore wait with a connection in their
hands, and with `PoolMax > JobConcurrency` they cannot hold the whole pool.

**RagQueryProofs.** `QueryInvariant` proves `TypeOK /\ IndexInv /\ AnswerInv` for any
payloads, distances, `TopK` and `ContextSize`. `IndexInv` is why no answer mixes two
copies of a batch's chunks: there is at most one worker's copy, and none between its
DELETE and its INSERT; it rests on the workers of a batch following each other, the
guard of `DeleteChunks`. `AnswerInv` says that the context is `Grounded`:
rows that match, each once, and no row that was come across is left out for one both
farther and ranked lower. `BestIsGrounded` shows this of the three operators in
turn: LIMIT leaves out only farther rows, re-ranking is a bijection of positions and
loses nothing, and the cut leaves out only rows of a higher score. `CitedOnce` turns
"each once" into the cardinality that `AnswersAreGrounded` states.

`StatisticsAgree` is about every stored payload: its invariant only says that a detail
shows what `Derived` computes, and the rest are lemmas about the operators of `LotStats`.
`HistoryTiles`: some record sorts first (`FirstRecord`), each lasts until the next
(`LastsUntilNext`), so by induction over the records behind it the durations from a
record on add up to the time to the last one (`DurationsTile`), and disjoint statuses
take disjoint parts of that. `DetailAgrees`: the failures of a batch are partitioned by
slot and by error type alike (`SlotsAndTypesAgree`), and the type that `Dominant`
chooses is one of a most frequent entry (`DominantIsMostFrequent`), although both
are defined with CHOOSE.

**Assumptions.** The constants' assumptions, which TLC evaluates in every run, are all
the theorems rest on, besides `DriverWaits` and `PoolMax > JobConcurrency` where a theorem
names them. Those the sums need: there are finitely many equipments, reasons and entries
of the master, `"RUN"` and `"STOP"` are statuses, a report has no equipment filter (`KpiSummary`);
records, inspection entries and status history are JSON arrays, so finite ones, and
times are natural numbers (`LotStats`). A row of `ingest_batches` cannot have other data.

**Only model-checked:** the liveness properties (`AcceptedIsIndexed`, `EveryTaskEnds`,
`EveryRunEnds`, `EverySnapshotLands`, `ShutdownEnds`, `SharedPoolServesAll`), which need
fairness and ENABLED, which this prover does not handle, and the four violations,
which are counterexamples. Every invariant, action property and refinement that a passing
run checks is a theorem. *Only proved* are the types of `Lifespan` (`LifeTyped`), and that
`PipelineInv` and `RefinesLedger`, which `ingest_core` checks, hold under shutdown too.

## 5. Findings

1. *A resend races the first send and gets 500.* The check (ingest.py:26) and the
   insert (ingest.py:47) are separated by an await; the loser of the race hits the
   primary key and is answered "Database storage failed" although ingest.py:33 and
   tests/test_e2e.py:70 promise `duplicate_accepted`. Safety is kept by the primary key.
2. *Two workers of one batch.* job_worker.py:76 announces an idempotency check;
   it reads the status without a lock, so concurrent re-processing passes it twice.
3. *A misshapen LLM answer loses the report.* report_generator.py:231 provides the
   statistics when the analysis fails, but an answer that is JSON of another shape
   raises outside the `try`, and no row is written.
4. *A date range makes every question fail.* The dates of `filters.date_range` come out
   of a JSON body as strings and are bound to a `timestamptz` parameter
   (retriever.py:53), which asyncpg refuses: the answer is 500, although
   models/query.py:6 documents the filter. tests/test_retriever.py:44 passes strings
   too, to a mocked connection.

## 6. What is left

The order of the work was: ingestion pipeline and its refinement, report runs, KPI
query, paging, status log, shutdown, reports' metrics, questions and statistics.

*Not modelled, and why.* The embedding model (a neural network; `IngestPipeline` lets
it fail where the worker calls it). Floating-point statistics: means, percentiles,
UPH, trends, MTBF, geometric and singulation statistics, histograms. Texts: chunk
texts, prompts, the rewriting of alarm recommendations. JWT and API-key checks,
logging, the health endpoint (one row count), data classes. Running migrations, which
happens before the process starts.

*Could be added.* The connections that queries, status posts and reads hold are not
counted in `Lifespan` (each holds one and takes no second, so they add waiting, not a
circle). A report composed while the pool closes is lost (`RefuseRun`), and the keys
`equipment_key` chooses from can change between snapshots: the repository promises
nothing about either, so no property is stated.
