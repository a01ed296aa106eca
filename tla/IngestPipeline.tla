--------------------------- MODULE IngestPipeline ---------------------------
(***************************************************************************)
(* POST /api/ingest and the background worker it spawns: the handler of    *)
(* api/ingest.py, process_batch_job of pipeline/job_worker.py, the tables  *)
(* they share (ingest_batches, ingest_jobs, lot_embeddings), the job       *)
(* tracker, the job semaphore and the asyncpg pool.                        *)
(*                                                                         *)
(* Every handler and every worker is an asyncio task, so it can lose the   *)
(* processor only at an await: one action below is the code between two    *)
(* awaits that touch shared state, and one SQL statement (or transaction)  *)
(* is atomic.  The background task that request r spawns is named r too.   *)
(* A member of Reprocs is one later call of process_batch_job(batch_id)    *)
(* without a batch, the re-processing its docstring describes.             *)
(***************************************************************************)
EXTENDS Naturals, FiniteSets

CONSTANTS
    Batches,        \* batch ids (primary key of ingest_batches)
    Contents,       \* payloads; two payloads may carry the same hashes
    HashesOf,       \* payload -> its (lotHash, equipmentHash)
    Requests,       \* POSTs of the workload
    Reprocs,        \* re-processing calls of the workload
    BatchOf,        \* the batch id each of them is about
    ContentOf,      \* the payload each POST carries
    PoolMax,        \* settings.PG_POOL_MAX
    JobConcurrency, \* the semaphore's initial value
    NotifyMode,     \* backend notification: "off", "on", or "badkey"
    DriverWaits,    \* TRUE: re-processing starts only when no worker of
                    \* that batch is running
    MaxFaults,      \* bound on database failures and lost connections
    MaxCrashes,     \* bound on process crashes
    NoRow           \* "there is no such row"

Jobs == Requests \cup Reprocs

ASSUME WorkloadAssumption ==
    /\ Requests \cap Reprocs = {}
    /\ BatchOf \in [Jobs -> Batches]
    /\ ContentOf \in [Requests -> Contents]
ASSUME FiniteAssumption == IsFiniteSet(Requests) /\ IsFiniteSet(Reprocs)
ASSUME NoRowAssumption ==
    NoRow \notin Contents \cup {"PENDING", "PROCESSING", "COMPLETED", "FAILED"}
ASSUME BoundAssumption ==
    /\ PoolMax \in Nat /\ JobConcurrency \in Nat
    /\ MaxFaults \in Nat /\ MaxCrashes \in Nat
    /\ NotifyMode \in {"off", "on", "badkey"} /\ DriverWaits \in BOOLEAN

VARIABLES
    batches,      \* ingest_batches: payload_raw of each row
    status,       \* ingest_jobs.status of each row
    vectors,      \* lot_embeddings: whose complete chunk sets are there
    notified,     \* workers whose POST reached the web backend
    active_jobs,  \* JobTracker.active_jobs: batch ids, not tasks
    reqPc,        \* where each handler is
    answer,       \* what each handler returned
    jobPc,        \* where each worker is
    faults, crashes

tables  == <<batches, status, vectors>>
vars == <<batches, status, vectors, notified, active_jobs, reqPc, answer,
          jobPc, faults, crashes>>

JobStatus == {"PENDING", "PROCESSING", "COMPLETED", "FAILED"}

\* Worker locations at which the job's own connection is checked out; at
\* "load" get_batch_payload holds a second one.
Connected == {"check", "mark", "loadwait", "load", "delete", "insert",
              "notify", "complete", "fail"}
InSemaphore == Connected \cup {"conn", "exit"}
JobLocations == InSemaphore \cup {"idle", "spawned", "sem", "done"}

JobsAt(locations) == {j \in Jobs : jobPc[j] \in locations}
LiveJobs == {j \in Jobs : jobPc[j] \notin {"idle", "done"}}
RequestsHolding == {r \in Requests : reqPc[r] \in {"check", "store"}}

\* Connections checked out of the pool.
InUse == Cardinality(RequestsHolding) + Cardinality(JobsAt(Connected))
           + Cardinality(JobsAt({"load"}))

TypeOK ==
    /\ batches \in [Batches -> Contents \cup {NoRow}]
    /\ status \in [Batches -> JobStatus \cup {NoRow}]
    /\ vectors \in [Batches -> SUBSET Jobs]
    /\ notified \subseteq Jobs
    /\ active_jobs \subseteq Batches
    /\ reqPc \in [Requests -> {"idle", "acquire", "check", "store", "done"}]
    /\ answer \in [Requests -> {"none", "accepted", "duplicate_accepted",
                                "conflict", "error"}]
    /\ jobPc \in [Jobs -> JobLocations]
    /\ faults \in 0..MaxFaults
    /\ crashes \in 0..MaxCrashes

Init ==
    /\ batches = [b \in Batches |-> NoRow]
    /\ status = [b \in Batches |-> NoRow]
    /\ vectors = [b \in Batches |-> {}]
    /\ notified = {}
    /\ active_jobs = {}
    /\ reqPc = [r \in Requests |-> "idle"]
    /\ answer = [r \in Requests |-> "none"]
    /\ jobPc = [j \in Jobs |-> "idle"]
    /\ faults = 0
    /\ crashes = 0

Fault == faults < MaxFaults /\ faults' = faults + 1

-----------------------------------------------------------------------------
(* ingest_batch *)

Receive(r) ==
    /\ reqPc[r] = "idle"
    /\ reqPc' = [reqPc EXCEPT ![r] = "acquire"]
    /\ UNCHANGED <<tables, notified, active_jobs, answer, jobPc, faults, crashes>>

AcquireForIngest(r) ==
    /\ reqPc[r] = "acquire"
    /\ InUse < PoolMax
    /\ reqPc' = [reqPc EXCEPT ![r] = "check"]
    /\ UNCHANGED <<tables, notified, active_jobs, answer, jobPc, faults, crashes>>

Answer(r, a) ==
    /\ reqPc' = [reqPc EXCEPT ![r] = "done"]
    /\ answer' = [answer EXCEPT ![r] = a]

\* The idempotency check; its verdict is used only after another await.
CheckExisting(r) ==
    LET old == batches[BatchOf[r]] IN
    /\ reqPc[r] = "check"
    /\ \/ /\ old = NoRow
          /\ reqPc' = [reqPc EXCEPT ![r] = "store"]
          /\ UNCHANGED answer
       \/ /\ old # NoRow
          /\ HashesOf[old] # HashesOf[ContentOf[r]]
          /\ Answer(r, "conflict")
       \/ /\ old # NoRow
          /\ HashesOf[old] = HashesOf[ContentOf[r]]
          /\ Answer(r, "duplicate_accepted")
    /\ UNCHANGED <<tables, notified, active_jobs, jobPc, faults, crashes>>

\* Mutant: the row is upserted, so a later payload replaces an earlier one.
StoreUpserting(r) ==
    /\ reqPc[r] = "store"
    /\ batches' = [batches EXCEPT ![BatchOf[r]] = ContentOf[r]]
    /\ status' = [status EXCEPT ![BatchOf[r]] = "PENDING"]
    /\ Answer(r, "accepted")
    /\ UNCHANGED <<vectors, notified, active_jobs, jobPc, faults, crashes>>

\* The transaction {save_ingest_batch; create_ingest_job}, and the response.
\* The last disjunct: the commit is applied, but the connection is lost before
\* the handler hears of it (or while it gives the connection back), so it
\* answers 500 and spawns nothing.
Store(r) ==
    LET b == BatchOf[r] IN
    /\ reqPc[r] = "store"
    /\ batches[b] = NoRow
    /\ batches' = [batches EXCEPT ![b] = ContentOf[r]]
    /\ status' = [status EXCEPT ![b] = IF @ = NoRow THEN "PENDING" ELSE @]
    /\ \/ /\ Answer(r, "accepted")
          /\ jobPc' = [jobPc EXCEPT ![r] = "spawned"]
          /\ UNCHANGED faults
       \/ /\ Answer(r, "error")
          /\ Fault
          /\ UNCHANGED jobPc
    /\ UNCHANGED <<vectors, notified, active_jobs, crashes>>

\* Mutant: the insert ignores the conflict, so both handlers accept and spawn.
StoreIgnoringConflict(r) ==
    /\ reqPc[r] = "store"
    /\ batches[BatchOf[r]] # NoRow
    /\ Answer(r, "accepted")
    /\ jobPc' = [jobPc EXCEPT ![r] = "spawned"]
    /\ UNCHANGED <<tables, notified, active_jobs, faults, crashes>>

\* The row appeared since the check: the primary key aborts the transaction.
StoreDuplicateKey(r) ==
    /\ reqPc[r] = "store"
    /\ batches[BatchOf[r]] # NoRow
    /\ Answer(r, "error")
    /\ UNCHANGED <<tables, notified, active_jobs, jobPc, faults, crashes>>

\* No connection to be had, or a statement fails and is rolled back.
RequestFails(r) ==
    /\ reqPc[r] \in {"acquire", "check", "store"}
    /\ Answer(r, "error")
    /\ Fault
    /\ UNCHANGED <<tables, notified, active_jobs, jobPc, crashes>>

-----------------------------------------------------------------------------
(* process_batch_job *)

Goto(j, location) == jobPc' = [jobPc EXCEPT ![j] = location]

\* A statement of worker j is executed.  Either its reply arrives, or the
\* connection is lost after it was applied; then the update to FAILED raises
\* on the dead connection as well and the worker leaves through "finally".
Executed(j, next) ==
    \/ Goto(j, next) /\ UNCHANGED faults
    \/ Goto(j, "exit") /\ Fault

\* UPDATE ingest_jobs SET status = s WHERE batch_id = b
SetStatus(b, s) ==
    status' = [status EXCEPT ![b] = IF @ = NoRow THEN NoRow ELSE s]

TrackJob(j) ==
    /\ jobPc[j] = "spawned"
    /\ active_jobs' = active_jobs \cup {BatchOf[j]}
    /\ Goto(j, "sem")
    /\ UNCHANGED <<tables, notified, reqPc, answer, faults, crashes>>

\* Mutant: no semaphore.
EnterFreely(j) ==
    /\ jobPc[j] = "sem"
    /\ Goto(j, "conn")
    /\ UNCHANGED <<tables, notified, active_jobs, reqPc, answer, faults, crashes>>

EnterSemaphore(j) ==
    /\ jobPc[j] = "sem"
    /\ Cardinality(JobsAt(InSemaphore)) < JobConcurrency
    /\ Goto(j, "conn")
    /\ UNCHANGED <<tables, notified, active_jobs, reqPc, answer, faults, crashes>>

AcquireConnection(j) ==
    /\ jobPc[j] = "conn"
    /\ InUse < PoolMax
    /\ Goto(j, "check")
    /\ UNCHANGED <<tables, notified, active_jobs, reqPc, answer, faults, crashes>>

\* Mutant: the idempotency check is gone.
CheckNothing(j) ==
    /\ jobPc[j] = "check"
    /\ Goto(j, "mark")
    /\ UNCHANGED <<tables, notified, active_jobs, reqPc, answer, faults, crashes>>

CheckCompleted(j) ==
    /\ jobPc[j] = "check"
    /\ Goto(j, IF status[BatchOf[j]] = "COMPLETED" THEN "exit" ELSE "mark")
    /\ UNCHANGED <<tables, notified, active_jobs, reqPc, answer, faults, crashes>>

\* Mutant: the job row is left as it was found.
MarkNothing(j) ==
    /\ jobPc[j] = "mark"
    /\ Executed(j, IF j \in Reprocs THEN "loadwait" ELSE "delete")
    /\ UNCHANGED <<tables, notified, active_jobs, reqPc, answer, crashes>>

\* A re-processing call has no batch and must load it before chunking.
MarkProcessing(j) ==
    /\ jobPc[j] = "mark"
    /\ SetStatus(BatchOf[j], "PROCESSING")
    /\ Executed(j, IF j \in Reprocs THEN "loadwait" ELSE "delete")
    /\ UNCHANGED <<batches, vectors, notified, active_jobs, reqPc, answer, crashes>>

\* get_batch_payload takes a second connection while the job's is held.
AcquireSecond(j) ==
    /\ jobPc[j] = "loadwait"
    /\ InUse < PoolMax
    /\ Goto(j, "load")
    /\ UNCHANGED <<tables, notified, active_jobs, reqPc, answer, faults, crashes>>

LoadPayload(j) ==
    /\ jobPc[j] = "load"
    /\ Goto(j, IF batches[BatchOf[j]] = NoRow THEN "fail" ELSE "delete")
    /\ UNCHANGED <<tables, notified, active_jobs, reqPc, answer, faults, crashes>>

\* Mutant: save_embeddings only inserts.
KeepOldChunks(j) ==
    /\ jobPc[j] = "delete"
    /\ Goto(j, "insert")
    /\ UNCHANGED <<tables, notified, active_jobs, reqPc, answer, faults, crashes>>

\* Mutant: the backend is notified before the new chunks are inserted.
DeleteAndNotify(j) ==
    /\ jobPc[j] = "delete"
    /\ vectors' = [vectors EXCEPT ![BatchOf[j]] = {}]
    /\ notified' = notified \cup {j}
    /\ Goto(j, "insert")
    /\ UNCHANGED <<batches, status, active_jobs, reqPc, answer, faults, crashes>>

\* Chunking and embedding run without an await, then save_embeddings deletes
\* the batch's old chunks in a statement of its own ...
DeleteOldChunks(j) ==
    /\ jobPc[j] = "delete"
    /\ vectors' = [vectors EXCEPT ![BatchOf[j]] = {}]
    /\ Executed(j, "insert")
    /\ UNCHANGED <<batches, status, notified, active_jobs, reqPc, answer, crashes>>

\* ... and inserts the new ones with one executemany, which is atomic.
InsertChunks(j) ==
    /\ jobPc[j] = "insert"
    /\ vectors' = [vectors EXCEPT ![BatchOf[j]] = @ \cup {j}]
    /\ Executed(j, "notify")
    /\ UNCHANGED <<batches, status, notified, active_jobs, reqPc, answer, crashes>>

\* Mutant: with notification off the job returns before it is completed.
NotifyReturnsEarly(j) ==
    /\ jobPc[j] = "notify"
    /\ Goto(j, IF NotifyMode = "off" THEN "exit" ELSE "complete")
    /\ UNCHANGED <<tables, notified, active_jobs, reqPc, answer, faults, crashes>>

\* Mutant: the POST has no timeout and the backend does not answer.
NotifyHangs(j) ==
    /\ jobPc[j] = "notify"
    /\ UNCHANGED vars

\* A POST that fails is logged and forgotten; a key that is present but
\* unusable raises inside the job's try block.
NotifyBackend(j) ==
    /\ jobPc[j] = "notify"
    /\ \/ NotifyMode = "off" /\ Goto(j, "complete") /\ UNCHANGED notified
       \/ /\ NotifyMode = "on"
          /\ notified' \in {notified, notified \cup {j}}
          /\ Goto(j, "complete")
       \/ NotifyMode = "badkey" /\ Goto(j, "fail") /\ UNCHANGED notified
    /\ UNCHANGED <<tables, active_jobs, reqPc, answer, faults, crashes>>

MarkCompleted(j) ==
    /\ jobPc[j] = "complete"
    /\ SetStatus(BatchOf[j], "COMPLETED")
    /\ Executed(j, "exit")
    /\ UNCHANGED <<batches, vectors, notified, active_jobs, reqPc, answer, crashes>>

\* Mutant: a status that is none of the four.
MarkError(j) ==
    /\ jobPc[j] = "fail"
    /\ SetStatus(BatchOf[j], "ERROR")
    /\ Goto(j, "exit")
    /\ UNCHANGED <<batches, vectors, notified, active_jobs, reqPc, answer,
                   faults, crashes>>

MarkFailed(j) ==
    /\ jobPc[j] = "fail"
    /\ SetStatus(BatchOf[j], "FAILED")
    /\ Executed(j, "exit")
    /\ UNCHANGED <<batches, vectors, notified, active_jobs, reqPc, answer, crashes>>

\* The semaphore is released and remove_job forgets the batch id.
LeaveJob(j) ==
    /\ jobPc[j] = "exit"
    /\ Goto(j, "done")
    /\ active_jobs' = active_jobs \ {BatchOf[j]}
    /\ UNCHANGED <<tables, notified, reqPc, answer, faults, crashes>>

\* An exception inside the inner try: the except clause records the failure.
RaiseInside(j) ==
    /\ jobPc[j] \in {"mark", "loadwait", "load", "delete", "insert", "complete"}
    /\ Goto(j, "fail")
    /\ UNCHANGED <<tables, notified, active_jobs, reqPc, answer, crashes>>

\* An exception no except clause survives: while acquiring, at the status
\* check, in the except clause itself, or on a connection that is dead.
RaiseOutside(j) ==
    /\ jobPc[j] \in {"conn", "check", "mark", "delete", "insert", "complete", "fail"}
    /\ Goto(j, "exit")
    /\ UNCHANGED <<tables, notified, active_jobs, reqPc, answer, crashes>>

\* Mutant: remove_job is not in a "finally".
AbortUntracked(j) ==
    /\ jobPc[j] \in {"conn", "check", "mark", "delete", "insert", "complete", "fail"}
    /\ Goto(j, "done")
    /\ Fault
    /\ UNCHANGED <<tables, notified, active_jobs, reqPc, answer, crashes>>

\* A statement (or the embedder) fails, or the connection does not come.
StatementFails(j) == RaiseInside(j) /\ Fault

WorkerAborts(j) == RaiseOutside(j) /\ Fault

-----------------------------------------------------------------------------
(* The re-processing driver: reset_failed_job, then process_batch_job(id).  *)
(* It is external, it works from the rows of ingest_jobs.                   *)
Reprocess(p) ==
    LET b == BatchOf[p] IN
    /\ jobPc[p] = "idle"
    /\ status[b] # NoRow
    /\ DriverWaits => \A j \in LiveJobs : BatchOf[j] # b
    /\ status' = [status EXCEPT ![b] = IF @ = "FAILED" THEN "PENDING" ELSE @]
    /\ Goto(p, "spawned")
    /\ UNCHANGED <<batches, vectors, notified, active_jobs, reqPc, answer,
                   faults, crashes>>

(* The process dies and is started again: handlers, workers, tracker and   *)
(* semaphore are gone, the tables stay, and startup looks at none of them. *)
CrashRestart ==
    /\ crashes < MaxCrashes
    /\ crashes' = crashes + 1
    /\ reqPc' = [r \in Requests |-> IF reqPc[r] = "idle" THEN "idle" ELSE "done"]
    /\ jobPc' = [j \in Jobs |-> IF jobPc[j] = "idle" THEN "idle" ELSE "done"]
    /\ active_jobs' = {}
    /\ UNCHANGED <<tables, notified, answer, faults>>

(* Every task of the workload has run: the server waits for more.          *)
Quiescent ==
    /\ \A r \in Requests : reqPc[r] = "done"
    /\ LiveJobs = {}
    /\ UNCHANGED vars

HandlerStep(r) ==
    \/ AcquireForIngest(r) \/ CheckExisting(r) \/ Store(r)
    \/ StoreDuplicateKey(r) \/ RequestFails(r)

WorkerStep(j) ==
    \/ TrackJob(j) \/ EnterSemaphore(j) \/ AcquireConnection(j)
    \/ CheckCompleted(j) \/ MarkProcessing(j) \/ AcquireSecond(j)
    \/ LoadPayload(j) \/ DeleteOldChunks(j) \/ InsertChunks(j)
    \/ NotifyBackend(j) \/ MarkCompleted(j) \/ MarkFailed(j) \/ LeaveJob(j)
    \/ StatementFails(j) \/ WorkerAborts(j)

Next ==
    \/ \E r \in Requests : Receive(r) \/ HandlerStep(r)
    \/ \E j \in Jobs : WorkerStep(j)
    \/ \E p \in Reprocs : Reprocess(p)
    \/ CrashRestart
    \/ Quiescent

Spec == Init /\ [][Next]_vars

(* The event loop runs every task that can run, and asyncio.Semaphore and  *)
(* the pool serve waiters in order.  Nobody promises a request, a          *)
(* re-processing call or a crash.                                          *)
FairSpec ==
    /\ Spec
    /\ \A r \in Requests : WF_vars(HandlerStep(r))
    /\ \A j \in Jobs : WF_vars(WorkerStep(j))

-----------------------------------------------------------------------------
(* Safety *)

(* What a handler told its client stays true of the database: "accepted"   *)
(* means this very payload is the stored one and a job row tracks it,      *)
(* "duplicate_accepted" that the stored batch has the request's hashes, a  *)
(* conflict that it has others.  It survives crashes, races of two         *)
(* handlers on one batch id and lost commit replies.                       *)
AnswersStayTrue ==
    \A r \in Requests :
        LET stored == batches[BatchOf[r]] IN
        /\ answer[r] = "accepted" =>
               stored = ContentOf[r] /\ status[BatchOf[r]] # NoRow
        /\ answer[r] = "duplicate_accepted" =>
               stored # NoRow /\ HashesOf[stored] = HashesOf[ContentOf[r]]
        /\ answer[r] = "conflict" =>
               stored # NoRow /\ HashesOf[stored] # HashesOf[ContentOf[r]]

(* No batch id is processed by two workers at a time, although nothing but *)
(* the primary key of ingest_batches and the driver's patience prevents it.*)
OneWorkerPerBatch ==
    \A j, k \in LiveJobs : BatchOf[j] = BatchOf[k] => j = k

(* lot_embeddings never holds two copies of a batch's chunks, and a        *)
(* COMPLETED job's batch is searchable, whatever failed, crashed or was    *)
(* processed again on the way.                                             *)
ChunksExact ==
    \A b \in Batches :
        /\ \A j, k \in vectors[b] : j = k
        /\ status[b] = "COMPLETED" => vectors[b] # {}

(* The tracker, which only knows batch ids, knows every worker that        *)
(* shutdown has to wait for, and nothing else.                             *)
TrackerExact ==
    active_jobs = {BatchOf[j] : j \in {k \in LiveJobs : jobPc[k] # "spawned"}}

(* When the web backend learns of a batch, the batch is already searchable *)
(* and not yet COMPLETED.                                                  *)
NotifySeesChunks ==
    [][\A j \in notified' \ notified :
          vectors[BatchOf[j]] # {} /\ status[BatchOf[j]] = "PROCESSING"]_vars

(* The pool is never exhausted by workers that all wait for their second   *)
(* connection: if one waits, a connection is free or some holder can       *)
(* return its own without getting another.                                 *)
NoCircularWait ==
    JobsAt({"loadwait"}) # {} =>
        \/ InUse < PoolMax
        \/ RequestsHolding # {}
        \/ JobsAt(Connected \ {"loadwait"}) # {}

(* A client that resends a stored batch, with the same hashes, is told so: *)
(* a 500 only ever comes from a failure of the database.                   *)
DuplicateNever500 ==
    \A r \in Requests : answer[r] = "error" => faults > 0

(* The worker's idempotency check: a job that is COMPLETED is not processed *)
(* again.                                                                   *)
CompletedIsFinal ==
    [][\A b \in Batches :
          status[b] = "COMPLETED" => status'[b] = "COMPLETED"]_vars

(* The pipeline keeps the promises of BatchLedger: a batch is absent until  *)
(* its rows are committed, done when its job is COMPLETED, and in between   *)
(* searchable while lot_embeddings holds its chunks.                        *)
Phase ==
    [b \in Batches |->
        CASE status[b] = NoRow -> "absent"
          [] status[b] = "COMPLETED" -> "done"
          [] status[b] \notin {NoRow, "COMPLETED"} /\ vectors[b] = {} -> "stored"
          [] status[b] \notin {NoRow, "COMPLETED"} /\ vectors[b] # {} -> "searchable"]

Ledger == INSTANCE BatchLedger WITH ledger <- batches, phase <- Phase

(* The detailed pipeline implements the ledger: a stored payload is never   *)
(* replaced, COMPLETED is reached only with the chunks in place and is      *)
(* never left, and no step after it withdraws the chunks.                   *)
RefinesLedger == Ledger!LedgerSpec

-----------------------------------------------------------------------------
(* What makes the safety properties inductive *)

\* Rows, answers and tasks: both tables have the same batches, a worker's
\* batch has a row, and a handler's worker and answer exist only at its end.
RowInv ==
    /\ \A b \in Batches : batches[b] = NoRow <=> status[b] = NoRow
    /\ \A j \in Jobs : jobPc[j] # "idle" => status[BatchOf[j]] # NoRow
    /\ \A r \in Requests :
           answer[r] # "none" \/ jobPc[r] # "idle" => reqPc[r] = "done"

\* What a worker knows of its batch's job row and chunks at each location.
WorkerInv ==
    /\ \A j \in Jobs :
        LET b == BatchOf[j] IN
        /\ jobPc[j] \in Connected \ {"check"} => status[b] # "COMPLETED"
        /\ jobPc[j] \in Connected \ {"check", "mark", "fail"} =>
               status[b] = "PROCESSING"
        /\ jobPc[j] = "insert" => vectors[b] = {}
        /\ jobPc[j] \in {"notify", "complete"} => vectors[b] = {j}
    /\ \A b \in Batches : status[b] = NoRow => vectors[b] = {}

(* The inductive invariant: while re-processing waits for a running worker, *)
(* rows, answers, workers, chunks and tracker always agree.                 *)
PipelineInv ==
    RowInv /\ AnswersStayTrue /\ OneWorkerPerBatch /\ WorkerInv
      /\ ChunksExact /\ TrackerExact

-----------------------------------------------------------------------------
(* Liveness *)

(* As long as nothing fails or crashes, an accepted batch becomes COMPLETED *)
(* (with ChunksExact: searchable), however the workers and the pool         *)
(* interleave.                                                              *)
AcceptedIsIndexed ==
    [](faults = 0 /\ crashes = 0) =>
        \A r \in Requests :
            answer[r] = "accepted" ~> status[BatchOf[r]] = "COMPLETED"

(* Every request that reached the handler is answered, and every worker    *)
(* ends, giving back its semaphore slot and its connections.               *)
EveryTaskEnds ==
    /\ \A r \in Requests : reqPc[r] = "acquire" ~> reqPc[r] = "done"
    /\ \A j \in Jobs : jobPc[j] = "spawned" ~> jobPc[j] = "done"
=============================================================================
