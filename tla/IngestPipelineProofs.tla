------------------------ MODULE IngestPipelineProofs ------------------------
(***************************************************************************)
(* Theorems of IngestPipeline for every workload, pool and semaphore size, *)
(* number of failures and number of crashes.                               *)
(***************************************************************************)
EXTENDS IngestPipeline, FiniteSetTheorems, TLAPS

LEMMA JobsFacts ==
    /\ Requests \subseteq Jobs /\ Reprocs \subseteq Jobs
    /\ \A j \in Jobs : BatchOf[j] \in Batches
    /\ \A r \in Requests : ContentOf[r] \in Contents
    /\ NoRow \notin JobStatus /\ NoRow \notin Contents
BY WorkloadAssumption, NoRowAssumption DEF Jobs, JobStatus

LEMMA FaultIsCounted == ASSUME TypeOK, Fault PROVE faults' \in 0..MaxFaults
BY BoundAssumption DEF TypeOK, Fault

LEMMA ExecutedIsTyped ==
    ASSUME TypeOK, NEW j \in Jobs, NEW next \in JobLocations, Executed(j, next)
    PROVE  jobPc' \in [Jobs -> JobLocations] /\ faults' \in 0..MaxFaults
BY FaultIsCounted
   DEF TypeOK, Executed, Goto, JobLocations, InSemaphore, Connected

LEMMA StatusIsTyped ==
    ASSUME TypeOK, NEW b \in Batches, NEW s \in JobStatus, SetStatus(b, s)
    PROVE  status' \in [Batches -> JobStatus \cup {NoRow}]
BY DEF TypeOK, SetStatus

LEMMA HandlerTyped ==
    ASSUME TypeOK, NEW r \in Requests, Receive(r) \/ HandlerStep(r)
    PROVE  TypeOK'
<1> USE JobsFacts DEF tables
<1>1. CASE Receive(r)
  BY <1>1 DEF TypeOK, Receive
<1>2. CASE AcquireForIngest(r)
  BY <1>2 DEF TypeOK, AcquireForIngest
<1>3. CASE CheckExisting(r)
  BY <1>3 DEF TypeOK, CheckExisting, Answer
<1>4. CASE Store(r)
  <2>1. faults' \in 0..MaxFaults
    BY <1>4, FaultIsCounted DEF Store, TypeOK
  <2>2. jobPc' \in [Jobs -> JobLocations]
    BY <1>4 DEF Store, TypeOK, JobLocations
  <2>3. status' \in [Batches -> JobStatus \cup {NoRow}]
    BY <1>4 DEF Store, TypeOK, JobStatus
  <2> QED
    BY <1>4, <2>1, <2>2, <2>3 DEF TypeOK, Store, Answer
<1>5. CASE StoreDuplicateKey(r)
  BY <1>5 DEF TypeOK, StoreDuplicateKey, Answer
<1>6. CASE RequestFails(r)
  BY <1>6, FaultIsCounted DEF TypeOK, RequestFails, Answer
<1> QED
  BY <1>1, <1>2, <1>3, <1>4, <1>5, <1>6 DEF HandlerStep

LEMMA RaiseTyped ==
    ASSUME TypeOK, NEW j \in Jobs, RaiseInside(j) \/ RaiseOutside(j)
    PROVE  jobPc' \in [Jobs -> JobLocations]
BY DEF TypeOK, RaiseInside, RaiseOutside, Goto, JobLocations, InSemaphore, Connected

LEMMA WorkerTyped ==
    ASSUME TypeOK, NEW j \in Jobs, WorkerStep(j)
    PROVE  TypeOK'
<1> USE JobsFacts DEF tables
<1>1. CASE TrackJob(j)
  BY <1>1 DEF TypeOK, TrackJob, Goto, JobLocations
<1>2. CASE EnterSemaphore(j)
  BY <1>2 DEF TypeOK, EnterSemaphore, Goto, JobLocations, InSemaphore
<1>3. CASE AcquireConnection(j)
  BY <1>3 DEF TypeOK, AcquireConnection, Goto, JobLocations, InSemaphore, Connected
<1>4. CASE CheckCompleted(j)
  BY <1>4 DEF TypeOK, CheckCompleted, Goto, JobLocations, InSemaphore, Connected
<1>5. CASE MarkProcessing(j)
  <2>1. status' \in [Batches -> JobStatus \cup {NoRow}]
    BY <1>5, StatusIsTyped DEF MarkProcessing, JobStatus
  <2>2. jobPc' \in [Jobs -> JobLocations] /\ faults' \in 0..MaxFaults
    BY <1>5, ExecutedIsTyped DEF MarkProcessing, JobLocations, InSemaphore, Connected
  <2> QED
    BY <1>5, <2>1, <2>2 DEF TypeOK, MarkProcessing
<1>6. CASE AcquireSecond(j)
  BY <1>6 DEF TypeOK, AcquireSecond, Goto, JobLocations, InSemaphore, Connected
<1>7. CASE LoadPayload(j)
  BY <1>7 DEF TypeOK, LoadPayload, Goto, JobLocations, InSemaphore, Connected
<1>8. CASE DeleteOldChunks(j)
  <2>1. jobPc' \in [Jobs -> JobLocations] /\ faults' \in 0..MaxFaults
    BY <1>8, ExecutedIsTyped DEF DeleteOldChunks, JobLocations, InSemaphore, Connected
  <2> QED
    BY <1>8, <2>1 DEF TypeOK, DeleteOldChunks
<1>9. CASE InsertChunks(j)
  <2>1. jobPc' \in [Jobs -> JobLocations] /\ faults' \in 0..MaxFaults
    BY <1>9, ExecutedIsTyped DEF InsertChunks, JobLocations, InSemaphore, Connected
  <2> QED
    BY <1>9, <2>1 DEF TypeOK, InsertChunks
<1>10. CASE NotifyBackend(j)
  BY <1>10 DEF TypeOK, NotifyBackend, Goto, JobLocations, InSemaphore, Connected
<1>11. CASE MarkCompleted(j)
  <2>1. status' \in [Batches -> JobStatus \cup {NoRow}]
    BY <1>11, StatusIsTyped DEF MarkCompleted, JobStatus
  <2>2. jobPc' \in [Jobs -> JobLocations] /\ faults' \in 0..MaxFaults
    BY <1>11, ExecutedIsTyped DEF MarkCompleted, JobLocations, InSemaphore
  <2> QED
    BY <1>11, <2>1, <2>2 DEF TypeOK, MarkCompleted
<1>12. CASE MarkFailed(j)
  <2>1. status' \in [Batches -> JobStatus \cup {NoRow}]
    BY <1>12, StatusIsTyped DEF MarkFailed, JobStatus
  <2>2. jobPc' \in [Jobs -> JobLocations] /\ faults' \in 0..MaxFaults
    BY <1>12, ExecutedIsTyped DEF MarkFailed, JobLocations, InSemaphore
  <2> QED
    BY <1>12, <2>1, <2>2 DEF TypeOK, MarkFailed
<1>13. CASE LeaveJob(j)
  BY <1>13 DEF TypeOK, LeaveJob, Goto, JobLocations
<1>14. CASE StatementFails(j)
  BY <1>14, FaultIsCounted, RaiseTyped DEF TypeOK, StatementFails, RaiseInside
<1>15. CASE WorkerAborts(j)
  BY <1>15, FaultIsCounted, RaiseTyped DEF TypeOK, WorkerAborts, RaiseOutside
<1> QED
  BY <1>1, <1>2, <1>3, <1>4, <1>5, <1>6, <1>7, <1>8, <1>9, <1>10, <1>11,
     <1>12, <1>13, <1>14, <1>15 DEF WorkerStep

(* Every table, program counter and counter of the pipeline keeps its type *)
(* through all handlers, workers, failures and crashes.                    *)
THEOREM TypeCorrect == Spec => []TypeOK
<1>1. Init => TypeOK
  BY BoundAssumption DEF Init, TypeOK, JobLocations
<1>2. TypeOK /\ [Next]_vars => TypeOK'
  <2> SUFFICES ASSUME TypeOK, [Next]_vars PROVE TypeOK'
    OBVIOUS
  <2>1. ASSUME NEW r \in Requests, Receive(r) \/ HandlerStep(r) PROVE TypeOK'
    BY <2>1, HandlerTyped
  <2>2. ASSUME NEW j \in Jobs, WorkerStep(j) PROVE TypeOK'
    BY <2>2, WorkerTyped
  <2>3. ASSUME NEW p \in Reprocs, Reprocess(p) PROVE TypeOK'
    BY <2>3, JobsFacts DEF TypeOK, Reprocess, Goto, JobLocations, JobStatus
  <2>4. CASE CrashRestart
    BY <2>4, BoundAssumption DEF TypeOK, CrashRestart, tables, JobLocations
  <2>5. CASE Quiescent
    BY <2>5 DEF TypeOK, Quiescent, vars
  <2>6. CASE UNCHANGED vars
    BY <2>6 DEF TypeOK, vars
  <2> QED
    BY <2>1, <2>2, <2>3, <2>4, <2>5, <2>6 DEF Next
<1> QED
  BY <1>1, <1>2, PTL DEF Spec

-----------------------------------------------------------------------------
(* The inductive invariant *)

(* What UPDATE ingest_jobs SET status does: rows appear and vanish never,  *)
(* and only the row of b changes.                                          *)
LEMMA SetStatusFacts ==
    ASSUME TypeOK, NEW b \in Batches, NEW s \in JobStatus, SetStatus(b, s)
    PROVE  /\ \A c \in Batches : status'[c] = NoRow <=> status[c] = NoRow
           /\ \A c \in Batches \ {b} : status'[c] = status[c]
           /\ status[b] # NoRow => status'[b] = s
BY JobsFacts DEF TypeOK, SetStatus

\* An exception moves its worker, whether it is caught or not, and nothing else.
LEMMA RaisePreserves ==
    ASSUME TypeOK, PipelineInv, NEW j \in Jobs, RaiseInside(j) \/ RaiseOutside(j)
    PROVE  PipelineInv'
<1> USE JobsFacts DEF tables, TypeOK, PipelineInv, Goto
<1>1. RowInv' /\ AnswersStayTrue'
  BY DEF RaiseInside, RaiseOutside, RowInv, AnswersStayTrue
<1>2. OneWorkerPerBatch' /\ TrackerExact'
  BY DEF RaiseInside, RaiseOutside, OneWorkerPerBatch, TrackerExact, LiveJobs
<1>3. WorkerInv' /\ ChunksExact'
  BY DEF RaiseInside, RaiseOutside, WorkerInv, ChunksExact, Connected
<1> QED
  BY <1>1, <1>2, <1>3

LEMMA WorkerPreserves ==
    ASSUME TypeOK, PipelineInv, NEW j \in Jobs, WorkerStep(j)
    PROVE  PipelineInv'
<1> DEFINE b == BatchOf[j]
<1> USE JobsFacts DEF tables, TypeOK, PipelineInv
<1>a. \A k \in LiveJobs : jobPc[j] \notin {"idle", "done"} /\ k # j => BatchOf[k] # b
  BY DEF OneWorkerPerBatch, LiveJobs
<1>b. jobPc[j] # "idle" => status[b] # NoRow
  BY DEF RowInv
<1>1. CASE TrackJob(j)
  <2>1. RowInv' /\ AnswersStayTrue'
    BY <1>1 DEF TrackJob, Goto, RowInv, AnswersStayTrue
  <2>2. OneWorkerPerBatch' /\ TrackerExact'
    BY <1>1 DEF TrackJob, Goto, OneWorkerPerBatch, TrackerExact, LiveJobs
  <2>3. WorkerInv' /\ ChunksExact'
    BY <1>1, <1>a, <1>b DEF TrackJob, Goto, LiveJobs, WorkerInv, ChunksExact, Connected
  <2> QED
    BY <2>1, <2>2, <2>3
<1>2. CASE EnterSemaphore(j)
  <2>1. RowInv' /\ AnswersStayTrue'
    BY <1>2 DEF EnterSemaphore, Goto, RowInv, AnswersStayTrue
  <2>2. OneWorkerPerBatch' /\ TrackerExact'
    BY <1>2 DEF EnterSemaphore, Goto, OneWorkerPerBatch, TrackerExact, LiveJobs
  <2>3. WorkerInv' /\ ChunksExact'
    BY <1>2, <1>a, <1>b DEF EnterSemaphore, Goto, LiveJobs, WorkerInv, ChunksExact, Connected
  <2> QED
    BY <2>1, <2>2, <2>3
<1>3. CASE AcquireConnection(j)
  <2>1. RowInv' /\ AnswersStayTrue'
    BY <1>3 DEF AcquireConnection, Goto, RowInv, AnswersStayTrue
  <2>2. OneWorkerPerBatch' /\ TrackerExact'
    BY <1>3 DEF AcquireConnection, Goto, OneWorkerPerBatch, TrackerExact, LiveJobs
  <2>3. WorkerInv' /\ ChunksExact'
    BY <1>3, <1>a, <1>b DEF AcquireConnection, Goto, LiveJobs, WorkerInv, ChunksExact, Connected
  <2> QED
    BY <2>1, <2>2, <2>3
<1>4. CASE CheckCompleted(j)
  <2>1. RowInv' /\ AnswersStayTrue'
    BY <1>4 DEF CheckCompleted, Goto, RowInv, AnswersStayTrue
  <2>2. OneWorkerPerBatch' /\ TrackerExact'
    BY <1>4 DEF CheckCompleted, Goto, OneWorkerPerBatch, TrackerExact, LiveJobs
  <2>3. WorkerInv' /\ ChunksExact'
    BY <1>4, <1>a, <1>b DEF CheckCompleted, Goto, LiveJobs, WorkerInv, ChunksExact, Connected
  <2> QED
    BY <2>1, <2>2, <2>3
<1>5. CASE MarkProcessing(j)
  <2>1. SetStatus(b, "PROCESSING") /\ "PROCESSING" \in JobStatus
    BY <1>5 DEF MarkProcessing, JobStatus
  <2>2. /\ \A c \in Batches : status'[c] = NoRow <=> status[c] = NoRow
        /\ \A c \in Batches \ {b} : status'[c] = status[c]
        /\ status'[b] = "PROCESSING"
    BY <1>5, <1>b, <2>1, SetStatusFacts DEF MarkProcessing
  <2>3. RowInv' /\ AnswersStayTrue'
    BY <1>5, <2>2 DEF MarkProcessing, Goto, Executed, RowInv, AnswersStayTrue
  <2>4. OneWorkerPerBatch' /\ TrackerExact'
    BY <1>5 DEF MarkProcessing, Goto, Executed, OneWorkerPerBatch, TrackerExact, LiveJobs
  <2>5. WorkerInv' /\ ChunksExact'
    BY <1>5, <2>2, <1>a, <1>b DEF MarkProcessing, Goto, Executed, LiveJobs, WorkerInv, ChunksExact, Connected
  <2> QED
    BY <2>3, <2>4, <2>5
<1>6. CASE AcquireSecond(j)
  <2>1. RowInv' /\ AnswersStayTrue'
    BY <1>6 DEF AcquireSecond, Goto, RowInv, AnswersStayTrue
  <2>2. OneWorkerPerBatch' /\ TrackerExact'
    BY <1>6 DEF AcquireSecond, Goto, OneWorkerPerBatch, TrackerExact, LiveJobs
  <2>3. WorkerInv' /\ ChunksExact'
    BY <1>6, <1>a, <1>b DEF AcquireSecond, Goto, LiveJobs, WorkerInv, ChunksExact, Connected
  <2> QED
    BY <2>1, <2>2, <2>3
<1>7. CASE LoadPayload(j)
  <2>1. RowInv' /\ AnswersStayTrue'
    BY <1>7 DEF LoadPayload, Goto, RowInv, AnswersStayTrue
  <2>2. OneWorkerPerBatch' /\ TrackerExact'
    BY <1>7 DEF LoadPayload, Goto, OneWorkerPerBatch, TrackerExact, LiveJobs
  <2>3. WorkerInv' /\ ChunksExact'
    BY <1>7, <1>a, <1>b DEF LoadPayload, Goto, LiveJobs, WorkerInv, ChunksExact, Connected
  <2> QED
    BY <2>1, <2>2, <2>3
<1>8. CASE DeleteOldChunks(j)
  <2>1. RowInv' /\ AnswersStayTrue'
    BY <1>8 DEF DeleteOldChunks, Goto, Executed, RowInv, AnswersStayTrue
  <2>2. OneWorkerPerBatch' /\ TrackerExact'
    BY <1>8 DEF DeleteOldChunks, Goto, Executed, OneWorkerPerBatch, TrackerExact, LiveJobs
  <2>3. WorkerInv' /\ ChunksExact'
    BY <1>8, <1>a, <1>b DEF DeleteOldChunks, Goto, Executed, LiveJobs, WorkerInv, ChunksExact, Connected
  <2> QED
    BY <2>1, <2>2, <2>3
<1>9. CASE InsertChunks(j)
  <2>1. vectors' = [vectors EXCEPT ![b] = {j}]
    BY <1>9 DEF InsertChunks, WorkerInv
  <2>2. RowInv' /\ AnswersStayTrue'
    BY <1>9, <2>1 DEF InsertChunks, Goto, Executed, RowInv, AnswersStayTrue
  <2>3. OneWorkerPerBatch' /\ TrackerExact'
    BY <1>9 DEF InsertChunks, Goto, Executed, OneWorkerPerBatch, TrackerExact, LiveJobs
  <2>4. WorkerInv' /\ ChunksExact'
    BY <1>9, <2>1, <1>a, <1>b DEF InsertChunks, Goto, Executed, LiveJobs, WorkerInv, ChunksExact, Connected
  <2> QED
    BY <2>2, <2>3, <2>4
<1>10. CASE NotifyBackend(j)
  <2>1. RowInv' /\ AnswersStayTrue'
    BY <1>10 DEF NotifyBackend, Goto, RowInv, AnswersStayTrue
  <2>2. OneWorkerPerBatch' /\ TrackerExact'
    BY <1>10 DEF NotifyBackend, Goto, OneWorkerPerBatch, TrackerExact, LiveJobs
  <2>3. WorkerInv' /\ ChunksExact'
    BY <1>10, <1>a, <1>b DEF NotifyBackend, Goto, LiveJobs, WorkerInv, ChunksExact, Connected
  <2> QED
    BY <2>1, <2>2, <2>3
<1>11. CASE MarkCompleted(j)
  <2>1. SetStatus(b, "COMPLETED") /\ "COMPLETED" \in JobStatus
    BY <1>11 DEF MarkCompleted, JobStatus
  <2>2. /\ \A c \in Batches : status'[c] = NoRow <=> status[c] = NoRow
        /\ \A c \in Batches \ {b} : status'[c] = status[c]
        /\ status'[b] = "COMPLETED"
    BY <1>11, <1>b, <2>1, SetStatusFacts DEF MarkCompleted
  <2>3. RowInv' /\ AnswersStayTrue'
    BY <1>11, <2>2 DEF MarkCompleted, Goto, Executed, RowInv, AnswersStayTrue
  <2>4. OneWorkerPerBatch' /\ TrackerExact'
    BY <1>11 DEF MarkCompleted, Goto, Executed, OneWorkerPerBatch, TrackerExact, LiveJobs
  <2>5. WorkerInv'
    BY <1>11, <2>2, <1>a, <1>b
       DEF MarkCompleted, Goto, Executed, LiveJobs, WorkerInv, Connected
  <2>6. vectors[b] = {j} /\ vectors' = vectors
    BY <1>11 DEF MarkCompleted, WorkerInv
  <2>7. ChunksExact'
    BY <2>2, <2>6 DEF ChunksExact
  <2> QED
    BY <2>3, <2>4, <2>5, <2>7
<1>12. CASE MarkFailed(j)
  <2>1. SetStatus(b, "FAILED") /\ "FAILED" \in JobStatus
    BY <1>12 DEF MarkFailed, JobStatus
  <2>2. /\ \A c \in Batches : status'[c] = NoRow <=> status[c] = NoRow
        /\ \A c \in Batches \ {b} : status'[c] = status[c]
        /\ status'[b] = "FAILED"
    BY <1>12, <1>b, <2>1, SetStatusFacts DEF MarkFailed
  <2>3. RowInv' /\ AnswersStayTrue'
    BY <1>12, <2>2 DEF MarkFailed, Goto, Executed, RowInv, AnswersStayTrue
  <2>4. OneWorkerPerBatch' /\ TrackerExact'
    BY <1>12 DEF MarkFailed, Goto, Executed, OneWorkerPerBatch, TrackerExact, LiveJobs
  <2>5. WorkerInv' /\ ChunksExact'
    BY <1>12, <2>2, <1>a, <1>b DEF MarkFailed, Goto, Executed, LiveJobs, WorkerInv, ChunksExact, Connected
  <2> QED
    BY <2>3, <2>4, <2>5
<1>13. CASE LeaveJob(j)
  <2>1. RowInv' /\ AnswersStayTrue'
    BY <1>13 DEF LeaveJob, Goto, RowInv, AnswersStayTrue
  <2>2. OneWorkerPerBatch' /\ TrackerExact'
    BY <1>13 DEF LeaveJob, Goto, OneWorkerPerBatch, TrackerExact, LiveJobs
  <2>3. WorkerInv' /\ ChunksExact'
    BY <1>13, <1>a, <1>b DEF LeaveJob, Goto, LiveJobs, WorkerInv, ChunksExact, Connected
  <2> QED
    BY <2>1, <2>2, <2>3
<1>14. CASE StatementFails(j)
  BY <1>14, RaisePreserves DEF StatementFails
<1>15. CASE WorkerAborts(j)
  BY <1>15, RaisePreserves DEF WorkerAborts
<1> QED
  BY <1>1, <1>2, <1>3, <1>4, <1>5, <1>6, <1>7, <1>8, <1>9, <1>10, <1>11, <1>12, <1>13, <1>14, <1>15 DEF WorkerStep

LEMMA HandlerPreserves ==
    ASSUME TypeOK, PipelineInv, NEW r \in Requests, Receive(r) \/ HandlerStep(r)
    PROVE  PipelineInv'
<1> USE JobsFacts DEF tables, TypeOK, PipelineInv
<1>1. ASSUME UNCHANGED <<tables, active_jobs, jobPc>>
      PROVE  (OneWorkerPerBatch /\ WorkerInv /\ ChunksExact /\ TrackerExact)'
  BY <1>1 DEF OneWorkerPerBatch, WorkerInv, ChunksExact, TrackerExact, LiveJobs
<1>2. CASE Receive(r)
  BY <1>1, <1>2 DEF Receive, RowInv, AnswersStayTrue
<1>3. CASE AcquireForIngest(r)
  BY <1>1, <1>3 DEF AcquireForIngest, RowInv, AnswersStayTrue
<1>4. CASE CheckExisting(r)
  <2>1. RowInv' /\ AnswersStayTrue'
    BY <1>4 DEF CheckExisting, Answer, RowInv, AnswersStayTrue
  <2> QED
    BY <1>1, <1>4, <2>1 DEF CheckExisting
<1>5. CASE Store(r)
  <2> DEFINE b == BatchOf[r]
  <2>1. jobPc[r] = "idle" /\ \A j \in Jobs : jobPc[j] # "idle" => BatchOf[j] # b
    BY <1>5 DEF Store, RowInv
  <2>2. /\ status' = [status EXCEPT ![b] = "PENDING"] /\ vectors[b] = {}
        /\ UNCHANGED <<vectors, active_jobs>>
    BY <1>5 DEF Store, RowInv, WorkerInv
  <2>3. jobPc' = jobPc \/ jobPc' = [jobPc EXCEPT ![r] = "spawned"]
    BY <1>5 DEF Store
  <2>4. "PENDING" # NoRow
    BY NoRowAssumption
  <2>5. RowInv'
    BY <1>5, <2>2, <2>3, <2>4 DEF Store, RowInv, Answer
  <2>6. AnswersStayTrue'
    BY <1>5, <2>2, <2>4 DEF Store, RowInv, Answer, AnswersStayTrue
  <2>7. OneWorkerPerBatch'
    BY <2>1, <2>3 DEF OneWorkerPerBatch, LiveJobs
  <2>8. TrackerExact'
    BY <2>1, <2>2, <2>3 DEF TrackerExact, LiveJobs
  <2>9. WorkerInv' /\ ChunksExact'
    BY <2>1, <2>2, <2>3, <2>4 DEF WorkerInv, ChunksExact, Connected
  <2> QED
    BY <2>5, <2>6, <2>7, <2>8, <2>9
<1>6. CASE StoreDuplicateKey(r)
  BY <1>1, <1>6 DEF StoreDuplicateKey, Answer, RowInv, AnswersStayTrue
<1>7. CASE RequestFails(r)
  BY <1>1, <1>7 DEF RequestFails, Answer, RowInv, AnswersStayTrue
<1> QED
  BY <1>2, <1>3, <1>4, <1>5, <1>6, <1>7 DEF HandlerStep

(* A driver that waits never starts a second worker.                       *)
LEMMA ReprocessPreserves ==
    ASSUME TypeOK, PipelineInv, DriverWaits, NEW p \in Reprocs, Reprocess(p)
    PROVE  PipelineInv'
<1> DEFINE b == BatchOf[p]
<1> USE JobsFacts DEF tables, TypeOK, PipelineInv
<1>1. \A j \in LiveJobs : BatchOf[j] # b
  BY DEF Reprocess
<1>2. /\ status[b] # NoRow
      /\ \A c \in Batches : status'[c] = NoRow <=> status[c] = NoRow
      /\ \A c \in Batches \ {b} : status'[c] = status[c]
      /\ \A c \in Batches : status'[c] = "COMPLETED" <=> status[c] = "COMPLETED"
  BY NoRowAssumption DEF Reprocess
<1>3. /\ jobPc' = [jobPc EXCEPT ![p] = "spawned"]
      /\ p \notin Requests
      /\ UNCHANGED <<batches, vectors, active_jobs, reqPc, answer>>
  BY WorkloadAssumption DEF Reprocess, Goto
<1>4. RowInv'
  BY <1>2, <1>3 DEF RowInv
<1>5. AnswersStayTrue'
  BY <1>2, <1>3 DEF AnswersStayTrue
<1>6. OneWorkerPerBatch' /\ TrackerExact'
  BY <1>1, <1>3 DEF Reprocess, OneWorkerPerBatch, TrackerExact, LiveJobs
<1>7. WorkerInv'
  BY <1>1, <1>2, <1>3 DEF WorkerInv, LiveJobs, Connected
<1>8. ChunksExact'
  BY <1>2, <1>3 DEF ChunksExact
<1> QED
  BY <1>4, <1>5, <1>6, <1>7, <1>8

LEMMA CrashPreserves ==
    ASSUME TypeOK, PipelineInv, CrashRestart
    PROVE  PipelineInv'
<1> USE JobsFacts DEF tables, TypeOK, PipelineInv, CrashRestart
<1>1. RowInv'
  BY DEF RowInv
<1>2. AnswersStayTrue' /\ ChunksExact'
  BY DEF AnswersStayTrue, ChunksExact
<1>3. LiveJobs' = {}
  BY DEF LiveJobs
<1>4. OneWorkerPerBatch' /\ TrackerExact'
  BY <1>3 DEF OneWorkerPerBatch, TrackerExact
<1>5. WorkerInv'
  BY DEF WorkerInv, Connected
<1> QED
  BY <1>1, <1>2, <1>4, <1>5

LEMMA InitialPipeline == ASSUME Init PROVE PipelineInv
<1>1. LiveJobs = {}
  BY DEF Init, LiveJobs
<1>2. RowInv /\ AnswersStayTrue
  BY JobsFacts DEF Init, RowInv, AnswersStayTrue
<1>3. OneWorkerPerBatch /\ TrackerExact
  BY <1>1 DEF Init, OneWorkerPerBatch, TrackerExact
<1>4. WorkerInv /\ ChunksExact
  BY JobsFacts, NoRowAssumption DEF Init, WorkerInv, ChunksExact, Connected
<1> QED
  BY <1>2, <1>3, <1>4 DEF PipelineInv

LEMMA UnchangedPipeline == ASSUME PipelineInv, UNCHANGED vars PROVE PipelineInv'
BY DEF vars, PipelineInv, RowInv, AnswersStayTrue, OneWorkerPerBatch, WorkerInv,
   ChunksExact, TrackerExact, LiveJobs

(* With a driver that waits, rows, answers, workers, chunks and tracker    *)
(* agree in every reachable state.                                         *)
THEOREM PipelineInvariant == ASSUME DriverWaits PROVE Spec => []PipelineInv
<1>1. Init => PipelineInv
  BY InitialPipeline
<1>2. TypeOK /\ PipelineInv /\ [Next]_vars => PipelineInv'
  <2> SUFFICES ASSUME TypeOK, PipelineInv, [Next]_vars PROVE PipelineInv'
    OBVIOUS
  <2>1. ASSUME UNCHANGED vars PROVE PipelineInv'
    BY <2>1, UnchangedPipeline
  <2>2. ASSUME NEW r \in Requests, Receive(r) \/ HandlerStep(r) PROVE PipelineInv'
    BY <2>2, HandlerPreserves
  <2>3. ASSUME NEW j \in Jobs, WorkerStep(j) PROVE PipelineInv'
    BY <2>3, WorkerPreserves
  <2>4. ASSUME NEW p \in Reprocs, Reprocess(p) PROVE PipelineInv'
    BY <2>4, ReprocessPreserves
  <2>5. CASE CrashRestart
    BY <2>5, CrashPreserves
  <2>6. CASE Quiescent
    BY <2>1, <2>6 DEF Quiescent
  <2> QED
    BY <2>1, <2>2, <2>3, <2>4, <2>5, <2>6 DEF Next
<1> QED
  BY <1>1, <1>2, TypeCorrect, PTL DEF Spec

(* What a client was told stays true of the stored rows.                   *)
THEOREM AnswersAreStable == ASSUME DriverWaits PROVE Spec => []AnswersStayTrue
BY PipelineInvariant, PTL DEF PipelineInv

(* At most one worker runs for a batch id at a time.                       *)
THEOREM WorkersAreExclusive == ASSUME DriverWaits PROVE Spec => []OneWorkerPerBatch
BY PipelineInvariant, PTL DEF PipelineInv

(* Chunks are never duplicated, and never missing from a COMPLETED batch.  *)
THEOREM ChunksAreExact == ASSUME DriverWaits PROVE Spec => []ChunksExact
BY PipelineInvariant, PTL DEF PipelineInv

(* The tracker knows exactly the batch ids whose workers run.              *)
THEOREM TrackerIsExact == ASSUME DriverWaits PROVE Spec => []TrackerExact
BY PipelineInvariant, PTL DEF PipelineInv

-----------------------------------------------------------------------------
(* Steps *)

(* The backend learns of a batch only while its chunks are searchable and  *)
(* its job is still PROCESSING.                                            *)
THEOREM NotificationSeesChunks == ASSUME DriverWaits PROVE Spec => NotifySeesChunks
<1> DEFINE Sees == \A j \in notified' \ notified :
               vectors[BatchOf[j]] # {} /\ status[BatchOf[j]] = "PROCESSING"
<1>1. TypeOK /\ PipelineInv /\ [Next]_vars => [Sees]_vars
  <2> SUFFICES ASSUME TypeOK, PipelineInv, Next PROVE Sees
    OBVIOUS
  <2>1. ASSUME NEW j \in Jobs, NotifyBackend(j) PROVE Sees
    BY <2>1 DEF NotifyBackend, PipelineInv, WorkerInv, Connected
  <2>2. ASSUME NEW j \in Jobs, WorkerStep(j), ~NotifyBackend(j) PROVE Sees
    BY <2>2 DEF WorkerStep, TrackJob, EnterSemaphore, AcquireConnection,
       CheckCompleted, MarkProcessing, AcquireSecond, LoadPayload,
       DeleteOldChunks, InsertChunks, MarkCompleted, MarkFailed, LeaveJob,
       StatementFails, WorkerAborts, RaiseInside, RaiseOutside
  <2>3. ASSUME NEW r \in Requests, Receive(r) \/ HandlerStep(r) PROVE Sees
    BY <2>3 DEF HandlerStep, Receive, AcquireForIngest, CheckExisting, Store,
       StoreDuplicateKey, RequestFails
  <2>4. ASSUME NEW p \in Reprocs, Reprocess(p) PROVE Sees
    BY <2>4 DEF Reprocess
  <2>5. CASE CrashRestart \/ Quiescent
    BY <2>5 DEF CrashRestart, Quiescent, vars
  <2> QED
    BY <2>1, <2>2, <2>3, <2>4, <2>5 DEF Next
<1> QED
  BY <1>1, TypeCorrect, PipelineInvariant, PTL DEF Spec, NotifySeesChunks

-----------------------------------------------------------------------------
(* The pipeline implements the ledger *)

\* A step that neither stores a row, nor completes a batch, nor changes which
\* batches have chunks is no step of the ledger.
LEMMA PhaseStutter ==
    ASSUME TypeOK, TypeOK', UNCHANGED batches,
           \A b \in Batches :
               /\ status'[b] = NoRow <=> status[b] = NoRow
               /\ status'[b] = "COMPLETED" <=> status[b] = "COMPLETED"
               /\ vectors'[b] = {} <=> vectors[b] = {}
    PROVE  UNCHANGED Ledger!ledgerVars
<1>1. \A b \in Batches : Phase'[b] = Phase[b]
  BY DEF Phase
<1>2. Phase' = Phase
  BY <1>1 DEF Phase
<1> QED
  BY <1>2 DEF Ledger!ledgerVars

\* A step that changes one batch changes the phase of that batch only.
LEMMA PhaseStep ==
    ASSUME NEW b \in Batches,
           \A c \in Batches \ {b} : status'[c] = status[c] /\ vectors'[c] = vectors[c]
    PROVE  Phase' = [Phase EXCEPT ![b] = Phase'[b]]
<1>1. \A c \in Batches \ {b} : Phase'[c] = Phase[c]
  BY DEF Phase
<1>2. /\ Phase = [c \in Batches |-> Phase[c]]
      /\ Phase' = [c \in Batches |-> Phase'[c]]
  BY DEF Phase
<1> QED
  BY <1>1, <1>2

LEMMA StoreSubmits ==
    ASSUME TypeOK, TypeOK', PipelineInv, NEW r \in Requests, Store(r)
    PROVE  Ledger!Submit(BatchOf[r], ContentOf[r])
<1> DEFINE b == BatchOf[r]
<1> USE JobsFacts DEF TypeOK
<1>1. status[b] = NoRow /\ vectors[b] = {}
  BY DEF Store, PipelineInv, RowInv, WorkerInv
<1>2. status' = [status EXCEPT ![b] = "PENDING"] /\ UNCHANGED vectors
  BY <1>1 DEF Store
<1>3. Phase[b] = "absent" /\ Phase'[b] = "stored"
  BY <1>1, <1>2, NoRowAssumption DEF Phase
<1>4. Phase' = [Phase EXCEPT ![b] = "stored"]
  BY <1>2, <1>3, PhaseStep
<1> QED
  BY <1>3, <1>4 DEF Store, Ledger!Submit

LEMMA DeleteWithdraws ==
    ASSUME TypeOK, TypeOK', PipelineInv, NEW j \in Jobs, DeleteOldChunks(j)
    PROVE  Ledger!Withdraw(BatchOf[j]) \/ UNCHANGED Ledger!ledgerVars
<1> DEFINE b == BatchOf[j]
<1> USE JobsFacts DEF TypeOK, DeleteOldChunks
<1>1. status[b] = "PROCESSING" /\ vectors' = [vectors EXCEPT ![b] = {}]
  BY DEF PipelineInv, WorkerInv, Connected
<1>2. CASE vectors[b] = {}
  BY <1>1, <1>2, PhaseStutter
<1>3. CASE vectors[b] # {}
  <2>1. Phase[b] = "searchable" /\ Phase'[b] = "stored"
    BY <1>1, <1>3, NoRowAssumption DEF Phase
  <2>2. Phase' = [Phase EXCEPT ![b] = "stored"]
    BY <1>1, <2>1, PhaseStep
  <2> QED
    BY <2>1, <2>2 DEF Ledger!Withdraw, Ledger!Move
<1> QED
  BY <1>2, <1>3

LEMMA InsertPublishes ==
    ASSUME TypeOK, TypeOK', PipelineInv, NEW j \in Jobs, InsertChunks(j)
    PROVE  Ledger!Publish(BatchOf[j])
<1> DEFINE b == BatchOf[j]
<1> USE JobsFacts DEF TypeOK, InsertChunks
<1>1. /\ status[b] = "PROCESSING" /\ vectors[b] = {}
      /\ vectors' = [vectors EXCEPT ![b] = {j}]
  BY DEF PipelineInv, WorkerInv, Connected
<1>2. Phase[b] = "stored" /\ Phase'[b] = "searchable"
  <2>1. vectors'[b] # {} /\ UNCHANGED status
    BY <1>1
  <2> QED
    BY <1>1, <2>1, NoRowAssumption DEF Phase
<1>3. Phase' = [Phase EXCEPT ![b] = "searchable"]
  BY <1>1, <1>2, PhaseStep
<1> QED
  BY <1>2, <1>3 DEF Ledger!Publish, Ledger!Move

LEMMA CompletionFinishes ==
    ASSUME TypeOK, TypeOK', PipelineInv, NEW j \in Jobs, MarkCompleted(j)
    PROVE  Ledger!Finish(BatchOf[j])
<1> DEFINE b == BatchOf[j]
<1> USE JobsFacts DEF TypeOK, MarkCompleted
<1>1. status[b] = "PROCESSING" /\ vectors[b] # {}
  BY DEF PipelineInv, WorkerInv, Connected
<1>2. status' = [status EXCEPT ![b] = "COMPLETED"] /\ UNCHANGED vectors
  BY <1>1, NoRowAssumption DEF SetStatus
<1>3. Phase[b] = "searchable" /\ Phase'[b] = "done"
  BY <1>1, <1>2, NoRowAssumption DEF Phase
<1>4. Phase' = [Phase EXCEPT ![b] = "done"]
  BY <1>2, <1>3, PhaseStep
<1> QED
  BY <1>3, <1>4 DEF Ledger!Finish, Ledger!Move

\* MarkProcessing, MarkFailed and reset_failed_job move a job row between
\* states that are neither absent nor done.
LEMMA StatusStutters ==
    ASSUME TypeOK, TypeOK', PipelineInv,
           \/ \E j \in Jobs : MarkProcessing(j) \/ MarkFailed(j)
           \/ \E p \in Reprocs : Reprocess(p)
    PROVE  UNCHANGED Ledger!ledgerVars
<1> USE JobsFacts DEF TypeOK
<1>1. ASSUME NEW j \in Jobs, MarkProcessing(j) \/ MarkFailed(j)
      PROVE  UNCHANGED Ledger!ledgerVars
  <2>1. status[BatchOf[j]] \notin {NoRow, "COMPLETED"}
    BY <1>1 DEF MarkProcessing, MarkFailed, PipelineInv, RowInv, WorkerInv, Connected
  <2>2. \/ status' = [status EXCEPT ![BatchOf[j]] = "PROCESSING"]
        \/ status' = [status EXCEPT ![BatchOf[j]] = "FAILED"]
    BY <1>1, <2>1 DEF MarkProcessing, MarkFailed, SetStatus
  <2>3. UNCHANGED <<batches, vectors>>
    BY <1>1 DEF MarkProcessing, MarkFailed
  <2> QED
    BY <2>1, <2>2, <2>3, PhaseStutter, NoRowAssumption
<1>2. ASSUME NEW p \in Reprocs, Reprocess(p)
      PROVE  UNCHANGED Ledger!ledgerVars
  BY <1>2, PhaseStutter, NoRowAssumption DEF Reprocess
<1> QED
  BY <1>1, <1>2

LEMMA StepsImplementLedger ==
    ASSUME TypeOK, TypeOK', PipelineInv, [Next]_vars
    PROVE  [Ledger!LedgerNext]_(Ledger!ledgerVars)
<1> DEFINE Goal == Ledger!LedgerNext \/ UNCHANGED Ledger!ledgerVars
<1> USE JobsFacts
<1>1. ASSUME UNCHANGED tables PROVE Goal
  BY <1>1, PhaseStutter DEF tables
<1>2. ASSUME NEW r \in Requests, Store(r) PROVE Goal
  BY <1>2, StoreSubmits DEF Ledger!LedgerNext
<1>3. ASSUME NEW r \in Requests, Receive(r) \/ HandlerStep(r), ~Store(r) PROVE Goal
  <2>1. UNCHANGED tables
    BY <1>3 DEF HandlerStep, Receive, AcquireForIngest, CheckExisting,
       StoreDuplicateKey, RequestFails
  <2> QED
    BY <1>1, <2>1
<1>4. ASSUME NEW j \in Jobs, WorkerStep(j) PROVE Goal
  <2>1. CASE DeleteOldChunks(j)
    BY <2>1, DeleteWithdraws DEF Ledger!LedgerNext
  <2>2. CASE InsertChunks(j)
    BY <2>2, InsertPublishes DEF Ledger!LedgerNext
  <2>3. CASE MarkCompleted(j)
    BY <2>3, CompletionFinishes DEF Ledger!LedgerNext
  <2>4. CASE MarkProcessing(j) \/ MarkFailed(j)
    BY <2>4, StatusStutters
  <2>5. CASE \/ TrackJob(j) \/ EnterSemaphore(j) \/ AcquireConnection(j)
             \/ CheckCompleted(j) \/ AcquireSecond(j) \/ LoadPayload(j)
             \/ NotifyBackend(j) \/ LeaveJob(j)
             \/ StatementFails(j) \/ WorkerAborts(j)
    <3>1. UNCHANGED tables
      BY <2>5 DEF TrackJob, EnterSemaphore, AcquireConnection, CheckCompleted,
         AcquireSecond, LoadPayload, NotifyBackend, LeaveJob, StatementFails,
         WorkerAborts, RaiseInside, RaiseOutside
    <3> QED
      BY <1>1, <3>1
  <2> QED
    BY <1>4, <2>1, <2>2, <2>3, <2>4, <2>5 DEF WorkerStep
<1>5. ASSUME NEW p \in Reprocs, Reprocess(p) PROVE Goal
  BY <1>5, StatusStutters
<1>6. CASE CrashRestart \/ Quiescent \/ UNCHANGED vars
  <2>1. UNCHANGED tables
    BY <1>6 DEF CrashRestart, Quiescent, vars, tables
  <2> QED
    BY <1>1, <2>1
<1> QED
  BY <1>2, <1>3, <1>4, <1>5, <1>6 DEF Next

LEMMA InitialLedger == ASSUME Init PROVE Ledger!LedgerInit
<1>1. \A b \in Batches : status[b] = NoRow /\ status[b] # "COMPLETED"
  BY NoRowAssumption DEF Init
<1>2. Phase = [b \in Batches |-> "absent"]
  BY <1>1 DEF Phase
<1> QED
  BY <1>2 DEF Init, Ledger!LedgerInit

(* Every behaviour of the pipeline, with its races, failures and crashes,  *)
(* is one of BatchLedger: a stored payload is never replaced and a         *)
(* COMPLETED batch stays COMPLETED with its chunks in place.               *)
THEOREM PipelineImplementsLedger == ASSUME DriverWaits PROVE Spec => RefinesLedger
<1>1. Init => Ledger!LedgerInit
  BY InitialLedger
<1>2. TypeOK /\ TypeOK' /\ PipelineInv /\ [Next]_vars
          => [Ledger!LedgerNext]_(Ledger!ledgerVars)
  BY StepsImplementLedger
<1> QED
  BY <1>1, <1>2, TypeCorrect, PipelineInvariant, PTL
     DEF Spec, RefinesLedger, Ledger!LedgerSpec

-----------------------------------------------------------------------------
(* The semaphore and the pool *)

LEMMA JobsAreFinite == IsFiniteSet(Jobs)
BY FiniteAssumption, FS_Union DEF Jobs

LEMMA JobsAtFinite ==
    ASSUME NEW L
    PROVE  IsFiniteSet(JobsAt(L)) /\ Cardinality(JobsAt(L)) \in Nat
BY JobsAreFinite, FS_Subset, FS_CardinalityType DEF JobsAt

SemaphoreBound == Cardinality(JobsAt(InSemaphore)) <= JobConcurrency

\* A step other than entering never adds a worker to the semaphore.
LEMMA SemaphoreShrinks ==
    ASSUME JobsAt(InSemaphore)' \subseteq JobsAt(InSemaphore), SemaphoreBound
    PROVE  SemaphoreBound'
<1>1. /\ Cardinality(JobsAt(InSemaphore)') <= Cardinality(JobsAt(InSemaphore))
      /\ Cardinality(JobsAt(InSemaphore)') \in Nat
  BY JobsAtFinite, FS_Subset, FS_CardinalityType
<1> QED
  BY <1>1, JobsAtFinite, BoundAssumption DEF SemaphoreBound

LEMMA EnteringIsBounded ==
    ASSUME TypeOK, NEW j \in Jobs, EnterSemaphore(j) PROVE SemaphoreBound'
<1>1. JobsAt(InSemaphore)' = JobsAt(InSemaphore) \cup {j} /\ j \notin JobsAt(InSemaphore)
  BY DEF TypeOK, EnterSemaphore, Goto, JobsAt, InSemaphore, Connected
<1>2. Cardinality(JobsAt(InSemaphore)') = Cardinality(JobsAt(InSemaphore)) + 1
  BY <1>1, JobsAtFinite, FS_AddElement
<1> QED
  BY <1>2, JobsAtFinite, BoundAssumption DEF EnterSemaphore, SemaphoreBound

\* Only EnterSemaphore takes a worker from outside the semaphore into it.
LEMMA OthersShrink ==
    ASSUME TypeOK, NEW j \in Jobs, WorkerStep(j), ~EnterSemaphore(j)
    PROVE  JobsAt(InSemaphore)' \subseteq JobsAt(InSemaphore)
<1> USE DEF TypeOK, JobsAt, InSemaphore, Connected, Goto
<1>1. CASE TrackJob(j) \/ LeaveJob(j)
  BY <1>1 DEF TrackJob, LeaveJob
<1>2. CASE AcquireConnection(j) \/ CheckCompleted(j) \/ AcquireSecond(j)
           \/ LoadPayload(j) \/ NotifyBackend(j)
  BY <1>2 DEF AcquireConnection, CheckCompleted, AcquireSecond, LoadPayload,
     NotifyBackend
<1>3. CASE MarkProcessing(j) \/ DeleteOldChunks(j) \/ InsertChunks(j)
           \/ MarkCompleted(j) \/ MarkFailed(j)
  BY <1>3 DEF MarkProcessing, DeleteOldChunks, InsertChunks, MarkCompleted,
     MarkFailed, Executed
<1>4. CASE StatementFails(j) \/ WorkerAborts(j)
  BY <1>4 DEF StatementFails, WorkerAborts, RaiseInside, RaiseOutside
<1> QED
  BY <1>1, <1>2, <1>3, <1>4 DEF WorkerStep

\* Handlers and the driver only make workers that have yet to enter it.
LEMMA StartersShrink ==
    ASSUME TypeOK,
           \/ \E r \in Requests : Receive(r) \/ HandlerStep(r)
           \/ \E p \in Reprocs : Reprocess(p)
    PROVE  JobsAt(InSemaphore)' \subseteq JobsAt(InSemaphore)
<1> USE DEF TypeOK, JobsAt, InSemaphore, Connected
<1>1. CASE \E r \in Requests : Receive(r) \/ HandlerStep(r)
  BY <1>1 DEF HandlerStep, Receive, AcquireForIngest, CheckExisting, Store,
     StoreDuplicateKey, RequestFails
<1>2. CASE \E p \in Reprocs : Reprocess(p)
  BY <1>2 DEF Reprocess, Goto
<1> QED
  BY <1>1, <1>2

(* No more workers than the semaphore admits are between its two ends.     *)
THEOREM SemaphoreHolds == Spec => []SemaphoreBound
<1>1. Init => SemaphoreBound
  <2> SUFFICES ASSUME Init PROVE SemaphoreBound
    OBVIOUS
  <2>1. JobsAt(InSemaphore) = {}
    BY DEF Init, JobsAt, InSemaphore, Connected
  <2> QED
    BY <2>1, FS_EmptySet, BoundAssumption DEF SemaphoreBound
<1>2. TypeOK /\ SemaphoreBound /\ [Next]_vars => SemaphoreBound'
  <2> SUFFICES ASSUME TypeOK, SemaphoreBound, [Next]_vars PROVE SemaphoreBound'
    OBVIOUS
  <2>1. ASSUME UNCHANGED jobPc PROVE SemaphoreBound'
    BY <2>1, SemaphoreShrinks DEF JobsAt
  <2>2. ASSUME \/ \E r \in Requests : Receive(r) \/ HandlerStep(r)
               \/ \E p \in Reprocs : Reprocess(p)
        PROVE  SemaphoreBound'
    BY <2>2, StartersShrink, SemaphoreShrinks
  <2>3. ASSUME NEW j \in Jobs, WorkerStep(j) PROVE SemaphoreBound'
    BY <2>3, EnteringIsBounded, OthersShrink, SemaphoreShrinks
  <2>4. CASE CrashRestart
    <3>1. JobsAt(InSemaphore)' \subseteq JobsAt(InSemaphore)
      BY <2>4 DEF CrashRestart, TypeOK, JobsAt, InSemaphore, Connected
    <3> QED
      BY <3>1, SemaphoreShrinks
  <2>5. CASE Quiescent \/ UNCHANGED vars
    BY <2>1, <2>5 DEF Quiescent, vars
  <2> QED
    BY <2>2, <2>3, <2>4, <2>5 DEF Next
<1> QED
  BY <1>1, <1>2, TypeCorrect, PTL DEF Spec

\* The workers that wait for a second connection are inside the semaphore,
\* so when they are the only holders they cannot fill a larger pool.
LEMMA PoolOutlastsWaiters ==
    ASSUME SemaphoreBound, PoolMax > JobConcurrency,
           RequestsHolding = {}, JobsAt(Connected \ {"loadwait"}) = {}
    PROVE  InUse < PoolMax /\ InUse \in Nat
<1> DEFINE Waiting == JobsAt({"loadwait"})
<1>1. JobsAt(Connected) = Waiting /\ JobsAt({"load"}) = {}
  BY DEF JobsAt, Connected
<1>2. Waiting \subseteq JobsAt(InSemaphore)
  BY DEF JobsAt, InSemaphore, Connected
<1>3. Cardinality(Waiting) <= JobConcurrency /\ Cardinality(Waiting) \in Nat
  BY <1>2, JobsAtFinite, FS_Subset, BoundAssumption DEF SemaphoreBound
<1>4. InUse = Cardinality(Waiting)
  BY <1>1, <1>3, FS_EmptySet DEF InUse
<1> QED
  BY <1>3, <1>4, BoundAssumption

(* Workers that hold one connection and wait for a second never block each *)
(* other for good as long as the pool is larger than the semaphore.        *)
THEOREM PoolNeverCircular ==
    ASSUME PoolMax > JobConcurrency PROVE Spec => []NoCircularWait
<1>1. SemaphoreBound => NoCircularWait
  BY PoolOutlastsWaiters DEF NoCircularWait
<1> QED
  BY <1>1, SemaphoreHolds, PTL
=============================================================================
