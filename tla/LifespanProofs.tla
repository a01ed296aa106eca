--------------------------- MODULE LifespanProofs ---------------------------
(***************************************************************************)
(* What shutdown guarantees, for every workload: no job row is left behind *)
(* as PROCESSING, and tracked workers are served unless the wait timed out.*)
(***************************************************************************)
EXTENDS Lifespan, IngestPipelineProofs

-----------------------------------------------------------------------------
(* What a step of the process is to the pipeline.                          *)

\* Refused or cut off, outside the reach of a database failure.
Raises(j) == (RaiseInside(j) \/ RaiseOutside(j)) /\ UNCHANGED faults

PipelineStep ==
    \/ \E r \in Requests : Receive(r) \/ HandlerStep(r)
    \/ \E j \in Jobs : WorkerStep(j) \/ Raises(j)
    \/ \E p \in Reprocs : Reprocess(p)

LEMMA WorkIsWorkerStep == ASSUME NEW j, Work(j) PROVE WorkerStep(j)
BY DEF Work, OnDatabase, WorkerStep

LEMMA JobSteps ==
    ASSUME NEW j, JobStep(j) PROVE WorkerStep(j) \/ Raises(j)
<1>1. CASE Work(j)
  BY <1>1, WorkIsWorkerStep
<1>2. CASE Acquire(j)
  BY <1>2 DEF Acquire, WorkerStep
<1>3. CASE RefuseJob(j)
  BY <1>3 DEF RefuseJob, Raises
<1>4. CASE LoseConnection(j)
  BY <1>4 DEF LoseConnection, Raises
<1>5. CASE Leave(j)
  BY <1>5 DEF Leave, WorkerStep
<1>q. QED  BY <1>1, <1>2, <1>3, <1>4, <1>5 DEF JobStep

LEMMA LifeStepCases ==
    ASSUME [LifeNext]_allVars PROVE PipelineStep \/ UNCHANGED vars
<1>1. CASE Accept
  BY <1>1 DEF Accept, PipelineStep
<1>2. CASE \E r \in Requests : Handle(r)
  BY <1>2 DEF Handle, PipelineStep, HandlerStep
<1>3. CASE \E j \in Jobs : JobStep(j)
  BY <1>3, JobSteps DEF PipelineStep
<1>4. CASE \E r \in Runs : StartRun(r) \/ RunStep(r)
  BY <1>4 DEF StartRun, RunStep, RunAcquires, RunWorks, RefuseRun, RunOnly
<1>5. CASE BeginShutdown \/ CancelScheduled \/ Stop \/ Stopped
  BY <1>5 DEF BeginShutdown, CancelScheduled, Stop, Stopped, Resume, TimeOut,
     ClosePool, allVars
<1>q. QED  BY <1>1, <1>2, <1>3, <1>4, <1>5 DEF LifeNext, allVars

LEMMA PipelineTyped == ASSUME TypeOK, PipelineStep PROVE TypeOK'
<1>1. CASE \E r \in Requests : Receive(r) \/ HandlerStep(r)
  BY <1>1, HandlerTyped
<1>2. ASSUME NEW j \in Jobs, WorkerStep(j) PROVE TypeOK'
  BY <1>2, WorkerTyped
<1>3. ASSUME NEW j \in Jobs, Raises(j) PROVE TypeOK'
  <2>1. jobPc' \in [Jobs -> JobLocations]
    BY <1>3, RaiseTyped DEF Raises
  <2>2. UNCHANGED <<tables, notified, active_jobs, reqPc, answer, faults, crashes>>
    BY <1>3 DEF Raises, RaiseInside, RaiseOutside
  <2>q. QED  BY <2>1, <2>2 DEF TypeOK, tables
<1>4. CASE \E p \in Reprocs : Reprocess(p)
  BY <1>4, JobsFacts DEF TypeOK, Reprocess, Goto, JobLocations, JobStatus, tables
<1>q. QED  BY <1>1, <1>2, <1>3, <1>4 DEF PipelineStep

LEMMA PipelinePreserved ==
    ASSUME TypeOK, PipelineInv, DriverWaits, PipelineStep PROVE PipelineInv'
BY HandlerPreserves, WorkerPreserves, RaisePreserves, ReprocessPreserves
   DEF PipelineStep, Raises

LEMMA LifeTypedStep ==
    ASSUME LifeTypeOK, [LifeNext]_allVars PROVE LifeTypeOK'
<1>t. TypeOK'
  <2>1. CASE UNCHANGED vars
    BY <2>1 DEF LifeTypeOK, TypeOK, vars
  <2>q. QED  BY <2>1, LifeStepCases, PipelineTyped DEF LifeTypeOK
<1>1. CASE UNCHANGED lifeVars
  BY <1>t, <1>1 DEF LifeTypeOK, lifeVars
<1>2. ASSUME NEW j \in Jobs, JobStep(j) PROVE LifeTypeOK'
  <2>1. CASE Acquire(j)
    BY <1>t, <2>1 DEF LifeTypeOK, Acquire, Served
  <2>2. CASE RefuseJob(j)
    <3>1. /\ refused' \subseteq refused \cup {j}
          /\ UNCHANGED <<phase, timedOut, tracked, queued, late, runPc, cancelled>>
      BY <2>2 DEF RefuseJob
    <3>q. QED  BY <1>t, <3>1 DEF LifeTypeOK
  <2>3. CASE LoseConnection(j) \/ Work(j)
    BY <1>1, <2>3 DEF LoseConnection, Work
  <2>4. CASE Leave(j)
    <3>1. /\ phase' \in {phase, "woken"}
          /\ UNCHANGED <<timedOut, tracked, queued, late, refused, runPc, cancelled>>
      BY <2>4 DEF Leave
    <3>q. QED  BY <1>t, <3>1 DEF LifeTypeOK
  <2>q. QED  BY <1>2, <2>1, <2>2, <2>3, <2>4 DEF JobStep
<1>3. ASSUME NEW r \in Runs, StartRun(r) \/ RunStep(r) PROVE LifeTypeOK'
  BY <1>t, <1>3
     DEF LifeTypeOK, StartRun, RunStep, RunAcquires, RunWorks, RefuseRun, RunOnly,
         RunGoto, Served
<1>4. CASE BeginShutdown \/ Stop
  BY <1>t, <1>4
     DEF LifeTypeOK, BeginShutdown, Stop, Resume, TimeOut, ClosePool, StartClosing,
         LiveJobs, Waiters, JobsAt, RunsAt
<1>5. CASE CancelScheduled
  BY <1>t, <1>5 DEF LifeTypeOK, CancelScheduled
<1>q. QED
  BY <1>1, <1>2, <1>3, <1>4, <1>5 DEF LifeNext, Accept, Handle, Stopped, allVars

(* The process's own state has the types its parts assume of it.           *)
THEOREM LifeTyped == LifeSpec => []LifeTypeOK
<1>1. LifeInit => LifeTypeOK
  <2>1. Init => TypeOK
    BY BoundAssumption DEF Init, TypeOK, JobLocations
  <2>q. QED  BY <2>1 DEF LifeInit, LifeTypeOK
<1>2. LifeTypeOK /\ [LifeNext]_allVars => LifeTypeOK'
  BY LifeTypedStep
<1>q. QED  BY <1>1, <1>2, PTL DEF LifeSpec

-----------------------------------------------------------------------------
(* The pipeline inside the process.                                        *)

(* A process that shuts down at any moment, under running workers and with  *)
(* failures, keeps all that the pipeline promises: answers, one worker per  *)
(* batch, exact chunks and tracker, and what makes them inductive.          *)
THEOREM PipelineHolds == ASSUME DriverWaits PROVE LifeSpec => []PipelineInv
<1>1. LifeInit => PipelineInv
  BY InitialPipeline DEF LifeInit
<1>2. LifeTypeOK /\ PipelineInv /\ [LifeNext]_allVars => PipelineInv'
  <2>1. LifeTypeOK /\ PipelineInv /\ PipelineStep => PipelineInv'
    BY PipelinePreserved DEF LifeTypeOK
  <2>2. PipelineInv /\ UNCHANGED vars => PipelineInv'
    BY UnchangedPipeline
  <2>q. QED  BY <2>1, <2>2, LifeStepCases
<1>q. QED  BY <1>1, <1>2, LifeTyped, PTL DEF LifeSpec

LEMMA LifeImplementsLedgerStep ==
    ASSUME TypeOK, TypeOK', PipelineInv, [LifeNext]_allVars
    PROVE  [Ledger!LedgerNext]_(Ledger!ledgerVars)
<1>1. CASE [Next]_vars
  BY <1>1, StepsImplementLedger
<1>2. ASSUME NEW j \in Jobs, Raises(j)
      PROVE  UNCHANGED Ledger!ledgerVars
  <2>1. UNCHANGED tables
    BY <1>2 DEF Raises, RaiseInside, RaiseOutside
  <2>q. QED  BY <2>1, PhaseStutter DEF tables
<1>3. PipelineStep => [Next]_vars \/ \E j \in Jobs : Raises(j)
  BY DEF PipelineStep, Next
<1>q. QED  BY <1>1, <1>2, <1>3, LifeStepCases

(* Every life of the process is one of BatchLedger: a job that is refused a *)
(* connection, or loses the one it has, when the pool closes never counts   *)
(* as done, and a batch that is done stays done with its chunks in place.   *)
THEOREM LifeImplementsLedger == ASSUME DriverWaits PROVE LifeSpec => RefinesLedger
<1>1. LifeInit => Ledger!LedgerInit
  <2>1. Init => Ledger!LedgerInit
    BY InitialLedger
  <2>q. QED  BY <2>1 DEF LifeInit
<1>2. LifeTypeOK => TypeOK
  BY DEF LifeTypeOK
<1>3. TypeOK /\ TypeOK' /\ PipelineInv /\ [LifeNext]_allVars
          => [Ledger!LedgerNext]_(Ledger!ledgerVars)
  BY LifeImplementsLedgerStep
<1>q. QED
  BY <1>1, <1>2, <1>3, LifeTyped, PipelineHolds, PTL
     DEF LifeSpec, RefinesLedger, Ledger!LedgerSpec

-----------------------------------------------------------------------------
(* No row is left behind.  While nothing fails, a PROCESSING row has a      *)
(* worker that holds a connection, until the closed pool takes it away.     *)

Owning == Connected \ {"check", "mark"}

Owned ==
    faults = 0 =>
        \A b \in Batches :
            status[b] = "PROCESSING" =>
                \E j \in Jobs :
                    /\ BatchOf[j] = b
                    /\ jobPc[j] \in Owning \/ (phase = "closed" /\ j \in late)

ClosedLate == phase = "closed" => JobsAt(Connected) \subseteq late

\* One batch's row can change only through its own worker or its driver.
LEMMA RowsOfOthers ==
    ASSUME TypeOK, PipelineStep, faults' = 0, NEW b \in Batches,
           status'[b] = "PROCESSING"
    PROVE  \/ status[b] = "PROCESSING"
           \/ \E j \in Jobs : BatchOf[j] = b /\ jobPc'[j] \in Owning
<1>0. \A f \in 0..MaxFaults : f + 1 # 0
  BY BoundAssumption
<1>1. CASE \E r \in Requests : Receive(r) \/ HandlerStep(r)
  BY <1>1, JobsFacts DEF HandlerStep, Receive, AcquireForIngest, CheckExisting, Store,
     StoreDuplicateKey, RequestFails, TypeOK, JobStatus, tables
<1>2. ASSUME NEW j \in Jobs, WorkerStep(j)
      PROVE  \/ status[b] = "PROCESSING"
             \/ BatchOf[j] = b /\ jobPc'[j] \in Owning
  <2>1. CASE MarkProcessing(j)
    <3>1. BatchOf[j] # b => status'[b] = status[b]
      BY <2>1, JobsFacts DEF MarkProcessing, SetStatus, TypeOK
    <3>2. jobPc'[j] \in {"loadwait", "delete"}
      BY <1>0, <2>1, JobsFacts DEF MarkProcessing, Executed, Goto, Fault, TypeOK
    <3>q. QED  BY <3>1, <3>2 DEF Owning, Connected
  <2>2. CASE MarkCompleted(j) \/ MarkFailed(j)
    BY <2>2, JobsFacts DEF MarkCompleted, MarkFailed, SetStatus, TypeOK, JobStatus
  <2>3. CASE UNCHANGED status
    BY <2>3
  <2>q. QED
    BY <1>2, <2>1, <2>2, <2>3
       DEF WorkerStep, TrackJob, EnterSemaphore, AcquireConnection, CheckCompleted,
           AcquireSecond, LoadPayload, DeleteOldChunks, InsertChunks, NotifyBackend,
           LeaveJob, StatementFails, WorkerAborts, RaiseInside, RaiseOutside, tables
<1>3. CASE \E j \in Jobs : Raises(j)
  BY <1>3 DEF Raises, RaiseInside, RaiseOutside, tables
<1>4. CASE \E p \in Reprocs : Reprocess(p)
  BY <1>4, JobsFacts DEF Reprocess, TypeOK, JobStatus
<1>q. QED  BY <1>1, <1>2, <1>3, <1>4 DEF PipelineStep

\* A worker is spawned by the answer of its own handler.
Answered == \A r \in Requests : jobPc[r] # "idle" => reqPc[r] = "done"

LEMMA OthersStand ==
    ASSUME TypeOK, NEW k \in Jobs, WorkerStep(k) \/ Raises(k)
    PROVE  /\ \A j \in Jobs \ {k} : jobPc'[j] = jobPc[j]
           /\ jobPc[k] # "idle" /\ jobPc'[k] \notin {"idle", "spawned"}
           /\ UNCHANGED reqPc
BY DEF WorkerStep, TrackJob, EnterSemaphore, AcquireConnection, CheckCompleted,
       MarkProcessing, AcquireSecond, LoadPayload, DeleteOldChunks, InsertChunks,
       NotifyBackend, MarkCompleted, MarkFailed, LeaveJob, StatementFails,
       WorkerAborts, RaiseInside, RaiseOutside, Raises, Executed, Goto, TypeOK

LEMMA HandlersStand ==
    ASSUME TypeOK, Answered, NEW r \in Requests, Receive(r) \/ HandlerStep(r)
    PROVE  /\ \A j \in Jobs : jobPc[j] # "idle" => jobPc'[j] = jobPc[j]
           /\ Answered'
<1>1. jobPc' = jobPc \/ (jobPc' = [jobPc EXCEPT ![r] = "spawned"] /\ reqPc'[r] = "done")
  BY DEF HandlerStep, Receive, AcquireForIngest, CheckExisting, Store, Answer,
     StoreDuplicateKey, RequestFails, TypeOK
<1>2. /\ reqPc[r] # "done"
      /\ \A q \in Requests \ {r} : reqPc'[q] = reqPc[q]
  BY DEF HandlerStep, Receive, AcquireForIngest, CheckExisting, Store, Answer,
     StoreDuplicateKey, RequestFails, TypeOK
<1>3. jobPc[r] = "idle"
  BY <1>2 DEF Answered
<1>q. QED  BY <1>1, <1>2, <1>3, JobsFacts DEF Answered, TypeOK

LEMMA AnsweredStep ==
    ASSUME TypeOK, Answered, PipelineStep PROVE Answered'
<1>1. CASE \E r \in Requests : Receive(r) \/ HandlerStep(r)
  BY <1>1, HandlersStand
<1>2. ASSUME NEW k \in Jobs, WorkerStep(k) \/ Raises(k) PROVE Answered'
  BY <1>2, OthersStand, JobsFacts DEF Answered
<1>3. CASE \E p \in Reprocs : Reprocess(p)
  BY <1>3, WorkloadAssumption, JobsFacts DEF Reprocess, Goto, Answered, TypeOK
<1>q. QED  BY <1>1, <1>2, <1>3 DEF PipelineStep

LEMMA SpawnedFromIdle ==
    ASSUME TypeOK, Answered, PipelineStep, NEW j \in Jobs, jobPc[j] # "idle"
    PROVE  jobPc'[j] # "idle" /\ (jobPc'[j] = "spawned" => jobPc[j] = "spawned")
<1>1. CASE \E r \in Requests : Receive(r) \/ HandlerStep(r)
  BY <1>1, HandlersStand
<1>2. ASSUME NEW k \in Jobs, WorkerStep(k) \/ Raises(k)
      PROVE  jobPc'[j] # "idle" /\ (jobPc'[j] = "spawned" => jobPc[j] = "spawned")
  BY <1>2, OthersStand
<1>3. CASE \E p \in Reprocs : Reprocess(p)
  BY <1>3, JobsFacts DEF Reprocess, Goto, TypeOK
<1>q. QED  BY <1>1, <1>2, <1>3 DEF PipelineStep

\* A worker that owns a row keeps its connection until it has closed the row.
LEMMA WorkerOwns ==
    ASSUME TypeOK, NEW j \in Jobs, WorkerStep(j), faults' = 0,
           jobPc[j] \in Owning, status'[BatchOf[j]] = "PROCESSING"
    PROVE  jobPc'[j] \in Owning
<1>1. faults' # faults + 1
  BY BoundAssumption DEF TypeOK
<1>2. ~MarkCompleted(j) /\ ~MarkFailed(j)
  BY JobsFacts, NoRowAssumption DEF MarkCompleted, MarkFailed, SetStatus, TypeOK
<1>3. CASE MarkProcessing(j) \/ DeleteOldChunks(j) \/ InsertChunks(j)
  BY <1>1, <1>3
     DEF MarkProcessing, DeleteOldChunks, InsertChunks, Executed, Fault, Goto, TypeOK,
         Owning, Connected
<1>4. CASE AcquireSecond(j) \/ LoadPayload(j) \/ NotifyBackend(j)
  BY <1>4 DEF AcquireSecond, LoadPayload, NotifyBackend, Goto, TypeOK, Owning, Connected
<1>5. ~Fault
  BY <1>1 DEF Fault
<1>q. QED
  BY <1>2, <1>3, <1>4, <1>5
     DEF WorkerStep, TrackJob, EnterSemaphore, AcquireConnection, CheckCompleted,
         LeaveJob, StatementFails, WorkerAborts, Owning, Connected

LEMMA FaultsGrow ==
    ASSUME TypeOK, PipelineStep PROVE faults' = faults \/ faults' = faults + 1
<1>1. CASE \E r \in Requests : Receive(r) \/ HandlerStep(r)
  BY <1>1 DEF HandlerStep, Receive, AcquireForIngest, CheckExisting, Store,
     StoreDuplicateKey, RequestFails, Fault
<1>2. CASE \E j \in Jobs : WorkerStep(j)
  BY <1>2
     DEF WorkerStep, TrackJob, EnterSemaphore, AcquireConnection, CheckCompleted,
         MarkProcessing, AcquireSecond, LoadPayload, DeleteOldChunks, InsertChunks,
         NotifyBackend, MarkCompleted, MarkFailed, LeaveJob, StatementFails,
         WorkerAborts, Executed, Fault
<1>3. CASE \E j \in Jobs : Raises(j)
  BY <1>3 DEF Raises
<1>4. CASE \E p \in Reprocs : Reprocess(p)
  BY <1>4 DEF Reprocess
<1>q. QED  BY <1>1, <1>2, <1>3, <1>4 DEF PipelineStep

LEMMA OwnerStays ==
    ASSUME LifeTypeOK, Answered, ClosedLate, [LifeNext]_allVars, faults' = 0,
           NEW j \in Jobs, jobPc[j] \in Owning,
           status'[BatchOf[j]] = "PROCESSING"
    PROVE  jobPc'[j] \in Owning \/ (phase' = "closed" /\ j \in late')
<1>t. TypeOK /\ jobPc[j] \in Connected
  BY DEF LifeTypeOK, Owning
<1>1. CASE \E k \in Jobs : JobStep(k)
  <2>1. PICK k \in Jobs : JobStep(k)
    BY <1>1
  <2>2. CASE k # j
    BY <1>t, <2>1, <2>2, JobSteps, OthersStand
  <2>3. CASE WorkerStep(j)
    BY <1>t, <2>3, WorkerOwns
  <2>4. CASE RefuseJob(j)
    BY <1>t, <2>4 DEF RefuseJob, RaiseInside, RaiseOutside, Goto, TypeOK, Owning, Connected
  <2>5. CASE LoseConnection(j)
    BY <1>t, <2>5 DEF LoseConnection, ClosedLate, JobsAt, lifeVars
  <2>q. QED
    BY <2>1, <2>2, <2>3, <2>4, <2>5, WorkIsWorkerStep
       DEF JobStep, Acquire, Leave, WorkerStep
<1>2. CASE Accept \/ \E r \in Requests : Handle(r)
  <2>1. CASE \E r \in Requests : Receive(r) \/ HandlerStep(r)
    BY <1>t, <2>1, HandlersStand DEF Owning, Connected
  <2>2. CASE \E p \in Reprocs : Reprocess(p)
    BY <1>t, <2>2, JobsFacts DEF Reprocess, Goto, TypeOK, Owning, Connected
  <2>q. QED  BY <1>2, <2>1, <2>2 DEF Accept, Handle, HandlerStep
<1>3. CASE UNCHANGED jobPc
  BY <1>3
<1>q. QED
  BY <1>1, <1>2, <1>3
     DEF LifeNext, StartRun, RunStep, RunAcquires, RunWorks, RefuseRun, RunOnly,
         BeginShutdown, CancelScheduled, Stop, Stopped, Resume, TimeOut, ClosePool,
         allVars, vars

\* A closed pool serves nobody and stays closed.
LEMMA ClosedLateStep ==
    ASSUME LifeTypeOK, Answered, ClosedLate, [LifeNext]_allVars
    PROVE  /\ ClosedLate'
           /\ phase = "closed" => phase' = "closed" /\ late \subseteq late'
<1>t. TypeOK
  BY DEF LifeTypeOK
<1>1. CASE \E k \in Jobs : JobStep(k)
  <2>1. PICK k \in Jobs : JobStep(k)
    BY <1>1
  <2>2. phase' = "closed" => phase = "closed" /\ ~Acquire(k)
    BY <2>1 DEF JobStep, Acquire, Served, Stopping, RefuseJob, LoseConnection, Work,
       Leave, lifeVars
  <2>3. phase = "closed" => UNCHANGED <<phase, late>>
    BY <2>1 DEF JobStep, Acquire, Served, Stopping, RefuseJob, LoseConnection, Work,
       Leave, lifeVars
  <2>4. phase = "closed" /\ jobPc'[k] \in Connected => jobPc[k] \in Connected
    BY <1>t, <2>1, <2>2, <2>3
       DEF JobStep, RefuseJob, LoseConnection, Work, Leave, TrackJob, EnterSemaphore,
           NotifyBackend, LeaveJob, RaiseInside, RaiseOutside, Goto, TypeOK, Connected,
           Refused
  <2>5. \A j \in Jobs \ {k} : jobPc'[j] = jobPc[j]
    BY <1>t, <2>1, JobSteps, OthersStand
  <2>q. QED  BY <2>2, <2>3, <2>4, <2>5 DEF ClosedLate, JobsAt
<1>2. CASE Accept \/ \E r \in Requests : Handle(r)
  <2>1. UNCHANGED lifeVars
    BY <1>2 DEF Accept, Handle
  <2>2. CASE \E r \in Requests : Receive(r) \/ HandlerStep(r)
    <3>1. \A j \in Jobs : jobPc'[j] \in Connected => jobPc[j] \in Connected
      BY <1>t, <2>2
         DEF HandlerStep, Receive, AcquireForIngest, CheckExisting, Store,
             StoreDuplicateKey, RequestFails, TypeOK, Connected
    <3>q. QED  BY <2>1, <3>1 DEF ClosedLate, JobsAt, lifeVars
  <2>3. CASE \E p \in Reprocs : Reprocess(p)
    <3>1. \A j \in Jobs : jobPc'[j] \in Connected => jobPc[j] \in Connected
      BY <1>t, <2>3 DEF Reprocess, Goto, TypeOK, Connected
    <3>q. QED  BY <2>1, <3>1 DEF ClosedLate, JobsAt, lifeVars
  <2>q. QED  BY <1>2, <2>2, <2>3 DEF Accept, Handle, HandlerStep
<1>3. CASE ClosePool
  BY <1>3 DEF ClosePool, ClosedLate, Holders, JobsAt, vars
<1>4. CASE \E r \in Runs : StartRun(r) \/ RunStep(r)
  BY <1>4 DEF StartRun, RunStep, RunAcquires, RunWorks, RefuseRun, RunOnly, Served,
     Stopping, ClosedLate, JobsAt, vars
<1>5. CASE BeginShutdown \/ CancelScheduled \/ Resume \/ TimeOut
  BY <1>5 DEF BeginShutdown, CancelScheduled, Resume, TimeOut, StartClosing,
     ClosedLate, JobsAt, vars
<1>6. CASE UNCHANGED allVars
  BY <1>6 DEF ClosedLate, JobsAt, allVars, vars, lifeVars
<1>q. QED
  BY <1>1, <1>2, <1>3, <1>4, <1>5, <1>6 DEF LifeNext, Stop, Stopped

LEMMA OwnedStep ==
    ASSUME LifeTypeOK, Answered, ClosedLate, Owned, [LifeNext]_allVars
    PROVE  Owned'
<1> SUFFICES ASSUME faults' = 0, NEW b \in Batches, status'[b] = "PROCESSING"
             PROVE  \E j \in Jobs :
                        /\ BatchOf[j] = b
                        /\ \/ jobPc'[j] \in Owning
                           \/ phase' = "closed" /\ j \in late'
  BY DEF Owned
<1>1. faults = 0
  <2>1. faults' = faults \/ faults' = faults + 1
    BY LifeStepCases, FaultsGrow DEF LifeTypeOK, vars
  <2>q. QED  BY <2>1 DEF LifeTypeOK, TypeOK
<1>2. CASE status[b] = "PROCESSING"
  <2>1. PICK j \in Jobs :
            /\ BatchOf[j] = b
            /\ jobPc[j] \in Owning \/ (phase = "closed" /\ j \in late)
    BY <1>1, <1>2 DEF Owned
  <2>q. QED  BY <2>1, OwnerStays, ClosedLateStep
<1>3. CASE PipelineStep /\ status[b] # "PROCESSING"
  BY <1>3, RowsOfOthers DEF LifeTypeOK
<1>4. CASE UNCHANGED vars /\ status[b] # "PROCESSING"
  BY <1>4 DEF vars
<1>q. QED  BY <1>2, <1>3, <1>4, LifeStepCases

LEMMA OwnershipHolds == LifeSpec => [](Answered /\ ClosedLate /\ Owned)
<1>1. LifeInit => Answered /\ ClosedLate /\ Owned
  BY JobsFacts, NoRowAssumption
     DEF LifeInit, Init, Answered, ClosedLate, Owned
<1>2. /\ LifeTypeOK /\ Answered /\ ClosedLate /\ Owned /\ [LifeNext]_allVars
      => (Answered /\ ClosedLate /\ Owned)'
  <2>1. ASSUME LifeTypeOK, Answered, [LifeNext]_allVars PROVE Answered'
    BY <2>1, LifeStepCases, AnsweredStep DEF LifeTypeOK, Answered, vars
  <2>q. QED  BY <2>1, ClosedLateStep, OwnedStep
<1>q. QED  BY <1>1, <1>2, LifeTyped, PTL DEF LifeSpec

(* Shutdown strands no PROCESSING row, whatever the bounds, the timeout and *)
(* the order of the queue: it needs neither the driver's patience nor the   *)
(* tracker, only that the pool waits for its holders.                       *)
THEOREM NothingLeftProcessing == LifeSpec => []NoRowLeftProcessing
<1>1. Owned /\ ClosedLate => NoRowLeftProcessing
  BY DEF Owned, ClosedLate, NoRowLeftProcessing, JobsAt, Owning
<1>q. QED  BY <1>1, OwnershipHolds, PTL

-----------------------------------------------------------------------------
(* Tracked workers are served.                                             *)

\* Through the wait the tracked workers are under way; when it ends without
\* a timeout they are done.
TrackInv ==
    /\ phase = "up" => tracked = {} /\ refused = {}
    /\ \A j \in tracked : jobPc[j] \notin {"idle", "spawned"}
    /\ phase \in {"woken", "closing", "closed"} /\ ~timedOut =>
           \A j \in tracked : jobPc[j] = "done"
    /\ TrackedJobsAreServed

LEMMA DoneStays ==
    ASSUME TypeOK, Answered, PipelineStep, NEW j \in Jobs, jobPc[j] = "done"
    PROVE  jobPc'[j] = "done"
<1>1. CASE \E r \in Requests : Receive(r) \/ HandlerStep(r)
  BY <1>1, HandlersStand
<1>2. ASSUME NEW k \in Jobs, WorkerStep(k) \/ Raises(k) PROVE jobPc'[j] = "done"
  <2>1. jobPc[k] # "done"
    BY <1>2
       DEF WorkerStep, TrackJob, EnterSemaphore, AcquireConnection, CheckCompleted,
           MarkProcessing, AcquireSecond, LoadPayload, DeleteOldChunks, InsertChunks,
           NotifyBackend, MarkCompleted, MarkFailed, LeaveJob, StatementFails,
           WorkerAborts, RaiseInside, RaiseOutside, Raises
  <2>q. QED  BY <1>2, <2>1, OthersStand
<1>3. CASE \E p \in Reprocs : Reprocess(p)
  BY <1>3, JobsFacts DEF Reprocess, Goto, TypeOK
<1>q. QED  BY <1>1, <1>2, <1>3 DEF PipelineStep

\* An empty tracker means that every worker that was tracked is done.
LEMMA EmptyTracker ==
    ASSUME TypeOK, TrackerExact, active_jobs = {}, NEW j \in Jobs,
           jobPc[j] \notin {"idle", "spawned"}
    PROVE  jobPc[j] = "done"
BY DEF TrackerExact, LiveJobs, TypeOK, JobLocations

LEMMA TrackStep ==
    ASSUME LifeTypeOK, PipelineInv, PipelineInv', Answered, TrackInv,
           [LifeNext]_allVars
    PROVE  TrackInv'
<1>t. TypeOK /\ TypeOK' /\ tracked \subseteq Jobs
  BY LifeTypedStep DEF LifeTypeOK
<1>a. \A j \in tracked : jobPc'[j] \notin {"idle", "spawned"}
  BY <1>t, LifeStepCases, SpawnedFromIdle DEF TrackInv, vars
<1>d. \A j \in tracked : jobPc[j] = "done" => jobPc'[j] = "done"
  BY <1>t, LifeStepCases, DoneStays DEF vars
<1>1. CASE UNCHANGED <<phase, timedOut, tracked, refused>>
  BY <1>1, <1>a, <1>d DEF TrackInv, TrackedJobsAreServed
<1>2. ASSUME NEW k \in Jobs, RefuseJob(k) PROVE TrackInv'
  <2>1. /\ phase \in {"closing", "closed"}
        /\ refused' \subseteq refused \cup {k}
        /\ refused' = refused \/ jobPc[k] = "conn"
        /\ UNCHANGED <<phase, timedOut, tracked>>
    BY <1>2 DEF RefuseJob, Refused
  <2>q. QED  BY <2>1, <1>a, <1>d DEF TrackInv, TrackedJobsAreServed
<1>3. ASSUME NEW k \in Jobs, Leave(k) PROVE TrackInv'
  <2>1. CASE phase = "waiting" /\ active_jobs' = {}
    <3>1. \A j \in tracked : jobPc'[j] = "done"
      <4>1. \A j \in LiveJobs' : jobPc'[j] = "spawned"
        BY <2>1 DEF PipelineInv, TrackerExact
      <4>q. QED  BY <1>t, <1>a, <4>1 DEF LiveJobs
    <3>q. QED
      BY <1>3, <1>a, <2>1, <3>1 DEF Leave, TrackInv, TrackedJobsAreServed
  <2>q. QED  BY <1>1, <1>3, <2>1 DEF Leave
<1>4. CASE BeginShutdown
  <2>1. \A j \in tracked' : j \in Jobs /\ jobPc'[j] \notin {"idle", "spawned"}
    BY <1>4 DEF BeginShutdown, LiveJobs, vars
  <2>2. phase' # "waiting" => \A j \in tracked' : jobPc'[j] = "done"
    BY <1>4, <1>t, <2>1, EmptyTracker DEF BeginShutdown, PipelineInv, vars
  <2>3. refused = {}
    BY <1>4 DEF BeginShutdown, TrackInv
  <2>q. QED
    BY <1>4, <2>1, <2>2, <2>3 DEF BeginShutdown, StartClosing, TrackInv, TrackedJobsAreServed
<1>5. CASE Resume \/ TimeOut \/ ClosePool
  BY <1>5, <1>a, <1>d
     DEF Resume, TimeOut, ClosePool, StartClosing, TrackInv, TrackedJobsAreServed
<1>q. QED
  BY <1>1, <1>2, <1>3, <1>4, <1>5
     DEF LifeNext, Accept, Handle, JobStep, Acquire, LoseConnection, Work, StartRun,
         RunStep, RunAcquires, RunWorks, RefuseRun, RunOnly, CancelScheduled, Stop,
         Stopped, allVars, lifeVars

(* Shutdown waits for active jobs: as long as re-processing leaves running  *)
(* workers alone, a worker that was tracked when shutdown began is refused  *)
(* a connection only after the wait timed out.                              *)
THEOREM TrackedAreServed == ASSUME DriverWaits PROVE LifeSpec => []TrackedJobsAreServed
<1>1. LifeInit => TrackInv
  BY DEF LifeInit, TrackInv, TrackedJobsAreServed
<1>2. /\ LifeTypeOK /\ PipelineInv /\ PipelineInv' /\ Answered /\ TrackInv
      /\ [LifeNext]_allVars
      => TrackInv'
  BY TrackStep
<1>3. TrackInv => TrackedJobsAreServed
  BY DEF TrackInv
<1>q. QED
  BY <1>1, <1>2, <1>3, LifeTyped, PipelineHolds, OwnershipHolds, PTL DEF LifeSpec

-----------------------------------------------------------------------------
(* The shared pool.                                                        *)

LEMMA SemaphoreStep ==
    ASSUME TypeOK, SemaphoreBound, PipelineStep PROVE SemaphoreBound'
<1>1. CASE \/ \E r \in Requests : Receive(r) \/ HandlerStep(r)
           \/ \E p \in Reprocs : Reprocess(p)
  BY <1>1, StartersShrink, SemaphoreShrinks
<1>2. ASSUME NEW j \in Jobs, WorkerStep(j) PROVE SemaphoreBound'
  BY <1>2, EnteringIsBounded, OthersShrink, SemaphoreShrinks
<1>3. ASSUME NEW j \in Jobs, Raises(j) PROVE SemaphoreBound'
  <2>1. JobsAt(InSemaphore)' \subseteq JobsAt(InSemaphore)
    BY <1>3 DEF Raises, RaiseInside, RaiseOutside, Goto, TypeOK, JobsAt, InSemaphore,
       Connected
  <2>q. QED  BY <2>1, SemaphoreShrinks
<1>q. QED  BY <1>1, <1>2, <1>3 DEF PipelineStep

LEMMA LifeSemaphoreHolds == LifeSpec => []SemaphoreBound
<1>1. LifeInit => SemaphoreBound
  <2>1. LifeInit => JobsAt(InSemaphore) = {}
    BY DEF LifeInit, Init, JobsAt, InSemaphore, Connected
  <2>q. QED  BY <2>1, FS_EmptySet, BoundAssumption DEF SemaphoreBound
<1>2. LifeTypeOK /\ SemaphoreBound /\ [LifeNext]_allVars => SemaphoreBound'
  <2>1. SemaphoreBound /\ UNCHANGED vars => SemaphoreBound'
    BY DEF SemaphoreBound, JobsAt, vars
  <2>q. QED  BY <2>1, LifeStepCases, SemaphoreStep DEF LifeTypeOK
<1>q. QED  BY <1>1, <1>2, LifeTyped, PTL DEF LifeSpec

(* With a pool larger than the semaphore, handlers, workers and any number  *)
(* of report runs never all wait for each other's connections: whoever is   *)
(* left as the only holders, the workers inside the semaphore, cannot fill  *)
(* the pool.                                                                *)
THEOREM SharedPoolIsNeverCircular ==
    ASSUME PoolMax > JobConcurrency PROVE LifeSpec => []SharedPoolNeverCircular
<1>1. ASSUME SemaphoreBound PROVE SharedPoolNeverCircular
  <2> SUFFICES ASSUME RequestsHolding = {}, JobsAt(Connected \ {"loadwait"}) = {},
                      RunsHolding \ Waiters = {}
               PROVE  Free
    BY DEF SharedPoolNeverCircular
  <2>1. InUse < PoolMax /\ InUse \in Nat
    BY <1>1, PoolOutlastsWaiters
  <2>2. RunsHolding = {}
    BY RunAssumption DEF RunsHolding, RunsAt, Waiters, JobsAt
  <2>3. Cardinality(RunsHolding) = 0
    BY <2>2, FS_EmptySet
  <2>q. QED  BY <2>1, <2>3 DEF Free, TotalInUse
<1>q. QED  BY <1>1, LifeSemaphoreHolds, PTL
=============================================================================
