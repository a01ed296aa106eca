------------------------------ MODULE Lifespan ------------------------------
(***************************************************************************)
(* One life of the process: the lifespan of main.py around the handlers    *)
(* and workers of IngestPipeline and the report runs, all of which share   *)
(* one connection pool.  Shutdown stops the scheduler, waits for the       *)
(* tracked jobs for at most 20 seconds and closes the pool, whatever is    *)
(* still running then.                                                     *)
(*                                                                         *)
(* The pool is asyncpg's (external).  Pool.close refuses every later       *)
(* acquire, waits without a limit for the connections that are out, and    *)
(* closes them all.  A task that was queued for a connection when close    *)
(* began may still be served, and close does not wait for it again.        *)
(***************************************************************************)
EXTENDS IngestPipeline

CONSTANTS
    Runs,      \* report runs of the workload
    Scheduled  \* those of APScheduler, which shutdown cancels

ASSUME RunAssumption ==
    /\ Scheduled \subseteq Runs /\ IsFiniteSet(Runs)
    /\ Runs \cap Jobs = {}

VARIABLES
    phase,     \* how far lifespan is: "up", in wait_for_completion
               \* ("waiting", "woken"), in Pool.close ("closing"), "closed"
    timedOut,  \* the wait ended by its timeout
    tracked,   \* workers in the tracker when the wait began
    queued,    \* tasks that waited for a connection when Pool.close began
    late,      \* tasks that were served a first connection after that
    refused,   \* workers whose first connection was refused
    runPc,     \* where each report run is
    cancelled  \* APScheduler has cancelled its runs

lifeVars == <<phase, timedOut, tracked, queued, late, refused, runPc, cancelled>>
allVars == <<vars, lifeVars>>

\* Aggregating and asking the LLM hold a connection; saving, pushing and
\* marking hold another one, taken after the first was returned.
RunsAt(locations) == {r \in Runs : runPc[r] \in locations}

\* Mutant: the report is saved inside the block that generated it.
RunsHoldingBoth == RunsAt({"generate", "composed", "save", "push"})

RunsHolding == RunsAt({"generate", "save", "push"})
Holders == RequestsHolding \cup JobsAt(Connected) \cup RunsHolding
TotalInUse == InUse + Cardinality(RunsHolding)
Free == TotalInUse < PoolMax
Waiters == JobsAt({"conn", "loadwait"}) \cup RunsAt({"connect", "composed"})

Stopping == phase \in {"closing", "closed"}

LifeTypeOK ==
    /\ TypeOK
    /\ phase \in {"up", "waiting", "woken", "closing", "closed"}
    /\ timedOut \in BOOLEAN /\ cancelled \in BOOLEAN
    /\ tracked \subseteq Jobs /\ refused \subseteq Jobs
    /\ queued \subseteq Jobs \cup Runs /\ late \subseteq Jobs \cup Runs
    /\ runPc \in [Runs -> {"idle", "connect", "generate", "composed", "save",
                           "push", "ended"}]

LifeInit ==
    /\ Init
    /\ phase = "up" /\ timedOut = FALSE /\ cancelled = FALSE
    /\ tracked = {} /\ queued = {} /\ late = {} /\ refused = {}
    /\ runPc = [r \in Runs |-> "idle"]

-----------------------------------------------------------------------------
(* Taking a connection *)

\* acquire() of task t; a first connection it gets from a closing pool is late.
Served(t, first) ==
    /\ Free
    /\ \/ ~Stopping /\ UNCHANGED <<queued, late>>
       \/ /\ phase = "closing" /\ t \in queued
          /\ queued' = queued \ {t}
          /\ late' = IF first THEN late \cup {t} ELSE late

Refused(t) == phase = "closed" \/ (phase = "closing" /\ t \notin queued)

-----------------------------------------------------------------------------
(* Handlers and workers.  Nothing is received once shutdown has begun.      *)

Accept ==
    /\ phase = "up"
    /\ \/ \E r \in Requests : Receive(r)
       \/ \E p \in Reprocs : Reprocess(p)
    /\ UNCHANGED lifeVars

Handle(r) ==
    /\ \/ AcquireForIngest(r) /\ Free
       \/ CheckExisting(r) \/ Store(r) \/ StoreDuplicateKey(r) \/ RequestFails(r)
    /\ UNCHANGED lifeVars

Acquire(j) ==
    /\ \/ AcquireConnection(j) /\ Served(j, TRUE)
       \/ AcquireSecond(j) /\ Served(j, FALSE)
    /\ UNCHANGED <<phase, timedOut, tracked, refused, runPc, cancelled>>

\* acquire() raises: outside the inner try for the first connection, inside it
\* for the second.
RefuseJob(j) ==
    /\ Refused(j)
    /\ \/ jobPc[j] = "conn" /\ RaiseOutside(j) /\ refused' = refused \cup {j}
       \/ jobPc[j] = "loadwait" /\ RaiseInside(j) /\ UNCHANGED refused
    /\ UNCHANGED faults
    /\ UNCHANGED <<phase, timedOut, tracked, queued, late, runPc, cancelled>>

\* The pool closed the connection of a late worker.
LoseConnection(j) ==
    /\ phase = "closed" /\ jobPc[j] \in Connected
    /\ RaiseOutside(j)
    /\ UNCHANGED <<faults, lifeVars>>

OnDatabase(j) ==
    \/ CheckCompleted(j) \/ MarkProcessing(j) \/ LoadPayload(j)
    \/ DeleteOldChunks(j) \/ InsertChunks(j) \/ MarkCompleted(j)
    \/ MarkFailed(j) \/ StatementFails(j) \/ WorkerAborts(j)

Work(j) ==
    /\ \/ TrackJob(j) \/ EnterSemaphore(j) \/ NotifyBackend(j)
       \/ phase # "closed" /\ OnDatabase(j)
    /\ UNCHANGED lifeVars

\* The last job to leave wakes the shutdown, even if another one starts then.
Leave(j) ==
    /\ LeaveJob(j)
    /\ phase' = IF phase = "waiting" /\ active_jobs' = {} THEN "woken" ELSE phase
    /\ UNCHANGED <<timedOut, tracked, queued, late, refused, runPc, cancelled>>

JobStep(j) == Acquire(j) \/ RefuseJob(j) \/ LoseConnection(j) \/ Work(j) \/ Leave(j)

-----------------------------------------------------------------------------
(* Report runs *)

RunGoto(r, location) == runPc' = [runPc EXCEPT ![r] = location]
RunOnly == UNCHANGED <<vars, phase, timedOut, tracked, refused, cancelled>>

\* A cron trigger or POST /api/report/{type}.
StartRun(r) ==
    /\ phase = "up" /\ runPc[r] = "idle"
    /\ RunGoto(r, "connect")
    /\ RunOnly /\ UNCHANGED <<queued, late>>

RunAcquires(r) ==
    /\ \/ runPc[r] = "connect" /\ RunGoto(r, "generate")
       \/ runPc[r] = "composed" /\ RunGoto(r, "save")
    /\ Served(r, TRUE)
    /\ RunOnly

\* Mutant: the call of the LLM has no timeout, and the LLM does not answer.
LlmHangs(r) ==
    /\ runPc[r] = "generate"
    /\ UNCHANGED allVars

\* The metrics are read and the LLM has answered or failed; or, as in the
\* second disjunct and whenever a run ends early, an exception ends the run.
RunWorks(r) ==
    /\ \/ runPc[r] = "generate" /\ RunGoto(r, "composed")
       \/ runPc[r] = "save" /\ phase # "closed" /\ RunGoto(r, "push")
       \/ runPc[r] \in {"generate", "save", "push"} /\ RunGoto(r, "ended")
    /\ RunOnly /\ UNCHANGED <<queued, late>>

RefuseRun(r) ==
    /\ runPc[r] \in {"connect", "composed"} /\ Refused(r)
    /\ RunGoto(r, "ended")
    /\ RunOnly /\ UNCHANGED <<queued, late>>

RunStep(r) == RunAcquires(r) \/ RunWorks(r) \/ RefuseRun(r)

-----------------------------------------------------------------------------
(* Shutdown *)

\* Pool.close starts: who may still be queued is decided now.
StartClosing ==
    /\ phase' = "closing"
    /\ queued' = IF Free THEN {} ELSE Waiters

\* The server has no request open any more; its background tasks may still
\* run.  wait_for_completion returns at once when the tracker is empty.
BeginShutdown ==
    /\ phase = "up"
    /\ \A r \in Requests : reqPc[r] \in {"idle", "done"}
    /\ tracked' = {j \in LiveJobs : jobPc[j] # "spawned"}
    /\ IF active_jobs = {} THEN StartClosing
                           ELSE phase' = "waiting" /\ UNCHANGED queued
    /\ UNCHANGED <<vars, timedOut, late, refused, runPc, cancelled>>

\* AsyncIOScheduler.shutdown cancels the runs it started, at whatever await
\* they are.
CancelScheduled ==
    /\ phase # "up" /\ ~cancelled
    /\ cancelled' = TRUE
    /\ runPc' = [r \in Runs |->
                    IF r \in Scheduled /\ runPc[r] # "idle" THEN "ended" ELSE runPc[r]]
    /\ UNCHANGED <<vars, phase, timedOut, tracked, queued, late, refused>>

\* Mutant: shutdown does not wait for the jobs.
ResumeAtOnce ==
    /\ phase \in {"waiting", "woken"}
    /\ StartClosing
    /\ UNCHANGED <<vars, timedOut, tracked, late, refused, runPc, cancelled>>

Resume ==
    /\ phase = "woken"
    /\ StartClosing
    /\ UNCHANGED <<vars, timedOut, tracked, late, refused, runPc, cancelled>>

TimeOut ==
    /\ phase = "waiting"
    /\ timedOut' = TRUE
    /\ StartClosing
    /\ UNCHANGED <<vars, tracked, late, refused, runPc, cancelled>>

\* Mutant: the pool is terminated instead of closed.
TerminatePool ==
    /\ phase = "closing"
    /\ phase' = "closed"
    /\ UNCHANGED <<vars, timedOut, tracked, queued, late, refused, runPc, cancelled>>

ClosePool ==
    /\ phase = "closing"
    /\ Holders \subseteq late
    /\ phase' = "closed"
    /\ UNCHANGED <<vars, timedOut, tracked, queued, late, refused, runPc, cancelled>>

\* The process may exit: nothing is left to run.
Stopped ==
    /\ phase = "closed" /\ LiveJobs = {}
    /\ RunsAt({"idle", "ended"}) = Runs
    /\ UNCHANGED allVars

Stop == Resume \/ TimeOut \/ ClosePool

LifeNext ==
    \/ Accept
    \/ \E r \in Requests : Handle(r)
    \/ \E j \in Jobs : JobStep(j)
    \/ \E r \in Runs : StartRun(r) \/ RunStep(r)
    \/ BeginShutdown \/ CancelScheduled \/ Stop \/ Stopped

LifeSpec == LifeInit /\ [][LifeNext]_allVars

(* The event loop runs every task that can run, every call of a report run  *)
(* has a timeout, and the pool serves its waiters.  Nobody promises a       *)
(* request, a report or a shutdown.                                         *)
FairLifeSpec ==
    /\ LifeSpec
    /\ \A r \in Requests : WF_allVars(Handle(r))
    /\ \A j \in Jobs : WF_allVars(JobStep(j))
    /\ \A r \in Runs : WF_allVars(RunStep(r))
    /\ WF_allVars(CancelScheduled) /\ WF_allVars(Stop)

-----------------------------------------------------------------------------
(* Safety *)

(* A shutdown, even one whose wait timed out under running workers, leaves  *)
(* no job row behind that says PROCESSING although nobody processes it:     *)
(* the pool waits for the workers that hold a connection, and a worker that *)
(* is refused its second one still records FAILED on its first.  The        *)
(* exception is a worker the closing pool served late, and a failure of the *)
(* database.                                                                *)
NoRowLeftProcessing ==
    phase = "closed" /\ faults = 0 =>
        \A b \in Batches :
            status[b] = "PROCESSING" => \E j \in late \cap Jobs : BatchOf[j] = b

(* Shutdown waits for active jobs: a worker that was in the tracker when it *)
(* began is refused its first connection only if the wait timed out.        *)
TrackedJobsAreServed == timedOut \/ refused \cap tracked = {}

(* Handlers, workers and report runs never block each other for good on the *)
(* pool they share: when no connection is free, somebody who holds one is   *)
(* not waiting for another, although workers take a second one inside their *)
(* first and every report run takes two, one after the other.               *)
SharedPoolNeverCircular ==
    \/ Free
    \/ RequestsHolding # {}
    \/ JobsAt(Connected \ {"loadwait"}) # {}
    \/ RunsHolding \ Waiters # {}

-----------------------------------------------------------------------------
(* Liveness *)

(* Shutdown ends, although Pool.close waits without a limit: workers,       *)
(* reports and the wait itself all come to an end.                          *)
ShutdownEnds == phase = "waiting" \/ phase = "closing" ~> phase = "closed"

(* Report runs hold a connection during the LLM call and another during the *)
(* push, in any number, and yet every handler is answered and every worker  *)
(* ends, before and after shutdown begins.                                  *)
SharedPoolServesAll == EveryTaskEnds
=============================================================================
