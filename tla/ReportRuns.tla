----------------------------- MODULE ReportRuns -----------------------------
(***************************************************************************)
(* Daily and weekly reports: run_daily_report and run_weekly_report of     *)
(* scheduler/report_scheduler.py, generate_periodic_report and the LLM     *)
(* client they call, analysis_reports, and the web backend they push to.   *)
(*                                                                         *)
(* A run is one execution of run_daily_report or run_weekly_report.  The   *)
(* scheduler starts some, POST /api/report/{type} starts the others, and   *)
(* they overlap.  The metrics are not modelled here, only what happens to  *)
(* the report.                                                             *)
(***************************************************************************)
EXTENDS Naturals, FiniteSets

CONSTANTS
    Runs,          \* executions of the workload
    Scheduled,     \* those started by APScheduler; the others are triggered
    TypeOf,        \* run -> "daily" or "weekly"
    LlmRetries,    \* max_retries of get_completion: calls after the first
    PushAttempts,  \* max_retries of push_report_to_backend: calls in all
    KeyUsable,     \* FALSE: the service key is present but malformed
    MaxFaults,     \* bound on database failures
    MaxCrashes     \* bound on process crashes

ASSUME RunAssumption ==
    /\ Scheduled \subseteq Runs
    /\ TypeOf \in [Runs -> {"daily", "weekly"}]
ASSUME RetryAssumption ==
    /\ LlmRetries \in Nat /\ PushAttempts \in Nat \ {0}
    /\ MaxFaults \in Nat /\ MaxCrashes \in Nat /\ KeyUsable \in BOOLEAN

VARIABLES
    pc,           \* where each run is
    llmTries,     \* get_completion's attempt
    llmCalls,     \* calls of messages.create that have come to an end
    llmResult,    \* what the last of them came to
    outcome,      \* what the LLM call came to: a report (with the model's
                  \* analysis or the fallback text), or a misshapen answer
    clock,        \* stands for the wall clock: one tick per generated report
    generatedAt,  \* generatedAt of each report
    rows,         \* analysis_reports: the runs whose report is saved
    pushed,       \* rows with pushed_to_backend = TRUE
    tries,        \* push_report_to_backend's attempt
    received,     \* reports the backend took in, once or more often
    faults, crashes

report == <<clock, generatedAt, outcome>>
delivery == <<rows, pushed, tries, received>>
llm == <<llmTries, llmCalls, llmResult>>
vars == <<pc, llm, report, delivery, faults, crashes>>

Active == {"aggregate", "llm", "save", "push", "mark"}

TypeOK ==
    /\ pc \in [Runs -> Active \cup {"idle", "ended"}]
    /\ llmTries \in [Runs -> 0..LlmRetries]
    /\ llmCalls \in [Runs -> Nat]
    /\ llmResult \in [Runs -> {"none", "answer", "timeout", "serverError", "error"}]
    /\ outcome \in [Runs -> {"none", "report", "misshapen"}]
    /\ clock \in Nat
    /\ generatedAt \in [Runs -> Nat]
    /\ rows \subseteq Runs
    /\ pushed \subseteq Runs
    /\ tries \in [Runs -> 0..PushAttempts]
    /\ received \subseteq Runs
    /\ faults \in 0..MaxFaults
    /\ crashes \in 0..MaxCrashes

Init ==
    /\ pc = [r \in Runs |-> "idle"]
    /\ llmTries = [r \in Runs |-> 0]
    /\ llmCalls = [r \in Runs |-> 0]
    /\ llmResult = [r \in Runs |-> "none"]
    /\ outcome = [r \in Runs |-> "none"]
    /\ clock = 0
    /\ generatedAt = [r \in Runs |-> 0]
    /\ rows = {} /\ pushed = {} /\ received = {}
    /\ tries = [r \in Runs |-> 0]
    /\ faults = 0 /\ crashes = 0

Goto(r, location) == pc' = [pc EXCEPT ![r] = location]

Fault == faults < MaxFaults /\ faults' = faults + 1

-----------------------------------------------------------------------------
\* The cron trigger fires.  APScheduler runs one instance of a job at a time
\* and skips a firing that finds the last one still running.
Fire(r) ==
    /\ r \in Scheduled /\ pc[r] = "idle"
    /\ Goto(r, IF \E s \in Scheduled : TypeOf[s] = TypeOf[r] /\ pc[s] \in Active
                 THEN "ended" ELSE "aggregate")
    /\ UNCHANGED <<llm, report, delivery, faults, crashes>>

\* POST /api/report/{type}: a background task, whatever else is running.
Trigger(r) ==
    /\ r \notin Scheduled /\ pc[r] = "idle"
    /\ Goto(r, "aggregate")
    /\ UNCHANGED <<llm, report, delivery, faults, crashes>>

Aggregate(r) ==
    /\ pc[r] = "aggregate"
    /\ Goto(r, "llm")
    /\ UNCHANGED <<llm, report, delivery, faults, crashes>>

\* The analysis is settled and the report is stamped: generatedAt is read
\* after the LLM call, without an await in between.
Compose(r) ==
    /\ outcome' = [outcome EXCEPT ![r] = "report"]
    /\ clock' = clock + 1
    /\ generatedAt' = [generatedAt EXCEPT ![r] = clock + 1]
    /\ Goto(r, "save")

\* One call of messages.create by the loop of get_completion is over.
LlmCalled(r, result) ==
    /\ pc[r] = "llm"
    /\ llmCalls' = [llmCalls EXCEPT ![r] = @ + 1]
    /\ llmResult' = [llmResult EXCEPT ![r] = result]

\* attempt += 1, and the loop goes round after a pause.
RetryLlm(r) ==
    /\ llmTries' = [llmTries EXCEPT ![r] = @ + 1]
    /\ UNCHANGED <<pc, report>>

\* The exception leaves get_completion: the report gets the fallback text.
GiveUpLlm(r) ==
    /\ Compose(r)
    /\ UNCHANGED llmTries

\* The locals of the call are kept up to the statement that saves the report.
ForgetLlm(r) ==
    /\ llmTries' = [llmTries EXCEPT ![r] = 0]
    /\ llmCalls' = [llmCalls EXCEPT ![r] = 0]
    /\ llmResult' = [llmResult EXCEPT ![r] = "none"]

\* The model answers, and its answer (or, if it is not JSON, the fallback
\* text) goes into the report.  JSON of an unexpected shape raises while the
\* report is built, outside the try block: the run ends.
LlmAnswers(r) ==
    /\ LlmCalled(r, "answer")
    /\ \/ Compose(r)
       \/ /\ outcome' = [outcome EXCEPT ![r] = "misshapen"]
          /\ Goto(r, "ended")
          /\ UNCHANGED <<clock, generatedAt>>
    /\ UNCHANGED <<llmTries, delivery, faults, crashes>>

\* Mutant: one retry too many.
LlmTimesOutOnceMore(r) ==
    /\ LlmCalled(r, "timeout")
    /\ \/ llmTries[r] = LlmRetries + 1 /\ GiveUpLlm(r)
       \/ llmTries[r] # LlmRetries + 1 /\ RetryLlm(r)
    /\ UNCHANGED <<delivery, faults, crashes>>

\* except APITimeoutError: raised again when attempt == max_retries.
LlmTimesOut(r) ==
    /\ LlmCalled(r, "timeout")
    /\ \/ llmTries[r] = LlmRetries /\ GiveUpLlm(r)
       \/ llmTries[r] # LlmRetries /\ RetryLlm(r)
    /\ UNCHANGED <<delivery, faults, crashes>>

\* Mutant: a 5xx is retried only while a retry would be left after it.
LlmFailsServerOnceLess(r) ==
    /\ LlmCalled(r, "serverError")
    /\ \/ llmTries[r] + 1 < LlmRetries /\ RetryLlm(r)
       \/ llmTries[r] + 1 >= LlmRetries /\ GiveUpLlm(r)
    /\ UNCHANGED <<delivery, faults, crashes>>

\* except APIStatusError: a 5xx is retried while attempt < max_retries.
LlmFailsServer(r) ==
    /\ LlmCalled(r, "serverError")
    /\ \/ llmTries[r] < LlmRetries /\ RetryLlm(r)
       \/ llmTries[r] >= LlmRetries /\ GiveUpLlm(r)
    /\ UNCHANGED <<delivery, faults, crashes>>

\* Another status, a lost connection, anything else: raised at once.
LlmRefuses(r) ==
    /\ LlmCalled(r, "error")
    /\ GiveUpLlm(r)
    /\ UNCHANGED <<delivery, faults, crashes>>

\* Mutant: the report is pushed first and saved never.
PushUnsaved(r) ==
    /\ pc[r] = "save"
    /\ Goto(r, "push")
    /\ UNCHANGED <<llm, report, delivery, faults, crashes>>

\* INSERT INTO analysis_reports; its reply can be lost after it was applied.
SaveReport(r) ==
    /\ pc[r] = "save"
    /\ rows' = rows \cup {r}
    /\ \/ Goto(r, IF KeyUsable THEN "push" ELSE "ended") /\ UNCHANGED faults
       \/ Goto(r, "ended") /\ Fault
    /\ ForgetLlm(r)
    /\ UNCHANGED <<report, pushed, tries, received, crashes>>

PushSucceeds(r) ==
    /\ pc[r] = "push"
    /\ received' = received \cup {r}
    /\ Goto(r, "mark")
    /\ UNCHANGED <<llm, report, rows, pushed, tries, faults, crashes>>

\* Mutant: the last attempt is never made.
PushGivesUpEarly(r) ==
    /\ pc[r] = "push"
    /\ tries' = [tries EXCEPT ![r] = @ + 1]
    /\ Goto(r, IF tries[r] + 2 < PushAttempts THEN "push" ELSE "ended")
    /\ UNCHANGED <<llm, report, rows, pushed, received, faults, crashes>>

\* Mutant: the attempts start over when they are used up.
PushForever(r) ==
    /\ pc[r] = "push"
    /\ tries' = [tries EXCEPT ![r] = (@ + 1) % PushAttempts]
    /\ UNCHANGED <<pc, llm, report, rows, pushed, received, faults, crashes>>

\* No connection, an error status, or a timeout after the backend took the
\* report in: in each case the attempt is counted and repeated.
PushFails(r) ==
    /\ pc[r] = "push"
    /\ received' \in {received, received \cup {r}}
    /\ tries' = [tries EXCEPT ![r] = @ + 1]
    /\ Goto(r, IF tries[r] + 1 < PushAttempts THEN "push" ELSE "ended")
    /\ UNCHANGED <<llm, report, rows, pushed, faults, crashes>>

MarkPushed(r) ==
    /\ pc[r] = "mark"
    /\ pushed' = pushed \cup {r}
    /\ Goto(r, "ended")
    /\ UNCHANGED <<llm, report, rows, tries, received, faults, crashes>>

\* A statement fails; the run swallows the exception and ends.
RunFails(r) ==
    /\ pc[r] \in {"aggregate", "save", "mark"}
    /\ Goto(r, "ended")
    /\ Fault
    /\ ForgetLlm(r)
    /\ UNCHANGED <<report, delivery, crashes>>

\* The process dies; no run is resumed.
Crash ==
    /\ crashes < MaxCrashes
    /\ crashes' = crashes + 1
    /\ pc' = [r \in Runs |-> IF pc[r] \in Active THEN "ended" ELSE pc[r]]
    /\ UNCHANGED <<llm, report, delivery, faults>>

AllEnded ==
    /\ \A r \in Runs : pc[r] = "ended"
    /\ UNCHANGED vars

LlmStep(r) == LlmAnswers(r) \/ LlmTimesOut(r) \/ LlmFailsServer(r) \/ LlmRefuses(r)

RunStep(r) ==
    \/ Aggregate(r) \/ LlmStep(r)
    \/ SaveReport(r) \/ PushSucceeds(r) \/ PushFails(r) \/ MarkPushed(r)
    \/ RunFails(r)

Next ==
    \/ \E r \in Runs : Fire(r) \/ Trigger(r) \/ RunStep(r)
    \/ Crash
    \/ AllEnded

Spec == Init /\ [][Next]_vars

(* Every call of a run has a timeout and the event loop runs every task    *)
(* that can run, so a started run keeps moving.                            *)
FairSpec == Spec /\ \A r \in Runs : WF_vars(RunStep(r))

-----------------------------------------------------------------------------
(* Safety *)

(* The backend only ever holds reports that are rows here, so a report it  *)
(* shows can be fetched again, and a row marked as pushed did reach it.    *)
DeliveryRecord == pushed \subseteq received /\ received \subseteq rows

(* While the database works and the process lives, a report that was       *)
(* composed is saved, and it stays unmarked only when every attempt failed *)
(* or the service key is unusable.                                         *)
GivesUpOnlyAfterRetries ==
    faults = 0 /\ crashes = 0 =>
        \A r \in Runs :
            pc[r] = "ended" /\ outcome[r] = "report" =>
                /\ r \in rows
                /\ r \in pushed \/ tries[r] = PushAttempts \/ ~KeyUsable

(* Timeouts and 5xx answers share one counter and are told apart by two    *)
(* tests of it (attempt == max_retries, attempt < max_retries).  Whichever *)
(* mix of the two a call meets, the fallback text is used for them only    *)
(* after max_retries + 1 calls, never after more, and an error of any      *)
(* other kind is never followed by another call.                           *)
LlmRetriesAgree ==
    \A r \in Runs :
        /\ llmCalls[r] <= LlmRetries + 1
        /\ llmResult[r] \in {"timeout", "serverError"} /\ outcome[r] = "report" =>
               llmCalls[r] = LlmRetries + 1
        /\ llmResult[r] = "error" => outcome[r] = "report"

\* The rows of one type, and get_latest_report's choice among them: the one
\* with the greatest generated_at.
Saved(type) == {r \in rows : TypeOf[r] = type}
\* Mutant: ORDER BY generated_at without DESC.
GetOldestReport(type) ==
    CHOOSE r \in Saved(type) : \A s \in Saved(type) : generatedAt[s] >= generatedAt[r]
GetLatestReport(type) ==
    CHOOSE r \in Saved(type) : \A s \in Saved(type) : generatedAt[s] <= generatedAt[r]

(* A reader of /latest never sees a report replaced by one generated       *)
(* before it, although overlapping runs save in any order.                 *)
LatestNeverOlder ==
    [][\A type \in {"daily", "weekly"} :
          Saved(type) # {} =>
              generatedAt'[GetLatestReport(type)'] >= generatedAt[GetLatestReport(type)]]_vars

(* The fallback text says that the statistics are provided even though the *)
(* analysis failed: whatever the LLM answers, the report is not lost while *)
(* the database works.                                                     *)
AnswerNeverLosesReport ==
    faults = 0 /\ crashes = 0 =>
        \A r \in Runs : pc[r] = "ended" /\ outcome[r] # "none" => r \in rows

-----------------------------------------------------------------------------
(* What makes the safety properties inductive: how far a run is tells what *)
(* its report is, where it is, and how many attempts are left.             *)
RunInv ==
    \A r \in Runs :
        /\ pc[r] \in {"idle", "aggregate", "llm"} =>
               /\ outcome[r] = "none"
               /\ llmCalls[r] = llmTries[r]
               /\ llmResult[r] # "error"
        /\ pc[r] \in {"idle", "aggregate", "llm", "save"} => tries[r] = 0
        /\ pc[r] \in {"push", "mark"} => r \in rows
        /\ pc[r] = "push" => tries[r] < PushAttempts
        /\ pc[r] = "mark" => r \in received

-----------------------------------------------------------------------------
(* Liveness *)

(* Every run that starts ends, so no run blocks the scheduler's later ones *)
(* or keeps its connection for ever.                                       *)
EveryRunEnds == \A r \in Runs : pc[r] = "aggregate" ~> pc[r] = "ended"
=============================================================================
