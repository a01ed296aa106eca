-------------------------- MODULE ReportRunsProofs --------------------------
(***************************************************************************)
(* Theorems of ReportRuns for every set of runs, every number of retries,  *)
(* failures and crashes.                                                   *)
(***************************************************************************)
EXTENDS ReportRuns, SumTheorems, TLAPS

\* The attempt counter of a push stays in range only because a run that has
\* used its attempts is not at "push": the type needs the run's invariant.
LEMMA StepTyped == ASSUME TypeOK, RunInv, [Next]_vars PROVE TypeOK'
<1> USE RunAssumption, RetryAssumption
        DEF TypeOK, Active, Goto, llm, report, delivery, Fault, ForgetLlm
<1>1. ASSUME NEW r \in Runs, Fire(r) \/ Trigger(r) PROVE TypeOK'
  BY <1>1 DEF Fire, Trigger
<1>2. ASSUME NEW r \in Runs, Aggregate(r) PROVE TypeOK'
  BY <1>2 DEF Aggregate, llm
<1>3. ASSUME NEW r \in Runs, LlmStep(r) PROVE TypeOK'
  BY <1>3 DEF LlmStep, LlmAnswers, LlmTimesOut, LlmFailsServer, LlmRefuses,
              LlmCalled, RetryLlm, GiveUpLlm, Compose
<1>4. ASSUME NEW r \in Runs, SaveReport(r) \/ RunFails(r) PROVE TypeOK'
  BY <1>4 DEF SaveReport, RunFails
<1>5. ASSUME NEW r \in Runs, PushSucceeds(r) \/ MarkPushed(r) PROVE TypeOK'
  BY <1>5 DEF PushSucceeds, MarkPushed
<1>6. ASSUME NEW r \in Runs, PushFails(r) PROVE TypeOK'
  <2>1. tries[r] + 1 \in 0..PushAttempts
    BY <1>6 DEF PushFails, RunInv
  <2> QED
    BY <1>6, <2>1 DEF PushFails
<1>7. CASE Crash
  BY <1>7 DEF Crash
<1>8. CASE AllEnded \/ UNCHANGED vars
  BY <1>8 DEF AllEnded, vars
<1> QED
  BY <1>1, <1>2, <1>3, <1>4, <1>5, <1>6, <1>7, <1>8 DEF Next, RunStep

LEMMA StepKeepsRun == ASSUME TypeOK, RunInv, [Next]_vars PROVE RunInv'
<1> USE RetryAssumption DEF TypeOK, RunInv, Active, Goto, llm, report, delivery, ForgetLlm
<1>1. ASSUME NEW r \in Runs, Fire(r) \/ Trigger(r) PROVE RunInv'
  BY <1>1 DEF Fire, Trigger
<1>2. ASSUME NEW r \in Runs, Aggregate(r) PROVE RunInv'
  BY <1>2 DEF Aggregate, llm
<1>3. ASSUME NEW r \in Runs, LlmStep(r) PROVE RunInv'
  BY <1>3 DEF LlmStep, LlmAnswers, LlmTimesOut, LlmFailsServer, LlmRefuses,
              LlmCalled, RetryLlm, GiveUpLlm, Compose
<1>4. ASSUME NEW r \in Runs, SaveReport(r) \/ RunFails(r) PROVE RunInv'
  BY <1>4 DEF SaveReport, RunFails
<1>5. ASSUME NEW r \in Runs, PushSucceeds(r) \/ MarkPushed(r) PROVE RunInv'
  BY <1>5 DEF PushSucceeds, MarkPushed
<1>6. ASSUME NEW r \in Runs, PushFails(r) PROVE RunInv'
  BY <1>6 DEF PushFails
<1>7. CASE Crash
  BY <1>7 DEF Crash
<1>8. CASE AllEnded \/ UNCHANGED vars
  BY <1>8 DEF AllEnded, vars
<1> QED
  BY <1>1, <1>2, <1>3, <1>4, <1>5, <1>6, <1>7, <1>8 DEF Next, RunStep

(* Every run's location, counters and report keep their types, and its     *)
(* location tells where its report is.                                     *)
THEOREM RunsInvariant == Spec => [](TypeOK /\ RunInv)
<1>1. Init => TypeOK /\ RunInv
  BY RunAssumption, RetryAssumption DEF Init, TypeOK, Active, RunInv
<1>2. TypeOK /\ RunInv /\ [Next]_vars => (TypeOK /\ RunInv)'
  BY StepTyped, StepKeepsRun
<1> QED
  BY <1>1, <1>2, PTL DEF Spec

(* Every table, counter and location of the report runs keeps its type.    *)
THEOREM RunsTyped == Spec => []TypeOK
BY RunsInvariant, PTL

(* The backend holds only saved reports, and a marked row did reach it.    *)
THEOREM DeliveryIsRecorded == Spec => []DeliveryRecord
<1>1. Init => DeliveryRecord
  BY DEF Init, DeliveryRecord
<1>2. TypeOK /\ RunInv /\ DeliveryRecord /\ [Next]_vars => DeliveryRecord'
  <2> SUFFICES ASSUME TypeOK, RunInv, DeliveryRecord, [Next]_vars PROVE DeliveryRecord'
    OBVIOUS
  <2> USE DEF DeliveryRecord, RunInv, delivery
  <2>1. ASSUME NEW r \in Runs, Fire(r) \/ Trigger(r) \/ Aggregate(r) PROVE DeliveryRecord'
    BY <2>1 DEF Fire, Trigger, Aggregate
  <2>2. ASSUME NEW r \in Runs, LlmStep(r) PROVE DeliveryRecord'
    BY <2>2 DEF LlmStep, LlmAnswers, LlmTimesOut, LlmFailsServer, LlmRefuses
  <2>3. ASSUME NEW r \in Runs, SaveReport(r) \/ RunFails(r) PROVE DeliveryRecord'
    BY <2>3 DEF SaveReport, RunFails
  <2>4. ASSUME NEW r \in Runs, PushSucceeds(r) \/ PushFails(r) PROVE DeliveryRecord'
    BY <2>4 DEF PushSucceeds, PushFails
  <2>5. ASSUME NEW r \in Runs, MarkPushed(r) PROVE DeliveryRecord'
    BY <2>5 DEF MarkPushed
  <2>6. CASE Crash \/ AllEnded \/ UNCHANGED vars
    BY <2>6 DEF Crash, AllEnded, vars
  <2> QED
    BY <2>1, <2>2, <2>3, <2>4, <2>5, <2>6 DEF Next, RunStep
<1> QED
  BY <1>1, <1>2, RunsInvariant, PTL DEF Spec

(* Without failures a composed report is saved, and it stays unmarked only *)
(* after every attempt or with an unusable key.                            *)
THEOREM RetriesAreExhausted == Spec => []GivesUpOnlyAfterRetries
<1>1. Init => GivesUpOnlyAfterRetries
  BY DEF Init, GivesUpOnlyAfterRetries
<1>2. TypeOK /\ RunInv /\ GivesUpOnlyAfterRetries /\ [Next]_vars
          => GivesUpOnlyAfterRetries'
  <2> SUFFICES ASSUME TypeOK, RunInv, GivesUpOnlyAfterRetries, [Next]_vars
               PROVE  GivesUpOnlyAfterRetries'
    OBVIOUS
  <2> USE RetryAssumption
          DEF TypeOK, GivesUpOnlyAfterRetries, RunInv, Active, Goto, report,
              delivery, Fault
  <2>1. ASSUME NEW r \in Runs, Fire(r) \/ Trigger(r) \/ Aggregate(r)
        PROVE  GivesUpOnlyAfterRetries'
    BY <2>1 DEF Fire, Trigger, Aggregate
  <2>2. ASSUME NEW r \in Runs, LlmStep(r) PROVE GivesUpOnlyAfterRetries'
    BY <2>2 DEF LlmStep, LlmAnswers, LlmTimesOut, LlmFailsServer, LlmRefuses,
                LlmCalled, RetryLlm, GiveUpLlm, Compose
  <2>3. ASSUME NEW r \in Runs, SaveReport(r) \/ RunFails(r)
        PROVE  GivesUpOnlyAfterRetries'
    BY <2>3 DEF SaveReport, RunFails
  <2>4. ASSUME NEW r \in Runs, PushSucceeds(r) \/ PushFails(r)
        PROVE  GivesUpOnlyAfterRetries'
    BY <2>4 DEF PushSucceeds, PushFails
  <2>5. ASSUME NEW r \in Runs, MarkPushed(r) PROVE GivesUpOnlyAfterRetries'
    BY <2>5 DEF MarkPushed
  <2>6. CASE Crash
    BY <2>6 DEF Crash
  <2>7. CASE AllEnded \/ UNCHANGED vars
    BY <2>7 DEF AllEnded, vars
  <2> QED
    BY <2>1, <2>2, <2>3, <2>4, <2>5, <2>6, <2>7 DEF Next, RunStep
<1> QED
  BY <1>1, <1>2, RunsInvariant, PTL DEF Spec

(* However timeouts and 5xx answers alternate, a call of the LLM is given up *)
(* after the last retry and never before it, and no other error is retried. *)
THEOREM LlmRetriesAreExhausted == Spec => []LlmRetriesAgree
<1>1. Init => LlmRetriesAgree
  BY RetryAssumption DEF Init, LlmRetriesAgree
<1>2. TypeOK /\ RunInv /\ LlmRetriesAgree /\ [Next]_vars => LlmRetriesAgree'
  <2> SUFFICES ASSUME TypeOK, RunInv, LlmRetriesAgree, [Next]_vars
               PROVE  LlmRetriesAgree'
    OBVIOUS
  <2> USE RetryAssumption DEF TypeOK, LlmRetriesAgree, RunInv, llm, report
  <2>1. ASSUME NEW r \in Runs, LlmStep(r) PROVE LlmRetriesAgree'
    BY <2>1 DEF LlmStep, LlmAnswers, LlmTimesOut, LlmFailsServer, LlmRefuses,
                LlmCalled, RetryLlm, GiveUpLlm, Compose
  <2>2. ASSUME NEW r \in Runs, SaveReport(r) \/ RunFails(r) PROVE LlmRetriesAgree'
    BY <2>2 DEF SaveReport, RunFails, ForgetLlm
  <2>3. ASSUME NEW r \in Runs,
               \/ Fire(r) \/ Trigger(r) \/ Aggregate(r)
               \/ PushSucceeds(r) \/ PushFails(r) \/ MarkPushed(r)
        PROVE  LlmRetriesAgree'
    BY <2>3 DEF Fire, Trigger, Aggregate, PushSucceeds, PushFails, MarkPushed
  <2>4. CASE Crash \/ AllEnded \/ UNCHANGED vars
    BY <2>4 DEF Crash, AllEnded, vars
  <2> QED
    BY <2>1, <2>2, <2>3, <2>4 DEF Next, RunStep
<1> QED
  BY <1>1, <1>2, RunsInvariant, PTL DEF Spec

-----------------------------------------------------------------------------
\* What the choice of the latest report rests on: there are finitely many rows
\* to choose from, and no report is stamped ahead of the clock.
StampInv ==
    /\ IsFiniteSet(rows)
    /\ \A r \in Runs : generatedAt[r] <= clock

\* Rows are only added, and a stamp is only replaced by a later one.
LEMMA StampsMoveForward ==
    ASSUME TypeOK, StampInv, [Next]_vars
    PROVE  /\ StampInv'
           /\ rows \subseteq rows'
           /\ \A r \in Runs : generatedAt[r] <= generatedAt'[r]
<1> DEFINE Forward == /\ StampInv' /\ rows \subseteq rows'
                      /\ \A r \in Runs : generatedAt[r] <= generatedAt'[r]
<1>1. ASSUME UNCHANGED <<clock, generatedAt, rows>> PROVE Forward
  BY <1>1 DEF TypeOK, StampInv
<1>2. ASSUME NEW r \in Runs, Compose(r), rows' = rows PROVE Forward
  <2>1. \A s \in Runs : generatedAt'[s] = IF s = r THEN clock + 1 ELSE generatedAt[s]
    BY <1>2 DEF Compose, TypeOK
  <2>q. QED  BY <1>2, <2>1 DEF Compose, TypeOK, StampInv
<1>3. ASSUME NEW r \in Runs, SaveReport(r) PROVE Forward
  <2>1. rows' = rows \cup {r} /\ UNCHANGED <<clock, generatedAt>>
    BY <1>3 DEF SaveReport, report
  <2>2. IsFiniteSet(rows')
    BY <2>1, FS_AddElement DEF StampInv
  <2>q. QED  BY <2>1, <2>2 DEF TypeOK, StampInv
<1>4. ASSUME NEW r \in Runs, LlmStep(r) PROVE Forward
  BY <1>1, <1>2, <1>4 DEF LlmStep, LlmAnswers, LlmTimesOut, LlmFailsServer,
     LlmRefuses, RetryLlm, GiveUpLlm, report, delivery
<1>5. ASSUME NEW r \in Runs,
             \/ Fire(r) \/ Trigger(r) \/ Aggregate(r) \/ PushSucceeds(r) \/ PushFails(r) \/ MarkPushed(r) \/ RunFails(r)
      PROVE  Forward
  BY <1>1, <1>5 DEF Fire, Trigger, Aggregate, PushSucceeds, PushFails,
                    MarkPushed, RunFails, report, delivery
<1>6. CASE Crash \/ AllEnded \/ UNCHANGED vars
  BY <1>1, <1>6 DEF Crash, AllEnded, vars, report, delivery
<1>q. QED  BY <1>3, <1>4, <1>5, <1>6 DEF Next, RunStep

\* What get_latest_report chooses is there, and nothing is newer.
LatestChosen ==
    \A type : IsFiniteSet(rows) /\ generatedAt \in [Runs -> Nat] /\ rows \subseteq Runs
                 /\ Saved(type) # {} =>
        /\ GetLatestReport(type) \in Saved(type)
        /\ \A s \in Saved(type) : generatedAt[s] <= generatedAt[GetLatestReport(type)]

LEMMA LatestChosenNow == LatestChosen
<1>1. SUFFICES ASSUME NEW type, IsFiniteSet(rows), generatedAt \in [Runs -> Nat],
                      rows \subseteq Runs, Saved(type) # {}
               PROVE  \E r \in Saved(type) : \A s \in Saved(type) :
                          generatedAt[s] <= generatedAt[r]
  BY Zenon DEF LatestChosen, GetLatestReport
<1>2. IsFiniteSet(Saved(type)) /\ \A r \in Saved(type) : generatedAt[r] \in Int
  BY <1>1, FS_Subset DEF Saved
<1>q. QED  BY <1>1, <1>2, LargestExists

LEMMA LatestChosenNext == LatestChosen'
BY LatestChosenNow, PTL

(* Whatever the order in which overlapping runs are composed and saved, the *)
(* latest report of a type is only ever replaced by one generated later.    *)
THEOREM LatestMovesForward == Spec => LatestNeverOlder
<1>1. Init => StampInv
  BY FS_EmptySet DEF Init, StampInv
<1>2. TypeOK /\ StampInv /\ [Next]_vars => StampInv'
  BY StampsMoveForward
<1>3. TypeOK /\ TypeOK' /\ StampInv /\ [Next]_vars
        => [\A type \in {"daily", "weekly"} :
               Saved(type) # {} =>
                   generatedAt'[GetLatestReport(type)']
                       >= generatedAt[GetLatestReport(type)]]_vars
  <2> SUFFICES ASSUME TypeOK, TypeOK', StampInv, [Next]_vars,
                      NEW type \in {"daily", "weekly"}, Saved(type) # {}
               PROVE  generatedAt'[GetLatestReport(type)']
                          >= generatedAt[GetLatestReport(type)]
    OBVIOUS
  <2> DEFINE old == GetLatestReport(type)
             new == GetLatestReport(type)'
  <2>1. StampInv' /\ rows \subseteq rows'
        /\ \A r \in Runs : generatedAt[r] <= generatedAt'[r]
    BY StampsMoveForward
  <2>2. Saved(type) \subseteq Saved(type)'
    BY <2>1 DEF Saved
  <2>3. old \in Saved(type)
    BY LatestChosenNow DEF LatestChosen, StampInv, TypeOK
  <2>4. new \in Saved(type)' /\ generatedAt'[old] <= generatedAt'[new]
    <3>1. Saved(type)' # {} /\ old \in Saved(type)'
      BY <2>2, <2>3
    <3>2. /\ new \in Saved(type)'
          /\ \A s \in Saved(type)' : generatedAt'[s] <= generatedAt'[new]
      BY <2>1, <3>1, LatestChosenNext DEF LatestChosen, StampInv, TypeOK
    <3>q. QED  BY <3>1, <3>2
  <2>5. old \in Runs /\ new \in Runs
    BY <2>3, <2>4 DEF Saved, TypeOK
  <2> HIDE DEF old, new
  <2>6. generatedAt'[old] \in Nat /\ generatedAt'[new] \in Nat /\ generatedAt[old] \in Nat
    BY <2>5 DEF TypeOK
  <2>7. generatedAt'[new] >= generatedAt[old]
    BY <2>1, <2>4, <2>5, <2>6
  <2>q. QED  BY <2>7 DEF old, new
<1>q. QED
  BY <1>1, <1>2, <1>3, RunsTyped, PTL DEF Spec, LatestNeverOlder
=============================================================================
