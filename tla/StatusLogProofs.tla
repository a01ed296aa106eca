-------------------------- MODULE StatusLogProofs --------------------------
(***************************************************************************)
(* StatusLog for every workload: the log is the union of the snapshots     *)
(* that entered it, what was accepted stays, and the handlers with their   *)
(* rows, locks and failures implement StatusTimeline.                      *)
(***************************************************************************)
EXTENDS StatusLog, TLAPS

\* An accepted snapshot was committed, and is not sent again.
AcceptedEntered ==
    \A s \in Sends : answer[s] = "accepted" => s \in entered /\ pc[s] = "done"

LogInv == TypeOK /\ LogIsDelivered /\ AcceptedEntered

\* The cells a snapshot writes are cells of the table.
LEMMA RowsFacts ==
    \A s \in Sends :
        /\ DOMAIN Rows[s] \subseteq Cells
        /\ \A i \in Records(s) : Cell[s][i] \in DOMAIN Rows[s]
<1> SUFFICES ASSUME NEW s \in Sends
             PROVE  /\ DOMAIN Rows[s] \subseteq Cells
                    /\ \A i \in Records(s) : Cell[s][i] \in DOMAIN Rows[s]
    OBVIOUS
<1>1. DOMAIN Rows[s] = {Cell[s][i] : i \in Records(s)}
    BY DEF Rows
<1>2. \A i \in Records(s) : Cell[s][i] \in Cells
    BY SnapshotAssumption
<1> QED
    BY <1>1, <1>2

\* A record that no later record of its snapshot repeats gives its cell the
\* status.
LEMMA ReportedWins ==
    ASSUME NEW s \in Sends, NEW i \in Records(s), Reported(s, i)
    PROVE  Rows[s][Cell[s][i]] = Status[s][i]
<1> DEFINE c == Cell[s][i]
<1> DEFINE Last(j) == Cell[s][j] = c /\ \A k \in (j + 1)..Len(StatusesOf[s]) : Cell[s][k] # c
<1>1. Last(i)
    BY DEF Reported
<1>2. \A j \in Records(s) : Last(j) => j = i
  <2> SUFFICES ASSUME NEW j \in Records(s), Last(j), j # i
               PROVE  FALSE
      OBVIOUS
  <2>1. i \in (j + 1)..Len(StatusesOf[s]) \/ j \in (i + 1)..Len(StatusesOf[s])
      BY SnapshotAssumption DEF Records
  <2> QED
      BY <2>1 DEF Reported
<1>3. LastRecord(s, c) = i
    BY <1>1, <1>2 DEF LastRecord
<1>4. c \in {Cell[s][j] : j \in Records(s)}
    OBVIOUS
<1> QED
    BY <1>3, <1>4 DEF Rows
-----------------------------------------------------------------------------
\* What a commit does to the log.
LEMMA CommitLog ==
    ASSUME LogInv, NEW s \in Sends, Commit(s)
    PROVE  LogIsDelivered' /\ DOMAIN log' = Cells
<1> USE DEF LogInv, TypeOK, Commit
<1>1. \A c \in Cells : c \in DOMAIN Rows[s] => log'[c] = Rows[s][c]
    OBVIOUS
<1>2. \A c \in Cells : c \notin DOMAIN Rows[s] => log'[c] = log[c]
    OBVIOUS
<1>3. ASSUME NEW c \in Cells
      PROVE  LET sources == {t \in entered' : c \in DOMAIN Rows[t]} IN
             IF sources = {} THEN log'[c] = NoRow
                             ELSE \E t \in sources : log'[c] = Rows[t][c]
  <2>1. CASE c \in DOMAIN Rows[s]
      BY <1>1, <2>1
  <2>2. CASE c \notin DOMAIN Rows[s]
    <3>1. {t \in entered' : c \in DOMAIN Rows[t]} = {t \in entered : c \in DOMAIN Rows[t]}
        BY <2>2
    <3> QED
        BY <1>2, <2>2, <3>1 DEF LogIsDelivered
  <2> QED
      BY <2>1, <2>2
<1> QED
    BY <1>3 DEF LogIsDelivered

LEMMA LogInit == Init => LogInv
    BY BoundAssumption DEF Init, LogInv, TypeOK, LogIsDelivered, AcceptedEntered

LEMMA LogStep == LogInv /\ [Next]_vars => LogInv'
<1> SUFFICES ASSUME LogInv, [Next]_vars PROVE LogInv'
    OBVIOUS
<1> USE BoundAssumption DEF LogInv, TypeOK, AcceptedEntered
<1>1. ASSUME NEW s \in Sends, Send(s) PROVE LogInv'
    BY <1>1 DEF Send, LogIsDelivered
<1>2. ASSUME NEW s \in Sends, WriteRow(s) PROVE LogInv'
    BY <1>2 DEF WriteRow, Writing, LogIsDelivered
<1>3. ASSUME NEW s \in Sends, Commit(s) PROVE LogInv'
  <2>1. LogIsDelivered' /\ DOMAIN log' = Cells
      BY <1>3, CommitLog
  <2>2. TypeOK' /\ AcceptedEntered'
      BY <1>3, <2>1 DEF Commit, Reply, Fault
  <2> QED
      BY <2>1, <2>2
<1>4. ASSUME NEW s \in Sends, Fail(s) PROVE LogInv'
    BY <1>4 DEF Fail, Reply, Fault, LogIsDelivered
<1>5. ASSUME NEW s \in Sends, AbortDeadlock(s) PROVE LogInv'
    BY <1>5 DEF AbortDeadlock, Reply, LogIsDelivered
<1>6. CASE CrashRestart
    BY <1>6 DEF CrashRestart, LogIsDelivered
<1>7. CASE AllAccepted \/ UNCHANGED vars
    BY <1>7 DEF AllAccepted, vars, LogIsDelivered
<1> QED
    BY <1>1, <1>2, <1>3, <1>4, <1>5, <1>6, <1>7 DEF Next, HandlerStep

\* Every reachable state of the status log satisfies the invariant: types, the
\* log as the union of what entered it, and no acceptance before a commit.
THEOREM LogInvariant == Spec => []LogInv
<1> QED
    BY LogInit, LogStep, PTL DEF Spec

\* The variables of ingest_status and the log stay what they are meant to be.
THEOREM LogTyped == Spec => []TypeOK
<1>1. LogInv => TypeOK
    BY DEF LogInv
<1> QED
    BY <1>1, LogInvariant, PTL

\* Whatever is resent, duplicated, delayed, aborted or lost, the log is the
\* union of the snapshots that entered it.
THEOREM LogDelivered == Spec => []LogIsDelivered
<1>1. LogInv => LogIsDelivered
    BY DEF LogInv
<1> QED
    BY <1>1, LogInvariant, PTL

\* Every instant of an accepted snapshot keeps the status it reported.
THEOREM AcceptedIsKept == Spec => []AcceptedStays
<1>1. LogInv => AcceptedStays
  <2> SUFFICES ASSUME LogInv, Consistent, NEW s \in Sends, answer[s] = "accepted",
                      NEW i \in Records(s), Reported(s, i)
               PROVE  log[Cell[s][i]] = Status[s][i]
      BY DEF AcceptedStays
  <2> DEFINE c == Cell[s][i]
  <2>1. c \in Cells /\ c \in DOMAIN Rows[s] /\ s \in entered
      BY RowsFacts DEF LogInv, AcceptedEntered
  <2>2. PICK t \in entered : c \in DOMAIN Rows[t] /\ log[c] = Rows[t][c]
      BY <2>1 DEF LogInv, LogIsDelivered
  <2>3. Rows[t][c] = Rows[s][c]
      BY <2>1, <2>2 DEF Consistent, LogInv, TypeOK
  <2> QED
      BY <2>2, <2>3, ReportedWins
<1> QED
    BY <1>1, LogInvariant, PTL

-----------------------------------------------------------------------------
\* The handlers implement StatusTimeline: a snapshot enters the log as a
\* whole, and only one that has entered it is acknowledged.
THEOREM LogRefinesTimeline == Spec => RefinesTimeline
<1> DEFINE acked == {s \in Sends : answer[s] = "accepted"}
<1> USE DEF Timeline!TimelineInit, Timeline!Enter, Timeline!timelineVars
<1>1. Init => Timeline!TimelineInit
    BY DEF Init
<1>2. LogInv /\ [Next]_vars => [\E s \in Sends : Timeline!Enter(s)]_Timeline!timelineVars
  <2> SUFFICES ASSUME LogInv, [Next]_vars
               PROVE  \/ \E s \in Sends : Timeline!Enter(s)
                      \/ UNCHANGED <<log, entered, acked>>
      OBVIOUS
  <2> USE DEF LogInv, TypeOK
  <2>1. ASSUME NEW s \in Sends, Send(s) \/ WriteRow(s)
        PROVE  UNCHANGED <<log, entered, acked>>
      BY <2>1 DEF Send, WriteRow
  <2>2. ASSUME NEW s \in Sends, Commit(s)
        PROVE  Timeline!Enter(s)
    <3>1. acked' \in {acked, acked \cup {s}}
        BY <2>2 DEF Commit, Reply, AcceptedEntered
    <3> QED
        BY <2>2, <3>1 DEF Commit
  <2>3. ASSUME NEW s \in Sends, Fail(s) \/ AbortDeadlock(s)
        PROVE  UNCHANGED <<log, entered, acked>>
    <3>1. pc[s] = "write"
        BY <2>3 DEF Fail, AbortDeadlock, WaitsFor, Writing
    <3> QED
        BY <2>3, <3>1 DEF Fail, AbortDeadlock, Reply, AcceptedEntered
  <2>4. CASE CrashRestart
      BY <2>4 DEF CrashRestart, AcceptedEntered
  <2>5. CASE AllAccepted \/ UNCHANGED vars
      BY <2>5 DEF AllAccepted, vars
  <2> QED
      BY <2>1, <2>2, <2>3, <2>4, <2>5 DEF Next, HandlerStep
<1> QED
    BY <1>1, <1>2, LogInvariant, PTL DEF Spec, RefinesTimeline, Timeline!TimelineSpec
=============================================================================
