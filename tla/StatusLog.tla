----------------------------- MODULE StatusLog -----------------------------
(***************************************************************************)
(* POST /api/ingest/status: ingest_status of api/ingest.py, the upserts of *)
(* db/status_log.py in one transaction, the normalization of times and     *)
(* statuses, and a dispatcher that sends a snapshot again until it is      *)
(* accepted.                                                               *)
(*                                                                         *)
(* A member of Sends is one snapshot under way.  Two of them may carry the *)
(* same rows (a duplicate) or overlap in any order, and each may start at  *)
(* any time.  Inside its transaction a handler upserts row after row and   *)
(* holds the lock of every row it has written, so others see none of its   *)
(* rows before the commit, and wait for the rows it holds.                 *)
(***************************************************************************)
EXTENDS Integers, Sequences, FiniteSets

CONSTANTS
    Sends,
    EquipmentId,    \* send -> equipmentId (plaintext mode), or NoId
    EquipmentHash,  \* send -> equipmentHash
    StatusesOf,     \* send -> its records, [time |-> .., equipment_status |-> ..]
    Keys, Instants, \* equipment keys and points of time in UTC
    Upper,          \* str.upper on the status words of the workload
    SeoulOffset,    \* what DEFAULT_LOCAL_TZ is ahead of UTC
    MaxFaults, MaxCrashes,
    NoId, Naive, NoRow

VARIABLES
    log,     \* equipment_status_log: (equipment_key, ts) -> status
    pc,      \* where each handler is
    pos,     \* the record it upserts next
    answer,  \* what its client was told last
    entered, \* sends whose transaction was committed, once or more often
    faults, crashes

vars == <<log, pc, pos, answer, entered, faults, crashes>>

-----------------------------------------------------------------------------
(* EquipmentStatusSnapshot and its validators *)

normalize_datetime_to_utc(t) ==
    t.local - (IF t.offset = Naive THEN SeoulOffset ELSE t.offset)

normalize_equipment_status(word) ==
    CASE Upper[word] \in {"RUNNING", "RUN"} -> "RUN"
      [] Upper[word] \in {"IDLE", "STANDBY"} -> "IDLE"
      [] Upper[word] \in {"STOP", "STOPPED", "DOWN"} -> "STOP"
      [] OTHER -> Upper[word]

equipment_key(s) == IF EquipmentId[s] # NoId THEN EquipmentId[s] ELSE EquipmentHash[s]

Records(s) == 1..Len(StatusesOf[s])
\* The key of the row a record is upserted to, and the status it gets.
Cell ==
    [s \in Sends |-> [i \in Records(s) |->
        <<equipment_key(s), normalize_datetime_to_utc(StatusesOf[s][i].time)>>]]
Status ==
    [s \in Sends |-> [i \in Records(s) |->
        normalize_equipment_status(StatusesOf[s][i].equipment_status)]]

\* The record a cell ends up with: the upserts follow each other.
LastRecord(s, c) ==
    CHOOSE i \in Records(s) :
        Cell[s][i] = c /\ \A j \in (i + 1)..Len(StatusesOf[s]) : Cell[s][j] # c

\* What the upserts of a whole snapshot write.
Rows ==
    [s \in Sends |->
        [c \in {Cell[s][i] : i \in Records(s)} |-> Status[s][LastRecord(s, c)]]]

Cells == Keys \X Instants

ASSUME SnapshotAssumption ==
    \A s \in Sends :
        /\ Len(StatusesOf[s]) \in Nat
        /\ \A i \in Records(s) : Cell[s][i] \in Cells
ASSUME NoRowAssumption == \A s \in Sends : \A i \in Records(s) : Status[s][i] # NoRow
ASSUME BoundAssumption == MaxFaults \in Nat /\ MaxCrashes \in Nat

-----------------------------------------------------------------------------
TypeOK ==
    /\ DOMAIN log = Cells
    /\ pc \in [Sends -> {"idle", "write", "done"}]
    /\ pos \in [Sends -> Nat]
    /\ answer \in [Sends -> {"none", "accepted", "error"}]
    /\ entered \subseteq Sends
    /\ faults \in 0..MaxFaults /\ crashes \in 0..MaxCrashes

Init ==
    /\ log = [c \in Cells |-> NoRow]
    /\ pc = [s \in Sends |-> "idle"]
    /\ pos = [s \in Sends |-> 1]
    /\ answer = [s \in Sends |-> "none"]
    /\ entered = {}
    /\ faults = 0 /\ crashes = 0

Fault == faults < MaxFaults /\ faults' = faults + 1

\* The rows a transaction has written stay locked until it ends.
Locked(s) == IF pc[s] = "write" THEN {Cell[s][i] : i \in 1..(pos[s] - 1)} ELSE {}
Writing(s) == pc[s] = "write" /\ pos[s] \in Records(s)
WaitsFor(s, t) == s # t /\ Writing(s) /\ Cell[s][pos[s]] \in Locked(t)

\* The dispatcher sends the snapshot, for the first time or because it was
\* not accepted.
Send(s) ==
    /\ pc[s] = "idle" \/ (pc[s] = "done" /\ answer[s] = "error")
    /\ pc' = [pc EXCEPT ![s] = "write"]
    /\ pos' = [pos EXCEPT ![s] = 1]
    /\ UNCHANGED <<log, answer, entered, faults, crashes>>

Reply(s, a) ==
    /\ pc' = [pc EXCEPT ![s] = "done"]
    /\ answer' = [answer EXCEPT ![s] = a]
    /\ UNCHANGED <<pos, crashes>>

\* Mutant: no transaction, every upsert commits on its own.
WriteThrough(s) ==
    /\ Writing(s)
    /\ pos' = [pos EXCEPT ![s] = @ + 1]
    /\ log' = [log EXCEPT ![Cell[s][pos[s]]] = Status[s][pos[s]]]
    /\ UNCHANGED <<pc, answer, entered, faults, crashes>>

\* One upsert of the executemany.
WriteRow(s) ==
    /\ Writing(s)
    /\ \A t \in Sends : ~WaitsFor(s, t)
    /\ pos' = [pos EXCEPT ![s] = @ + 1]
    /\ UNCHANGED <<log, pc, answer, entered, faults, crashes>>

\* Mutant: the equipment's rows are deleted before the snapshot is inserted.
ReplaceRows(s) ==
    /\ pc[s] = "write" /\ ~Writing(s)
    /\ log' = [c \in Cells |->
                 IF c \in DOMAIN Rows[s] THEN Rows[s][c]
                 ELSE IF c[1] = equipment_key(s) THEN NoRow ELSE log[c]]
    /\ entered' = entered \cup {s}
    /\ Reply(s, "accepted") /\ UNCHANGED faults

\* Mutant: the table holds the latest snapshot only.
KeepLatestOnly(s) ==
    /\ pc[s] = "write" /\ ~Writing(s)
    /\ log' = Rows[s]
    /\ entered' = entered \cup {s}
    /\ Reply(s, "accepted") /\ UNCHANGED faults

\* The transaction commits (an empty snapshot has nothing to write).  The
\* reply may be lost after the commit was applied: the client is told 500.
Commit(s) ==
    /\ pc[s] = "write" /\ ~Writing(s)
    /\ log' = [c \in Cells |-> IF c \in DOMAIN Rows[s] THEN Rows[s][c] ELSE log[c]]
    /\ entered' = entered \cup {s}
    /\ \/ Reply(s, "accepted") /\ UNCHANGED faults
       \/ Reply(s, "error") /\ Fault

\* Mutant: the exception is logged and the snapshot accepted all the same.
SwallowFailure(s) ==
    /\ pc[s] = "write"
    /\ Reply(s, "accepted")
    /\ Fault
    /\ UNCHANGED <<log, entered>>

\* No connection, or a statement fails: rolled back, 500.
Fail(s) ==
    /\ pc[s] = "write"
    /\ Reply(s, "error")
    /\ Fault
    /\ UNCHANGED <<log, entered>>

\* Mutant: the failed transaction is left open, with its locks.
LeaveTransactionOpen(s) ==
    /\ \E S \in SUBSET Sends : s \in S /\ \A t \in S : \E u \in S : WaitsFor(t, u)
    /\ answer' = [answer EXCEPT ![s] = "error"]
    /\ UNCHANGED <<log, pc, pos, entered, faults, crashes>>

\* Transactions that wait for each other in a circle: PostgreSQL aborts one
\* of them, and its handler answers 500.
AbortDeadlock(s) ==
    /\ \E S \in SUBSET Sends :
           /\ s \in S
           /\ \A t \in S : (\E u \in S : WaitsFor(t, u)) /\ (\E u \in S : WaitsFor(u, t))
    /\ Reply(s, "error")
    /\ UNCHANGED <<log, entered, faults>>

\* The process dies: open transactions are rolled back, their clients see the
\* connection break, and the log stays.
CrashRestart ==
    /\ crashes < MaxCrashes
    /\ crashes' = crashes + 1
    /\ pc' = [s \in Sends |-> IF pc[s] = "write" THEN "done" ELSE pc[s]]
    /\ answer' = [s \in Sends |-> IF pc[s] = "write" THEN "error" ELSE answer[s]]
    /\ UNCHANGED <<log, pos, entered, faults>>

AllAccepted ==
    /\ \A s \in Sends : answer[s] = "accepted"
    /\ UNCHANGED vars

HandlerStep(s) == WriteRow(s) \/ Commit(s) \/ Fail(s) \/ AbortDeadlock(s)

Next ==
    \/ \E s \in Sends : Send(s) \/ HandlerStep(s)
    \/ CrashRestart
    \/ AllAccepted

Spec == Init /\ [][Next]_vars

(* The dispatcher keeps sending what was not accepted, the event loop runs  *)
(* every handler, and PostgreSQL passes a released row to a transaction     *)
(* that waits for it, so that a row which is free again and again is        *)
(* eventually written.                                                      *)
FairSpec ==
    /\ Spec
    /\ \A s \in Sends :
        /\ WF_vars(Send(s))
        /\ WF_vars(HandlerStep(s))
        /\ \A i \in Records(s) : SF_vars(pos[s] = i /\ WriteRow(s))

-----------------------------------------------------------------------------
(* Safety *)

\* Overlapping snapshots tell the same of a cell.
Consistent ==
    \A s, t \in Sends : \A c \in DOMAIN Rows[s] \cap DOMAIN Rows[t] :
        Rows[s][c] = Rows[t][c]

(* The log is the union of the snapshots that entered it: nothing is lost,  *)
(* made up or counted a second time by a resend, a duplicate or a late      *)
(* snapshot, whatever order they commit in and whatever fails.              *)
LogIsDelivered ==
    \A c \in Cells :
        LET sources == {s \in entered : c \in DOMAIN Rows[s]} IN
        IF sources = {} THEN log[c] = NoRow
                        ELSE \E s \in sources : log[c] = Rows[s][c]

\* The status a client reported last for the instant: the last record of the
\* snapshot whose instant it is.
Reported(s, i) ==
    \A j \in (i + 1)..Len(StatusesOf[s]) : Cell[s][j] # Cell[s][i]

(* An accepted snapshot is in the log to stay: every instant it reported    *)
(* has the status it reported last, unless another snapshot contradicts it. *)
AcceptedStays ==
    Consistent =>
        \A s \in Sends : answer[s] = "accepted" =>
            \A i \in Records(s) :
                Reported(s, i) => log[Cell[s][i]] = Status[s][i]

Timeline ==
    INSTANCE StatusTimeline
        WITH RowsOf <- Rows,
             acknowledged <- {s \in Sends : answer[s] = "accepted"}

(* A snapshot becomes visible as a whole or not at all, and is accepted     *)
(* only when it is visible.                                                 *)
RefinesTimeline == Timeline!TimelineSpec

-----------------------------------------------------------------------------
(* Liveness *)

(* Every snapshot that is sent is accepted in the end: snapshots that       *)
(* overlap in opposite orders deadlock, but one of them always goes on.     *)
EverySnapshotLands == \A s \in Sends : pc[s] = "write" ~> answer[s] = "accepted"
=============================================================================
