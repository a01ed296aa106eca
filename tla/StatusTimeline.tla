--------------------------- MODULE StatusTimeline ---------------------------
(***************************************************************************)
(* What POST /api/ingest/status promises, without handlers, rows under     *)
(* way, locks or failures: a snapshot enters the status log as a whole,    *)
(* row by row over what the log held, and is acknowledged only after that. *)
(* Entering it again (a resend) does the same again.                       *)
(***************************************************************************)
CONSTANTS
    Sends,     \* deliveries of snapshots
    RowsOf,    \* delivery -> its rows, a function from cells to statuses
    Cells,     \* (equipment_key, ts)
    NoRow

VARIABLES log, entered, acknowledged

timelineVars == <<log, entered, acknowledged>>

TimelineInit ==
    /\ log = [c \in Cells |-> NoRow]
    /\ entered = {} /\ acknowledged = {}

Enter(s) ==
    /\ log' = [c \in Cells |-> IF c \in DOMAIN RowsOf[s] THEN RowsOf[s][c] ELSE log[c]]
    /\ entered' = entered \cup {s}
    /\ acknowledged' \in {acknowledged, acknowledged \cup {s}}

TimelineSpec == TimelineInit /\ [][\E s \in Sends : Enter(s)]_timelineVars
=============================================================================
