------------------------------ MODULE MCStatus ------------------------------
(***************************************************************************)
(* Three overlapping snapshots of one equipment for StatusLog.  s1 and s2  *)
(* carry the same two instants in opposite orders, one with zones and one  *)
(* without; s3 reports its first instant twice.                            *)
(***************************************************************************)
EXTENDS StatusLog, TLC

CONSTANTS s1, s2, s3

Record(local, offset, word) ==
    [time |-> [local |-> local, offset |-> offset], equipment_status |-> word]

MCStatusesOf ==
    s1 :> <<Record(1, 0, "running"), Record(2, 0, "DOWN")>>
    @@ s2 :> <<Record(3, Naive, "stop"), Record(2, Naive, "RUN"), Record(3, 0, "IDLE")>>
    @@ s3 :> <<Record(3, 0, "STOP"), Record(3, 0, "standby"), Record(1, 0, "RUN")>>

MCEquipmentId == [s \in Sends |-> "EQ-1"]
MCEquipmentHash == [s \in Sends |-> "h1"]
MCUpper ==
    "running" :> "RUNNING" @@ "DOWN" :> "DOWN" @@ "stop" :> "STOP" @@ "RUN" :> "RUN"
    @@ "IDLE" :> "IDLE" @@ "STOP" :> "STOP" @@ "standby" :> "STANDBY"
=============================================================================
