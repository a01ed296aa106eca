---------------------------- MODULE BatchLedger ----------------------------
(***************************************************************************)
(* What the ingestion pipeline promises of each batch id, without          *)
(* handlers, workers, connections or failures: a payload is stored at most *)
(* once and never replaced, its chunks are published (and withdrawn, when  *)
(* the batch is processed again), and once the batch is done its chunks    *)
(* stay.                                                                   *)
(***************************************************************************)
CONSTANTS Batches, Contents, NoRow

VARIABLES ledger, phase

ledgerVars == <<ledger, phase>>

LedgerInit ==
    /\ ledger = [b \in Batches |-> NoRow]
    /\ phase = [b \in Batches |-> "absent"]

Submit(b, c) ==
    /\ phase[b] = "absent"
    /\ ledger' = [ledger EXCEPT ![b] = c]
    /\ phase' = [phase EXCEPT ![b] = "stored"]

Move(b, from, to) ==
    /\ phase[b] = from
    /\ phase' = [phase EXCEPT ![b] = to]
    /\ UNCHANGED ledger

Publish(b) == Move(b, "stored", "searchable")

Withdraw(b) == Move(b, "searchable", "stored")

Finish(b) == Move(b, "searchable", "done")

LedgerNext ==
    \E b \in Batches :
        \/ \E c \in Contents : Submit(b, c)
        \/ Publish(b) \/ Withdraw(b) \/ Finish(b)

LedgerSpec == LedgerInit /\ [][LedgerNext]_ledgerVars
=============================================================================
