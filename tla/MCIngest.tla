------------------------------ MODULE MCIngest ------------------------------
(***************************************************************************)
(* Small instances of IngestPipeline for TLC, and its refinement of        *)
(* BatchLedger.                                                            *)
(***************************************************************************)
EXTENDS IngestPipeline, TLC

CONSTANTS b1, b2, c1, c2, r1, r2, r3, p1, p2, p3

\* Workload of the core runs: two sends of one batch, a third POST that
\* reuses its id with other hashes, and re-processing of that batch.
CoreBatchOf == [j \in Jobs |-> b1]
CoreContentOf == [r \in Requests |-> IF r = r3 THEN c2 ELSE c1]

\* Workload of the pool and liveness runs: two batches side by side.
PairBatchOf == [j \in Jobs |-> IF j \in {r2, p2} THEN b2 ELSE b1]
PairContentOf == [r \in Requests |-> c1]

MCHashesOf == [c \in Contents |-> c]
=============================================================================
