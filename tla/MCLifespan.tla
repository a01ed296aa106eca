----------------------------- MODULE MCLifespan -----------------------------
(***************************************************************************)
(* A small life for Lifespan: one or two batches, one of them processed    *)
(* again, a scheduled and a triggered report, and a pool they fill.        *)
(***************************************************************************)
EXTENDS Lifespan

CONSTANTS b1, b2, c1, r1, r2, p1, n1, n2

MCBatchOf == [j \in Jobs |-> IF j = r2 THEN b2 ELSE b1]
MCContentOf == [r \in Requests |-> c1]
MCHashesOf == [c \in Contents |-> c]
=============================================================================
