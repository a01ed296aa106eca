------------------------------ MODULE MCPaging ------------------------------
(***************************************************************************)
(* Five batches that arrive in any order of dispatched_at, two to a page.  *)
(* The second and third are dispatched at the same time, and so are the    *)
(* last two: what is stored decides whether a page ends between them.      *)
(***************************************************************************)
EXTENDS BatchPaging

MCBatches == 1..5
MCDispatchedAt == [b \in Batches |-> CASE b = 1 -> 1 [] b \in {2, 3} -> 2 [] OTHER -> 3]
=============================================================================
