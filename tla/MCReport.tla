------------------------------ MODULE MCReport ------------------------------
(***************************************************************************)
(* Two scheduled and two triggered runs of ReportRuns for TLC.             *)
(***************************************************************************)
EXTENDS ReportRuns

CONSTANTS s1, s2, m1, m2

\* All of them daily reports but one, so that the runs of one type overlap.
MCTypeOf == [r \in Runs |-> IF r = m2 THEN "weekly" ELSE "daily"]
=============================================================================
