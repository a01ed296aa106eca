------------------------------- MODULE MCKpi -------------------------------
(***************************************************************************)
(* A small plant for KpiSummary: LOT l1 is dispatched on both days, l2     *)
(* once, l3 has no records, no recipe, no judgment and no equipment_id;    *)
(* equipment e3 sends only its status; the master knows e1 alone.  A list  *)
(* of reasons has room for two of the three.                               *)
(***************************************************************************)
EXTENDS KpiSummary, TLC

CONSTANTS b1, b2, b3, b4, l1, l2, l3, e1, e2, e3, x1, x2, x3, c1, c2

MCLotOf == b1 :> l1 @@ b2 :> l1 @@ b3 :> l2 @@ b4 :> l3
MCEquipmentOf == b1 :> e1 @@ b2 :> e1 @@ b3 :> e2 @@ b4 :> e2
MCDispatchedAt == b1 :> 1 @@ b2 :> 5 @@ b3 :> 4 @@ b4 :> 3
MCEquipmentIdOf == b1 :> e1 @@ b2 :> e1 @@ b3 :> e2 @@ b4 :> Absent
MCInspected == b1 :> 3 @@ b2 :> 3 @@ b3 :> 7 @@ b4 :> 0
MCFailsOf == b1 :> 2 @@ b2 :> 2 @@ b3 :> 6 @@ b4 :> 0
\* A record of l1 and one of l2 passed with a reason.  x2 and x3 tie for the
\* second place of e2; l1 moves x3 to the first of the fleet.
MCCodedOf ==
    LET l1Codes == x1 :> 0 @@ x2 :> 0 @@ x3 :> 3 IN
    b1 :> l1Codes @@ b2 :> l1Codes @@ b3 :> (x1 :> 3 @@ x2 :> 2 @@ x3 :> 2)
      @@ b4 :> (x1 :> 0 @@ x2 :> 0 @@ x3 :> 0)
MCJudgmentOf == b1 :> "WARNING" @@ b2 :> "WARNING" @@ b3 :> "DANGER" @@ b4 :> Absent
MCRecipeOf == b1 :> c1 @@ b2 :> c1 @@ b3 :> c2 @@ b4 :> Absent
MCAlarmsOf == b1 :> 1 @@ b2 :> 0 @@ b3 :> 2 @@ b4 :> 1
\* b1 and b2 report the same stop twice.
MCHistoryOf ==
    b1 :> (1 :> "RUN" @@ 2 :> "STOP" @@ 3 :> "IDLE") @@ b2 :> (2 :> "STOP" @@ 4 :> "RUN")
      @@ b3 :> (3 :> "RUN") @@ b4 :> <<>>

\* e1's second snapshot overlaps its first; e3's spans the end of day 1.
MCSnapshots ==
    {[equipment |-> e1, rows |-> 2 :> "RUN" @@ 3 :> "STOP"],
     [equipment |-> e1, rows |-> 3 :> "STOP" @@ 5 :> "RUN"],
     [equipment |-> e3, rows |-> 1 :> "STOP" @@ 4 :> "IDLE" @@ 6 :> "RUN"]}

\* The whole time by day, a period without the second dispatch of l1 by
\* equipment, one equipment on its own, and a report.
MCQueries ==
    {[equipment |-> Anything, from |-> 1, to |-> 6, groupBy |-> "day"],
     [equipment |-> Anything, from |-> 1, to |-> 4, groupBy |-> "equipment"],
     [equipment |-> e1, from |-> 2, to |-> 6, groupBy |-> "none"],
     [equipment |-> Anything, from |-> 1, to |-> 5, groupBy |-> "report"]}
=============================================================================
