------------------------------- MODULE MCRag -------------------------------
(***************************************************************************)
(* Two small batches for RagQuery, and a set of payloads for LotStats.     *)
(***************************************************************************)
EXTENDS RagQuery, TLC

CONSTANTS b1, b2, w1, w2, w3

MCBatchOf == w1 :> b1 @@ w2 :> b1 @@ w3 :> b2

\* Two chunks for b1, four for b2.
Plain == [records |-> <<>>, fail_count |-> 0, oracle |-> 0, history |-> <<>>, alarms |-> 0]
Failing ==
    [Plain EXCEPT
        !.records = <<[result |-> "FAIL", reason |-> "crack", chipping |-> 3,
                       entries |-> [prs |-> <<>>, side |-> <<>>]]>>,
        !.fail_count = 1]
MCPayloadOf == b1 :> Plain @@ b2 :> Failing

\* b1's chunks are the fresher, b2's the closer and the more anomalous ones.
MCDistanceOf ==
    b1 :> ("lot_summary" :> 30 @@ "process" :> 60)
      @@ b2 :> ("lot_summary" :> 20 @@ "process" :> 40 @@ "fail_analysis" :> 120
                  @@ "quality" :> 40)
MCAgeOf == b1 :> 0 @@ b2 :> 80
MCAnomalyOf == b1 :> 0 @@ b2 :> 100

MCQuestions ==
    {[matching |-> {b1, b2}, dates |-> FALSE, yield |-> TRUE],
     [matching |-> {b1, b2}, dates |-> FALSE, yield |-> FALSE],
     [matching |-> {b1}, dates |-> FALSE, yield |-> FALSE],
     [matching |-> {b1}, dates |-> TRUE, yield |-> FALSE]}

\* Payloads of two records with up to five entries, and histories of up to
\* three records in any order.
Places == {0, 1, NoValue}
EntryLists ==
    {<<>>} \cup {<<[slot |-> z, error |-> et]>> : z \in Places, et \in Places}
      \cup {<<[slot |-> 0, error |-> 1], [slot |-> 1, error |-> et]>> : et \in {1, 2}}
WithEntries ==
    {[Plain EXCEPT !.records =
        <<[result |-> "FAIL", reason |-> NoValue, chipping |-> NoValue,
           entries |-> [prs |-> x, side |-> y]],
          [result |-> "PASS", reason |-> NoValue, chipping |-> NoValue,
           entries |-> [prs |-> <<>>, side |-> <<[slot |-> 0, error |-> 2]>>]]>>] :
        x \in EntryLists, y \in EntryLists}
HistoryRecords == {[time |-> t, status |-> s] : t \in 1..3, s \in {"RUN", "SETUP"}}
WithHistory ==
    {[Plain EXCEPT !.history = h] :
        h \in UNION {[1..n -> HistoryRecords] : n \in 1..2}
          \cup {[i \in 1..3 |-> [time |-> t[i], status |-> <<"RUN", "STOP", "SETUP">>[i]]] :
                   t \in [1..3 -> 1..3]}}
MCPayloads == {Plain, Failing} \cup WithEntries \cup WithHistory
=============================================================================
