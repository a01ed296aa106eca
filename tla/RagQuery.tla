------------------------------ MODULE RagQuery ------------------------------
(***************************************************************************)
(* POST /api/query while workers index batches anew: query_ai of           *)
(* api/query.py, rag/retriever.py, rag/reranker.py, and the DELETE and     *)
(* INSERT of db/embeddings.py.  GET /api/batches/{batchId} and /latest     *)
(* show the derived statistics of a stored payload.                        *)
(*                                                                         *)
(* Retrieval is one SQL statement.  lot_embeddings has an ivfflat index    *)
(* (external): a query sees the rows of the lists it probes, whatever else *)
(* matches its filter.  Distances, ages and anomalies are numbers in       *)
(* hundredths; texts, the prompt and the rewriting of alarm                *)
(* recommendations are left out.                                           *)
(***************************************************************************)
EXTENDS LotStats

CONSTANTS
    Batches,
    PayloadOf,     \* batch -> its payload
    Workers,       \* workers of the workload
    BatchOf,       \* worker -> its batch
    DistanceOf,    \* batch -> chunk type -> distance to the question, in 0..200
    AgeOf,         \* batch -> recency penalty of its chunks, in 0..100
    AnomalyOf,     \* batch -> yield anomaly score, in 0..100
    Questions,     \* [matching: batches its equipment, recipe and LOT filters
                   \* select, dates: has a date_range, yield: about yield]
    TopK,          \* top_k = 15
    ContextSize,   \* reranked_chunks[:10]
    MaxFaults      \* bound on failed statements and dying workers

ASSUME QuestionAssumption ==
    \A q \in Questions :
        q.matching \subseteq Batches /\ q.dates \in BOOLEAN /\ q.yield \in BOOLEAN
ASSUME WorkerAssumption ==
    /\ BatchOf \in [Workers -> Batches] /\ PayloadOf \in [Batches -> Payloads]
    /\ IsFiniteSet(Workers) /\ IsFiniteSet(Batches)
ASSUME ScoreAssumption ==
    /\ \A b \in Batches : \A n \in DOMAIN Chunks(PayloadOf[b]) :
           DistanceOf[b][Chunks(PayloadOf[b])[n]] \in 0..200
    /\ AgeOf \in [Batches -> 0..100] /\ AnomalyOf \in [Batches -> 0..100]
ASSUME SizeAssumption ==
    TopK \in Nat \ {0} /\ ContextSize \in Nat \ {0} /\ MaxFaults \in Nat

VARIABLES
    index,    \* lot_embeddings: the workers whose chunks of a batch are there
    workerPc,
    question, \* the question that is being answered
    probed,   \* the matching rows that the last retrieval came across
    context,  \* the rows shown to the LLM, best first
    pc, answer,
    detail,   \* the payload a client looked at, and what it was shown
    faults

vars == <<index, workerPc, question, probed, context, pc, answer, detail, faults>>

NoAnswer == [status |-> "none", sources |-> <<>>, confidence |-> 0]
NoDetail == [payload |-> NoValue, derived |-> NoValue]

Init ==
    /\ index = [b \in Batches |-> {}]
    /\ workerPc = [w \in Workers |-> "idle"]
    /\ question \in Questions
    /\ probed = {} /\ context = <<>>
    /\ pc = "idle" /\ answer = NoAnswer
    /\ detail = NoDetail
    /\ faults = 0

\* A row is one chunk, as <<batch, worker, position>>.
RowsOf(b) == {<<b, w, n>> : w \in index[b], n \in 1..Len(Chunks(PayloadOf[b]))}
Kind(row) == Chunks(PayloadOf[row[1]])[row[3]]
Distance(row) == DistanceOf[row[1]][Kind(row)]

Statuses == {"none", "ok", "empty", "retrieval_failed", "llm_failed", "llm_timeout"}

TypeOK ==
    /\ index \in [Batches -> SUBSET Workers]
    /\ workerPc \in [Workers -> {"idle", "deleted", "done"}]
    /\ question \in Questions
    /\ pc \in {"idle", "retrieve", "llm"}
    /\ answer.status \in Statuses /\ answer.confidence \in 0..100
    /\ Len(context) \in 0..ContextSize
    /\ detail.payload \in Payloads \cup {NoValue}
    /\ faults \in 0..MaxFaults

Fault == faults < MaxFaults /\ faults' = faults + 1

-----------------------------------------------------------------------------
(* save_embeddings.  The workers of one batch run one after another.        *)

Indexing == <<question, probed, context, pc, answer, detail>>

DeleteChunks(w) ==
    LET b == BatchOf[w] IN
    /\ workerPc[w] = "idle"
    /\ \A v \in Workers : BatchOf[v] = b => workerPc[v] # "deleted"
    /\ index' = [index EXCEPT ![b] = {}]
    /\ \/ workerPc' = [workerPc EXCEPT ![w] = "deleted"] /\ UNCHANGED faults
       \/ workerPc' = [workerPc EXCEPT ![w] = "done"] /\ Fault
    /\ UNCHANGED Indexing

InsertChunks(w) ==
    LET b == BatchOf[w] IN
    /\ workerPc[w] = "deleted"
    /\ index' = [index EXCEPT ![b] = @ \cup {w}]
    /\ workerPc' = [workerPc EXCEPT ![w] = "done"]
    /\ UNCHANGED <<Indexing, faults>>

-----------------------------------------------------------------------------
(* retrieve_relevant_chunks, rerank_chunks *)

Matching(q) == UNION {RowsOf(b) : b \in q.matching}

Smaller(m, n) == IF m <= n THEN m ELSE n

\* ORDER BY distance LIMIT top_k over the rows S, ties in any order.
Nearest(S) ==
    LET n == Smaller(TopK, Cardinality(S)) IN
    {s \in Injection(1..n, S) :
        /\ \A i, k \in 1..n : i < k => Distance(s[i]) <= Distance(s[k])
        /\ \A row \in S : \A i \in 1..n :
               Distance(s[i]) <= Distance(row) \/ \E k \in 1..n : s[k] = row}

YieldScore(q, row) == IF q.yield THEN AnomalyOf[row[1]] ELSE 0

\* 0.60 distance + 0.25 recency - 0.15 anomaly, kept positive.
Score(q, row) ==
    60 * Distance(row) + 25 * AgeOf[row[1]] + 15 * (100 - YieldScore(q, row))

\* Mutant: the highest score comes first.
WorstFirst(q, s) ==
    {t \in {[i \in DOMAIN s |-> s[o[i]]] : o \in Bijection(DOMAIN s, DOMAIN s)} :
        \A i, k \in DOMAIN s : i < k => Score(q, t[i]) >= Score(q, t[k])}

\* The lowest score comes first, and of equal ones that which was found first.
Reranked(q, s) ==
    {[i \in DOMAIN s |-> s[o[i]]] :
        o \in {o \in Bijection(DOMAIN s, DOMAIN s) :
                  \A i, k \in DOMAIN s : i < k =>
                      \/ Score(q, s[o[i]]) < Score(q, s[o[k]])
                      \/ Score(q, s[o[i]]) = Score(q, s[o[k]]) /\ o[i] < o[k]}}

\* Mutant: everything that was retrieved is shown.
Everything(s) == s
Best(s) == SubSeq(s, 1, Smaller(ContextSize, Len(s)))

\* Confidence is 1 - distance of the first source, clamped.
Confidence(s) ==
    IF Distance(s[1]) > 100 THEN 0 ELSE 100 - Distance(s[1])

-----------------------------------------------------------------------------
(* query_ai *)

Querying == <<index, workerPc, detail>>

Ask(q) ==
    /\ pc = "idle"
    /\ question' = q /\ pc' = "retrieve" /\ answer' = NoAnswer
    /\ probed' = {} /\ context' = <<>> /\ detail' = NoDetail
    /\ UNCHANGED <<index, workerPc, faults>>

Reply(status, sources, confidence) ==
    /\ answer' = [status |-> status, sources |-> sources, confidence |-> confidence]
    /\ pc' = "idle"
    /\ UNCHANGED <<Querying, question, probed, context>>

\* The dates of a date_range arrive as JSON strings; asyncpg takes none for a
\* timestamptz parameter.
Bindable(q) == ~q.dates

Retrieve ==
    /\ pc = "retrieve" /\ Bindable(question)
    /\ \E S \in SUBSET Matching(question) :
        /\ S # {}
        /\ probed' = S
        /\ \E s \in Nearest(S) : \E ranked \in Reranked(question, s) :
               context' = Best(ranked)
        /\ pc' = "llm"
        /\ UNCHANGED <<Querying, question, answer, faults>>

FindNothing ==
    /\ pc = "retrieve" /\ Bindable(question)
    /\ Reply("empty", <<>>, 0)
    /\ UNCHANGED faults

RetrievalFails ==
    /\ pc = "retrieve"
    /\ \/ ~Bindable(question) /\ UNCHANGED faults
       \/ Fault
    /\ Reply("retrieval_failed", <<>>, 0)

Complete ==
    /\ pc = "llm"
    /\ \/ Reply("ok", context, Confidence(context))
       \/ Reply("llm_timeout", <<>>, 0)
       \/ Reply("llm_failed", <<>>, 0)
    /\ UNCHANGED faults

\* get_detail and get_latest of api/batches.py.  One detail is looked at,
\* before the first question: a bound of the model.
ShowDetail(p) ==
    /\ pc = "idle" /\ answer = NoAnswer /\ detail = NoDetail
    /\ detail' = [payload |-> p, derived |-> Derived(p)]
    /\ UNCHANGED <<index, workerPc, question, probed, context, pc, answer, faults>>

Next ==
    \/ \E w \in Workers : DeleteChunks(w) \/ InsertChunks(w)
    \/ \E q \in Questions : Ask(q)
    \/ Retrieve \/ FindNothing \/ RetrievalFails \/ Complete
    \/ \E p \in Payloads : ShowDetail(p)

Spec == Init /\ [][Next]_vars

-----------------------------------------------------------------------------
(* Safety *)

(* An answer cites what the LLM was shown: rows its filter selects, each    *)
(* once, never an old and a new copy of one batch's chunks although batches *)
(* are indexed anew meanwhile; no row it came across is left out for one    *)
(* that is both farther away and ranked lower; and the confidence is that   *)
(* of the source the LLM saw first.                                         *)
AnswerIsGrounded ==
    LET cited == {answer.sources[i] : i \in DOMAIN answer.sources} IN
    /\ answer.status = "ok" <=> cited # {}
    /\ answer.status = "ok" =>
        /\ answer.sources = context /\ Cardinality(cited) = Len(context)
        /\ \A row \in cited : row[1] \in question.matching
        /\ \A row, other \in cited : row[1] = other[1] => row[2] = other[2]
        /\ \A row \in probed \ cited : \A source \in cited :
               \/ Distance(source) <= Distance(row)
               \/ Score(question, source) <= Score(question, row)
        /\ answer.confidence = Confidence(<<context[1]>>)
    /\ answer.status # "ok" => answer.confidence = 0

(* The statistics of a batch agree with each other, those of its detail and *)
(* those of its chunks, in whatever order its records came and whatever     *)
(* they leave out.                                                          *)
StatsAgree ==
    detail.payload # NoValue =>
        TablesAgree(detail.payload, detail.derived) /\ HistoryTiled(detail.payload)

(* The documented filters are filters: searching fails only when the        *)
(* database does.                                                           *)
FiltersAreServed == answer.status = "retrieval_failed" => faults > 0
=============================================================================
