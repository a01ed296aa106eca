--------------------------- MODULE RagQueryProofs ---------------------------
(***************************************************************************)
(* For every set of batches, chunks, distances and questions, and for any  *)
(* TopK and ContextSize: an answer of the server is grounded in what was   *)
(* retrieved, whatever the workers index meanwhile.  For every payload: the*)
(* statistics that the detail of its batch shows agree with each other and *)
(* with those of its chunks.                                               *)
(***************************************************************************)
EXTENDS RagQuery, SumTheorems, SequenceTheorems, TLAPS

\* A batch has the chunks of one worker, and none while they are replaced.
IndexInv ==
    /\ \A b \in Batches : \A v, w \in index[b] : v = w
    /\ \A w \in Workers : workerPc[w] = "deleted" => index[BatchOf[w]] = {}
    /\ \A v, w \in Workers :
           workerPc[v] = "deleted" /\ workerPc[w] = "deleted" /\ BatchOf[v] = BatchOf[w]
             => v = w

\* What makes c a context for question q, of which the search came across S.
Grounded(c, S, q) ==
    /\ c \in Seq(S) /\ Len(c) \in 1..ContextSize
    /\ \A i, k \in 1..Len(c) : c[i] = c[k] => i = k
    /\ \A i \in 1..Len(c) : c[i][1] \in q.matching /\ Distance(c[i]) \in 0..200
    /\ \A i, k \in 1..Len(c) : c[i][1] = c[k][1] => c[i][2] = c[k][2]
    /\ \A row \in S : \A i \in 1..Len(c) :
           \/ \E k \in 1..Len(c) : c[k] = row
           \/ Distance(c[i]) <= Distance(row)
           \/ Score(q, c[i]) <= Score(q, row)

AnswerInv ==
    /\ pc # "idle" => answer = NoAnswer
    /\ pc = "llm" \/ answer.status = "ok" => Grounded(context, probed, question)
    /\ answer.status = "ok" =>
           answer.sources = context /\ answer.confidence = Confidence(context)
    /\ answer.status # "ok" => answer.sources = <<>> /\ answer.confidence = 0

QueryInv == TypeOK /\ IndexInv /\ AnswerInv

-----------------------------------------------------------------------------
(* Chunks and rows *)

Kinds == {"lot_summary", "process", "fail_analysis", "quality", "oracle",
          "availability", "alarm"}

LEMMA ChunksAreSequence ==
    ASSUME NEW p \in Payloads PROVE Chunks(p) \in Seq(Kinds)
<1> DEFINE fails == If(p.fail_count > 0 /\ DOMAIN ReasonCounts(p) # {}, "fail_analysis")
           quality == If(HasChipping(p), "quality")
           oracle == [i \in 1..p.oracle |-> "oracle"]
           availability == If(p.history # <<>>, "availability")
           alarm == If(p.alarms > 0, "alarm")
<1>0. \A kind \in Kinds : <<kind>> \in Seq(Kinds)
  OBVIOUS
<1>a. <<"lot_summary", "process">> \in Seq(Kinds) /\ <<>> \in Seq(Kinds)
  BY DEF Kinds
<1>1. fails = <<"fail_analysis">> \/ fails = <<>>
  BY Zenon DEF If
<1>2. quality = <<"quality">> \/ quality = <<>>
  BY Zenon DEF If
<1>3. availability = <<"availability">> \/ availability = <<>>
  BY Zenon DEF If
<1>4. alarm = <<"alarm">> \/ alarm = <<>>
  BY Zenon DEF If
<1>5. oracle \in Seq(Kinds)
  BY PayloadAssumption DEF Kinds
<1>6. Chunks(p) = <<"lot_summary", "process">> \o fails \o quality \o oracle
                    \o availability \o alarm
  BY DEF Chunks
<1> HIDE DEF fails, quality, oracle, availability, alarm
<1>7. \A s, t \in Seq(Kinds) : s \o t \in Seq(Kinds)
  OBVIOUS
<1>8. /\ fails \in Seq(Kinds) /\ quality \in Seq(Kinds)
      /\ availability \in Seq(Kinds) /\ alarm \in Seq(Kinds)
  BY <1>0, <1>a, <1>1, <1>2, <1>3, <1>4 DEF Kinds
<1>9. <<"lot_summary", "process">> \o fails \o quality \in Seq(Kinds)
  BY <1>a, <1>7, <1>8, Zenon
<1>10. <<"lot_summary", "process">> \o fails \o quality \o oracle \in Seq(Kinds)
  BY <1>5, <1>7, <1>9, Zenon
<1>11. <<"lot_summary", "process">> \o fails \o quality \o oracle \o availability
         \in Seq(Kinds)
  BY <1>7, <1>8, <1>10, Zenon
<1>q. QED  BY <1>6, <1>7, <1>8, <1>11, Zenon

\* A row that matches a question is one of a batch that the filters select, a
\* copy of its chunks that is there, and a distance in range.
LEMMA MatchingRows ==
    ASSUME TypeOK, NEW q \in Questions, NEW row \in Matching(q)
    PROVE  /\ row[1] \in q.matching /\ row[1] \in Batches
           /\ row[2] \in index[row[1]]
           /\ Distance(row) \in 0..200
<1>1. PICK b \in q.matching : row \in RowsOf(b)
  BY DEF Matching
<1>2. b \in Batches
  BY QuestionAssumption
<1>3. PICK w \in index[b], n \in 1..Len(Chunks(PayloadOf[b])) : row = <<b, w, n>>
  BY <1>1 DEF RowsOf
<1>4. Chunks(PayloadOf[b]) \in Seq(Kinds)
  BY <1>2, WorkerAssumption, ChunksAreSequence
<1>5. n \in DOMAIN Chunks(PayloadOf[b])
  BY <1>3, <1>4
<1>6. Distance(row) \in 0..200
  BY <1>2, <1>3, <1>5, ScoreAssumption DEF Distance, Kind
<1>q. QED  BY <1>2, <1>3, <1>6

LEMMA ScoresAreIntegers ==
    ASSUME TypeOK, NEW q \in Questions, NEW row \in Matching(q)
    PROVE  Score(q, row) \in Int
<1>1. row[1] \in Batches /\ Distance(row) \in 0..200
  BY MatchingRows
<1>2. AgeOf[row[1]] \in 0..100 /\ AnomalyOf[row[1]] \in 0..100
  BY <1>1, ScoreAssumption
<1>3. YieldScore(q, row) \in 0..100
  BY <1>2 DEF YieldScore
<1>4. /\ Distance(row) \in Int /\ AgeOf[row[1]] \in Int
      /\ YieldScore(q, row) \in Int
  BY <1>1, <1>2, <1>3
<1>q. QED  BY <1>4 DEF Score

LEMMA MatchingIsFinite ==
    ASSUME TypeOK, NEW q \in Questions, NEW S \in SUBSET Matching(q)
    PROVE  IsFiniteSet(S)
<1>1. ASSUME NEW b \in Batches PROVE IsFiniteSet(RowsOf(b))
  <2> DEFINE len == Len(Chunks(PayloadOf[b]))
             pair == [p \in index[b] \X (1..len) |-> <<b, p[1], p[2]>>]
  <2>1. IsFiniteSet(index[b])
    BY WorkerAssumption, FS_Subset DEF TypeOK
  <2>2. len \in Nat
    BY WorkerAssumption, ChunksAreSequence
  <2>3. IsFiniteSet(1..len)
    BY <2>2, FS_Interval
  <2>4. IsFiniteSet(index[b] \X (1..len))
    BY <2>1, <2>3, FS_Product
  <2>5. pair \in Surjection(index[b] \X (1..len), RowsOf(b))
    <3>1. \A p \in index[b] \X (1..len) : pair[p] \in RowsOf(b)
      BY DEF RowsOf
    <3>2. ASSUME NEW row \in RowsOf(b)
          PROVE  \E p \in index[b] \X (1..len) : pair[p] = row
      <4>1. PICK w \in index[b], n \in 1..len : row = <<b, w, n>>
        BY <3>2 DEF RowsOf
      <4>2. <<w, n>> \in index[b] \X (1..len) /\ pair[<<w, n>>] = row
        BY <4>1
      <4>q. QED  BY <4>2
    <3>q. QED  BY <3>1, <3>2 DEF Surjection
  <2>q. QED  BY <2>4, <2>5, FS_Surjection
<1> DEFINE parts == {RowsOf(b) : b \in q.matching}
           rows == [b \in q.matching |-> RowsOf(b)]
<1>2. IsFiniteSet(q.matching)
  BY WorkerAssumption, QuestionAssumption, FS_Subset
<1>3. rows \in Surjection(q.matching, parts)
  BY DEF Surjection
<1>4. IsFiniteSet(parts)
  BY <1>2, <1>3, FS_Surjection
<1>5. \A T \in parts : IsFiniteSet(T)
  BY <1>1, QuestionAssumption
<1>6. IsFiniteSet(UNION parts)
  BY <1>4, <1>5, FS_UNION
<1>q. QED  BY <1>6, FS_Subset DEF Matching

-----------------------------------------------------------------------------
(* Retrieval *)

\* What LIMIT takes, the re-ranking permutes and the cut shortens is grounded.
LEMMA BestIsGrounded ==
    ASSUME TypeOK, IndexInv, NEW S \in SUBSET Matching(question), S # {},
           NEW s \in Nearest(S), NEW ranked \in Reranked(question, s)
    PROVE  Grounded(Best(ranked), S, question)
<1> DEFINE n == Smaller(TopK, Cardinality(S))
           m == Smaller(ContextSize, n)
           c == Best(ranked)
<1>0. question \in Questions
  BY DEF TypeOK
<1>1. n \in Nat \ {0}
  <2>1. IsFiniteSet(S)
    BY <1>0, MatchingIsFinite
  <2>2. Cardinality(S) \in Nat \ {0}
    BY <2>1, FS_CardinalityType, FS_EmptySet
  <2>q. QED  BY <2>2, SizeAssumption DEF Smaller
<1>2. m \in 1..n /\ m <= ContextSize
  BY <1>1, SizeAssumption DEF Smaller
<1>3. /\ s \in [1..n -> S]
      /\ \A i, k \in 1..n : s[i] = s[k] => i = k
      /\ \A row \in S : \A i \in 1..n :
             Distance(s[i]) <= Distance(row) \/ \E k \in 1..n : s[k] = row
  BY DEF Nearest, Injection, IsInjective
<1>4. PICK o \in Bijection(1..n, 1..n) :
        /\ ranked = [i \in 1..n |-> s[o[i]]]
        /\ \A i, k \in 1..n : i < k =>
               \/ Score(question, s[o[i]]) < Score(question, s[o[k]])
               \/ Score(question, s[o[i]]) = Score(question, s[o[k]])
  BY <1>3 DEF Reranked
<1>5. /\ o \in [1..n -> 1..n]
      /\ \A i, k \in 1..n : o[i] = o[k] => i = k
      /\ \A k \in 1..n : \E i \in 1..n : o[i] = k
  BY DEF Bijection, Injection, Surjection, IsInjective
<1> HIDE DEF n, m
<1>6. ranked \in Seq(S) /\ Len(ranked) = n /\ \A i \in 1..n : ranked[i] = s[o[i]]
  <2>1. \A i \in 1..n : o[i] \in 1..n /\ s[o[i]] \in S
    BY <1>3, <1>5
  <2>2. [i \in 1..n |-> s[o[i]]] \in [1..n -> S]
    BY <2>1
  <2>3. ranked \in [1..n -> S]
    BY <1>4, <2>2
  <2>4. ranked \in Seq(S) /\ Len(ranked) = n
    BY <1>1, <2>3
  <2>q. QED  BY <1>4, <2>4
<1>7. c = SubSeq(ranked, 1, m)
  BY <1>6 DEF Best, m
<1>8. /\ c \in Seq(S) /\ Len(c) = m
      /\ \A i \in 1..m : c[i] = ranked[i]
  <2>1. m \in Int /\ 1 <= m /\ m - 1 + 1 = m
    BY <1>1, <1>2
  <2>2. \A i \in 1..m : ranked[i] \in S
    <3>1. \A i \in 1..m : i \in 1..Len(ranked)
      BY <1>1, <1>2, <1>6
    <3>q. QED  BY <1>6, <3>1
  <2>3. /\ c \in Seq(S) /\ Len(c) = m
        /\ \A i \in 1..m : c[i] = ranked[1 + i - 1]
    BY <1>7, <2>1, <2>2, SubSeqProperties
  <2>q. QED  BY <2>3, <2>1
<1> HIDE DEF c
<1>9. \A i \in 1..m : i \in 1..n /\ c[i] = s[o[i]] /\ o[i] \in 1..n /\ c[i] \in S
  <2>1. \A i \in 1..m : i \in 1..n /\ i \in 1..Len(c)
    BY <1>1, <1>2, <1>8
  <2>2. \A i \in 1..m : c[i] = s[o[i]]
    BY <1>6, <1>8, <2>1
  <2>3. \A i \in 1..m : c[i] \in S
    BY <1>8, <2>1
  <2>q. QED  BY <1>5, <2>1, <2>2, <2>3
<1>10. \A i, k \in 1..m : c[i] = c[k] => i = k
  BY <1>9, <1>3, <1>5
<1>11. \A i \in 1..m : /\ c[i][1] \in question.matching /\ c[i][1] \in Batches
                       /\ c[i][2] \in index[c[i][1]] /\ Distance(c[i]) \in 0..200
  BY <1>0, <1>9, MatchingRows
<1>12. \A i, k \in 1..m : c[i][1] = c[k][1] => c[i][2] = c[k][2]
  BY <1>11 DEF IndexInv
<1>13. ASSUME NEW row \in S, NEW i \in 1..m
       PROVE  \/ \E k \in 1..m : c[k] = row
              \/ Distance(c[i]) <= Distance(row)
              \/ Score(question, c[i]) <= Score(question, row)
  <2>1. CASE Distance(s[o[i]]) <= Distance(row)
    BY <1>9, <2>1
  <2>2. CASE \E k \in 1..n : s[k] = row
    <3>1. PICK k \in 1..n : s[o[k]] = row
      BY <1>5, <2>2
    <3>2. CASE k \in 1..m
      BY <1>9, <3>1, <3>2
    <3>3. CASE k \notin 1..m
      <4>1. i < k
        BY <1>1, <1>2, <3>3
      <4>2. Score(question, c[i]) \in Int /\ Score(question, row) \in Int
        BY <1>0, <1>9, ScoresAreIntegers
      <4>q. QED  BY <1>4, <1>9, <3>1, <4>1, <4>2
    <3>q. QED  BY <3>2, <3>3
  <2>q. QED  BY <1>3, <1>9, <2>1, <2>2
<1>q. QED
  BY <1>2, <1>8, <1>10, <1>11, <1>12, <1>13, SizeAssumption DEF Grounded, c

-----------------------------------------------------------------------------
(* The invariant *)

LEMMA IndexStep ==
    ASSUME TypeOK, IndexInv, [Next]_vars PROVE IndexInv'
<1> USE WorkerAssumption DEF TypeOK, IndexInv
<1>1. ASSUME NEW w \in Workers, DeleteChunks(w) PROVE IndexInv'
  BY <1>1 DEF DeleteChunks
<1>2. ASSUME NEW w \in Workers, InsertChunks(w) PROVE IndexInv'
  BY <1>2 DEF InsertChunks
<1>3. CASE UNCHANGED <<index, workerPc>>
  BY <1>3
<1>q. QED
  BY <1>1, <1>2, <1>3 DEF Next, Ask, Retrieve, FindNothing, RetrievalFails, Complete,
     Reply, Querying, ShowDetail, vars

\* The confidence in a grounded context is a percentage.
LEMMA ConfidenceTyped ==
    ASSUME NEW c, NEW S, NEW q, Grounded(c, S, q) PROVE Confidence(c) \in 0..100
<1>1. 1 \in 1..Len(c)
  BY SizeAssumption DEF Grounded
<1>2. Distance(c[1]) \in 0..200
  BY <1>1 DEF Grounded
<1>q. QED  BY <1>2 DEF Confidence

LEMMA QueryStep ==
    ASSUME QueryInv, [Next]_vars PROVE TypeOK' /\ AnswerInv'
<1> USE DEF QueryInv
<1>1. ASSUME NEW w \in Workers, DeleteChunks(w) \/ InsertChunks(w)
      PROVE  TypeOK' /\ AnswerInv'
  <2>1. UNCHANGED <<question, probed, context, pc, answer, detail>>
    BY <1>1 DEF DeleteChunks, InsertChunks, Indexing
  <2>2. index' \in [Batches -> SUBSET Workers]
    BY <1>1, WorkerAssumption DEF DeleteChunks, InsertChunks, TypeOK
  <2>3. workerPc' \in [Workers -> {"idle", "deleted", "done"}]
    BY <1>1 DEF DeleteChunks, InsertChunks, TypeOK
  <2>4. faults' \in 0..MaxFaults
    BY <1>1, SizeAssumption DEF DeleteChunks, InsertChunks, Fault, TypeOK
  <2>q. QED  BY <2>1, <2>2, <2>3, <2>4 DEF TypeOK, AnswerInv
<1>2. ASSUME NEW q \in Questions, Ask(q) PROVE TypeOK' /\ AnswerInv'
  BY <1>2, SizeAssumption DEF Ask, TypeOK, AnswerInv, NoAnswer, NoDetail, Statuses
<1>3. CASE Retrieve
  <2>1. PICK S \in SUBSET Matching(question) :
          /\ S # {} /\ probed' = S
          /\ \E s \in Nearest(S) : \E ranked \in Reranked(question, s) :
                 context' = Best(ranked)
          /\ pc' = "llm" /\ UNCHANGED <<Querying, question, answer, faults>>
    BY <1>3 DEF Retrieve
  <2>2. Grounded(context', S, question)
    BY <2>1, BestIsGrounded
  <2>3. Len(context') \in 0..ContextSize
    BY <2>2, SizeAssumption DEF Grounded
  <2>4. answer = NoAnswer
    BY <1>3 DEF Retrieve, AnswerInv
  <2>5. TypeOK'
    BY <2>1, <2>3 DEF TypeOK, Querying
  <2>6. AnswerInv'
    BY <2>1, <2>2, <2>4 DEF AnswerInv, NoAnswer
  <2>q. QED  BY <2>5, <2>6
<1>4. ASSUME NEW status \in Statuses \ {"ok"}, Reply(status, <<>>, 0),
             faults' \in 0..MaxFaults
      PROVE  TypeOK' /\ AnswerInv'
  BY <1>4 DEF Reply, Querying, TypeOK, AnswerInv
<1>5. CASE FindNothing \/ RetrievalFails
  BY <1>4, <1>5, SizeAssumption DEF FindNothing, RetrievalFails, Fault, Statuses, TypeOK
<1>6. CASE Complete
  <2>1. Grounded(context, probed, question)
    BY <1>6 DEF Complete, AnswerInv
  <2>2. CASE Reply("ok", context, Confidence(context))
    <3>1. Confidence(context) \in 0..100
      BY <2>1, ConfidenceTyped
    <3>q. QED
      BY <1>6, <2>1, <2>2, <3>1 DEF Complete, Reply, Querying, TypeOK, AnswerInv, Statuses
  <2>q. QED  BY <1>4, <1>6, <2>2 DEF Complete, Statuses, TypeOK
<1>7. ASSUME NEW p \in Payloads, ShowDetail(p) PROVE TypeOK' /\ AnswerInv'
  BY <1>7 DEF ShowDetail, TypeOK, AnswerInv
<1>8. CASE UNCHANGED vars
  BY <1>8 DEF vars, TypeOK, AnswerInv
<1>q. QED  BY <1>1, <1>2, <1>3, <1>5, <1>6, <1>7, <1>8 DEF Next

(* The index holds one copy of a batch's chunks at most, and what the LLM is*)
(* shown stays grounded until the answer cites it.                          *)
THEOREM QueryInvariant == Spec => []QueryInv
<1>1. Init => QueryInv
  BY SizeAssumption, WorkerAssumption
     DEF Init, QueryInv, TypeOK, IndexInv, AnswerInv, NoAnswer, NoDetail, Statuses
<1>2. QueryInv /\ [Next]_vars => QueryInv'
  BY IndexStep, QueryStep DEF QueryInv
<1>q. QED  BY <1>1, <1>2, PTL DEF Spec

(* The index, the workers, the question under way and its answer keep their *)
(* types; what the LLM is shown never exceeds ContextSize.                  *)
THEOREM QueryTyped == Spec => []TypeOK
<1>1. QueryInv => TypeOK
  BY DEF QueryInv
<1>q. QED  BY <1>1, QueryInvariant, PTL

LEMMA CitedOnce ==
    ASSUME NEW c, NEW S, NEW q, Grounded(c, S, q)
    PROVE  Cardinality({c[i] : i \in DOMAIN c}) = Len(c)
<1> DEFINE cited == {c[i] : i \in DOMAIN c}
<1>1. c \in Seq(S) /\ DOMAIN c = 1..Len(c) /\ Len(c) \in Nat
  BY DEF Grounded
<1>2. [i \in 1..Len(c) |-> c[i]] \in Surjection(1..Len(c), cited)
  BY <1>1 DEF Surjection
<1>3. [i \in 1..Len(c) |-> c[i]] \in Injection(1..Len(c), cited)
  BY <1>1 DEF Injection, IsInjective, Grounded
<1>4. IsFiniteSet(1..Len(c)) /\ Cardinality(1..Len(c)) = Len(c)
  BY <1>1, FS_Interval
<1>q. QED  BY <1>2, <1>3, <1>4, FS_Surjection

(* Every answer cites exactly what the LLM was shown: selected rows, each   *)
(* once, never two copies of one batch's chunks, the best of what the       *)
(* search came across, with the confidence of the first.                    *)
THEOREM AnswersAreGrounded == Spec => []AnswerIsGrounded
<1>1. ASSUME QueryInv PROVE AnswerIsGrounded
  <2> DEFINE cited == {answer.sources[i] : i \in DOMAIN answer.sources}
  <2> USE DEF QueryInv
  <2>1. CASE answer.status # "ok"
    <3>1. cited = {} /\ answer.confidence = 0
      BY <1>1, <2>1 DEF AnswerInv
    <3>q. QED  BY <2>1, <3>1 DEF AnswerIsGrounded
  <2>2. CASE answer.status = "ok"
    <3>1. /\ answer.sources = context /\ answer.confidence = Confidence(context)
          /\ Grounded(context, probed, question)
      BY <1>1, <2>2 DEF AnswerInv
    <3>2. /\ DOMAIN context = 1..Len(context) /\ 1 \in 1..Len(context)
      BY <3>1 DEF Grounded
    <3>3. cited # {} /\ Cardinality(cited) = Len(context)
      BY <3>1, <3>2, CitedOnce
    <3>4. /\ \A row \in cited : row[1] \in question.matching
          /\ \A row, other \in cited : row[1] = other[1] => row[2] = other[2]
      BY <3>1, <3>2 DEF Grounded
    <3>5. \A row \in probed \ cited : \A source \in cited :
            \/ Distance(source) <= Distance(row)
            \/ Score(question, source) <= Score(question, row)
      BY <3>1, <3>2 DEF Grounded
    <3>6. Confidence(context) = Confidence(<<context[1]>>)
      BY DEF Confidence
    <3>q. QED  BY <2>2, <3>1, <3>3, <3>4, <3>5, <3>6 DEF AnswerIsGrounded
  <2>q. QED  BY <2>1, <2>2
<1>q. QED  BY <1>1, QueryInvariant, PTL

-----------------------------------------------------------------------------
(* The durations of a status history *)

\* One record of any part of a history sorts before the rest of it.
LEMMA FirstRecord ==
    ASSUME NEW p \in Payloads, NEW S \in SUBSET DOMAIN p.history, S # {}
    PROVE  \E i \in S : \A k \in S : k = i \/ k \in After(p, i)
<1> DEFINE H == DOMAIN p.history
           time == [i \in H |-> p.history[i].time]
           times == {time[i] : i \in S}
<1>1. /\ IsFiniteSet(S) /\ S \subseteq Nat /\ S \in SUBSET H
      /\ \A i \in H : time[i] \in Nat /\ time[i] = p.history[i].time
  BY PayloadAssumption, FS_Subset DEF IsArray
<1> HIDE DEF time
<1>2. IsFiniteSet(times)
  BY <1>1, ImageIsFinite
<1>3. times # {} /\ \A t \in times : t \in Int
  BY <1>1
<1>4. PICK t \in times : \A u \in times : t <= u
  <2> HIDE DEF times
  <2>q. QED  BY <1>2, <1>3, SmallestExists
<1> DEFINE T == {i \in S : time[i] = t}
<1>5. T # {} /\ IsFiniteSet(T) /\ \A i \in T : i \in Int
  <2>1. \A i \in T : i \in Nat /\ i \in S
    BY <1>1
  <2>q. QED  BY <1>1, <2>1, FS_Subset
<1>6. PICK i \in T : \A k \in T : i <= k
  <2> HIDE DEF T
  <2>q. QED  BY <1>5, SmallestExists
<1>7. ASSUME NEW k \in S PROVE k = i \/ k \in After(p, i)
  <2>1. t <= time[k] /\ time[i] = t /\ i \in H /\ k \in H
    BY <1>1, <1>4
  <2>2. CASE time[k] = t
    BY <1>1, <1>6, <2>1, <2>2 DEF After
  <2>3. CASE time[k] # t
    <3>1. time[k] > time[i]
      BY <1>1, <1>3, <2>1, <2>3
    <3>q. QED  BY <1>1, <2>1, <3>1 DEF After
  <2>q. QED  BY <2>2, <2>3
<1>q. QED  BY <1>7

\* A record lasts until the one that sorts next.
LEMMA LastsUntilNext ==
    ASSUME NEW p \in Payloads, NEW i \in DOMAIN p.history
    PROVE  /\ After(p, i) \in SUBSET DOMAIN p.history /\ i \notin After(p, i)
           /\ After(p, i) = {} =>
                 Lasting(p, i) = 0 /\ \A k \in DOMAIN p.history :
                                         p.history[k].time <= p.history[i].time
           /\ \A k \in After(p, i) :
                 (\A l \in After(p, i) : l = k \/ l \in After(p, k)) =>
                     /\ Lasting(p, i) = p.history[k].time - p.history[i].time
                     /\ After(p, i) = {k} \cup After(p, k)
           /\ Lasting(p, i) \in Nat
<1> DEFINE H == DOMAIN p.history
<1>1. \A k \in H : k \in Nat /\ p.history[k].time \in Nat
  BY PayloadAssumption DEF IsArray
<1>2. After(p, i) \in SUBSET H /\ i \notin After(p, i)
  BY <1>1 DEF After
<1>3. ASSUME After(p, i) = {}
      PROVE  Lasting(p, i) = 0 /\ \A k \in H : p.history[k].time <= p.history[i].time
  BY <1>1, <1>3 DEF Lasting, After
<1>4. ASSUME NEW k \in After(p, i), \A l \in After(p, i) : l = k \/ l \in After(p, k)
      PROVE  /\ Lasting(p, i) = p.history[k].time - p.history[i].time
             /\ Lasting(p, i) \in Nat
             /\ After(p, i) = {k} \cup After(p, k)
  <2> DEFINE times == {p.history[l].time : l \in After(p, i)}
  <2>1. k \in H /\ p.history[i].time <= p.history[k].time
    BY <1>1, <1>2 DEF After
  <2>2. /\ p.history[k].time \in times
        /\ \A t \in times : t \in Nat /\ p.history[k].time <= t
    BY <1>1, <1>2, <1>4, <2>1 DEF After
  <2>3. Min(times) \in times /\ \A t \in times : Min(times) <= t
    <3> HIDE DEF times
    <3>1. \E t \in times : \A u \in times : t <= u
      BY <2>2
    <3>q. QED  BY <3>1, Zenon DEF Min
  <2>4. Lasting(p, i) = Min(times) - p.history[i].time
    BY <1>4 DEF Lasting
  <2>5. Min(times) = p.history[k].time
    <3> HIDE DEF times
    <3>q. QED  BY <1>1, <2>1, <2>2, <2>3
  <2>6. After(p, i) = {k} \cup After(p, k)
    BY <1>1, <1>2, <1>4, <2>1 DEF After
  <2>7. Lasting(p, i) = p.history[k].time - p.history[i].time
    BY <2>4, <2>5
  <2>q. QED  BY <1>1, <2>1, <2>6, <2>7
<1>5. Lasting(p, i) \in Nat
  <2>1. CASE After(p, i) = {}
    BY <1>3, <2>1
  <2>2. CASE After(p, i) # {}
    BY <1>2, <1>4, <2>2, FirstRecord
  <2>q. QED  BY <2>1, <2>2
<1>q. QED  BY <1>2, <1>3, <1>4, <1>5

\* From a record on, the durations add up to the time until the last one.
LEMMA DurationsTile ==
    ASSUME NEW p \in Payloads, NEW last \in Nat,
           \A i \in DOMAIN p.history : p.history[i].time <= last,
           \E i \in DOMAIN p.history : p.history[i].time = last
    PROVE  \A i \in DOMAIN p.history :
               SumFunctionOnSet([k \in DOMAIN p.history |-> Lasting(p, k)],
                                {i} \cup After(p, i))
                 = last - p.history[i].time
<1> DEFINE H == DOMAIN p.history
           lasting == [k \in H |-> Lasting(p, k)]
           Good == {T \in SUBSET H : \A i \in H : T = {i} \cup After(p, i) =>
                        SumFunctionOnSet(lasting, T) = last - p.history[i].time}
<1>1. /\ IsFiniteSet(H)
      /\ \A k \in H : p.history[k].time \in Nat /\ lasting[k] \in Int
      /\ \A k \in H : lasting[k] = Lasting(p, k)
  BY PayloadAssumption, LastsUntilNext DEF IsArray
<1>2. {} \in Good
  OBVIOUS
<1>3. ASSUME NEW T \in SUBSET H, T # {}, \A x \in T : T \ {x} \in Good
      PROVE  T \in Good
  <2>1. SUFFICES ASSUME NEW i \in H, T = {i} \cup After(p, i)
                 PROVE  SumFunctionOnSet(lasting, T) = last - p.history[i].time
    OBVIOUS
  <2>2. After(p, i) = T \ {i} /\ i \in T
    BY <2>1, LastsUntilNext
  <2>3. SumFunctionOnSet(lasting, T)
          = Lasting(p, i) + SumFunctionOnSet(lasting, After(p, i))
    <3>1. IsFiniteSet(T) /\ \A x \in T : lasting[x] \in Int
      BY <1>1, FS_Subset
    <3>2. lasting[i] = Lasting(p, i)
      BY <1>1
    <3> HIDE DEF lasting
    <3>q. QED  BY <2>2, <3>1, <3>2, SumRemove
  <2>4. CASE After(p, i) = {}
    <3>1. Lasting(p, i) = 0 /\ p.history[i].time = last
      <4>1. PICK k \in H : p.history[k].time = last
        OBVIOUS
      <4>2. p.history[k].time <= p.history[i].time /\ Lasting(p, i) = 0
        BY <2>4, <4>1, LastsUntilNext
      <4>3. p.history[i].time \in Nat /\ p.history[i].time <= last
        BY <1>1
      <4>4. last <= p.history[i].time
        BY <4>1, <4>2
      <4>5. p.history[i].time = last
        BY <4>3, <4>4
      <4>q. QED  BY <4>2, <4>5
    <3>q. QED  BY <2>3, <2>4, <3>1, SumEmpty
  <2>5. CASE After(p, i) # {}
    <3>1. PICK k \in After(p, i) : \A l \in After(p, i) : l = k \/ l \in After(p, k)
      BY <2>5, LastsUntilNext, FirstRecord
    <3>2. /\ k \in H /\ After(p, i) = {k} \cup After(p, k)
          /\ Lasting(p, i) = p.history[k].time - p.history[i].time
      BY <3>1, LastsUntilNext
    <3>3. After(p, i) \in Good
      BY <1>3, <2>2
    <3>4. SumFunctionOnSet(lasting, After(p, i)) = last - p.history[k].time
      BY <3>2, <3>3
    <3> HIDE DEF lasting, Good
    <3>q. QED  BY <1>1, <2>3, <3>2, <3>4
  <2>q. QED  BY <2>4, <2>5
<1>4. \A T \in SUBSET H : T \in Good
  <2> HIDE DEF Good
  <2>q. QED  BY <1>1, <1>2, <1>3, SubsetInduction
<1>5. \A i \in H : {i} \cup After(p, i) \in SUBSET H
  BY LastsUntilNext
<1>q. QED  BY <1>4, <1>5

\* Disjoint groups of statuses never show more than the whole history.
LEMMA HistoryTiles == ASSUME NEW p \in Payloads PROVE HistoryTiled(p)
<1> DEFINE H == DOMAIN p.history
           lasting == [k \in H |-> Lasting(p, k)]
           times == {p.history[i].time : i \in H}
           In(statuses) == {i \in H : p.history[i].status \in statuses}
           Run == In({"RUN"})
           Stop == In({"STOP"})
           Idle == In({"IDLE"})
<1>1. /\ IsFiniteSet(H)
      /\ \A k \in H : lasting[k] \in Nat /\ lasting[k] \in Int
      /\ \A k \in H : p.history[k].time \in Nat
  BY PayloadAssumption, LastsUntilNext DEF IsArray
<1>2. /\ Availability(p).run = SumFunctionOnSet(lasting, Run)
      /\ Availability(p).stop = SumFunctionOnSet(lasting, Stop)
      /\ Availability(p).idle = SumFunctionOnSet(lasting, Idle)
      /\ Availability(p).total = SumFunctionOnSet(lasting, H)
  <2>1. In({p.history[i].status : i \in H}) = H
    OBVIOUS
  <2>q. QED  BY <2>1 DEF Availability, StatusSeconds
<1>3. /\ Run \in SUBSET H /\ Stop \in SUBSET (H \ Run)
      /\ Idle \in SUBSET ((H \ Run) \ Stop)
  BY DEF In
<1>4. Availability(p).total = IF times = {} THEN 0 ELSE Max(times) - Min(times)
  <2>1. CASE H = {}
    BY <1>2, <2>1, SumEmpty
  <2>2. CASE H # {}
    <3>1. /\ IsFiniteSet(times) /\ times # {}
          /\ \A t \in times : t \in Nat /\ t \in Int
      <4> DEFINE time == [k \in H |-> p.history[k].time]
      <4>1. IsFiniteSet(times)
        <5>1. times = {time[k] : k \in H}
          OBVIOUS
        <5> HIDE DEF time, times
        <5>q. QED  BY <1>1, <5>1, ImageIsFinite
      <4>2. times # {} /\ \A t \in times : t \in Nat
        BY <1>1, <2>2
      <4> HIDE DEF times
      <4>q. QED  BY <4>1, <4>2
    <3>2. Max(times) \in times /\ \A t \in times : t <= Max(times)
      <4> HIDE DEF times
      <4> DEFINE id == [t \in times |-> t]
      <4>1. \E t \in times : \A u \in times : id[u] <= id[t]
        <5>1. \A t \in times : id[t] \in Int
          BY <3>1
        <5> HIDE DEF id
        <5>q. QED  BY <3>1, <5>1, LargestExists
      <4>2. \E t \in times : \A u \in times : t >= u
        BY <3>1, <4>1
      <4>3. Max(times) \in times /\ \A t \in times : Max(times) >= t
        BY <4>2, Zenon DEF Max
      <4>q. QED  BY <3>1, <4>3
    <3>3. Min(times) \in times /\ \A t \in times : Min(times) <= t
      <4> HIDE DEF times
      <4>1. \E t \in times : \A u \in times : t <= u
        BY <3>1, SmallestExists
      <4>q. QED  BY <4>1, Zenon DEF Min
    <3>4. PICK i \in H : \A k \in H : k = i \/ k \in After(p, i)
      BY <2>2, FirstRecord
    <3>5. {i} \cup After(p, i) = H
      BY <3>4, LastsUntilNext
    <3>6. /\ Max(times) \in Nat
          /\ \A k \in H : p.history[k].time <= Max(times)
          /\ \E k \in H : p.history[k].time = Max(times)
      BY <3>1, <3>2
    <3>7. SumFunctionOnSet(lasting, H) = Max(times) - p.history[i].time
      <4>1. SumFunctionOnSet(lasting, {i} \cup After(p, i)) = Max(times) - p.history[i].time
        <5> HIDE DEF times
        <5>q. QED  BY <3>6, DurationsTile
      <4>q. QED  BY <3>5, <4>1
    <3>8. p.history[i].time = Min(times)
      <4>1. \A k \in H : p.history[i].time <= p.history[k].time
        BY <1>1, <3>4 DEF After
      <4>2. PICK k \in H : p.history[k].time = Min(times)
        BY <3>3
      <4>3. Min(times) <= p.history[i].time /\ p.history[i].time <= Min(times)
        BY <3>3, <4>1, <4>2
      <4>4. Min(times) \in Nat /\ p.history[i].time \in Nat
        BY <1>1, <3>1, <3>3
      <4> HIDE DEF times
      <4>q. QED  BY <4>3, <4>4
    <3>q. QED  BY <1>2, <3>1, <3>7, <3>8
  <2>q. QED  BY <2>1, <2>2
<1> DEFINE Rest == H \ Run
<1>5. /\ Rest \in SUBSET H /\ IsFiniteSet(Rest) /\ Stop \in SUBSET Rest
      /\ Rest \ Stop \in SUBSET H /\ IsFiniteSet(Rest \ Stop)
      /\ Idle \in SUBSET (Rest \ Stop)
  BY <1>1, <1>3, FS_Subset
<1>6. /\ \A T \in SUBSET H : SumFunctionOnSet(lasting, T) \in Nat
      /\ SumFunctionOnSet(lasting, H)
            = SumFunctionOnSet(lasting, Run) + SumFunctionOnSet(lasting, Rest)
  <2>1. SumFunctionOnSet(lasting, H)
            = SumFunctionOnSet(lasting, Run) + SumFunctionOnSet(lasting, H \ Run)
    <3> HIDE DEF lasting, Run
    <3>q. QED  BY <1>1, <1>3, SumSplit
  <2>2. \A T \in SUBSET H : SumFunctionOnSet(lasting, T) \in Nat
    <3> HIDE DEF lasting
    <3>q. QED  BY <1>1, SumGrows
  <2>q. QED  BY <2>1, <2>2
<1>7. SumFunctionOnSet(lasting, Rest)
        = SumFunctionOnSet(lasting, Stop) + SumFunctionOnSet(lasting, Rest \ Stop)
  <2>1. \A k \in Rest : lasting[k] \in Int
    BY <1>1
  <2> HIDE DEF lasting, Rest, Stop
  <2>q. QED  BY <1>5, <2>1, SumSplit
<1>8. SumFunctionOnSet(lasting, Idle) <= SumFunctionOnSet(lasting, Rest \ Stop)
  <2>1. \A k \in Rest \ Stop : lasting[k] \in Nat
    BY <1>1
  <2> HIDE DEF lasting, Rest, Stop, Idle
  <2>q. QED  BY <1>5, <2>1, SumGrows
<1>9. Availability(p).run + Availability(p).stop + Availability(p).idle
        <= Availability(p).total
  <2>1. /\ SumFunctionOnSet(lasting, Run) \in Nat /\ SumFunctionOnSet(lasting, Stop) \in Nat
        /\ SumFunctionOnSet(lasting, Idle) \in Nat
        /\ SumFunctionOnSet(lasting, Rest \ Stop) \in Nat
    BY <1>3, <1>5, <1>6
  <2> HIDE DEF lasting, Run, Stop, Idle, Rest
  <2>q. QED  BY <1>2, <1>6, <1>7, <1>8, <2>1
<1>q. QED  BY <1>4, <1>9 DEF HistoryTiled

-----------------------------------------------------------------------------
(* The two tables of a batch's detail *)

LEMMA EntriesAreFinite ==
    ASSUME NEW p \in Payloads
    PROVE  /\ IsFiniteSet(Entries(p))
           /\ \A e \in Entries(p) : /\ e[1] \in {1, 2} /\ e[1] \in Int
                                    /\ e[2] \in Int /\ e[3] \in Int
                                    /\ e = <<e[1], e[2], e[3]>>
<1> DEFINE R == DOMAIN p.records
           slots(s, i) == DOMAIN p.records[i].entries[Sides[s]]
           of == [x \in {1, 2} \X R |-> {<<x[1], x[2], k>> : k \in slots(x[1], x[2])}]
           sets == {of[x] : x \in {1, 2} \X R}
<1>1. ASSUME NEW s \in {1, 2}, NEW i \in R PROVE IsArray(p.records[i].entries[Sides[s]])
  BY PayloadAssumption DEF Sides
<1>2. IsFiniteSet({1, 2} \X R) /\ \A i \in R : i \in Int
  <2>1. IsFiniteSet({1, 2})
    <3>1. IsFiniteSet({1} \cup {2})
      BY FS_Singleton, FS_AddElement, Zenon
    <3>2. {1} \cup {2} = {1, 2}
      OBVIOUS
    <3>q. QED  BY <3>1, <3>2, Zenon
  <2>2. IsFiniteSet(R) /\ R \subseteq Nat
    BY PayloadAssumption DEF IsArray
  <2>q. QED  BY <2>1, <2>2, FS_Product
<1>3. IsFiniteSet(sets)
  <2> HIDE DEF of
  <2>q. QED  BY <1>2, ImageIsFinite
<1>4. ASSUME NEW x \in {1, 2} \X R PROVE IsFiniteSet(of[x])
  <2> DEFINE triple == [k \in slots(x[1], x[2]) |-> <<x[1], x[2], k>>]
  <2>1. of[x] = {triple[k] : k \in slots(x[1], x[2])}
    OBVIOUS
  <2>2. IsFiniteSet(slots(x[1], x[2]))
    BY <1>1 DEF IsArray
  <2> HIDE DEF triple, slots, of
  <2>q. QED  BY <2>1, <2>2, ImageIsFinite
<1>5. Entries(p) = UNION sets
  <2>1. \A e \in Entries(p) : \E s \in {1, 2}, i \in R : \E k \in slots(s, i) : e = <<s, i, k>>
    BY DEF Entries
  <2>2. \A s \in {1, 2}, i \in R : \A k \in slots(s, i) : <<s, i, k>> \in Entries(p)
    <3>1. SUFFICES ASSUME NEW s \in {1, 2}, NEW i \in R, NEW k \in slots(s, i)
                   PROVE  <<s, i, k>> \in Entries(p)
      OBVIOUS
    <3> DEFINE mine == {<<s, i, l>> : l \in DOMAIN p.records[i].entries[Sides[s]]}
               all == {{<<t, j, l>> : l \in DOMAIN p.records[j].entries[Sides[t]]} :
                         t \in {1, 2}, j \in DOMAIN p.records}
    <3>2. mine \in all
      OBVIOUS
    <3>3. Entries(p) = UNION all
      BY DEF Entries
    <3>4. <<s, i, k>> \in mine
      OBVIOUS
    <3> HIDE DEF mine, all
    <3>5. <<s, i, k>> \in Entries(p)
      BY <3>2, <3>3, <3>4
    <3>q. QED  BY <3>5
  <2>3. \A s \in {1, 2}, i \in R : of[<<s, i>>] = {<<s, i, k>> : k \in slots(s, i)}
    OBVIOUS
  <2>4. ASSUME NEW e \in Entries(p) PROVE e \in UNION sets
    <3>1. PICK s \in {1, 2}, i \in R : \E k \in slots(s, i) : e = <<s, i, k>>
      BY <2>1
    <3>2. e \in of[<<s, i>>] /\ <<s, i>> \in {1, 2} \X R
      BY <2>3, <3>1
    <3> HIDE DEF of
    <3>q. QED  BY <3>2
  <2>5. ASSUME NEW e \in UNION sets PROVE e \in Entries(p)
    <3>1. PICK x \in {1, 2} \X R : e \in of[x]
      OBVIOUS
    <3>2. PICK k \in slots(x[1], x[2]) : e = <<x[1], x[2], k>>
      BY <3>1
    <3>q. QED  BY <2>2, <3>2
  <2>q. QED  BY <2>4, <2>5
<1>6. ASSUME NEW e \in Entries(p)
      PROVE  /\ e[1] \in {1, 2} /\ e[1] \in Int /\ e[2] \in Int /\ e[3] \in Int
             /\ e = <<e[1], e[2], e[3]>>
  <2>1. PICK s \in {1, 2}, i \in R : \E k \in slots(s, i) : e = <<s, i, k>>
    BY DEF Entries
  <2>2. PICK k \in slots(s, i) : e = <<s, i, k>>
    BY <2>1
  <2>3. k \in Int
    BY <1>1 DEF IsArray
  <2>q. QED  BY <1>2, <2>2, <2>3
<1>7. IsFiniteSet(UNION sets)
  <2>1. \A T \in sets : IsFiniteSet(T)
    <3> HIDE DEF of
    <3>q. QED  BY <1>4
  <2> HIDE DEF sets
  <2>q. QED  BY <1>3, <2>1, FS_UNION
<1>q. QED  BY <1>5, <1>6, <1>7

\* In the order the code walks them, one of any entries comes first.
LEMMA FirstEntry ==
    ASSUME NEW p \in Payloads, NEW S \in SUBSET Entries(p), S # {}
    PROVE  \E e \in S : \A d \in S \ {e} : Precedes(e, d)
<1>1. /\ IsFiniteSet(S)
      /\ \A e \in S : /\ e[1] \in Int /\ e[2] \in Int /\ e[3] \in Int
                      /\ e = <<e[1], e[2], e[3]>>
  BY EntriesAreFinite, FS_Subset
<1>2. ASSUME NEW T \in SUBSET S, T # {}, NEW n \in {1, 2, 3}
      PROVE  \E e \in T : \A d \in T : e[n] <= d[n]
  <2> DEFINE nth == [e \in T |-> e[n]]
             all == {nth[e] : e \in T}
  <2>1. IsFiniteSet(T) /\ \A e \in T : nth[e] = e[n] /\ nth[e] \in Int
    BY <1>1, <1>2, FS_Subset
  <2> HIDE DEF nth
  <2>2. IsFiniteSet(all) /\ all # {} /\ \A x \in all : x \in Int
    BY <1>2, <2>1, ImageIsFinite
  <2>3. \E x \in all : \A y \in all : x <= y
    <3> HIDE DEF all
    <3>q. QED  BY <2>2, SmallestExists
  <2>q. QED  BY <2>1, <2>3
<1>3. PICK a \in S : \A d \in S : a[1] <= d[1]
  BY <1>2
<1> DEFINE A == {d \in S : d[1] = a[1]}
<1>4. PICK b \in A : \A d \in A : b[2] <= d[2]
  BY <1>2
<1> DEFINE B == {d \in A : d[2] = b[2]}
<1>5. PICK c \in B : \A d \in B : c[3] <= d[3]
  BY <1>2
<1>6. ASSUME NEW d \in S, d # c PROVE Precedes(c, d)
  <2>1. c[1] = a[1] /\ c[2] = b[2] /\ c \in S
    OBVIOUS
  <2>2. CASE d[1] # a[1]
    BY <1>1, <1>3, <2>1, <2>2 DEF Precedes
  <2>3. CASE d[1] = a[1] /\ d[2] # b[2]
    BY <1>1, <1>4, <2>1, <2>3 DEF Precedes
  <2>4. CASE d[1] = a[1] /\ d[2] = b[2]
    <3>1. d \in B /\ c[3] <= d[3]
      BY <1>5, <2>4
    <3>2. d[3] # c[3]
      BY <1>1, <1>6, <2>1, <2>4
    <3>q. QED  BY <1>1, <2>1, <2>4, <3>1, <3>2 DEF Precedes
  <2>q. QED  BY <2>2, <2>3, <2>4
<1>q. QED  BY <1>6

LEMMA EntrySets ==
    ASSUME NEW p \in Payloads, NEW S \in SUBSET Entries(p)
    PROVE  /\ IsFiniteSet(S)
           /\ Cardinality(S) \in Nat
           /\ Cardinality(S) > 0 <=> S # {}
           /\ \A T \in SUBSET S : Cardinality(T) <= Cardinality(S)
           /\ Cardinality(OnSide(S, "prs")) + Cardinality(OnSide(S, "side"))
                = Cardinality(S)
<1>1. IsFiniteSet(S) /\ Cardinality(S) \in Nat
  BY EntriesAreFinite, FS_Subset, FS_CardinalityType
<1>2. Cardinality(S) > 0 <=> S # {}
  BY <1>1, FS_EmptySet
<1>3. \A T \in SUBSET S : Cardinality(T) <= Cardinality(S)
  BY <1>1, FS_Subset
<1> DEFINE prs == OnSide(S, "prs")
           side == OnSide(S, "side")
<1>4. prs \in SUBSET S /\ side \in SUBSET S /\ prs \cup side = S /\ prs \cap side = {}
  BY EntriesAreFinite DEF OnSide, Sides
<1>5. Cardinality(prs) + Cardinality(side) = Cardinality(S)
  <2>1. IsFiniteSet(prs) /\ IsFiniteSet(side)
    BY <1>1, <1>4, FS_Subset
  <2>2. Cardinality(prs) \in Nat /\ Cardinality(side) \in Nat /\ Cardinality({}) = 0
    BY <2>1, FS_CardinalityType, FS_EmptySet
  <2> HIDE DEF prs, side
  <2>3. Cardinality(prs \cup side)
          = Cardinality(prs) + Cardinality(side) - Cardinality(prs \cap side)
    BY <2>1, FS_Union
  <2>4. Cardinality(prs \cap side) = 0 /\ Cardinality(prs \cup side) = Cardinality(S)
    BY <1>4, <2>2
  <2>q. QED  BY <2>2, <2>3, <2>4
<1>q. QED  BY <1>1, <1>2, <1>3, <1>5

\* Every failed entry fails one slot with one error type.
LEMMA SlotsAndTypesAgree ==
    ASSUME NEW p \in Payloads
    PROVE  LET d == Derived(p) IN
           SumFunction([z \in DOMAIN d.perSlot |->
                          d.perSlot[z].fail["prs"] + d.perSlot[z].fail["side"]])
             = SumFunction([et \in DOMAIN d.errors |-> d.errors[et].count])
<1> DEFINE L == Located(p)
           F == Typed(p, L)
           Z == {Entry(p, e).slot : e \in L}
           ET == {Entry(p, e).error : e \in F}
           inSlot == [z \in Z |-> Failed(p, InSlot(p, z))]
           ofType == [et \in ET |-> WithError(p, F, et)]
           fails == [z \in Z |-> Derived(p).perSlot[z].fail["prs"]
                                   + Derived(p).perSlot[z].fail["side"]]
           counts == [et \in ET |-> Derived(p).errors[et].count]
<1>1. L \in SUBSET Entries(p) /\ F \in SUBSET L /\ IsFiniteSet(L) /\ IsFiniteSet(F)
  BY EntrySets, FS_Subset DEF Located, Typed
<1>2. IsFiniteSet(Z) /\ IsFiniteSet(ET)
  <2> DEFINE slot == [e \in L |-> Entry(p, e).slot]
             error == [e \in F |-> Entry(p, e).error]
  <2>1. Z = {slot[e] : e \in L} /\ ET = {error[e] : e \in F}
    OBVIOUS
  <2> HIDE DEF slot, error, Z, ET, L, F
  <2>q. QED  BY <1>1, <2>1, ImageIsFinite
<1>3. DOMAIN Derived(p).perSlot = Z /\ DOMAIN Derived(p).errors = ET
  BY DEF Derived, PerSlot, ErrorDistribution
<1>4. ASSUME NEW z \in Z PROVE inSlot[z] \in SUBSET F /\ fails[z] = Cardinality(inSlot[z])
  <2>1. inSlot[z] \in SUBSET F /\ inSlot[z] \in SUBSET Entries(p)
    BY <1>1 DEF Failed, InSlot, Typed
  <2>2. fails[z] = Cardinality(OnSide(inSlot[z], "prs")) + Cardinality(OnSide(inSlot[z], "side"))
    BY DEF Derived, PerSlot
  <2> HIDE DEF inSlot, fails
  <2>q. QED  BY <2>1, <2>2, EntrySets
<1>5. \A et \in ET : ofType[et] \in SUBSET F /\ counts[et] = Cardinality(ofType[et])
  BY DEF Derived, ErrorDistribution, WithError
<1>6. /\ \A y, z \in Z : \A e \in inSlot[y] : e \in inSlot[z] => y = z
      /\ \A e \in F : e \in F <=> \E z \in Z : e \in inSlot[z]
  BY DEF Failed, InSlot, Typed
<1>7. /\ \A d, et \in ET : \A e \in ofType[d] : e \in ofType[et] => d = et
      /\ \A e \in F : e \in F <=> \E et \in ET : e \in ofType[et]
  BY DEF WithError
<1>8. /\ SumFunction(fails) = SumFunctionOnSet(fails, Z)
      /\ SumFunction(counts) = SumFunctionOnSet(counts, ET)
  BY DEF SumFunction
<1>9. SumFunction(fails) = Cardinality(F) /\ SumFunction(counts) = Cardinality(F)
  <2> HIDE DEF L, F, Z, ET, inSlot, ofType, fails, counts
  <2>1. SumFunctionOnSet(fails, Z) = Cardinality(F)
    BY <1>1, <1>2, <1>4, <1>6, CountOfGroups
  <2>2. SumFunctionOnSet(counts, ET) = Cardinality(F)
    BY <1>1, <1>2, <1>5, <1>7, CountOfGroups
  <2>q. QED  BY <1>8, <2>1, <2>2
<1>q. QED  BY <1>3, <1>9

\* The dominant type of a set of failures is that of one of them, and no other
\* type is more frequent there.
LEMMA DominantIsMostFrequent ==
    ASSUME NEW p \in Payloads, NEW S \in SUBSET Entries(p), S # {}
    PROVE  \E e \in S :
             /\ Dominant(p, S) = Entry(p, e).error
             /\ \A et : Cardinality(WithError(p, S, et))
                          <= Cardinality(WithError(p, S, Dominant(p, S)))
<1> DEFINE often == [e \in S |-> Cardinality(WithError(p, S, Entry(p, e).error))]
           best == {e \in S : \A d \in S : often[d] <= often[e]}
           e == CHOOSE e \in best : \A d \in best \ {e} : Precedes(e, d)
<1>1. \A et : WithError(p, S, et) \in SUBSET S
  BY DEF WithError
<1>2. IsFiniteSet(S) /\ \A x \in S : often[x] \in Int
  <2>1. \A T \in SUBSET S : Cardinality(T) \in Nat
    BY EntrySets
  <2>q. QED  BY <1>1, <2>1, EntrySets
<1>3. best # {} /\ best \in SUBSET Entries(p)
  <2> HIDE DEF often
  <2>q. QED  BY <1>2, LargestExists
<1>4. e \in best
  <2> HIDE DEF best
  <2>1. \E x \in best : \A d \in best \ {x} : Precedes(x, d)
    BY <1>3, FirstEntry
  <2>q. QED  BY <2>1, Zenon
<1>5. Dominant(p, S) = Entry(p, e).error
  <2>1. best = {x \in S : \A d \in S : Cardinality(WithError(p, S, Entry(p, d).error))
                             <= Cardinality(WithError(p, S, Entry(p, x).error))}
    OBVIOUS
  <2>q. QED  BY <2>1 DEF Dominant
<1>6. ASSUME NEW et
      PROVE  Cardinality(WithError(p, S, et)) <= Cardinality(WithError(p, S, Entry(p, e).error))
  <2>1. e \in S /\ \A d \in S : often[d] <= often[e]
    BY <1>4
  <2>2. CASE WithError(p, S, et) = {}
    <3>1. Cardinality({}) = 0 /\ Cardinality(WithError(p, S, Entry(p, e).error)) \in Nat
      BY <1>1, EntrySets, FS_EmptySet
    <3>q. QED  BY <2>2, <3>1
  <2>3. CASE WithError(p, S, et) # {}
    <3>1. PICK d \in S : Entry(p, d).error = et
      BY <2>3 DEF WithError
    <3> HIDE DEF e
    <3>q. QED  BY <2>1, <3>1
  <2>q. QED  BY <2>2, <2>3
<1>q. QED  BY <1>4, <1>5, <1>6

LEMMA DetailAgrees == ASSUME NEW p \in Payloads PROVE TablesAgree(p, Derived(p))
<1> DEFINE d == Derived(p)
           L == Located(p)
           F == Typed(p, L)
           In(z) == Failed(p, InSlot(p, z))
<1>1. L \in SUBSET Entries(p) /\ F \in SUBSET L
  BY DEF Located, Typed
<1>2. /\ DOMAIN d.perSlot = {Entry(p, e).slot : e \in L}
      /\ DOMAIN d.errors = {Entry(p, e).error : e \in F}
  BY DEF Derived, PerSlot, ErrorDistribution
<1>3. ASSUME NEW z \in DOMAIN d.perSlot
      PROVE  /\ In(z) \in SUBSET Entries(p)
             /\ In(z) = Typed(p, InSlot(p, z))
             /\ In(z) = {e \in F : Entry(p, e).slot = z}
             /\ d.perSlot[z].dominant = Dominant(p, In(z))
             /\ \A s \in {"prs", "side"} : d.perSlot[z].fail[s] = Cardinality(OnSide(In(z), s))
  <2>1. In(z) = Typed(p, InSlot(p, z)) /\ In(z) = {e \in F : Entry(p, e).slot = z}
    BY DEF Failed, Typed, InSlot
  <2>2. /\ d.perSlot[z].dominant = Dominant(p, Typed(p, InSlot(p, z)))
        /\ \A s \in {"prs", "side"} : d.perSlot[z].fail[s] = Cardinality(OnSide(In(z), s))
    BY <1>2 DEF Derived, PerSlot
  <2>3. In(z) \in SUBSET Entries(p)
    BY <1>1, <2>1
  <2> HIDE DEF In
  <2>q. QED  BY <2>1, <2>2, <2>3
<1>4. ASSUME NEW et \in DOMAIN d.errors
      PROVE  /\ et # 0 /\ et # NoValue
             /\ d.errors[et].slots = {Entry(p, e).slot : e \in WithError(p, F, et)}
             /\ d.errors[et].sides = {Sides[e[1]] : e \in WithError(p, F, et)}
  BY <1>2 DEF Derived, ErrorDistribution, Typed
<1>5. ASSUME NEW z \in DOMAIN d.perSlot
      PROVE  d.perSlot[z].fail["prs"] + d.perSlot[z].fail["side"] = Cardinality(In(z))
  <2>1. Cardinality(OnSide(In(z), "prs")) + Cardinality(OnSide(In(z), "side"))
          = Cardinality(In(z))
    BY <1>3, EntrySets
  <2> HIDE DEF In, d
  <2>q. QED  BY <1>3, <2>1
<1>6. ASSUME NEW z \in DOMAIN d.perSlot
      PROVE  LET slot == d.perSlot[z] top == slot.dominant IN
             /\ top = NoValue <=> slot.fail["prs"] + slot.fail["side"] = 0
             /\ top # NoValue =>
                 /\ z \in d.errors[top].slots
                 /\ \A et \in DOMAIN d.errors :
                        Cardinality(WithError(p, InSlot(p, z), et))
                            <= Cardinality(WithError(p, InSlot(p, z), top))
  <2> DEFINE top == d.perSlot[z].dominant
  <2>1. CASE In(z) = {}
    <3>1. top = NoValue
      BY <1>3, <2>1 DEF Dominant
    <3>2. Cardinality(In(z)) = 0
      BY <2>1, FS_EmptySet
    <3>q. QED  BY <1>5, <3>1, <3>2
  <2>2. CASE In(z) # {}
    <3>1. PICK e \in In(z) :
            /\ top = Entry(p, e).error
            /\ \A et : Cardinality(WithError(p, In(z), et))
                         <= Cardinality(WithError(p, In(z), top))
      <4>1. In(z) \in SUBSET Entries(p) /\ top = Dominant(p, In(z))
        BY <1>3
      <4> HIDE DEF In, top
      <4>q. QED  BY <2>2, <4>1, DominantIsMostFrequent
    <3>2. e \in F /\ Entry(p, e).slot = z /\ top # 0 /\ top # NoValue
      <4>1. e \in F /\ Entry(p, e).slot = z
        BY <1>3
      <4>2. Entry(p, e).error \notin {0, NoValue}
        BY <4>1 DEF Typed
      <4> HIDE DEF top
      <4>q. QED  BY <3>1, <4>1, <4>2
    <3>3. Cardinality(In(z)) # 0
      BY <1>3, <2>2, EntrySets
    <3>4. z \in d.errors[top].slots
      <4>1. top \in DOMAIN d.errors
        BY <1>2, <3>1, <3>2
      <4>2. d.errors[top].slots = {Entry(p, x).slot : x \in WithError(p, F, top)}
        BY <1>4, <4>1
      <4>3. e \in WithError(p, F, top)
        BY <3>1, <3>2 DEF WithError
      <4> HIDE DEF top, d
      <4>q. QED  BY <3>2, <4>2, <4>3
    <3>5. \A et : et # 0 /\ et # NoValue =>
              WithError(p, InSlot(p, z), et) = WithError(p, In(z), et)
      BY DEF WithError, Failed
    <3>6. ASSUME NEW et \in DOMAIN d.errors
          PROVE  Cardinality(WithError(p, InSlot(p, z), et))
                     <= Cardinality(WithError(p, InSlot(p, z), top))
      <4>1. /\ WithError(p, InSlot(p, z), et) = WithError(p, In(z), et)
            /\ WithError(p, InSlot(p, z), top) = WithError(p, In(z), top)
        BY <1>4, <3>2, <3>5
      <4> HIDE DEF top, d, In
      <4>q. QED  BY <3>1, <4>1
    <3>q. QED  BY <1>5, <3>2, <3>3, <3>4, <3>6
  <2>q. QED  BY <2>1, <2>2
<1>7. ASSUME NEW et \in DOMAIN d.errors, NEW z \in d.errors[et].slots
      PROVE  \E s \in d.errors[et].sides : d.perSlot[z].fail[s] > 0
  <2>1. PICK e \in WithError(p, F, et) : Entry(p, e).slot = z
    BY <1>4
  <2>2. e \in F /\ e \in L /\ e \in Entries(p)
    BY <1>1, <2>1 DEF WithError
  <2>3. z \in DOMAIN d.perSlot
    BY <1>2, <2>1, <2>2
  <2>4. Sides[e[1]] \in {"prs", "side"} /\ Sides[e[1]] \in d.errors[et].sides
    <3>1. Sides[e[1]] \in d.errors[et].sides
      BY <1>4, <2>1
    <3>2. e[1] \in {1, 2}
      BY <2>2, EntriesAreFinite
    <3>q. QED  BY <3>1, <3>2 DEF Sides
  <2>5. e \in OnSide(In(z), Sides[e[1]])
    BY <1>3, <2>1, <2>2, <2>3 DEF OnSide
  <2>6. OnSide(In(z), Sides[e[1]]) \in SUBSET Entries(p)
    BY <1>3, <2>3 DEF OnSide
  <2>7. Cardinality(OnSide(In(z), Sides[e[1]])) > 0
    <3> HIDE DEF In
    <3>q. QED  BY <2>5, <2>6, EntrySets
  <2>8. d.perSlot[z].fail[Sides[e[1]]] = Cardinality(OnSide(In(z), Sides[e[1]]))
    BY <1>3, <2>3, <2>4
  <2> HIDE DEF d, In
  <2>q. QED  BY <2>4, <2>7, <2>8
<1>q. QED  BY <1>6, <1>7, SlotsAndTypesAgree DEF TablesAgree

-----------------------------------------------------------------------------
(* The detail of a batch *)

\* A detail shows a stored payload and what is derived from it.
DetailInv ==
    \/ detail = NoDetail
    \/ detail.payload \in Payloads /\ detail.derived = Derived(detail.payload)

LEMMA DetailStep == ASSUME DetailInv, [Next]_vars PROVE DetailInv'
<1>1. ASSUME NEW q \in Questions, Ask(q) PROVE DetailInv'
  BY <1>1 DEF Ask, DetailInv, NoDetail
<1>2. ASSUME NEW p \in Payloads, ShowDetail(p) PROVE DetailInv'
  BY <1>2 DEF ShowDetail, DetailInv
<1>3. CASE UNCHANGED detail
  BY <1>3 DEF DetailInv, NoDetail
<1>q. QED
  BY <1>1, <1>2, <1>3 DEF Next, DeleteChunks, InsertChunks, Indexing, Retrieve,
     FindNothing, RetrievalFails, Complete, Reply, Querying, vars

(* Whatever batch a client looks at, the statistics it is shown agree: its  *)
(* two tables of failures tell the same story, the dominant type of a slot  *)
(* is its most frequent one, and the durations of its status history tile   *)
(* the time from the first record to the last, in any order they came in.   *)
THEOREM StatisticsAgree == Spec => []StatsAgree
<1>1. Init => DetailInv
  BY DEF Init, DetailInv
<1>2. DetailInv /\ [Next]_vars => DetailInv'
  BY DetailStep
<1>3. ASSUME DetailInv PROVE StatsAgree
  <2>1. CASE detail = NoDetail
    BY <2>1 DEF StatsAgree, NoDetail
  <2>2. CASE detail.payload \in Payloads /\ detail.derived = Derived(detail.payload)
    BY <2>2, DetailAgrees, HistoryTiles DEF StatsAgree
  <2>q. QED  BY <1>3, <2>1, <2>2 DEF DetailInv
<1>q. QED  BY <1>1, <1>2, <1>3, PTL DEF Spec
=============================================================================
