------------------------------ MODULE LotStats ------------------------------
(***************************************************************************)
(* What the server computes from one stored payload: the statistics and    *)
(* the chunks of the worker (pipeline/preprocessor.py, chunker.py), and    *)
(* the derived statistics of GET /api/batches/latest and /{batch_id}       *)
(* (pipeline/derived_stats.py).                                            *)
(*                                                                         *)
(* A value is abstracted to what the statistics tell apart: a slot, an     *)
(* error type, a reason, or NoValue for what is absent or no number.  The  *)
(* strings "nan" and "inf", on which _to_int raises, are left out.         *)
(* Means, percentiles, rates and texts are left out, and so are the        *)
(* geometric, singulation and histogram statistics made of them.           *)
(***************************************************************************)
EXTENDS Naturals, Sequences, FiniteSets, FiniteSetsExt

CONSTANTS
    Payloads,  \* stored payloads
    NoValue

\* Records, inspection entries and the status history are JSON arrays.
IsArray(a) == IsFiniteSet(DOMAIN a) /\ DOMAIN a \subseteq Nat
ASSUME PayloadAssumption ==
    \A p \in Payloads :
        /\ p.oracle \in Nat
        /\ IsArray(p.records) /\ IsArray(p.history)
        /\ \A i \in DOMAIN p.records :
               IsArray(p.records[i].entries["prs"]) /\ IsArray(p.records[i].entries["side"])
        /\ \A i \in DOMAIN p.history : p.history[i].time \in Nat

Sides == <<"prs", "side">>

-----------------------------------------------------------------------------
(* aggregate_lot_stats, aggregate_availability_stats, create_chunks *)

RecordsWith(p, result) == {i \in DOMAIN p.records : p.records[i].result = result}

\* fail_reasons: how many failed records name each reason.
ReasonCounts(p) ==
    LET named == {i \in RecordsWith(p, "FAIL") : p.records[i].reason # NoValue} IN
    [r \in {p.records[i].reason : i \in named} |->
        Cardinality({i \in named : p.records[i].reason = r})]

HasChipping(p) == \E i \in RecordsWith(p, "FAIL") : p.records[i].chipping # NoValue

\* The records of statusHistory that sort after record i: by time, stably.
After(p, i) ==
    {k \in DOMAIN p.history :
        \/ p.history[k].time > p.history[i].time
        \/ p.history[k].time = p.history[i].time /\ k > i}

\* Seconds from record i to the next one; the last record has no duration.
Lasting(p, i) ==
    IF After(p, i) = {} THEN 0
    ELSE Min({p.history[k].time : k \in After(p, i)}) - p.history[i].time

StatusSeconds(p, statuses) ==
    SumFunctionOnSet([i \in DOMAIN p.history |-> Lasting(p, i)],
                     {i \in DOMAIN p.history : p.history[i].status \in statuses})

Availability(p) ==
    [run |-> StatusSeconds(p, {"RUN"}), stop |-> StatusSeconds(p, {"STOP"}),
     idle |-> StatusSeconds(p, {"IDLE"}),
     total |-> StatusSeconds(p, {p.history[i].status : i \in DOMAIN p.history})]

If(condition, kind) == IF condition THEN <<kind>> ELSE <<>>

\* The chunks of a batch in the order they are embedded and stored.
Chunks(p) ==
    <<"lot_summary", "process">>
      \o If(p.fail_count > 0 /\ DOMAIN ReasonCounts(p) # {}, "fail_analysis")
      \o If(HasChipping(p), "quality")
      \o [i \in 1..p.oracle |-> "oracle"]
      \o If(p.history # <<>>, "availability")
      \o If(p.alarms > 0, "alarm")

-----------------------------------------------------------------------------
(* compute_derived *)

\* The inspection entries that name a slot, as <<side, record, index>>: the
\* order in which the code walks a slot's entries.
Entries(p) ==
    UNION {{<<s, i, k>> : k \in DOMAIN p.records[i].entries[Sides[s]]} :
               s \in {1, 2}, i \in DOMAIN p.records}
Entry(p, e) == p.records[e[2]].entries[Sides[e[1]]][e[3]]
Located(p) == {e \in Entries(p) : Entry(p, e).slot # NoValue}

InSlot(p, z) == {e \in Located(p) : Entry(p, e).slot = z}
OnSide(S, s) == {e \in S : Sides[e[1]] = s}

\* Mutant: an entry without an error type counts as a failure of its slot.
FailedUnlessZero(p, S) == {e \in S : Entry(p, e).error # 0}

\* ErrorType 0 is normal, an unreadable one is no failure; fail counts and
\* error types are computed apart from each other.
Failed(p, S) == {e \in S : Entry(p, e).error \notin {0, NoValue}}
Typed(p, S) == {e \in S : Entry(p, e).error \notin {0, NoValue}}
WithError(p, S, et) == {e \in S : Entry(p, e).error = et}

Precedes(d, e) ==
    \/ d[1] < e[1]
    \/ d[1] = e[1] /\ d[2] < e[2]
    \/ d[1] = e[1] /\ d[2] = e[2] /\ d[3] < e[3]

\* Counter.most_common(1): of the most frequent types, the one met first.
Dominant(p, S) ==
    LET often(e) == Cardinality(WithError(p, S, Entry(p, e).error))
        best == {e \in S : \A d \in S : often(d) <= often(e)}
    IN IF S = {} THEN NoValue
       ELSE Entry(p, CHOOSE e \in best : \A d \in best \ {e} : Precedes(e, d)).error

PerSlot(p) ==
    [z \in {Entry(p, e).slot : e \in Located(p)} |->
        [total |-> [s \in {"prs", "side"} |-> Cardinality(OnSide(InSlot(p, z), s))],
         fail |-> [s \in {"prs", "side"} |->
                      Cardinality(OnSide(Failed(p, InSlot(p, z)), s))],
         dominant |-> Dominant(p, Typed(p, InSlot(p, z)))]]

ErrorDistribution(p) ==
    LET failures == Typed(p, Located(p)) IN
    [et \in {Entry(p, e).error : e \in failures} |->
        LET mine == WithError(p, failures, et) IN
        [count |-> Cardinality(mine),
         slots |-> {Entry(p, e).slot : e \in mine},
         sides |-> {Sides[e[1]] : e \in mine}]]

Derived(p) ==
    [perSlot |-> PerSlot(p), errors |-> ErrorDistribution(p)]

-----------------------------------------------------------------------------
(* What the statistics promise *)

(* The two tables of a batch's detail, filled by different loops, tell the  *)
(* same failures: the slots' failures add up to the error types' counts, a  *)
(* slot's dominant type is one that affects the slot and no type of that    *)
(* slot is more frequent, and only a slot without failures has none.        *)
TablesAgree(p, d) ==
    /\ SumFunction([z \in DOMAIN d.perSlot |->
                       d.perSlot[z].fail["prs"] + d.perSlot[z].fail["side"]])
         = SumFunction([et \in DOMAIN d.errors |-> d.errors[et].count])
    /\ \A z \in DOMAIN d.perSlot :
        LET slot == d.perSlot[z] top == slot.dominant IN
        /\ top = NoValue <=> slot.fail["prs"] + slot.fail["side"] = 0
        /\ top # NoValue =>
            /\ z \in d.errors[top].slots
            /\ \A et \in DOMAIN d.errors :
                   Cardinality(WithError(p, InSlot(p, z), et))
                       <= Cardinality(WithError(p, InSlot(p, z), top))
    /\ \A et \in DOMAIN d.errors : \A z \in d.errors[et].slots :
           \E s \in d.errors[et].sides : d.perSlot[z].fail[s] > 0

(* The durations of a status history, in whatever order it was sent, tile   *)
(* the time from its first to its last record.                              *)
HistoryTiled(p) ==
    LET times == {p.history[i].time : i \in DOMAIN p.history} IN
    /\ Availability(p).total = IF times = {} THEN 0 ELSE Max(times) - Min(times)
    /\ Availability(p).run + Availability(p).stop + Availability(p).idle
           <= Availability(p).total
=============================================================================
