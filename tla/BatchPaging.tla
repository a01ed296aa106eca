----------------------------- MODULE BatchPaging -----------------------------
(***************************************************************************)
(* GET /api/batches, as a client uses it that follows hasNext from page 1  *)
(* to the end: list_batches orders by dispatched_at, newest first, and     *)
(* pages with OFFSET; count_batches is a second statement.  Batches arrive *)
(* at any time, and in any order of dispatched_at.  Nothing keeps two of   *)
(* them from being dispatched at the same time, and ORDER BY has no second *)
(* key: each statement may put such rows in an order of its own.           *)
(***************************************************************************)
EXTENDS Naturals, FiniteSets

CONSTANTS
    Batches,       \* the batches that match the client's filter
    DispatchedAt,
    PageSize       \* the query parameter size

ASSUME PageAssumption == PageSize \in Nat \ {0}
ASSUME FiniteAssumption == IsFiniteSet(Batches)
ASSUME TimeAssumption == DispatchedAt \in [Batches -> Nat]

VARIABLES
    stored,    \* ingest_batches
    pc,        \* "idle", "list", "count", or "done"
    page,      \* page number of the request under way
    start,     \* what was stored when the client began
    seen,      \* what it was given so far
    repeated   \* what it was given more than once

client == <<pc, page, start, seen, repeated>>
vars == <<stored, client>>

TypeOK ==
    /\ stored \subseteq Batches
    /\ pc \in {"idle", "list", "count", "done"}
    /\ page \in Nat \ {0}
    /\ start \subseteq stored
    /\ seen \subseteq stored
    /\ repeated \subseteq seen

Init ==
    /\ stored = {}
    /\ pc = "idle" /\ page = 1
    /\ start = {} /\ seen = {} /\ repeated = {}

\* ORDER BY dispatched_at DESC puts Ahead(b) rows before b, and lets b share
\* the next positions with its twins, the rows of the same dispatched_at.
Newer(b) == {c \in stored : DispatchedAt[c] > DispatchedAt[b]}
Ahead(b) == Cardinality(Newer(b))
Twins(b) == {c \in stored : DispatchedAt[c] = DispatchedAt[b]}
Positions(b) == Ahead(b)..(Ahead(b) + Cardinality(Twins(b)) - 1)

\* Mutant: the offset is page * size.
InNextPage(i, n) == n * PageSize <= i /\ i < (n + 1) * PageSize
\* Mutant: the offset is page - 1.
InOverlap(i, n) == n - 1 <= i /\ i < n - 1 + PageSize
\* LIMIT size OFFSET (page - 1) * size
InPage(i, n) == (n - 1) * PageSize <= i /\ i < n * PageSize

\* What the statement can return for page n: of each group of twins as many
\* rows as the group has positions on the page, whichever rows these are.
PagesOf(n) ==
    {S \in SUBSET stored : \A b \in stored :
        Cardinality(S \cap Twins(b)) = Cardinality({i \in Positions(b) : InPage(i, n)})}

Ingest(b) ==
    /\ b \notin stored
    /\ stored' = stored \cup {b}
    /\ UNCHANGED client

\* Mutant: pages are counted from 0.
BeginAtZero ==
    /\ pc \in {"idle", "done"}
    /\ pc' = "list" /\ page' = 0
    /\ start' = stored /\ seen' = {} /\ repeated' = {}
    /\ UNCHANGED stored

\* Page numbers start at 1 (ge=1).
Begin ==
    /\ pc \in {"idle", "done"}
    /\ pc' = "list" /\ page' = 1
    /\ start' = stored /\ seen' = {} /\ repeated' = {}
    /\ UNCHANGED stored

List ==
    /\ pc = "list"
    /\ \E given \in PagesOf(page) :
           /\ seen' = seen \cup given
           /\ repeated' = repeated \cup (seen \cap given)
    /\ pc' = "count"
    /\ UNCHANGED <<stored, page, start>>

\* Mutant: hasNext forgets the last, partly filled page.
FullPages(total) == total \div PageSize
TotalPages(total) == (total + PageSize - 1) \div PageSize

\* The response: hasNext is page < totalPages.
Count ==
    /\ pc = "count"
    /\ \/ /\ page < TotalPages(Cardinality(stored))
          /\ page' = page + 1 /\ pc' = "list"
       \/ /\ page >= TotalPages(Cardinality(stored))
          /\ pc' = "done" /\ UNCHANGED page
    /\ UNCHANGED <<stored, start, seen, repeated>>

Next == (\E b \in Batches : Ingest(b)) \/ Begin \/ List \/ Count

Spec == Init /\ [][Next]_vars

-----------------------------------------------------------------------------
\* Another row was dispatched at the same time as b.
Tied(b) == \E c \in stored \ {b} : DispatchedAt[c] = DispatchedAt[b]

\* The end of a page that was asked for falls among b and its twins.
Cut(b) ==
    \E n \in 1..page :
        Ahead(b) < n * PageSize /\ n * PageSize < Ahead(b) + Cardinality(Twins(b))

(* A client that has followed hasNext to the end was given every batch that *)
(* was stored when it began, although the batches that arrive meanwhile     *)
(* shift rows from page to page and the count is taken after the rows.  The *)
(* exception are batches dispatched at the same time as another one, whose  *)
(* order may change from one statement to the next.                         *)
SweepMissesNothing == pc = "done" => \A b \in start \ seen : Tied(b)

(* While no batch arrives, only twins that the end of a page separates can  *)
(* be given twice or be missed: every other row is given exactly once.      *)
QuietSweepIsExact ==
    stored = start =>
        /\ \A b \in repeated : Cut(b)
        /\ pc = "done" => \A b \in start \ seen : Cut(b)

\* What makes them inductive: what has not been given yet still lies behind
\* the pages that were, unless its twins changed places with it.
Done(n) == IF pc = "list" THEN n - 1 ELSE n
SweepInv ==
    pc \in {"list", "count"} =>
        /\ \A b \in start \ seen : Tied(b) \/ Ahead(b) >= Done(page) * PageSize
        /\ stored = start =>
               /\ \A b \in seen : Ahead(b) < Done(page) * PageSize
               /\ \A b \in start \ seen : Cut(b) \/ Ahead(b) >= Done(page) * PageSize
=============================================================================
