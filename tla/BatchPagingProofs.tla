-------------------------- MODULE BatchPagingProofs --------------------------
(***************************************************************************)
(* Theorems of BatchPaging for any finite set of batches and any page size.*)
(***************************************************************************)
EXTENDS BatchPaging, FiniteSetTheorems, TLAPS

(* Which rows a client has, and which page it is at, stay well-formed, and  *)
(* it is only ever given rows that are stored.                              *)
THEOREM PagingTyped == Spec => []TypeOK
<1>1. Init => TypeOK
  BY DEF Init, TypeOK
<1>2. TypeOK /\ [Next]_vars => TypeOK'
  BY DEF TypeOK, Next, vars, client, Ingest, Begin, List, Count, PagesOf
<1> QED
  BY <1>1, <1>2, PTL DEF Spec

LEMMA StoredFinite == ASSUME TypeOK PROVE IsFiniteSet(stored)
BY FiniteAssumption, FS_Subset DEF TypeOK

LEMMA AheadIsNat ==
    ASSUME TypeOK, NEW b
    PROVE  /\ IsFiniteSet(Newer(b)) /\ IsFiniteSet(Twins(b))
           /\ Ahead(b) \in Nat /\ Cardinality(Twins(b)) \in Nat
<1>1. Newer(b) \subseteq stored /\ Twins(b) \subseteq stored
  BY DEF Newer, Twins
<1> QED
  BY <1>1, StoredFinite, FS_Subset, FS_CardinalityType DEF Ahead

LEMMA AheadIsNatNext ==
    ASSUME TypeOK', NEW b
    PROVE  IsFiniteSet(Newer(b)') /\ Ahead(b)' \in Nat
<1>1. IsFiniteSet(stored') /\ Newer(b)' \subseteq stored'
  BY FiniteAssumption, FS_Subset DEF TypeOK, Newer
<1> QED
  BY <1>1, FS_Subset, FS_CardinalityType DEF Ahead

\* A batch that arrives never moves a stored one to an earlier page.
LEMMA AheadNeverFalls ==
    ASSUME TypeOK, TypeOK', NEW c \in Batches, stored' = stored \cup {c}, NEW b
    PROVE  Ahead(b) <= Ahead(b)'
<1>1. IsFiniteSet(Newer(b)') /\ Newer(b) \subseteq Newer(b)'
  BY AheadIsNatNext DEF Newer
<1> QED
  BY <1>1, FS_Subset DEF Ahead

LEMMA AheadBelowTotal ==
    ASSUME TypeOK, NEW b \in stored
    PROVE  Ahead(b) < Cardinality(stored)
<1>1. DispatchedAt[b] \in Nat
  BY TimeAssumption DEF TypeOK
<1>2. Newer(b) \subseteq stored \ {b}
  BY <1>1 DEF Newer
<1>3. /\ IsFiniteSet(stored \ {b})
      /\ Cardinality(stored \ {b}) = Cardinality(stored) - 1
  BY StoredFinite, FS_RemoveElement
<1>4. Ahead(b) <= Cardinality(stored \ {b})
  BY <1>2, <1>3, FS_Subset DEF Ahead
<1> QED
  BY <1>3, <1>4, AheadIsNat, StoredFinite, FS_CardinalityType

\* The pages up to the last one hold every row.
LEMMA LastPage ==
    ASSUME NEW n \in Nat \ {0}, NEW total \in Nat, n >= TotalPages(total)
    PROVE  total <= n * PageSize
BY PageAssumption DEF TotalPages

LEMMA NextPage ==
    ASSUME NEW n \in Nat \ {0}
    PROVE  /\ (n - 1) * PageSize \in Nat /\ n * PageSize \in Nat
           /\ (n - 1) * PageSize + PageSize = n * PageSize
BY PageAssumption

-----------------------------------------------------------------------------
\* What one statement gives of a row b and its twins: a row that was given has
\* a position of its group on the page, and one that was not, although its
\* group begins at or behind the page, has the end of the page in its group or
\* before it.
LEMMA GivenIsOnPage ==
    ASSUME TypeOK, NEW n \in Nat \ {0}, NEW S \in PagesOf(n), NEW b \in S
    PROVE  /\ Ahead(b) < n * PageSize
           /\ (n - 1) * PageSize < Ahead(b) + Cardinality(Twins(b))
<1> DEFINE Slots == {i \in Positions(b) : InPage(i, n)}
<1>1. b \in stored /\ Cardinality(S \cap Twins(b)) = Cardinality(Slots)
  BY DEF PagesOf
<1>2. IsFiniteSet(S \cap Twins(b)) /\ S \cap Twins(b) # {}
  BY <1>1, AheadIsNat, FS_Subset DEF Twins
<1>3. Slots # {}
  BY <1>1, <1>2, FS_EmptySet
<1>4. PICK i \in Positions(b) : InPage(i, n)
  BY <1>3
<1> QED
  BY <1>4, AheadIsNat, NextPage DEF Positions, InPage

LEMMA MissedIsBehind ==
    ASSUME TypeOK, NEW n \in Nat \ {0}, NEW S \in PagesOf(n), NEW b \in stored \ S,
           Ahead(b) >= (n - 1) * PageSize
    PROVE  n * PageSize < Ahead(b) + Cardinality(Twins(b))
<1> DEFINE Slots == {i \in Positions(b) : InPage(i, n)}
<1>1. SUFFICES ASSUME Ahead(b) + Cardinality(Twins(b)) <= n * PageSize PROVE FALSE
  BY AheadIsNat, NextPage
<1>2. Slots = Positions(b)
  BY <1>1, AheadIsNat, NextPage DEF Positions, InPage
<1>3. Cardinality(Positions(b)) = Cardinality(Twins(b))
  <2>1. b \in Twins(b) /\ IsFiniteSet(Twins(b))
    BY AheadIsNat DEF Twins
  <2> DEFINE first == Ahead(b)
             size == Cardinality(Twins(b))
             last == first + size - 1
  <2>2. size # 0
    BY <2>1, FS_EmptySet
  <2>3. first \in Nat /\ size \in Nat
    BY AheadIsNat
  <2>4. Positions(b) = first..last
    BY DEF Positions
  <2> HIDE DEF first, size
  <2>5. first \in Int /\ last \in Int /\ ~(first > last) /\ last - first + 1 = size
    BY <2>2, <2>3
  <2> HIDE DEF last
  <2>6. Cardinality(first..last) = size
    BY <2>5, FS_Interval
  <2> QED
    BY <2>4, <2>6 DEF size
<1>4. Cardinality(S \cap Twins(b)) = Cardinality(Twins(b))
  BY <1>2, <1>3 DEF PagesOf
<1>5. S \cap Twins(b) = Twins(b)
  BY <1>4, AheadIsNat, FS_Subset
<1> QED
  BY <1>5 DEF Twins

LEMMA LoneHasNoTwin ==
    ASSUME TypeOK, NEW b \in stored, ~Tied(b)
    PROVE  Cardinality(Twins(b)) = 1
<1>1. Twins(b) = {b}
  BY DEF Twins, Tied
<1> QED
  BY <1>1, FS_Singleton

-----------------------------------------------------------------------------
SafeSweep == SweepInv /\ SweepMissesNothing /\ QuietSweepIsExact

LEMMA SameRows ==
    ASSUME UNCHANGED stored, NEW b
    PROVE  /\ Ahead(b)' = Ahead(b) /\ Twins(b)' = Twins(b)
           /\ Tied(b)' <=> Tied(b)
BY DEF Ahead, Newer, Twins, Tied

LEMMA CutStays ==
    ASSUME TypeOK, UNCHANGED stored, page' \in Nat, page <= page', NEW b, Cut(b)
    PROVE  Cut(b)'
<1>1. PICK n \in 1..page : /\ Ahead(b) < n * PageSize
                            /\ n * PageSize < Ahead(b) + Cardinality(Twins(b))
  BY DEF Cut
<1>2. n \in 1..page'
  BY <1>1 DEF TypeOK
<1> QED
  BY <1>1, <1>2, SameRows DEF Cut

LEMMA IngestKeeps ==
    ASSUME TypeOK, TypeOK', SafeSweep, NEW c \in Batches, Ingest(c)
    PROVE  SafeSweep'
<1>1. stored' = stored \cup {c} /\ c \notin stored /\ stored' # start
  BY DEF Ingest, TypeOK
<1>2. UNCHANGED <<pc, page, start, seen, repeated>>
  BY DEF Ingest, client
<1>3. \A b \in start :
          /\ Ahead(b) <= Ahead(b)' /\ Ahead(b) \in Nat /\ Ahead(b)' \in Nat
          /\ Tied(b) => Tied(b)'
  <2>1. \A b : Tied(b) => Tied(b)'
    BY <1>1 DEF Tied
  <2> QED
    BY <1>1, <2>1, AheadNeverFalls, AheadIsNat, AheadIsNatNext
<1>4. Done(page)' = Done(page) /\ Done(page) * PageSize \in Nat
  BY <1>2, PageAssumption DEF TypeOK, Done
<1> QED
  BY <1>1, <1>2, <1>3, <1>4
  DEF SafeSweep, SweepInv, SweepMissesNothing, QuietSweepIsExact

LEMMA BeginKeeps == ASSUME TypeOK, TypeOK', SafeSweep, Begin PROVE SafeSweep'
<1>1. \A b \in start' : Ahead(b)' \in Nat
  BY AheadIsNatNext
<1>2. Done(page)' = 0 /\ Done(page)' * PageSize = 0
  BY PageAssumption DEF Begin, Done
<1> QED
  BY <1>1, <1>2
  DEF Begin, SafeSweep, SweepInv, SweepMissesNothing, QuietSweepIsExact

LEMMA ListKeeps == ASSUME TypeOK, TypeOK', SafeSweep, List PROVE SafeSweep'
<1>1. PICK S \in PagesOf(page) :
          seen' = seen \cup S /\ repeated' = repeated \cup (seen \cap S)
  BY DEF List
<1>2. /\ pc = "list" /\ pc' = "count" /\ UNCHANGED <<stored, page, start>>
      /\ page \in Nat \ {0} /\ S \subseteq stored
      /\ Done(page) = page - 1 /\ Done(page)' = page
  BY <1>1 DEF List, TypeOK, Done, PagesOf
<1>3. /\ \A b : Ahead(b)' = Ahead(b) /\ Twins(b)' = Twins(b) /\ (Tied(b)' <=> Tied(b))
      /\ \A b : Cut(b) => Cut(b)'
  BY <1>2, SameRows, CutStays DEF TypeOK
<1>4. ASSUME NEW b \in start' \ seen' PROVE Tied(b)' \/ Ahead(b)' >= Done(page)' * PageSize
  <2>1. b \in stored \ S /\ b \in start \ seen
    BY <1>1, <1>2, <1>4 DEF TypeOK
  <2>2. CASE Tied(b)
    BY <1>3, <2>2
  <2>3. CASE ~Tied(b)
    <3>1. Ahead(b) >= (page - 1) * PageSize
      BY <1>2, <2>1, <2>3 DEF SafeSweep, SweepInv
    <3>2. page * PageSize < Ahead(b) + 1
      BY <1>1, <1>2, <2>1, <2>3, <3>1, MissedIsBehind, LoneHasNoTwin
    <3> QED
      BY <1>2, <1>3, <3>2, AheadIsNat, NextPage
  <2> QED
    BY <2>2, <2>3
<1>5. ASSUME stored = start, NEW b \in seen' PROVE Ahead(b)' < Done(page)' * PageSize
  <2>1. CASE b \in seen
    <3>1. Ahead(b) < (page - 1) * PageSize
      BY <1>2, <1>5, <2>1 DEF SafeSweep, SweepInv
    <3> QED
      BY <1>2, <1>3, <3>1, AheadIsNat, NextPage, PageAssumption
  <2>2. CASE b \in S
    BY <1>1, <1>2, <1>3, <2>2, GivenIsOnPage
  <2> QED
    BY <1>1, <1>5, <2>1, <2>2
<1>6. ASSUME stored = start, NEW b \in start' \ seen'
      PROVE  Cut(b)' \/ Ahead(b)' >= Done(page)' * PageSize
  <2>1. b \in stored \ S /\ b \in start \ seen
    BY <1>1, <1>2, <1>6 DEF TypeOK
  <2>2. CASE Cut(b)
    BY <1>3, <2>2
  <2>3. CASE ~Cut(b)
    <3>1. Ahead(b) >= (page - 1) * PageSize
      BY <1>2, <1>6, <2>1, <2>3 DEF SafeSweep, SweepInv
    <3>2. page * PageSize < Ahead(b) + Cardinality(Twins(b))
      BY <1>1, <1>2, <2>1, <3>1, MissedIsBehind
    <3>3. ~(Ahead(b) < page * PageSize)
      BY <1>2, <2>3, <3>2 DEF Cut
    <3> QED
      BY <1>2, <1>3, <3>3, AheadIsNat, NextPage
  <2> QED
    BY <2>2, <2>3
<1>7. ASSUME stored = start, NEW b \in repeated' PROVE Cut(b)'
  <2>1. CASE b \in repeated
    BY <1>3, <1>7, <2>1 DEF SafeSweep, QuietSweepIsExact
  <2>2. CASE b \in seen \cap S
    <3>1. Ahead(b) < (page - 1) * PageSize
      BY <1>2, <1>7, <2>2 DEF SafeSweep, SweepInv
    <3>2. (page - 1) * PageSize < Ahead(b) + Cardinality(Twins(b))
      BY <1>1, <1>2, <2>2, GivenIsOnPage
    <3>3. page - 1 \in 1..page
      BY <1>2, <3>1, AheadIsNat, PageAssumption
    <3> QED
      BY <1>3, <3>1, <3>2, <3>3 DEF Cut
  <2> QED
    BY <1>1, <1>7, <2>1, <2>2
<1> QED
  BY <1>2, <1>4, <1>5, <1>6, <1>7
  DEF SafeSweep, SweepInv, SweepMissesNothing, QuietSweepIsExact

LEMMA CountKeeps == ASSUME TypeOK, TypeOK', SafeSweep, Count PROVE SafeSweep'
<1>1. /\ pc = "count" /\ UNCHANGED <<stored, start, seen, repeated>>
      /\ page \in Nat \ {0} /\ page' \in Nat /\ page <= page'
      /\ Done(page) = page
  BY DEF Count, TypeOK, Done
<1>2. /\ \A b : Ahead(b)' = Ahead(b) /\ (Tied(b)' <=> Tied(b))
      /\ \A b : Cut(b) => Cut(b)'
  BY <1>1, SameRows, CutStays
<1>3. CASE page' = page + 1 /\ pc' = "list"
  <2>1. Done(page)' = page
    BY <1>1, <1>3 DEF Done
  <2> QED
    BY <1>1, <1>2, <1>3, <2>1
    DEF SafeSweep, SweepInv, SweepMissesNothing, QuietSweepIsExact
<1>4. CASE page >= TotalPages(Cardinality(stored)) /\ pc' = "done"
  <2>1. Cardinality(stored) \in Nat
    BY StoredFinite, FS_CardinalityType
  <2>2. Cardinality(stored) <= page * PageSize /\ page * PageSize \in Nat
    BY <1>1, <1>4, <2>1, LastPage, NextPage
  <2>3. \A b \in start : Ahead(b) \in Nat /\ ~(Ahead(b) >= page * PageSize)
    BY <2>1, <2>2, AheadBelowTotal, AheadIsNat DEF TypeOK
  <2>4. /\ \A b \in start \ seen : Tied(b)
        /\ stored = start => \A b \in start \ seen : Cut(b)
    BY <1>1, <2>3 DEF SafeSweep, SweepInv
  <2> QED
    BY <1>1, <1>2, <1>4, <2>4
    DEF SafeSweep, SweepInv, SweepMissesNothing, QuietSweepIsExact
<1> QED
  BY <1>3, <1>4 DEF Count

LEMMA StutterKeeps ==
    ASSUME TypeOK, SafeSweep, UNCHANGED vars PROVE SafeSweep'
<1>1. UNCHANGED <<stored, pc, page, start, seen, repeated>>
  BY DEF vars, client
<1>2. /\ \A b : Ahead(b)' = Ahead(b) /\ (Tied(b)' <=> Tied(b))
      /\ \A b : Cut(b) => Cut(b)'
  BY <1>1, SameRows, CutStays DEF TypeOK
<1> QED
  BY <1>1, <1>2 DEF SafeSweep, SweepInv, Done, SweepMissesNothing, QuietSweepIsExact

(* What a client was not given yet still lies behind the pages it was       *)
(* given, or has changed places with a row of the same dispatched_at,       *)
(* whatever arrives between two of its requests.                            *)
THEOREM SweepInvariant ==
    Spec => [](SweepInv /\ SweepMissesNothing /\ QuietSweepIsExact)
<1>1. Init => SafeSweep
  BY DEF Init, SafeSweep, SweepInv, SweepMissesNothing, QuietSweepIsExact
<1>2. TypeOK /\ TypeOK' /\ SafeSweep /\ [Next]_vars => SafeSweep'
  BY IngestKeeps, BeginKeeps, ListKeeps, CountKeeps, StutterKeeps DEF Next
<1>3. SafeSweep <=> SweepInv /\ SweepMissesNothing /\ QuietSweepIsExact
  BY DEF SafeSweep
<1> QED
  BY <1>1, <1>2, <1>3, PagingTyped, PTL DEF Spec

(* A client that follows hasNext to the end misses no batch that was stored *)
(* when it began and shares its dispatched_at with no other.                *)
THEOREM SweepIsComplete == Spec => []SweepMissesNothing
BY SweepInvariant, PTL

(* While nothing arrives, it is given every batch exactly once, but for     *)
(* those that the end of a page separates from a batch of the same          *)
(* dispatched_at.                                                           *)
THEOREM QuietSweepsAreExact == Spec => []QuietSweepIsExact
BY SweepInvariant, PTL
=============================================================================
