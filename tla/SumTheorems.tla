---------------------------- MODULE SumTheorems ----------------------------
(***************************************************************************)
(* Facts about SumFunctionOnSet(f, S), the sum of f[x] over a finite set   *)
(* S, and about the image of a finite set and the extremes of a finite set *)
(* of numbers.  Induction is by a smallest counterexample.                 *)
(***************************************************************************)
EXTENDS FiniteSetTheorems, TLAPS

\* The recursive function by which the sum over S is defined.
Pick(S) == CHOOSE x \in S : TRUE
IsIter(g, f, S) ==
    g = [T \in SUBSET S |-> IF T = {} THEN 0 ELSE f[Pick(T)] + g[T \ {Pick(T)}]]
Iter(f, S) == CHOOSE g : IsIter(g, f, S)

-----------------------------------------------------------------------------
(* Induction *)

\* Among subsets of a finite set there is one that contains no other.
LEMMA SmallestSubset ==
    ASSUME NEW S, IsFiniteSet(S), NEW Bad \in SUBSET SUBSET S, Bad # {}
    PROVE  \E T \in Bad : \A U \in SUBSET T : U # T => U \notin Bad
<1>1. IsWellFoundedOn(StrictSubsetOrdering(S), FiniteSubsetsOf(S))
  BY FS_StrictSubsetOrderingWellFounded
<1>2. FiniteSubsetsOf(S) = SUBSET S
  BY FS_FiniteSubsetsOfFinite
<1>3. PICK T \in Bad : \A U \in Bad : <<U, T>> \notin StrictSubsetOrdering(S)
  BY <1>1, <1>2, WFMin, Zenon
<1>q. QED  BY <1>3 DEF StrictSubsetOrdering

\* What holds of the empty set, and of a set once it holds of the sets that
\* lack one of its elements, holds of every subset of a finite set.
LEMMA SubsetInduction ==
    ASSUME NEW S, IsFiniteSet(S), NEW Good, {} \in Good,
           \A T \in SUBSET S : T # {} /\ (\A x \in T : T \ {x} \in Good) => T \in Good
    PROVE  \A T \in SUBSET S : T \in Good
<1> DEFINE Bad == (SUBSET S) \ Good
<1>1. SUFFICES ASSUME Bad # {} PROVE FALSE
  OBVIOUS
<1>2. PICK T \in Bad : \A U \in SUBSET T : U # T => U \notin Bad
  <2>1. Bad \in SUBSET SUBSET S
    OBVIOUS
  <2> HIDE DEF Bad
  <2>q. QED  BY <1>1, <2>1, SmallestSubset
<1>q. QED  BY <1>2

-----------------------------------------------------------------------------
(* The recursive function exists and is unique *)

LEMMA IterUnique ==
    ASSUME NEW f, NEW S, IsFiniteSet(S), NEW g, NEW h, IsIter(g, f, S), IsIter(h, f, S)
    PROVE  g = h
<1> DEFINE Good == {T \in SUBSET S : g[T] = h[T]}
<1>1. {} \in Good
  BY DEF IsIter
<1>2. ASSUME NEW T \in SUBSET S, T # {}, T \ {Pick(T)} \in Good PROVE T \in Good
  BY <1>2, Zenon DEF IsIter
<1>3. SUFFICES ASSUME (SUBSET S) \ Good # {} PROVE FALSE
  BY Zenon DEF IsIter
<1>4. PICK T \in (SUBSET S) \ Good : \A U \in SUBSET T : U # T => U \notin (SUBSET S) \ Good
  <2> DEFINE Bad == (SUBSET S) \ Good
  <2>1. Bad \in SUBSET SUBSET S /\ Bad # {}
    BY <1>3
  <2> HIDE DEF Bad
  <2>2. \E T \in Bad : \A U \in SUBSET T : U # T => U \notin Bad
    BY <2>1, SmallestSubset
  <2>q. QED  BY <2>2 DEF Bad
<1>5. T # {} /\ Pick(T) \in T
  BY <1>1, <1>4 DEF Pick
<1>6. T \ {Pick(T)} \in Good
  BY <1>4, <1>5
<1>q. QED  BY <1>2, <1>4, <1>5, <1>6

LEMMA IterRestricts ==
    ASSUME NEW f, NEW S, NEW g, IsIter(g, f, S), NEW T \in SUBSET S
    PROVE  IsIter([U \in SUBSET T |-> g[U]], f, T)
<1>1. \A U \in SUBSET T :
          g[U] = IF U = {} THEN 0 ELSE f[Pick(U)] + g[U \ {Pick(U)}]
  BY DEF IsIter
<1>2. \A U \in SUBSET T : U \ {Pick(U)} \in SUBSET T
  OBVIOUS
<1>q. QED  BY <1>1, <1>2, Zenon DEF IsIter

LEMMA IterExists ==
    ASSUME NEW f, NEW S, IsFiniteSet(S)
    PROVE  \A T \in SUBSET S : IsIter(Iter(f, T), f, T)
<1> DEFINE Bad == {T \in SUBSET S : ~IsIter(Iter(f, T), f, T)}
<1>1. SUFFICES ASSUME Bad # {} PROVE FALSE
  OBVIOUS
<1>2. PICK T \in Bad : \A U \in SUBSET T : U # T => U \notin Bad
  <2>1. Bad \in SUBSET SUBSET S
    OBVIOUS
  <2> HIDE DEF Bad
  <2>q. QED  BY <1>1, <2>1, SmallestSubset
<1>3. \A U \in SUBSET T : U # T => IsIter(Iter(f, U), f, U) /\ IsFiniteSet(U)
  BY <1>2, FS_Subset
<1>4. \A U \in SUBSET T : \A V \in SUBSET U :
          U # T => Iter(f, U)[V] = Iter(f, V)[V]
  <2>1. SUFFICES ASSUME NEW U \in SUBSET T, NEW V \in SUBSET U, U # T
                 PROVE  Iter(f, U)[V] = Iter(f, V)[V]
    OBVIOUS
  <2>2. V # T
    BY <2>1
  <2>3. IsIter([W \in SUBSET V |-> Iter(f, U)[W]], f, V)
    BY <1>3, <2>1, IterRestricts
  <2>4. [W \in SUBSET V |-> Iter(f, U)[W]] = Iter(f, V)
    BY <1>3, <2>2, <2>3, IterUnique
  <2>q. QED  BY <2>4, Zenon
<1> DEFINE rest == T \ {Pick(T)}
           h == [U \in SUBSET T |->
                   IF U = {} THEN 0 ELSE f[Pick(U)] + Iter(f, U \ {Pick(U)})[U \ {Pick(U)}]]
<1>5. ASSUME NEW U \in SUBSET T
      PROVE  h[U] = IF U = {} THEN 0 ELSE f[Pick(U)] + h[U \ {Pick(U)}]
  <2>1. CASE U = {}
    BY <2>1
  <2>2. CASE U # {}
    <3> DEFINE V == U \ {Pick(U)}
    <3>1. Pick(U) \in U
      BY <2>2 DEF Pick
    <3>2. V # T /\ V \in SUBSET T
      BY <3>1
    <3>3. h[U] = f[Pick(U)] + Iter(f, V)[V]
      BY <2>2
    <3>4. IsIter(Iter(f, V), f, V)
      BY <1>3, <3>2
    <3>5. Iter(f, V)[V] = IF V = {} THEN 0 ELSE f[Pick(V)] + Iter(f, V)[V \ {Pick(V)}]
      BY <3>4, Zenon DEF IsIter
    <3>6. Iter(f, V)[V \ {Pick(V)}] = Iter(f, V \ {Pick(V)})[V \ {Pick(V)}]
      BY <1>4, <3>2
    <3>7. h[V] = IF V = {} THEN 0
                 ELSE f[Pick(V)] + Iter(f, V \ {Pick(V)})[V \ {Pick(V)}]
      BY <3>2
    <3> HIDE DEF V, h
    <3>8. h[V] = Iter(f, V)[V]
      BY <3>5, <3>6, <3>7, Zenon
    <3>q. QED  BY <2>2, <3>3, <3>8, Zenon DEF V
  <2>q. QED  BY <2>1, <2>2
<1>6. h = [U \in SUBSET T |-> h[U]]
  OBVIOUS
<1> HIDE DEF h
<1>7. IsIter(h, f, T)
  BY <1>5, <1>6, Zenon DEF IsIter
<1>8. IsIter(Iter(f, T), f, T)
  BY <1>7, Zenon DEF Iter
<1>q. QED  BY <1>2, <1>8

LEMMA SumIsIter ==
    ASSUME NEW f, NEW S PROVE SumFunctionOnSet(f, S) = Iter(f, S)[S]
BY Zenon DEF SumFunctionOnSet, FoldFunctionOnSet, MapThenFoldSet, Iter, IsIter, Pick

LEMMA SumPick ==
    ASSUME NEW f, NEW S, IsFiniteSet(S), S # {}
    PROVE  /\ Pick(S) \in S
           /\ SumFunctionOnSet(f, S)
                = f[Pick(S)] + SumFunctionOnSet(f, S \ {Pick(S)})
<1> DEFINE V == S \ {Pick(S)}
<1>1. IsIter(Iter(f, S), f, S) /\ IsIter(Iter(f, V), f, V) /\ IsFiniteSet(V)
  BY IterExists, FS_Subset
<1>2. [U \in SUBSET V |-> Iter(f, S)[U]] = Iter(f, V)
  BY <1>1, IterRestricts, IterUnique
<1>3. Iter(f, S)[V] = Iter(f, V)[V]
  BY <1>2, Zenon
<1>4. Iter(f, S)[S] = f[Pick(S)] + Iter(f, S)[V]
  BY <1>1, Zenon DEF IsIter
<1>q. QED  BY <1>3, <1>4, SumIsIter DEF Pick

-----------------------------------------------------------------------------
(* Sums *)

LEMMA SumEmpty == \A f : SumFunctionOnSet(f, {}) = 0
<1>1. ASSUME NEW f PROVE SumFunctionOnSet(f, {}) = 0
  <2>1. IsIter(Iter(f, {}), f, {})
    BY IterExists, FS_EmptySet
  <2>q. QED  BY <2>1, SumIsIter DEF IsIter
<1>q. QED  BY <1>1

LEMMA SumIsInt ==
    ASSUME NEW S, IsFiniteSet(S), NEW f, \A x \in S : f[x] \in Int
    PROVE  \A T \in SUBSET S : SumFunctionOnSet(f, T) \in Int
<1> DEFINE Good == {T \in SUBSET S : SumFunctionOnSet(f, T) \in Int}
<1>1. {} \in Good
  BY SumEmpty
<1>2. ASSUME NEW T \in SUBSET S, T # {}, \A y \in T : T \ {y} \in Good
      PROVE  T \in Good
  <2>1. IsFiniteSet(T)
    BY FS_Subset
  <2>2. Pick(T) \in T /\ SumFunctionOnSet(f, T)
            = f[Pick(T)] + SumFunctionOnSet(f, T \ {Pick(T)})
    BY <1>2, <2>1, SumPick
  <2>q. QED  BY <1>2, <2>2
<1> HIDE DEF Good
<1>3. \A T \in SUBSET S : T \in Good
  BY <1>1, <1>2, SubsetInduction
<1>q. QED  BY <1>3 DEF Good

\* The order of the summands does not matter.
LEMMA SumRemove ==
    ASSUME NEW S, IsFiniteSet(S), NEW f, \A x \in S : f[x] \in Int, NEW x \in S
    PROVE  SumFunctionOnSet(f, S) = f[x] + SumFunctionOnSet(f, S \ {x})
<1> DEFINE Good == {T \in SUBSET S : \A y \in T :
                      SumFunctionOnSet(f, T) = f[y] + SumFunctionOnSet(f, T \ {y})}
<1>1. {} \in Good
  OBVIOUS
<1>2. ASSUME NEW T \in SUBSET S, T # {}, \A y \in T : T \ {y} \in Good
      PROVE  T \in Good
  <2> DEFINE c == Pick(T)
  <2>1. IsFiniteSet(T)
    BY FS_Subset
  <2>2. c \in T /\ SumFunctionOnSet(f, T) = f[c] + SumFunctionOnSet(f, T \ {c})
    BY <1>2, <2>1, SumPick
  <2> HIDE DEF c
  <2>3. ASSUME NEW y \in T, y # c
        PROVE  SumFunctionOnSet(f, T) = f[y] + SumFunctionOnSet(f, T \ {y})
    <3>1. /\ y \in T \ {c} /\ T \ {c} \in Good
          /\ c \in T \ {y} /\ T \ {y} \in Good
      BY <1>2, <2>2, <2>3
    <3>2. SumFunctionOnSet(f, T \ {c}) = f[y] + SumFunctionOnSet(f, (T \ {c}) \ {y})
      BY <3>1
    <3>3. SumFunctionOnSet(f, T \ {y}) = f[c] + SumFunctionOnSet(f, (T \ {y}) \ {c})
      BY <3>1
    <3>4. (T \ {c}) \ {y} = (T \ {y}) \ {c} /\ (T \ {c}) \ {y} \in SUBSET S
      OBVIOUS
    <3>5. SumFunctionOnSet(f, (T \ {c}) \ {y}) \in Int /\ f[c] \in Int /\ f[y] \in Int
      BY <2>2, <3>4, SumIsInt
    <3> DEFINE rest == SumFunctionOnSet(f, (T \ {c}) \ {y})
    <3>6. /\ SumFunctionOnSet(f, T) = f[c] + SumFunctionOnSet(f, T \ {c})
          /\ SumFunctionOnSet(f, T \ {c}) = f[y] + rest
          /\ SumFunctionOnSet(f, T \ {y}) = f[c] + rest
      BY <2>2, <3>2, <3>3, <3>4
    <3> HIDE DEF rest
    <3>7. f[c] \in Int /\ f[y] \in Int /\ rest \in Int
      BY <3>5 DEF rest
    <3>q. QED  BY <3>6, <3>7
  <2>q. QED  BY <2>2, <2>3
<1> HIDE DEF Good
<1>3. \A T \in SUBSET S : T \in Good
  BY <1>1, <1>2, SubsetInduction
<1>q. QED  BY <1>3 DEF Good

\* Only the values on S matter.
LEMMA SumSame ==
    ASSUME NEW S, IsFiniteSet(S), NEW f, NEW g, \A x \in S : f[x] = g[x]
    PROVE  SumFunctionOnSet(f, S) = SumFunctionOnSet(g, S)
<1> DEFINE Good == {T \in SUBSET S : SumFunctionOnSet(f, T) = SumFunctionOnSet(g, T)}
<1>1. {} \in Good
  BY SumEmpty
<1>2. ASSUME NEW T \in SUBSET S, T # {}, \A y \in T : T \ {y} \in Good
      PROVE  T \in Good
  <2>1. IsFiniteSet(T)
    BY FS_Subset
  <2>2. /\ Pick(T) \in T
        /\ SumFunctionOnSet(f, T) = f[Pick(T)] + SumFunctionOnSet(f, T \ {Pick(T)})
        /\ SumFunctionOnSet(g, T) = g[Pick(T)] + SumFunctionOnSet(g, T \ {Pick(T)})
    BY <1>2, <2>1, SumPick
  <2>q. QED  BY <1>2, <2>2
<1> HIDE DEF Good
<1>3. \A T \in SUBSET S : T \in Good
  BY <1>1, <1>2, SubsetInduction
<1>q. QED  BY <1>3 DEF Good

LEMMA SumOne ==
    ASSUME NEW f, NEW x, f[x] \in Int
    PROVE  SumFunctionOnSet(f, {x}) = f[x]
<1>1. IsFiniteSet({x}) /\ {x} \ {x} = {}
  BY FS_Singleton
<1>2. SumFunctionOnSet(f, {x}) = f[x] + SumFunctionOnSet(f, {x} \ {x})
  BY <1>1, SumRemove
<1>q. QED  BY <1>1, <1>2, SumEmpty

\* A disjoint union.
LEMMA SumSplit ==
    ASSUME NEW S, IsFiniteSet(S), NEW f, \A x \in S : f[x] \in Int,
           NEW A \in SUBSET S
    PROVE  SumFunctionOnSet(f, S)
             = SumFunctionOnSet(f, A) + SumFunctionOnSet(f, S \ A)
<1> DEFINE Good == {T \in SUBSET A :
                      SumFunctionOnSet(f, (S \ A) \cup T)
                        = SumFunctionOnSet(f, T) + SumFunctionOnSet(f, S \ A)}
<1>1. IsFiniteSet(A) /\ \A T \in SUBSET A : IsFiniteSet((S \ A) \cup T) /\ IsFiniteSet(T)
  <2>1. \A T \in SUBSET A : (S \ A) \cup T \in SUBSET S /\ T \in SUBSET S
    OBVIOUS
  <2>q. QED  BY <2>1, FS_Subset
<1>2. {} \in Good
  <2>1. SumFunctionOnSet(f, S \ A) \in Int /\ (S \ A) \cup {} = S \ A
    BY SumIsInt
  <2>q. QED  BY <2>1, SumEmpty
<1>3. ASSUME NEW T \in SUBSET A, NEW x \in T, T \ {x} \in Good
      PROVE  T \in Good
  <2> DEFINE U == (S \ A) \cup T
             V == (S \ A) \cup (T \ {x})
  <2>1. U \ {x} = V /\ x \in U /\ U \in SUBSET S /\ T \in SUBSET S /\ T \ {x} \in SUBSET S
    OBVIOUS
  <2>2. SumFunctionOnSet(f, U) = f[x] + SumFunctionOnSet(f, U \ {x})
    BY <1>1, <2>1, SumRemove
  <2>3. SumFunctionOnSet(f, T) = f[x] + SumFunctionOnSet(f, T \ {x})
    BY <1>1, <2>1, SumRemove
  <2>4. SumFunctionOnSet(f, V)
          = SumFunctionOnSet(f, T \ {x}) + SumFunctionOnSet(f, S \ A)
    BY <1>3
  <2>5. /\ f[x] \in Int /\ SumFunctionOnSet(f, T \ {x}) \in Int
        /\ SumFunctionOnSet(f, S \ A) \in Int
    BY <2>1, SumIsInt
  <2> HIDE DEF U, V
  <2>6. SumFunctionOnSet(f, U) = SumFunctionOnSet(f, T) + SumFunctionOnSet(f, S \ A)
    <3>1. SumFunctionOnSet(f, U) = f[x] + SumFunctionOnSet(f, V)
      BY <2>1, <2>2
    <3>q. QED  BY <3>1, <2>3, <2>4, <2>5
  <2>q. QED  BY <2>6 DEF U
<1> HIDE DEF Good
<1>4. A \in Good
  <2>1. \A T \in SUBSET A : T # {} /\ (\A x \in T : T \ {x} \in Good) => T \in Good
    BY <1>3
  <2>q. QED  BY <1>1, <1>2, <2>1, SubsetInduction
<1>q. QED
  <2>1. (S \ A) \cup A = S
    OBVIOUS
  <2>q. QED  BY <1>4, <2>1 DEF Good
\* Of natural numbers, a sum over more elements is not less.
LEMMA SumGrows ==
    ASSUME NEW S, IsFiniteSet(S), NEW f, \A x \in S : f[x] \in Nat
    PROVE  \A T \in SUBSET S :
               /\ SumFunctionOnSet(f, T) \in Nat
               /\ SumFunctionOnSet(f, T) <= SumFunctionOnSet(f, S)
<1> DEFINE Good == {T \in SUBSET S : SumFunctionOnSet(f, T) \in Nat}
<1>1. {} \in Good
  BY SumEmpty
<1>2. ASSUME NEW T \in SUBSET S, T # {}, \A y \in T : T \ {y} \in Good
      PROVE  T \in Good
  <2>1. IsFiniteSet(T)
    BY FS_Subset
  <2>2. Pick(T) \in T /\ SumFunctionOnSet(f, T)
            = f[Pick(T)] + SumFunctionOnSet(f, T \ {Pick(T)})
    BY <1>2, <2>1, SumPick
  <2>q. QED  BY <1>2, <2>2
<1> HIDE DEF Good
<1>3. \A T \in SUBSET S : T \in Good
  BY <1>1, <1>2, SubsetInduction
<1>4. ASSUME NEW T \in SUBSET S
      PROVE  /\ SumFunctionOnSet(f, T) \in Nat
             /\ SumFunctionOnSet(f, T) <= SumFunctionOnSet(f, S)
  <2>1. SumFunctionOnSet(f, T) \in Nat /\ SumFunctionOnSet(f, S \ T) \in Nat
    BY <1>3 DEF Good
  <2>2. SumFunctionOnSet(f, S) = SumFunctionOnSet(f, T) + SumFunctionOnSet(f, S \ T)
    BY SumSplit
  <2>q. QED  BY <2>1, <2>2
<1>q. QED  BY <1>4

\* Elements whose summand is 0 can be left out.
LEMMA SumDropsZeros ==
    ASSUME NEW S, IsFiniteSet(S), NEW f, \A x \in S : f[x] \in Int,
           NEW A \in SUBSET S, \A x \in S \ A : f[x] = 0
    PROVE  SumFunctionOnSet(f, A) = SumFunctionOnSet(f, S)
<1> DEFINE Good == {T \in SUBSET (S \ A) : SumFunctionOnSet(f, T) = 0}
<1>1. {} \in Good
  BY SumEmpty
<1>2. ASSUME NEW T \in SUBSET (S \ A), T # {}, \A y \in T : T \ {y} \in Good
      PROVE  T \in Good
  <2>1. IsFiniteSet(T)
    BY FS_Subset
  <2>2. Pick(T) \in T /\ SumFunctionOnSet(f, T)
            = f[Pick(T)] + SumFunctionOnSet(f, T \ {Pick(T)})
    BY <1>2, <2>1, SumPick
  <2>q. QED  BY <1>2, <2>2
<1>3. IsFiniteSet(S \ A)
  BY FS_Subset
<1> HIDE DEF Good
<1>4. \A T \in SUBSET (S \ A) : T \in Good
  BY <1>1, <1>2, <1>3, SubsetInduction
<1>5. SumFunctionOnSet(f, S \ A) = 0
  BY <1>4 DEF Good
<1>6. SumFunctionOnSet(f, A) \in Int
  BY SumIsInt
<1>q. QED  BY <1>5, <1>6, SumSplit

\* GROUP BY: the sums of disjoint groups add up to the sum of all elements
\* that belong to one.
LEMMA SumOfGroups ==
    ASSUME NEW S, IsFiniteSet(S), NEW f, \A x \in S : f[x] \in Int,
           NEW K, IsFiniteSet(K), NEW group, \A k \in K : group[k] \in SUBSET S,
           \A j, k \in K : \A x \in group[j] : x \in group[k] => j = k,
           NEW sums, \A k \in K : sums[k] = SumFunctionOnSet(f, group[k]),
           NEW U \in SUBSET S, \A x \in S : x \in U <=> \E k \in K : x \in group[k]
    PROVE  SumFunctionOnSet(sums, K) = SumFunctionOnSet(f, U)
<1> DEFINE In(L) == {x \in S : \E k \in L : x \in group[k]}
           Good == {L \in SUBSET K : SumFunctionOnSet(sums, L) = SumFunctionOnSet(f, In(L))}
<1>1. {} \in Good
  <2>1. In({}) = {}
    OBVIOUS
  <2>q. QED  BY <2>1, SumEmpty
<1>2. ASSUME NEW L \in SUBSET K, L # {}, \A k \in L : L \ {k} \in Good
      PROVE  L \in Good
  <2>1. IsFiniteSet(L)
    BY FS_Subset
  <2> DEFINE k == Pick(L)
  <2>2. k \in L /\ SumFunctionOnSet(sums, L) = sums[k] + SumFunctionOnSet(sums, L \ {k})
    BY <1>2, <2>1, SumPick
  <2>3. SumFunctionOnSet(sums, L \ {k}) = SumFunctionOnSet(f, In(L \ {k}))
    BY <1>2, <2>2
  <2> HIDE DEF k
  <2>4. /\ group[k] \in SUBSET In(L) /\ In(L) \in SUBSET S
        /\ In(L) \ group[k] = In(L \ {k})
    BY <2>2
  <2>5. IsFiniteSet(In(L))
    BY <2>4, FS_Subset
  <2>6. \A x \in In(L) : f[x] \in Int
    BY <2>4
  <2> HIDE DEF In
  <2>7. SumFunctionOnSet(f, In(L))
          = SumFunctionOnSet(f, group[k]) + SumFunctionOnSet(f, In(L) \ group[k])
    BY <2>4, <2>5, <2>6, SumSplit
  <2>8. sums[k] = SumFunctionOnSet(f, group[k])
    BY <2>2
  <2>9. SumFunctionOnSet(sums, L) = SumFunctionOnSet(f, In(L))
    BY <2>2, <2>3, <2>4, <2>7, <2>8
  <2>q. QED  BY <2>9
<1>3. In(K) = U
  OBVIOUS
<1> HIDE DEF Good, In
<1>4. \A L \in SUBSET K : L \in Good
  BY <1>1, <1>2, SubsetInduction
<1>q. QED  BY <1>3, <1>4 DEF Good

\* The same by key: elements whose key is in no group must not count.
LEMMA SumOfKeys ==
    ASSUME NEW S, IsFiniteSet(S), NEW f, \A x \in S : f[x] \in Int,
           NEW K, IsFiniteSet(K), NEW key, \A x \in S : key[x] \in K \/ f[x] = 0,
           NEW group, \A k \in K : group[k] \in SUBSET S,
           \A k \in K : \A x \in S : x \in group[k] <=> key[x] = k,
           NEW sums, \A k \in K : sums[k] = SumFunctionOnSet(f, group[k])
    PROVE  SumFunctionOnSet(sums, K) = SumFunctionOnSet(f, S)
<1> DEFINE U == {x \in S : key[x] \in K}
<1>1. U \in SUBSET S /\ \A x \in S : x \in U <=> \E k \in K : x \in group[k]
  OBVIOUS
<1>2. \A j, k \in K : \A x \in group[j] : x \in group[k] => j = k
  OBVIOUS
<1>3. \A x \in S \ U : f[x] = 0
  OBVIOUS
<1> HIDE DEF U
<1>4. SumFunctionOnSet(sums, K) = SumFunctionOnSet(f, U)
  BY <1>1, <1>2, SumOfGroups
<1>5. SumFunctionOnSet(f, U) = SumFunctionOnSet(f, S)
  BY <1>1, <1>3, SumDropsZeros
<1>q. QED  BY <1>4, <1>5

LEMMA CountIsSum ==
    ASSUME NEW S, IsFiniteSet(S), NEW f, \A x \in S : f[x] = 1
    PROVE  \A T \in SUBSET S : SumFunctionOnSet(f, T) = Cardinality(T)
<1> DEFINE Good == {T \in SUBSET S : SumFunctionOnSet(f, T) = Cardinality(T)}
<1>1. {} \in Good
  BY SumEmpty, FS_EmptySet
<1>2. ASSUME NEW T \in SUBSET S, T # {}, \A y \in T : T \ {y} \in Good
      PROVE  T \in Good
  <2>1. IsFiniteSet(T)
    BY FS_Subset
  <2>2. Pick(T) \in T /\ SumFunctionOnSet(f, T)
            = f[Pick(T)] + SumFunctionOnSet(f, T \ {Pick(T)})
    BY <1>2, <2>1, SumPick
  <2>3. Cardinality(T) \in Nat /\ Cardinality(T \ {Pick(T)}) = Cardinality(T) - 1
    BY <2>1, <2>2, FS_CardinalityType, FS_RemoveElement
  <2>q. QED  BY <1>2, <2>2, <2>3
<1> HIDE DEF Good
<1>3. \A T \in SUBSET S : T \in Good
  BY <1>1, <1>2, SubsetInduction
<1>q. QED  BY <1>3 DEF Good

LEMMA CountOfGroups ==
    ASSUME NEW S, IsFiniteSet(S), NEW K, IsFiniteSet(K),
           NEW group, \A k \in K : group[k] \in SUBSET S,
           \A j, k \in K : \A x \in group[j] : x \in group[k] => j = k,
           NEW counts, \A k \in K : counts[k] = Cardinality(group[k]),
           NEW U \in SUBSET S, \A x \in S : x \in U <=> \E k \in K : x \in group[k]
    PROVE  SumFunctionOnSet(counts, K) = Cardinality(U)
<1> DEFINE one == [x \in S |-> 1]
<1>1. \A x \in S : one[x] = 1 /\ one[x] \in Int
  OBVIOUS
<1> HIDE DEF one
<1>2. \A T \in SUBSET S : SumFunctionOnSet(one, T) = Cardinality(T)
  BY <1>1, CountIsSum
<1>3. \A k \in K : counts[k] = SumFunctionOnSet(one, group[k])
  BY <1>2
<1>4. SumFunctionOnSet(counts, K) = SumFunctionOnSet(one, U)
  BY <1>1, <1>3, SumOfGroups
<1>q. QED  BY <1>2, <1>4

-----------------------------------------------------------------------------
(* Images and extremes *)

LEMMA ImageIsFinite ==
    ASSUME NEW S, IsFiniteSet(S), NEW f
    PROVE  IsFiniteSet({f[x] : x \in S})
<1> DEFINE T == {f[x] : x \in S}
<1>1. [x \in S |-> f[x]] \in Surjection(S, T)
  BY DEF Surjection
<1>q. QED  BY <1>1, FS_Surjection

LEMMA LargestExists ==
    ASSUME NEW S, IsFiniteSet(S), S # {}, NEW f, \A x \in S : f[x] \in Int
    PROVE  \E x \in S : \A y \in S : f[y] <= f[x]
<1> DEFINE Good == {T \in SUBSET S : T = {} \/ \E x \in T : \A y \in T : f[y] <= f[x]}
<1>1. {} \in Good
  OBVIOUS
<1>2. ASSUME NEW T \in SUBSET S, T # {}, \A y \in T : T \ {y} \in Good
      PROVE  T \in Good
  <2>1. PICK z \in T : TRUE
    BY <1>2
  <2>2. CASE T \ {z} = {}
    BY <2>1, <2>2
  <2>3. CASE T \ {z} # {}
    <3>1. PICK x \in T \ {z} : \A y \in T \ {z} : f[y] <= f[x]
      BY <1>2, <2>1, <2>3
    <3>2. CASE f[z] <= f[x]
      BY <3>1, <3>2
    <3>3. CASE f[x] <= f[z]
      BY <2>1, <3>1, <3>3
    <3>q. QED  BY <2>1, <3>1, <3>2, <3>3
  <2>q. QED  BY <2>2, <2>3
<1> HIDE DEF Good
<1>3. S \in Good
  BY <1>1, <1>2, SubsetInduction
<1>q. QED  BY <1>3 DEF Good

LEMMA SmallestExists ==
    ASSUME NEW S, IsFiniteSet(S), S # {}, \A x \in S : x \in Int
    PROVE  \E x \in S : \A y \in S : x <= y
<1> DEFINE f == [x \in S |-> 0 - x]
<1>1. \A x \in S : f[x] \in Int
  OBVIOUS
<1>2. \E x \in S : \A y \in S : f[y] <= f[x]
  <2> HIDE DEF f
  <2>q. QED  BY <1>1, LargestExists
<1>q. QED  BY <1>2
=============================================================================
