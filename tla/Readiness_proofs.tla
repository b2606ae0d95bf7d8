-------------------------- MODULE Readiness_proofs --------------------------
(***************************************************************************)
(* Lemmas about the operators of Readiness, for any classes, miners and    *)
(* prices: what a sum over finitely many keys is worth, when a miner's     *)
(* verdict and GPUs are positive, and what compute_weights splits.         *)
(***************************************************************************)
EXTENDS Readiness, FiniteSetTheorems, WellFoundedInduction, TLAPS

-----------------------------------------------------------------------------
(* Sums: a fold picks the keys in an order of its own *)

\* What holds of the empty set, and of a set if of all it is without one element,
\* holds of every finite set.
LEMMA SubsetInduction ==
    ASSUME NEW S, IsFiniteSet(S), NEW G,
           {} \in G,
           \A T \in SUBSET S : T # {} /\ (\A x \in T : T \ {x} \in G) => T \in G
    PROVE  \A T \in SUBSET S : T \in G
<1> DEFINE R   == StrictSubsetOrdering(S)
           bad == {T \in SUBSET S : T \notin G}
<1>1. SUFFICES ASSUME bad # {} PROVE FALSE
  OBVIOUS
<1>2. bad \subseteq FiniteSubsetsOf(S)
  BY FS_Subset DEF FiniteSubsetsOf
<1>3. IsWellFoundedOn(R, FiniteSubsetsOf(S))
  BY FS_StrictSubsetOrderingWellFounded
<1> HIDE DEF R, bad
<1>4. PICK T \in bad : \A U \in bad : <<U, T>> \notin R
  BY <1>1, <1>2, <1>3, WFMin
<1>5. T \in SUBSET S /\ T \notin G /\ T # {}
  BY <1>4 DEF bad
<1>6. ASSUME NEW x \in T PROVE T \ {x} \in G
  <2>1. T \ {x} \in SUBSET S /\ T \ {x} \subseteq T /\ T \ {x} # T
    BY <1>5, <1>6
  <2>2. <<T \ {x}, T>> \in R
    BY <1>5, <2>1 DEF R, StrictSubsetOrdering
  <2>3. QED
    BY <1>4, <2>1, <2>2 DEF bad
<1>7. QED
  BY <1>5, <1>6

Pick(S) == CHOOSE x \in S : TRUE

LEMMA PickIsElement == ASSUME NEW S, S # {} PROVE Pick(S) \in S
BY DEF Pick

\* The function the fold of w computes on the sets of D.
IsFold(w, D, it) ==
    it = [s \in D |-> IF s = {} THEN 0 ELSE w[Pick(s)] + it[s \ {Pick(s)}]]

Folds(w, S, it) == IsFold(w, SUBSET S, it)

LEMMA FoldOf ==
    ASSUME NEW w, NEW S
    PROVE  Total(w, S) = (CHOOSE it : Folds(w, S, it))[S]
BY DEF Total, MapThenSumSet, MapThenFoldSet, Folds, IsFold, Pick

LEMMA NaturalsAreReached ==
    ASSUME NEW G \in SUBSET Nat, 0 \in G, \A n \in G : n + 1 \in G
    PROVE  G = Nat
<1> DEFINE R == OpToRel(<, Nat)
           T == Nat \ G
<1>1. SUFFICES ASSUME T # {} PROVE FALSE
  OBVIOUS
<1>2. IsWellFoundedOn(R, Nat)
  BY NatLessThanWellFounded
<1> HIDE DEF R
<1>3. PICK n \in T : \A m \in T : <<m, n>> \notin R
  BY <1>1, <1>2, WFMin
<1>4. n \in Nat /\ n # 0 /\ n - 1 \in Nat /\ n - 1 < n
  BY <1>3
<1>5. n - 1 \notin T
  BY <1>3, <1>4 DEF R, OpToRel
<1>6. n - 1 \in G
  BY <1>4, <1>5
<1>7. (n - 1) + 1 \in G /\ (n - 1) + 1 = n
  BY <1>4, <1>6
<1>8. QED
  BY <1>3, <1>7

\* The sets of S with at most n elements.
UpTo(S, n) == {s \in SUBSET S : Cardinality(s) <= n}

LEMMA SmallerSets ==
    ASSUME NEW S, IsFiniteSet(S), NEW n \in Nat, NEW s \in UpTo(S, n + 1), s # {}
    PROVE  s \ {Pick(s)} \in UpTo(S, n)
<1>1. IsFiniteSet(s) /\ Pick(s) \in s /\ s \in SUBSET S /\ Cardinality(s) <= n + 1
  BY FS_Subset, PickIsElement DEF UpTo
<1>2. Cardinality(s) \in Nat /\ Cardinality(s \ {Pick(s)}) = Cardinality(s) - 1
  BY <1>1, FS_CardinalityType, FS_RemoveElement
<1>3. QED
  BY <1>1, <1>2 DEF UpTo

\* The fold exists: each level is computed from the one below.
LEMMA FoldExists ==
    ASSUME NEW w, NEW S, IsFiniteSet(S)
    PROVE  \E it : Folds(w, S, it)
<1> DEFINE G == {n \in Nat : \E it : IsFold(w, UpTo(S, n), it)}
<1>1. 0 \in G
  <2> DEFINE it == [s \in UpTo(S, 0) |-> 0]
  <2>1. \A s \in UpTo(S, 0) : s = {}
    <3> SUFFICES ASSUME NEW s \in UpTo(S, 0) PROVE s = {}
      OBVIOUS
    <3>1. IsFiniteSet(s) /\ Cardinality(s) <= 0
      BY FS_Subset DEF UpTo
    <3>2. Cardinality(s) = 0
      BY <3>1, FS_CardinalityType
    <3>3. QED
      BY <3>1, <3>2, FS_EmptySet
  <2>2. IsFold(w, UpTo(S, 0), it)
    BY <2>1 DEF IsFold
  <2>3. QED
    BY <2>2
<1>2. ASSUME NEW n \in G PROVE n + 1 \in G
  <2>1. PICK f : IsFold(w, UpTo(S, n), f)
    BY <1>2
  <2> DEFINE it == [s \in UpTo(S, n + 1) |->
                        IF s = {} THEN 0 ELSE w[Pick(s)] + f[s \ {Pick(s)}]]
  <2>2. UpTo(S, n) \subseteq UpTo(S, n + 1)
    <3> SUFFICES ASSUME NEW s \in UpTo(S, n) PROVE s \in UpTo(S, n + 1)
      OBVIOUS
    <3>1. s \in SUBSET S /\ Cardinality(s) \in Nat /\ Cardinality(s) <= n
      BY FS_Subset, FS_CardinalityType DEF UpTo
    <3>2. QED
      BY <3>1, <1>2 DEF UpTo
  <2>3. \A t \in UpTo(S, n) : it[t] = f[t]
    BY <2>1, <2>2 DEF IsFold
  <2>4. \A s \in UpTo(S, n + 1) : s # {} => s \ {Pick(s)} \in UpTo(S, n)
    BY <1>2, SmallerSets
  <2>5. \A s \in UpTo(S, n + 1) :
            it[s] = IF s = {} THEN 0 ELSE w[Pick(s)] + it[s \ {Pick(s)}]
    BY <2>3, <2>4
  <2>6. it = [s \in UpTo(S, n + 1) |-> it[s]]
    OBVIOUS
  <2> HIDE DEF it
  <2>7. IsFold(w, UpTo(S, n + 1), it)
    BY <2>5, <2>6 DEF IsFold
  <2>8. QED
    BY <1>2, <2>7
<1>3. G = Nat
  <2>1. G \in SUBSET Nat
    OBVIOUS
  <2> HIDE DEF G
  <2>2. QED
    BY <1>1, <1>2, <2>1, NaturalsAreReached
<1>4. Cardinality(S) \in Nat
  BY FS_CardinalityType
<1>5. UpTo(S, Cardinality(S)) = SUBSET S
  BY FS_Subset DEF UpTo
<1>6. \E it : IsFold(w, UpTo(S, Cardinality(S)), it)
  BY <1>3, <1>4
<1>7. QED
  BY <1>5, <1>6 DEF Folds

LEMMA FoldStep ==
    ASSUME NEW w, NEW S, IsFiniteSet(S), NEW it, Folds(w, S, it)
    PROVE  /\ it[{}] = 0
           /\ \A s \in SUBSET S : s # {} => it[s] = w[Pick(s)] + it[s \ {Pick(s)}]
BY PickIsElement DEF Folds, IsFold

\* Folds over different sets agree on what they have in common.
LEMMA FoldsAgree ==
    ASSUME NEW w, NEW S, IsFiniteSet(S), NEW T \in SUBSET S,
           NEW f, Folds(w, S, f), NEW g, Folds(w, T, g)
    PROVE  f[T] = g[T]
<1> DEFINE G == {s \in SUBSET T : f[s] = g[s]}
<1>1. IsFiniteSet(T)
  BY FS_Subset
<1>2. {} \in G
  BY <1>1, FoldStep
<1>3. ASSUME NEW s \in SUBSET T, s # {}, \A x \in s : s \ {x} \in G
      PROVE  s \in G
  <2>1. Pick(s) \in s
    BY <1>3, PickIsElement
  <2>2. f[s \ {Pick(s)}] = g[s \ {Pick(s)}]
    BY <1>3, <2>1
  <2>3. s \in SUBSET S
    OBVIOUS
  <2>4. f[s] = w[Pick(s)] + f[s \ {Pick(s)}] /\ g[s] = w[Pick(s)] + g[s \ {Pick(s)}]
    BY <1>1, <1>3, <2>3, FoldStep
  <2>5. QED
    BY <2>2, <2>4
<1> HIDE DEF G
<1>4. \A s \in SUBSET T : s \in G
  BY <1>1, <1>2, <1>3, SubsetInduction
<1>5. QED
  BY <1>4 DEF G

LEMMA TotalIsFold ==
    ASSUME NEW w, NEW S, IsFiniteSet(S), NEW it, Folds(w, S, it)
    PROVE  Total(w, S) = it[S]
<1> DEFINE fold == CHOOSE f : Folds(w, S, f)
<1>1. Folds(w, S, fold)
  OBVIOUS
<1>2. Total(w, S) = fold[S]
  BY FoldOf
<1> HIDE DEF fold
<1>3. fold[S] = it[S]
  <2>1. S \in SUBSET S
    OBVIOUS
  <2>2. QED
    BY <1>1, <2>1, FoldsAgree
<1>4. QED
  BY <1>2, <1>3

LEMMA TotalEmpty == ASSUME NEW w PROVE Total(w, {}) = 0
<1>1. IsFiniteSet({})
  BY FS_EmptySet
<1>2. PICK it : Folds(w, {}, it)
  BY <1>1, FoldExists
<1>3. QED
  BY <1>1, <1>2, FoldStep, TotalIsFold

LEMMA TotalPick ==
    ASSUME NEW w, NEW S, IsFiniteSet(S), S # {}
    PROVE  Total(w, S) = w[Pick(S)] + Total(w, S \ {Pick(S)})
<1> DEFINE T == S \ {Pick(S)}
<1>1. PICK it : Folds(w, S, it)
  BY FoldExists
<1>2. IsFiniteSet(T) /\ T \in SUBSET S
  BY FS_Subset
<1>3. PICK jt : Folds(w, T, jt)
  BY <1>2, FoldExists
<1> HIDE DEF T
<1>4. Total(w, S) = it[S] /\ Total(w, T) = jt[T]
  BY <1>1, <1>2, <1>3, TotalIsFold
<1>5. it[T] = jt[T]
  BY <1>1, <1>2, <1>3, FoldsAgree
<1>6. it[S] = w[Pick(S)] + it[T]
  BY <1>1 DEF Folds, IsFold, T
<1>7. QED
  BY <1>4, <1>5, <1>6 DEF T

\* A sum of integers is one, and any key may be taken out first.
LEMMA TotalType ==
    ASSUME NEW w, NEW S, IsFiniteSet(S), \A x \in S : w[x] \in Int
    PROVE  Total(w, S) \in Int
<1> DEFINE G == {T \in SUBSET S : Total(w, T) \in Int}
<1>1. {} \in G
  BY TotalEmpty
<1>2. ASSUME NEW T \in SUBSET S, T # {}, \A x \in T : T \ {x} \in G
      PROVE  T \in G
  <2>1. IsFiniteSet(T) /\ Pick(T) \in T
    BY <1>2, FS_Subset, PickIsElement
  <2>2. Total(w, T \ {Pick(T)}) \in Int /\ w[Pick(T)] \in Int
    BY <1>2, <2>1
  <2>3. Total(w, T) = w[Pick(T)] + Total(w, T \ {Pick(T)})
    BY <1>2, <2>1, TotalPick
  <2>4. QED
    BY <2>2, <2>3
<1> HIDE DEF G
<1>3. \A T \in SUBSET S : T \in G
  BY <1>1, <1>2, SubsetInduction
<1>4. QED
  BY <1>3 DEF G

LEMMA TotalRemove ==
    ASSUME NEW w, NEW S, IsFiniteSet(S), \A x \in S : w[x] \in Int, NEW y \in S
    PROVE  Total(w, S) = w[y] + Total(w, S \ {y})
<1> DEFINE G == {T \in SUBSET S : \A x \in T : Total(w, T) = w[x] + Total(w, T \ {x})}
<1>1. {} \in G
  OBVIOUS
<1>2. ASSUME NEW T \in SUBSET S, T # {}, \A x \in T : T \ {x} \in G
      PROVE  T \in G
  <2> SUFFICES ASSUME NEW x \in T PROVE Total(w, T) = w[x] + Total(w, T \ {x})
    OBVIOUS
  <2> DEFINE p == Pick(T)
  <2>1. IsFiniteSet(T) /\ p \in T
    BY <1>2, FS_Subset, PickIsElement
  <2>2. Total(w, T) = w[p] + Total(w, T \ {p})
    BY <1>2, <2>1, TotalPick
  <2> HIDE DEF p
  <2>3. CASE x = p
    BY <2>2, <2>3
  <2>4. CASE x # p
    <3> DEFINE R == T \ {p, x}
    <3>1. R = (T \ {p}) \ {x} /\ R = (T \ {x}) \ {p}
      OBVIOUS
    <3>2. Total(w, T \ {p}) = w[x] + Total(w, R)
      BY <1>2, <2>1, <2>4, <3>1
    <3>3. Total(w, T \ {x}) = w[p] + Total(w, R)
      BY <1>2, <2>1, <2>4, <3>1
    <3>4. Total(w, R) \in Int /\ w[x] \in Int /\ w[p] \in Int
      <4>1. IsFiniteSet(R) /\ \A z \in R : w[z] \in Int
        BY FS_Subset
      <4>2. QED
        BY <2>1, <4>1, TotalType
    <3> HIDE DEF R
    <3>5. QED
      BY <2>2, <3>2, <3>3, <3>4
  <2>5. QED
    BY <2>3, <2>4
<1> HIDE DEF G
<1>3. \A T \in SUBSET S : T \in G
  BY <1>1, <1>2, SubsetInduction
<1>4. QED
  BY <1>3 DEF G

\* Sums are linear, add up over disjoint keys, and are monotone.
LEMMA TotalScale ==
    ASSUME NEW w, NEW v, NEW S, IsFiniteSet(S), NEW a \in Int,
           \A x \in S : w[x] \in Int /\ v[x] = a * w[x]
    PROVE  Total(v, S) = a * Total(w, S)
<1> DEFINE G == {T \in SUBSET S : Total(v, T) = a * Total(w, T)}
<1>1. {} \in G
  BY TotalEmpty
<1>2. ASSUME NEW T \in SUBSET S, T # {}, \A x \in T : T \ {x} \in G
      PROVE  T \in G
  <2>1. PICK x \in T : TRUE
    BY <1>2
  <2>2. IsFiniteSet(T) /\ IsFiniteSet(T \ {x})
    BY FS_Subset, FS_RemoveElement
  <2>3. \A y \in T : w[y] \in Int /\ v[y] \in Int
    OBVIOUS
  <2>4. Total(w, T) = w[x] + Total(w, T \ {x}) /\ Total(v, T) = v[x] + Total(v, T \ {x})
    BY <2>2, <2>3, TotalRemove
  <2>5. Total(w, T \ {x}) \in Int
    BY <2>2, <2>3, TotalType
  <2>6. Total(v, T \ {x}) = a * Total(w, T \ {x}) /\ v[x] = a * w[x] /\ w[x] \in Int
    BY <1>2
  <2>7. ASSUME NEW p \in Int, NEW q \in Int PROVE a * p + a * q = a * (p + q)
    OBVIOUS
  <2>8. Total(v, T) = a * Total(w, T)
    BY <2>4, <2>5, <2>6, <2>7
  <2>9. QED
    BY <2>8
<1> HIDE DEF G
<1>3. \A T \in SUBSET S : T \in G
  BY <1>1, <1>2, SubsetInduction
<1>4. QED
  BY <1>3 DEF G

LEMMA TotalAgree ==
    ASSUME NEW w, NEW v, NEW S, IsFiniteSet(S),
           \A x \in S : w[x] \in Int /\ v[x] = w[x]
    PROVE  Total(v, S) = Total(w, S)
<1>1. \A x \in S : w[x] \in Int /\ v[x] = 1 * w[x]
  OBVIOUS
<1>2. Total(v, S) = 1 * Total(w, S) /\ Total(w, S) \in Int
  BY <1>1, TotalScale, TotalType
<1>3. QED
  BY <1>2

LEMMA TotalZero ==
    ASSUME NEW w, NEW S, IsFiniteSet(S), \A x \in S : w[x] = 0
    PROVE  Total(w, S) = 0
<1>1. \A x \in S : w[x] \in Int /\ w[x] = 0 * w[x]
  OBVIOUS
<1>2. Total(w, S) = 0 * Total(w, S) /\ Total(w, S) \in Int
  BY <1>1, TotalScale, TotalType
<1>3. QED
  BY <1>2

LEMMA TotalUnion ==
    ASSUME NEW w, NEW S, IsFiniteSet(S), NEW R, IsFiniteSet(R), S \cap R = {},
           \A x \in S \cup R : w[x] \in Int
    PROVE  Total(w, S \cup R) = Total(w, S) + Total(w, R)
<1> DEFINE G == {T \in SUBSET S : Total(w, T \cup R) = Total(w, T) + Total(w, R)}
<1>0. Total(w, R) \in Int
  BY TotalType
<1>1. {} \in G
  <2>1. {} \cup R = R
    OBVIOUS
  <2>2. QED
    BY <1>0, <2>1, TotalEmpty
<1>2. ASSUME NEW T \in SUBSET S, T # {}, \A x \in T : T \ {x} \in G
      PROVE  T \in G
  <2>1. PICK x \in T : TRUE
    BY <1>2
  <2>2. IsFiniteSet(T) /\ IsFiniteSet(T \ {x}) /\ IsFiniteSet(T \cup R)
    BY FS_Subset, FS_RemoveElement, FS_Union
  <2>3. Total(w, T) = w[x] + Total(w, T \ {x})
    BY <2>2, TotalRemove
  <2> DEFINE U == T \cup R
             V == (T \ {x}) \cup R
  <2>4. Total(w, U) = w[x] + Total(w, U \ {x})
    <3>1. x \in T \cup R /\ \A y \in T \cup R : w[y] \in Int
      OBVIOUS
    <3>2. QED
      BY <2>2, <3>1, TotalRemove
  <2>5. U \ {x} = V
    OBVIOUS
  <2>6. Total(w, V) = Total(w, T \ {x}) + Total(w, R)
    BY <1>2
  <2>7. Total(w, T \ {x}) \in Int /\ w[x] \in Int
    BY <2>2, TotalType
  <2> HIDE DEF U, V
  <2>8. Total(w, U) = Total(w, T) + Total(w, R)
    <3>1. Total(w, U) = w[x] + Total(w, V)
      BY <2>4, <2>5
    <3> DEFINE t == Total(w, T \ {x})
    <3>2. t \in Int /\ w[x] \in Int /\ Total(w, V) = t + Total(w, R)
          /\ Total(w, T) = w[x] + t
      BY <2>3, <2>6, <2>7
    <3> HIDE DEF t
    <3>3. QED
      BY <1>0, <3>1, <3>2
  <2>9. QED
    BY <2>8 DEF U
<1> HIDE DEF G
<1>3. \A T \in SUBSET S : T \in G
  BY <1>1, <1>2, SubsetInduction
<1>4. QED
  BY <1>3 DEF G

LEMMA TotalMonotone ==
    ASSUME NEW w, NEW v, NEW S, IsFiniteSet(S),
           \A x \in S : w[x] \in Int /\ v[x] \in Int /\ w[x] <= v[x]
    PROVE  Total(w, S) <= Total(v, S)
<1> DEFINE G == {T \in SUBSET S : Total(w, T) <= Total(v, T)}
<1>1. {} \in G
  BY TotalEmpty
<1>2. ASSUME NEW T \in SUBSET S, T # {}, \A x \in T : T \ {x} \in G
      PROVE  T \in G
  <2>1. PICK x \in T : TRUE
    BY <1>2
  <2>2. IsFiniteSet(T) /\ IsFiniteSet(T \ {x})
    BY FS_Subset, FS_RemoveElement
  <2>3. \A y \in T : w[y] \in Int /\ v[y] \in Int
    OBVIOUS
  <2>4. Total(w, T) = w[x] + Total(w, T \ {x}) /\ Total(v, T) = v[x] + Total(v, T \ {x})
    BY <2>2, <2>3, TotalRemove
  <2>5. Total(w, T \ {x}) \in Int /\ Total(v, T \ {x}) \in Int
    BY <2>2, <2>3, TotalType
  <2>6. Total(w, T \ {x}) <= Total(v, T \ {x}) /\ w[x] <= v[x]
    BY <1>2
  <2>7. Total(w, T) <= Total(v, T)
    BY <2>3, <2>4, <2>5, <2>6
  <2>8. QED
    BY <2>7
<1> HIDE DEF G
<1>3. \A T \in SUBSET S : T \in G
  BY <1>1, <1>2, SubsetInduction
<1>4. QED
  BY <1>3 DEF G

LEMMA TotalNatural ==
    ASSUME NEW w, NEW S, IsFiniteSet(S), \A x \in S : w[x] \in Nat
    PROVE  /\ Total(w, S) \in Nat
           /\ \A x \in S : w[x] <= Total(w, S)
<1>1. ASSUME NEW T \in SUBSET S PROVE Total(w, T) \in Nat
  <2> DEFINE z == [x \in T |-> 0]
  <2>1. IsFiniteSet(T)
    BY FS_Subset
  <2>2. \A x \in T : z[x] \in Int /\ w[x] \in Int /\ z[x] <= w[x] /\ z[x] = 0
    OBVIOUS
  <2> HIDE DEF z
  <2>3. Total(z, T) <= Total(w, T) /\ Total(z, T) = 0 /\ Total(w, T) \in Int
    BY <2>1, <2>2, TotalMonotone, TotalZero, TotalType
  <2>4. QED
    BY <2>3
<1>2. ASSUME NEW x \in S PROVE w[x] <= Total(w, S)
  <2>1. Total(w, S \ {x}) \in Nat /\ Total(w, S) = w[x] + Total(w, S \ {x})
    BY <1>1, TotalRemove
  <2>2. QED
    BY <2>1
<1>3. QED
  BY <1>1, <1>2

LEMMA TotalPositive ==
    ASSUME NEW w, NEW S, IsFiniteSet(S), \A x \in S : w[x] \in Int, Total(w, S) > 0
    PROVE  \E x \in S : w[x] > 0
<1> SUFFICES ASSUME \A x \in S : ~(w[x] > 0) PROVE FALSE
  OBVIOUS
<1> DEFINE z == [x \in S |-> 0]
<1>1. \A x \in S : z[x] \in Int /\ w[x] \in Int /\ w[x] <= z[x] /\ z[x] = 0
  OBVIOUS
<1> HIDE DEF z
<1>2. Total(w, S) <= Total(z, S) /\ Total(z, S) = 0 /\ Total(w, S) \in Int
  BY <1>1, TotalMonotone, TotalZero, TotalType
<1>3. QED
  BY <1>2

LEMMA TotalOfOnes ==
    ASSUME NEW w, NEW S, IsFiniteSet(S), \A x \in S : w[x] = 1
    PROVE  Total(w, S) = Cardinality(S)
<1> DEFINE G == {T \in SUBSET S : Total(w, T) = Cardinality(T)}
<1>1. {} \in G
  <2>1. IsFiniteSet({}) /\ Cardinality({}) = 0
    BY FS_EmptySet
  <2>2. QED
    BY <2>1, TotalEmpty
<1>2. ASSUME NEW T \in SUBSET S, T # {}, \A x \in T : T \ {x} \in G
      PROVE  T \in G
  <2>1. PICK x \in T : TRUE
    BY <1>2
  <2>2. IsFiniteSet(T) /\ Cardinality(T) \in Nat
    BY FS_Subset, FS_CardinalityType
  <2>3. Cardinality(T \ {x}) = Cardinality(T) - 1
    BY <2>2, FS_RemoveElement
  <2>4. \A y \in T : w[y] \in Int /\ w[y] = 1
    OBVIOUS
  <2>5. Total(w, T) = w[x] + Total(w, T \ {x})
    BY <2>2, <2>4, TotalRemove
  <2>6. Total(w, T \ {x}) = Cardinality(T \ {x})
    BY <1>2
  <2>7. Total(w, T) = Cardinality(T)
    BY <2>2, <2>3, <2>4, <2>5, <2>6
  <2>8. QED
    BY <2>7
<1> HIDE DEF G
<1>3. \A T \in SUBSET S : T \in G
  BY <1>1, <1>2, SubsetInduction
<1>4. QED
  BY <1>3 DEF G

\* Keys that are worth nothing may be left out.
LEMMA TotalOfSupport ==
    ASSUME NEW w, NEW S, IsFiniteSet(S), NEW T \in SUBSET S,
           \A x \in S : w[x] \in Int, \A x \in S \ T : w[x] = 0
    PROVE  Total(w, S) = Total(w, T)
<1> DEFINE R == S \ T
<1>1. IsFiniteSet(T) /\ IsFiniteSet(R)
  BY FS_Subset
<1>2. T \cup R = S /\ T \cap R = {} /\ \A x \in R : w[x] = 0
  OBVIOUS
<1> HIDE DEF R
<1>3. Total(w, S) = Total(w, T) + Total(w, R)
  BY <1>1, <1>2, TotalUnion
<1>4. Total(w, R) = 0 /\ Total(w, T) \in Int
  BY <1>1, <1>2, TotalZero, TotalType
<1>5. QED
  BY <1>2, <1>3, <1>4

-----------------------------------------------------------------------------
(* compute_weights *)

Earners(usd) == {u \in DOMAIN usd : usd[u] > 0}

\* All that was earned was earned by the earners.
LEMMA EarnersEarnAll ==
    ASSUME NEW uids, IsFiniteSet(uids), NEW usd \in [uids -> Nat]
    PROVE  /\ Total(usd, Earners(usd)) = Total(usd, uids)
           /\ Total(usd, uids) \in Nat
           /\ Total(usd, uids) > 0 <=> Earners(usd) # {}
           /\ \A u \in uids \ Earners(usd) : usd[u] = 0
<1>1. Earners(usd) \in SUBSET uids /\ \A u \in uids : usd[u] \in Nat /\ usd[u] \in Int
  BY DEF Earners
<1>2. \A u \in uids \ Earners(usd) : usd[u] = 0
  BY DEF Earners
<1>3. Total(usd, Earners(usd)) = Total(usd, uids)
  BY <1>1, <1>2, TotalOfSupport
<1>4. Total(usd, uids) \in Nat /\ \A u \in uids : usd[u] <= Total(usd, uids)
  BY <1>1, TotalNatural
<1>5. Total(usd, uids) > 0 => Earners(usd) # {}
  <2>1. Total(usd, uids) > 0 => \E u \in uids : usd[u] > 0
    BY <1>1, TotalPositive
  <2>2. QED
    BY <2>1 DEF Earners
<1>6. Earners(usd) # {} => Total(usd, uids) > 0
  <2> SUFFICES ASSUME NEW u \in uids, usd[u] > 0 PROVE Total(usd, uids) > 0
    BY DEF Earners
  <2>1. QED
    BY <1>1, <1>4
<1>7. QED
  BY <1>2, <1>3, <1>4, <1>5, <1>6

Split(usd, owner, pool, uids) ==
    PadToMetagraph(ComputeWeights(usd, owner, pool).weights, uids)

\* Nobody earned: the owner, or without an owner everyone alike.
LEMMA IdleSplit ==
    ASSUME NEW uids, IsFiniteSet(uids), uids # {}, NEW usd \in [uids -> Nat],
           NEW owner, NEW pool \in Nat \ {0}, Earners(usd) = {}
    PROVE  /\ \A u \in uids : Split(usd, owner, pool, uids)[u] \in Nat
           /\ \A u \in uids \ {owner} :
                owner \in uids => Split(usd, owner, pool, uids)[u] = 0
           /\ Total(Split(usd, owner, pool, uids), uids)
                = ComputeWeights(usd, owner, pool).over
<1> DEFINE s == Split(usd, owner, pool, uids)
<1>1. CASE owner \in uids
  <2>1. /\ ComputeWeights(usd, owner, pool).weights = [u \in {owner} |-> 1]
        /\ ComputeWeights(usd, owner, pool).over = 1
    BY <1>1 DEF ComputeWeights, Earners
  <2>2. \A u \in uids : s[u] = IF u = owner THEN 1 ELSE 0
    BY <2>1 DEF Split, PadToMetagraph
  <2> HIDE DEF s
  <2>3. /\ {owner} \in SUBSET uids /\ \A u \in uids : s[u] \in Int
        /\ \A u \in uids \ {owner} : s[u] = 0
        /\ \A u \in {owner} : s[u] = 1
    BY <1>1, <2>2
  <2>4. Total(s, uids) = Total(s, {owner})
    BY <2>3, TotalOfSupport
  <2>5. IsFiniteSet({owner}) /\ Cardinality({owner}) = 1
    BY FS_Singleton
  <2>6. Total(s, {owner}) = 1
    BY <2>3, <2>5, TotalOfOnes
  <2>7. Total(s, uids) = 1
    BY <2>4, <2>6
  <2>8. QED
    BY <2>1, <2>2, <2>7 DEF s
<1>2. CASE owner \notin uids
  <2>1. /\ ComputeWeights(usd, owner, pool).weights = [u \in uids |-> 1]
        /\ ComputeWeights(usd, owner, pool).over = Cardinality(uids)
    BY <1>2 DEF ComputeWeights, Earners, Even
  <2>2. \A u \in uids : s[u] = 1
    BY <2>1 DEF Split, PadToMetagraph
  <2> HIDE DEF s
  <2>3. Total(s, uids) = Cardinality(uids)
    BY <2>2, TotalOfOnes
  <2>4. QED
    BY <1>2, <2>1, <2>2, <2>3 DEF s
<1>3. QED
  BY <1>1, <1>2

\* Somebody earned: everyone but the owner gets what it earned, the owner of the
\* pot also what is left of it.
LEMMA EarnedSplit ==
    ASSUME NEW uids, IsFiniteSet(uids), NEW usd \in [uids -> Nat],
           NEW owner, NEW pool \in Nat \ {0}, Earners(usd) # {}
    PROVE  /\ \A u \in uids : Split(usd, owner, pool, uids)[u] \in Nat
           /\ \A u \in uids \ {owner} : Split(usd, owner, pool, uids)[u] = usd[u]
           /\ Total(Split(usd, owner, pool, uids), uids)
                = ComputeWeights(usd, owner, pool).over
           /\ owner \in uids /\ Total(usd, uids) <= pool
                => ComputeWeights(usd, owner, pool).over = pool
<1> DEFINE s     == Split(usd, owner, pool, uids)
           total == Total(usd, Earners(usd))
           pot   == IF total > pool THEN total ELSE pool
<1>1. /\ total \in Nat /\ total = Total(usd, uids)
      /\ \A u \in uids \ Earners(usd) : usd[u] = 0
      /\ \A u \in uids : usd[u] \in Nat /\ usd[u] \in Int
  BY EarnersEarnAll
<1>2. CASE owner \in uids
  <2>1. /\ ComputeWeights(usd, owner, pool).weights =
                [u \in Earners(usd) \cup {owner} |->
                    IF u = owner THEN usd[u] + (pot - total) ELSE usd[u]]
        /\ ComputeWeights(usd, owner, pool).over = pot
    BY <1>2 DEF ComputeWeights, Earners
  <2> HIDE DEF total
  <2>2. pot \in Nat /\ pot - total \in Nat /\ (total <= pool => pot = pool)
    BY <1>1
  <2> HIDE DEF pot
  <2>3. /\ \A u \in uids \ {owner} : s[u] = usd[u]
        /\ s[owner] = usd[owner] + (pot - total)
    BY <1>1, <1>2, <2>1 DEF Split, PadToMetagraph
  <2> DEFINE others == uids \ {owner}
  <2> HIDE DEF s
  <2>4. \A u \in uids : s[u] \in Nat /\ s[u] \in Int
    BY <1>1, <2>2, <2>3
  <2>5. IsFiniteSet(others)
    BY FS_Subset
  <2>6. Total(s, others) = Total(usd, others) /\ Total(usd, others) \in Int
    BY <1>1, <2>3, <2>5, TotalAgree, TotalType
  <2>7. Total(s, uids) = s[owner] + Total(s, others)
    BY <1>2, <2>4, TotalRemove
  <2>8. Total(usd, uids) = usd[owner] + Total(usd, others)
    BY <1>1, <1>2, TotalRemove
  <2>9. Total(s, uids) = pot
    <3> DEFINE t == Total(usd, others)
    <3>1. /\ t \in Int /\ usd[owner] \in Int /\ total = usd[owner] + t
          /\ Total(s, uids) = (usd[owner] + (pot - total)) + t
      BY <1>1, <1>2, <2>3, <2>6, <2>7, <2>8
    <3> HIDE DEF t
    <3>2. QED
      BY <1>1, <2>2, <3>1
  <2>10. QED
    BY <1>1, <2>1, <2>2, <2>3, <2>4, <2>9 DEF s
<1>3. CASE owner \notin uids
  <2>1. /\ ComputeWeights(usd, owner, pool).weights = [u \in Earners(usd) |-> usd[u]]
        /\ ComputeWeights(usd, owner, pool).over = total
    BY <1>3 DEF ComputeWeights, Earners
  <2> HIDE DEF total
  <2>2. \A u \in uids : s[u] = usd[u]
    BY <1>1, <2>1 DEF Split, PadToMetagraph
  <2> HIDE DEF s
  <2>3. Total(s, uids) = Total(usd, uids)
    BY <1>1, <2>2, TotalAgree
  <2>4. QED
    BY <1>1, <1>3, <2>1, <2>2, <2>3 DEF s
<1>4. QED
  BY <1>2, <1>3

\* What the split promises, whoever is registered and whatever was earned.
LEMMA SplitAddsUp ==
    ASSUME NEW uids, IsFiniteSet(uids), uids # {}, NEW usd \in [uids -> Nat],
           NEW owner, NEW pool \in Nat \ {0},
           NEW s, s = Split(usd, owner, pool, uids),
           NEW over, over = ComputeWeights(usd, owner, pool).over
    PROVE  /\ Total(s, uids) = over
           /\ \A u \in uids : s[u] \in 0..over
           /\ Total(usd, uids) > 0 => \A u \in uids \ {owner} : s[u] = usd[u]
           /\ owner \in uids => \A u \in uids \ {owner} : s[u] = usd[u]
           /\ owner \in uids /\ 0 < Total(usd, uids) /\ Total(usd, uids) <= pool
                => over = pool
<1>1. /\ Total(usd, uids) > 0 <=> Earners(usd) # {}
      /\ \A u \in uids \ Earners(usd) : usd[u] = 0
  BY EarnersEarnAll
<1>2. \A u \in uids : s[u] \in Nat /\ Total(s, uids) = over
  BY IdleSplit, EarnedSplit
<1>3. Total(s, uids) = over
  BY <1>2
<1>4. \A u \in uids : s[u] \in 0..over
  <2>1. over \in Nat /\ \A u \in uids : s[u] \in Nat /\ s[u] <= over
    BY <1>2, <1>3, TotalNatural
  <2>2. QED
    BY <2>1
<1>5. CASE Earners(usd) = {}
  <2>1. owner \in uids => \A u \in uids \ {owner} : s[u] = 0
    BY <1>5, IdleSplit
  <2>2. QED
    BY <1>1, <1>3, <1>4, <1>5, <2>1
<1>6. CASE Earners(usd) # {}
  BY <1>3, <1>4, <1>6, EarnedSplit
<1>7. QED
  BY <1>5, <1>6

-----------------------------------------------------------------------------
(* Extremes *)

LEMMA LeastOfFinite ==
    ASSUME NEW S \in SUBSET Int, IsFiniteSet(S), S # {}
    PROVE  /\ Min(S) \in S
           /\ \A y \in S : Min(S) <= y
<1> DEFINE G == {T \in SUBSET S : T = {} \/ \E x \in T : \A y \in T : x <= y}
<1>1. {} \in G
  OBVIOUS
<1>2. ASSUME NEW T \in SUBSET S, T # {}, \A x \in T : T \ {x} \in G
      PROVE  T \in G
  <2>1. PICK x \in T : TRUE
    BY <1>2
  <2>2. \A y \in T : y \in Int
    OBVIOUS
  <2>3. CASE T \ {x} = {}
    <3>1. \A y \in T : x <= y
      BY <2>2, <2>3
    <3>2. QED
      BY <3>1
  <2>4. CASE T \ {x} # {}
    <3>1. PICK z \in T \ {x} : \A y \in T \ {x} : z <= y
      BY <1>2, <2>4
    <3>2. CASE x <= z
      <4>1. \A y \in T : x <= y
        BY <2>2, <3>1, <3>2
      <4>2. QED
        BY <4>1
    <3>3. CASE ~(x <= z)
      <4>1. \A y \in T : z <= y
        BY <2>2, <3>1, <3>3
      <4>2. QED
        BY <3>1, <4>1
    <3>4. QED
      BY <3>2, <3>3
  <2>5. QED
    BY <2>3, <2>4
<1> HIDE DEF G
<1>3. S \in G
  BY <1>1, <1>2, SubsetInduction
<1>4. \E x \in S : \A y \in S : x <= y
  BY <1>3 DEF G
<1>5. QED
  BY <1>4 DEF Min

\* The newest of two stamps.
LEMMA NewestOfTwo ==
    ASSUME NEW a \in Int, NEW b \in Int, NEW S \in SUBSET {a, b}, S # {}
    PROVE  /\ Max(S) \in S
           /\ \A y \in S : Max(S) >= y
<1>1. \E x \in S : \A y \in S : x >= y
  <2>1. CASE b \notin S
    <3>1. a \in S /\ \A y \in S : y = a
      BY <2>1
    <3>2. a >= a
      OBVIOUS
    <3>3. QED
      BY <3>1, <3>2
  <2>2. CASE b \in S /\ (a \notin S \/ b >= a)
    BY <2>2
  <2>3. CASE b \in S /\ a \in S /\ ~(b >= a)
    BY <2>3
  <2>4. QED
    BY <2>1, <2>2, <2>3
<1>2. QED
  BY <1>1 DEF Max

-----------------------------------------------------------------------------
(* What a miner earns *)

OfClass(N, klass, k)   == {n \in N : klass[n] = k}
InClasses(N, klass, K) == {n \in N : klass[n] \in K}

ClassWorth(N, K, card, klass, g) ==
    [k \in K |-> card[k] * Total(g, OfClass(N, klass, k))]

NodeWorth(N, K, card, klass, g) ==
    [n \in InClasses(N, klass, K) |-> card[klass[n]] * g[n]]

\* A sum over the classes of sums over a class's nodes is one sum over the nodes.
LEMMA TotalByClass ==
    ASSUME NEW N, IsFiniteSet(N), NEW K, IsFiniteSet(K),
           NEW card, \A k \in K : card[k] \in Int,
           NEW klass, NEW g, \A n \in N : g[n] \in Int
    PROVE  Total(ClassWorth(N, K, card, klass, g), K)
                = Total(NodeWorth(N, K, card, klass, g), InClasses(N, klass, K))
<1> USE DEF OfClass, InClasses
<1> DEFINE byClass == ClassWorth(N, K, card, klass, g)
           w       == NodeWorth(N, K, card, klass, g)
<1>0. /\ \A k \in K : byClass[k] = card[k] * Total(g, OfClass(N, klass, k))
      /\ \A n \in N : klass[n] \in K => w[n] = card[klass[n]] * g[n]
  BY DEF ClassWorth, NodeWorth
<1> HIDE DEF byClass, w
<1> DEFINE of(k)  == OfClass(N, klass, k)
           in(L)  == InClasses(N, klass, L)
           G      == {L \in SUBSET K : Total(byClass, L) = Total(w, in(L))}
<1>1. {} \in G
  <2>1. in({}) = {}
    OBVIOUS
  <2>2. QED
    BY <2>1, TotalEmpty
<1>2. ASSUME NEW L \in SUBSET K, L # {}, \A k \in L : L \ {k} \in G
      PROVE  L \in G
  <2>1. PICK k \in L : TRUE
    BY <1>2
  <2> DEFINE rest == L \ {k}
  <2>2. IsFiniteSet(L) /\ IsFiniteSet(of(k)) /\ IsFiniteSet(in(rest))
    BY FS_Subset
  <2>3. in(L) = of(k) \cup in(rest) /\ of(k) \cap in(rest) = {}
    OBVIOUS
  <2>4. \A n \in of(k) : g[n] \in Int /\ w[n] = card[k] * g[n]
    BY <1>0
  <2>5. \A n \in in(L) : w[n] \in Int
    BY <1>0
  <2>6. Total(byClass, rest) = Total(w, in(rest))
    BY <1>2
  <2>7. /\ card[k] \in Int
        /\ byClass[k] = card[k] * Total(g, of(k))
    BY <1>0
  <2>8. \A l \in L : byClass[l] \in Int
    <3> SUFFICES ASSUME NEW l \in L PROVE byClass[l] \in Int
      OBVIOUS
    <3>1. IsFiniteSet(of(l)) /\ \A n \in of(l) : g[n] \in Int
      BY FS_Subset
    <3>2. byClass[l] = card[l] * Total(g, of(l)) /\ card[l] \in Int
      BY <1>0
    <3> HIDE DEF of
    <3>3. Total(g, of(l)) \in Int
      BY <3>1, TotalType
    <3>4. QED
      BY <3>2, <3>3
  <2> DEFINE ks == of(k)
             ls == in(rest)
  <2>9. /\ IsFiniteSet(ks) /\ IsFiniteSet(ls) /\ ks \cap ls = {}
        /\ \A n \in ks \cup ls : w[n] \in Int
        /\ \A n \in ks : g[n] \in Int /\ w[n] = card[k] * g[n]
        /\ in(L) = ks \cup ls
    BY <2>2, <2>3, <2>4, <2>5
  <2>10. byClass[k] = card[k] * Total(g, ks) /\ Total(byClass, rest) = Total(w, ls)
    BY <2>6, <2>7
  <2>11. Total(byClass, L) = byClass[k] + Total(byClass, rest)
    BY <2>2, <2>8, TotalRemove
  <2> HIDE DEF ks, ls, in, of, rest
  <2>12. Total(w, ks \cup ls) = Total(w, ks) + Total(w, ls)
    BY <2>9, TotalUnion
  <2>13. Total(w, ks) = card[k] * Total(g, ks)
    BY <2>7, <2>9, TotalScale
  <2>14. Total(byClass, L) = Total(w, in(L))
    BY <2>9, <2>10, <2>11, <2>12, <2>13
  <2>15. QED
    BY <2>14
<1> HIDE DEF G
<1>3. \A L \in SUBSET K : L \in G
  BY <1>1, <1>2, SubsetInduction
<1>4. QED
  BY <1>3 DEF G, byClass, w, in

\* The nodes of the first of a miner's clusters.
NodesFor(hotkey, clusters, nodesBy) ==
    LET bound == Bound(hotkey, clusters)
    IN  IF bound = {} THEN <<>> ELSE nodesBy[clusters[Min(bound)].id]

\* The nodes that count for a miner: those of its cluster that qualify, of a class
\* the card knows.
CountedNodes(nodes, now, tdx) ==
    {n \in DOMAIN nodes : nodes[n].klass \in GpuClasses /\ Qualifies(nodes[n], now, tdx)}

\* What a miner earns is the sum of what its nodes that count are worth.
LEMMA EarningsOf ==
    ASSUME NEW card \in [GpuClasses -> Nat],
           NEW hotkey, NEW clusters, NEW nodesBy, NEW time, NEW tdx,
           NEW nodes, nodes = NodesFor(hotkey, clusters, nodesBy),
           IsFiniteSet(DOMAIN nodes),
           \A n \in DOMAIN nodes : GpuCount(nodes[n]) \in Nat,
           NEW w, \A n \in CountedNodes(nodes, time, tdx) :
                    w[n] = card[nodes[n].klass] * GpuCount(nodes[n])
    PROVE  UsdFromBreakdown(MinerGpus(hotkey, clusters, nodesBy, time, tdx), card)
                = Total(w, CountedNodes(nodes, time, tdx))
<1> DEFINE g       == [n \in DOMAIN nodes |-> GpuCount(nodes[n])]
           N       == {n \in DOMAIN nodes : Qualifies(nodes[n], time, tdx)}
           klass   == [n \in DOMAIN nodes |-> nodes[n].klass]
           gpus    == MinerGpus(hotkey, clusters, nodesBy, time, tdx)
           byClass == [k \in GpuClasses |-> card[k] * gpus[k]]
<1>1. gpus = [k \in GpuClasses |->
                Total(g, {n \in DOMAIN nodes : /\ nodes[n].klass = k
                                               /\ Qualifies(nodes[n], time, tdx)})]
  BY DEF MinerGpus, NodesFor
<1>2. IsFiniteSet(N) /\ IsFiniteSet(GpuClasses)
  BY FS_Subset, PolicyAssumption
<1>3. \A k \in GpuClasses :
        {n \in DOMAIN nodes : nodes[n].klass = k /\ Qualifies(nodes[n], time, tdx)}
            = OfClass(N, klass, k)
  BY DEF OfClass
<1>4. CountedNodes(nodes, time, tdx) = InClasses(N, klass, GpuClasses)
  BY DEF CountedNodes, InClasses
<1>5. \A n \in N : g[n] \in Int
  OBVIOUS
<1>6. \A n \in N : klass[n] \in GpuClasses => w[n] = card[klass[n]] * g[n]
  BY DEF CountedNodes
<1>7. UsdFromBreakdown(gpus, card) = Total(byClass, GpuClasses)
  <2>1. DOMAIN gpus = GpuClasses
    BY <1>1
  <2> HIDE DEF gpus
  <2>2. QED
    BY <2>1 DEF UsdFromBreakdown
<1>8. \A k \in GpuClasses : card[k] \in Int
  OBVIOUS
<1>9. \A k \in GpuClasses :
        byClass[k] = card[k] * Total(g, OfClass(N, klass, k))
  <2> SUFFICES ASSUME NEW k \in GpuClasses
               PROVE  byClass[k] = card[k] * Total(g, OfClass(N, klass, k))
    OBVIOUS
  <2> DEFINE qs == {n \in DOMAIN nodes : /\ nodes[n].klass = k
                                         /\ Qualifies(nodes[n], time, tdx)}
             ks == OfClass(N, klass, k)
  <2>1. qs = ks
    BY <1>3
  <2> HIDE DEF g
  <2>2. gpus[k] = Total(g, qs)
    BY <1>1
  <2> HIDE DEF qs, ks, gpus
  <2>3. byClass[k] = card[k] * Total(g, ks)
    BY <2>1, <2>2
  <2>4. QED
    BY <2>3 DEF ks
<1>10. byClass = ClassWorth(N, GpuClasses, card, klass, g)
  BY <1>9 DEF ClassWorth
<1> DEFINE v == NodeWorth(N, GpuClasses, card, klass, g)
           C == InClasses(N, klass, GpuClasses)
<1>11. \A n \in C : w[n] \in Int /\ v[n] = w[n]
  <2> SUFFICES ASSUME NEW n \in C PROVE w[n] \in Int /\ v[n] = w[n]
    OBVIOUS
  <2>1. n \in N /\ klass[n] \in GpuClasses
    BY DEF InClasses
  <2> HIDE DEF N, g, klass
  <2>2. v[n] = card[klass[n]] * g[n]
    BY <2>1 DEF NodeWorth
  <2>3. card[klass[n]] \in Int /\ g[n] \in Int
    BY <1>5, <1>8, <2>1
  <2>4. QED
    BY <1>6, <2>1, <2>2, <2>3
<1>12. IsFiniteSet(C)
  BY FS_Subset DEF InClasses
<1> HIDE DEF g, N, klass, byClass
<1>13. Total(byClass, GpuClasses) = Total(v, C)
  BY <1>2, <1>5, <1>8, <1>10, TotalByClass
<1> HIDE DEF v, C
<1>14. Total(v, C) = Total(w, C)
  BY <1>11, <1>12, TotalAgree
<1>15. QED
  BY <1>4, <1>7, <1>13, <1>14 DEF C

-----------------------------------------------------------------------------
(* How old a node looks *)

\* A node is as old as the newer of its two stamps, if it has any.
LEMMA ReadyByStamp ==
    ASSUME NEW seen, NEW a \in Int, NEW b \in Int, NEW time \in Int,
           ReadyStamps(seen) \subseteq {a, b}
    PROVE  /\ Ready(seen, time) => \/ a \in ReadyStamps(seen) /\ time - a <= ReadyMaxAge
                                   \/ b \in ReadyStamps(seen) /\ time - b <= ReadyMaxAge
           /\ a \in ReadyStamps(seen) /\ time - a <= ReadyMaxAge => Ready(seen, time)
<1> DEFINE S == ReadyStamps(seen)
<1>1. CASE S = {}
  BY <1>1 DEF Ready
<1>2. CASE S # {}
  <2>1. Max(S) \in S /\ \A y \in S : Max(S) >= y
    BY <1>2, NewestOfTwo
  <2>2. Ready(seen, time) <=> time - Max(S) <= ReadyMaxAge
    BY <1>2 DEF Ready, ReadyStamp
  <2>3. Max(S) = a \/ Max(S) = b
    BY <2>1
  <2> HIDE DEF S
  <2>4. a \in S /\ time - a <= ReadyMaxAge => time - Max(S) <= ReadyMaxAge
    BY <2>1, <2>3, PolicyAssumption
  <2>5. QED
    BY <2>1, <2>2, <2>3, <2>4 DEF S
<1>3. QED
  BY <1>1, <1>2
=============================================================================
