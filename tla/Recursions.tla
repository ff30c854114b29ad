----------------------------- MODULE Recursions -----------------------------
(***************************************************************************)
(* Lemmas about numbers and about functions defined by recursion, for the  *)
(* theorems about Histories and Artifacts.  The claims are sets of numbers *)
(* and functions, not operators, so that the provers can use them.         *)
(***************************************************************************)
EXTENDS Naturals, FiniteSets, FiniteSetsExt, FiniteSetTheorems, WellFoundedInduction, TLAPS

-----------------------------------------------------------------------------
(* Numbers *)

\* A nonempty set of numbers has a least one.
LEMMA LeastNumber ==
  ASSUME NEW S \in SUBSET Nat, S # {}
  PROVE  \E i \in S : \A j \in S : i <= j
<1>1. PICK n \in S : TRUE
  OBVIOUS
<1> DEFINE T == {0..i : i \in {j \in S : j <= n}}
           R == StrictSubsetOrdering(0..n)
<1>2. T \subseteq SUBSET (0..n) /\ T # {}
  BY <1>1
<1>3. IsWellFoundedOn(R, SUBSET (0..n))
  <2>1. IsFiniteSet(0..n)
    BY FS_Interval
  <2>2. FiniteSubsetsOf(0..n) = SUBSET (0..n)
    BY <2>1, FS_FiniteSubsetsOfFinite
  <2> QED
    BY <2>1, <2>2, FS_StrictSubsetOrderingWellFounded
<1>4. PICK x \in T : \A y \in T : <<y, x>> \notin R
  <2> HIDE DEF T, R
  <2> QED
    BY <1>2, <1>3, WFMin
<1>5. PICK i \in S : i <= n /\ x = 0..i
  BY <1>4
<1>6. ASSUME NEW j \in S, j < i
      PROVE  FALSE
  <2>1. 0..j \in T
    BY <1>1, <1>5, <1>6
  <2>2. 0..j \subseteq x /\ i \in x /\ i \notin 0..j
    BY <1>5, <1>6
  <2>3. <<0..j, x>> \in R
    BY <2>1, <2>2, <1>2, <1>4 DEF R, StrictSubsetOrdering
  <2> QED
    BY <2>1, <2>3, <1>4
<1> QED
  BY <1>6

\* Numbers up to n can be reached one by one.
LEMMA UpTo ==
  ASSUME NEW n \in Nat, NEW S, 0 \in S, \A i \in 0..(n - 1) : i \in S => i + 1 \in S
  PROVE  n \in S
<1> DEFINE Bad == {i \in 0..n : i \notin S}
<1>1. SUFFICES ASSUME n \notin S
               PROVE  FALSE
  OBVIOUS
<1>2. PICK i \in Bad : \A j \in Bad : i <= j
  <2>1. Bad \in SUBSET Nat /\ Bad # {}
    BY <1>1
  <2> HIDE DEF Bad
  <2> QED
    BY <2>1, LeastNumber
<1>3. i - 1 \in 0..(n - 1) /\ (i - 1) + 1 = i
  BY <1>2
<1>4. i - 1 \in S
  BY <1>2, <1>3
<1> QED
  BY <1>2, <1>3, <1>4

\* What holds of a number whenever it holds of all that are smaller holds up to n.
LEMMA Smaller ==
  ASSUME NEW n \in Nat, NEW S, \A i \in 0..n : (\A j \in 0..n : j < i => j \in S) => i \in S
  PROVE  \A i \in 0..n : i \in S
<1> DEFINE Bad == {i \in 0..n : i \notin S}
<1>1. SUFFICES ASSUME Bad # {}
               PROVE  FALSE
  OBVIOUS
<1>2. PICK i \in Bad : \A j \in Bad : i <= j
  <2>1. Bad \in SUBSET Nat
    OBVIOUS
  <2> HIDE DEF Bad
  <2> QED
    BY <1>1, <2>1, LeastNumber
<1>3. \A j \in 0..n : j < i => j \in S
  BY <1>2
<1> QED
  BY <1>2, <1>3

\* The greatest number of a set of numbers up to n.
LEMMA MaxOf ==
  ASSUME NEW n \in Nat, NEW S \in SUBSET (0..n), S # {}
  PROVE  Max(S) \in S /\ \A i \in S : i <= Max(S)
<1> DEFINE T == {n - i : i \in S}
<1>1. PICK m \in T : \A k \in T : m <= k
  <2>1. \A i \in S : n - i \in Nat
    OBVIOUS
  <2>2. T \in SUBSET Nat /\ T # {}
    BY <2>1
  <2> HIDE DEF T
  <2> QED
    BY <2>2, LeastNumber
<1>2. PICK g \in S : m = n - g
  BY <1>1
<1>3. \A i \in S : g >= i
  <2> SUFFICES ASSUME NEW i \in S
               PROVE  g >= i
    OBVIOUS
  <2>1. n - g <= n - i
    BY <1>1, <1>2
  <2> QED
    BY <2>1
<1>4. Max(S) \in S /\ \A i \in S : Max(S) >= i
  BY <1>2, <1>3 DEF Max
<1> QED
  BY <1>4

\* The least number of a nonempty set.
LEMMA MinOf ==
  ASSUME NEW S \in SUBSET Nat, S # {}
  PROVE  Min(S) \in S
<1>1. PICK m \in S : \A k \in S : m <= k
  BY LeastNumber
<1> QED
  BY <1>1 DEF Min

-----------------------------------------------------------------------------
(* Recursive functions *)

\* A recursion over D that ends on Ends: every call goes to an argument of smaller rank.
Recursion(N, D, V, Ends, rank, next, base, step) ==
  /\ N \in Nat
  /\ rank \in [D -> 0..N] /\ next \in [D -> D]
  /\ base \in [D -> V] /\ step \in [D -> [V -> V]]
  /\ \A n \in D : n \notin Ends => rank[next[n]] < rank[n]

\* Such a recursion defines a function.
LEMMA RecursionExists ==
  ASSUME NEW N, NEW D, NEW V, NEW Ends, NEW rank, NEW next, NEW base, NEW step,
         Recursion(N, D, V, Ends, rank, next, base, step)
  PROVE  \E f \in [D -> V] :
           \A n \in D : f[n] = IF n \in Ends THEN base[n] ELSE step[n][f[next[n]]]
<1> USE DEF Recursion
<1> DEFINE Val(f, n) == IF n \in Ends THEN base[n] ELSE step[n][f[next[n]]]
           S == {r \in 0..(N + 1) :
                   \E f \in [D -> V] : \A n \in D : rank[n] < r => f[n] = Val(f, n)}
<1>1. 0 \in S
  <2>1. \A n \in D : ~(rank[n] < 0)
    OBVIOUS
  <2> QED
    BY <2>1
<1>2. ASSUME NEW r \in 0..N, r \in S
      PROVE  r + 1 \in S
  <2>1. PICK f \in [D -> V] : \A n \in D : rank[n] < r => f[n] = Val(f, n)
    BY <1>2
  <2> DEFINE g == [n \in D |-> Val(f, n)]
  <2>2. g \in [D -> V]
    OBVIOUS
  <2>3. \A n \in D : rank[n] < r => g[n] = f[n]
    BY <2>1
  <2>4. ASSUME NEW n \in D, rank[n] < r + 1
        PROVE  g[n] = Val(g, n)
    <3>1. CASE n \in Ends
      BY <3>1
    <3>2. CASE n \notin Ends
      <4>1. next[n] \in D /\ rank[next[n]] < r
        <5>1. next[n] \in D /\ rank[next[n]] < rank[n]
          BY <3>2
        <5>2. rank[n] \in Nat /\ rank[next[n]] \in Nat
          BY <5>1
        <5> QED
          BY <5>1, <5>2, <2>4
      <4>2. g[next[n]] = f[next[n]]
        BY <4>1, <2>3
      <4> QED
        BY <3>2, <4>2
    <3> QED
      BY <3>1, <3>2
  <2> HIDE DEF g, Val
  <2>5. r + 1 \in 0..(N + 1)
    OBVIOUS
  <2> QED
    BY <2>2, <2>4, <2>5
<1>3. N + 1 \in S
  <2>1. \A i \in 0..((N + 1) - 1) : i \in S => i + 1 \in S
    <3> HIDE DEF S
    <3> QED
      BY <1>2
  <2> HIDE DEF S
  <2> QED
    BY <1>1, <2>1, UpTo
<1>4. PICK f \in [D -> V] : \A n \in D : rank[n] < N + 1 => f[n] = Val(f, n)
  BY <1>3
<1>5. \A n \in D : rank[n] < N + 1
  OBVIOUS
<1> QED
  BY <1>4, <1>5

\* A fold over a finite set: pick takes an element of what is left.
Folding(S, V, base, pick, step) ==
  /\ IsFiniteSet(S) /\ base \in V /\ step \in [S -> [V -> V]]
  /\ \A s \in SUBSET S : s # {} => pick[s] \in s

Folds(f, S, base, pick, step) ==
  \A s \in SUBSET S : f[s] = IF s = {} THEN base ELSE step[pick[s]][f[s \ {pick[s]}]]

\* The recursive function behind a fold exists.
LEMMA FoldExists ==
  ASSUME NEW S, NEW V, NEW base, NEW pick, NEW step, Folding(S, V, base, pick, step)
  PROVE  \E f \in [SUBSET S -> V] : Folds(f, S, base, pick, step)
<1> USE DEF Folding
<1> DEFINE N == Cardinality(S)
           D == SUBSET S
           Ends == {{}}
           rank == [s \in D |-> Cardinality(s)]
           next == [s \in D |-> IF s = {} THEN s ELSE s \ {pick[s]}]
           bases == [s \in D |-> base]
           steps == [s \in D |-> IF s = {} THEN [v \in V |-> v] ELSE step[pick[s]]]
<1>1. \A s \in D : IsFiniteSet(s) /\ Cardinality(s) \in 0..N
  <2> SUFFICES ASSUME NEW s \in D
               PROVE  IsFiniteSet(s) /\ Cardinality(s) \in 0..N
    OBVIOUS
  <2>1. IsFiniteSet(s) /\ Cardinality(s) <= Cardinality(S)
    BY FS_Subset
  <2>2. Cardinality(s) \in Nat /\ Cardinality(S) \in Nat
    BY <2>1, FS_CardinalityType
  <2> QED
    BY <2>1, <2>2
<1>2. N \in Nat
  BY FS_CardinalityType
<1>3. \A s \in D : s \notin Ends => rank[next[s]] < rank[s]
  <2> SUFFICES ASSUME NEW s \in D, s # {}
               PROVE  Cardinality(s \ {pick[s]}) < Cardinality(s)
    OBVIOUS
  <2>1. IsFiniteSet(s) /\ pick[s] \in s
    BY <1>1
  <2>2. Cardinality(s \ {pick[s]}) = Cardinality(s) - 1
    BY <2>1, FS_RemoveElement
  <2>3. Cardinality(s) \in Nat
    BY <1>1
  <2> QED
    BY <2>2, <2>3
<1>4. rank \in [D -> 0..N] /\ next \in [D -> D] /\ bases \in [D -> V]
  BY <1>1
<1>5. steps \in [D -> [V -> V]]
  BY <1>1
<1>6. PICK f \in [D -> V] :
        \A s \in D : f[s] = IF s \in Ends THEN bases[s] ELSE steps[s][f[next[s]]]
  <2> HIDE DEF N, D, Ends, rank, next, bases, steps, Folding
  <2>1. Recursion(N, D, V, Ends, rank, next, bases, steps)
    BY <1>2, <1>3, <1>4, <1>5 DEF Recursion
  <2> QED
    BY <2>1, RecursionExists
<1>7. ASSUME NEW s \in D
      PROVE  f[s] = IF s = {} THEN base ELSE step[pick[s]][f[s \ {pick[s]}]]
  BY <1>6
<1> QED
  BY <1>7 DEF Folds

\* What holds of a set whenever it holds of its smaller subsets holds of all subsets.
LEMMA SmallerSets ==
  ASSUME NEW S, IsFiniteSet(S), NEW Q,
         \A s \in SUBSET S : (\A t \in SUBSET S : Cardinality(t) < Cardinality(s) => t \in Q) => s \in Q
  PROVE  \A s \in SUBSET S : s \in Q
<1> DEFINE N == Cardinality(S)
           T == {n \in 0..N : \A s \in SUBSET S : Cardinality(s) = n => s \in Q}
<1>1. \A s \in SUBSET S : Cardinality(s) \in 0..N
  <2> SUFFICES ASSUME NEW s \in SUBSET S
               PROVE  Cardinality(s) \in 0..N
    OBVIOUS
  <2>1. IsFiniteSet(s) /\ Cardinality(s) <= Cardinality(S)
    BY FS_Subset
  <2>2. Cardinality(s) \in Nat /\ Cardinality(S) \in Nat
    BY <2>1, FS_CardinalityType
  <2> QED
    BY <2>2, <2>1
<1>2. N \in Nat
  BY FS_CardinalityType
<1>3. ASSUME NEW n \in 0..N, \A j \in 0..N : j < n => j \in T
      PROVE  n \in T
  <2> SUFFICES ASSUME NEW s \in SUBSET S, Cardinality(s) = n
               PROVE  s \in Q
    OBVIOUS
  <2>1. ASSUME NEW t \in SUBSET S, Cardinality(t) < Cardinality(s)
        PROVE  t \in Q
    BY <1>1, <1>3, <2>1
  <2> QED
    BY <2>1
<1>4. \A n \in 0..N : n \in T
  <2> HIDE DEF N, T
  <2> QED
    BY <1>2, <1>3, Smaller
<1> QED
  BY <1>1, <1>4
=============================================================================
