---------------------------- MODULE CountingProofs ----------------------------
(***************************************************************************)
(* Lemmas about finite sets that several modules count with: the k-th      *)
(* member of a set of naturals (Ranks), the sum of a function over a set,  *)
(* and the fold of a step over a set.                                      *)
(***************************************************************************)
EXTENDS Ranks, Integers, Sequences, Functions, FiniteSets, FiniteSetTheorems,
        WellFoundedInduction, TLAPS

LEMMA BelowFinite ==
  ASSUME NEW S \in SUBSET Nat, IsFiniteSet(S), NEW i \in S
  PROVE  /\ IsFiniteSet(Below(S, i))
         /\ Cardinality(Below(S, i)) \in 0 .. Cardinality(S) - 1
<1>1. Below(S, i) \in SUBSET (S \ {i})
  BY DEF Below
<1>2. IsFiniteSet(S \ {i}) /\ Cardinality(S \ {i}) = Cardinality(S) - 1
  BY FS_RemoveElement
<1>3. IsFiniteSet(Below(S, i)) /\ Cardinality(Below(S, i)) <= Cardinality(S \ {i})
  BY <1>1, <1>2, FS_Subset
<1>4. Cardinality(Below(S, i)) \in Nat /\ Cardinality(S) \in Nat
  BY <1>3, FS_CardinalityType
<1> QED BY <1>2, <1>3, <1>4

\* Two places with as many places below them are one.
LEMMA RankUnique ==
  ASSUME NEW S \in SUBSET Nat, IsFiniteSet(S), NEW i \in S, NEW j \in S,
         Cardinality(Below(S, i)) = Cardinality(Below(S, j))
  PROVE  i = j
<1>1. ASSUME NEW a \in S, NEW b \in S, a < b
      PROVE  Cardinality(Below(S, a)) # Cardinality(Below(S, b))
  <2>1. Below(S, a) \in SUBSET Below(S, b) /\ a \in Below(S, b) /\ a \notin Below(S, a)
    <3>1. a \in Nat /\ b \in Nat /\ \A x \in S : x \in Nat
      OBVIOUS
    <3>2. a \in Below(S, b) /\ a \notin Below(S, a)
      BY <1>1, <3>1 DEF Below
    <3>3. \A x \in Below(S, a) : x \in Below(S, b)
      BY <1>1, <3>1 DEF Below
    <3> QED BY <3>2, <3>3
  <2>2. IsFiniteSet(Below(S, b))
    BY BelowFinite
  <2>3. Cardinality(Below(S, a)) = Cardinality(Below(S, b)) => Below(S, b) = Below(S, a)
    BY <2>1, <2>2, FS_Subset
  <2> QED BY <2>1, <2>3
<1>2. i \in Nat /\ j \in Nat
  OBVIOUS
<1>3. i < j \/ j < i \/ i = j
  BY <1>2
<1> QED BY <1>1, <1>3

\* Every rank is taken: so many places, so many ranks.
LEMMA RankExists ==
  ASSUME NEW S \in SUBSET Nat, IsFiniteSet(S), NEW k \in 1 .. Cardinality(S)
  PROVE  \E i \in S : Cardinality(Below(S, i)) = k - 1
<1> DEFINE n == Cardinality(S)
           rank == [i \in S |-> Cardinality(Below(S, i)) + 1]
<1>1. n \in Nat
  BY FS_CardinalityType
<1>2. rank \in [S -> 1 .. n]
  BY <1>1, BelowFinite
<1>3. \A i, j \in S : rank[i] = rank[j] => i = j
  <2> SUFFICES ASSUME NEW i \in S, NEW j \in S, rank[i] = rank[j] PROVE i = j
    OBVIOUS
  <2>1. Cardinality(Below(S, i)) \in Nat /\ Cardinality(Below(S, j)) \in Nat
    BY <1>1, BelowFinite
  <2> QED BY <2>1, RankUnique
<1>4. rank \in Injection(S, 1 .. n)
  BY <1>2, <1>3 DEF Injection, IsInjective
<1>5. IsFiniteSet(1 .. n) /\ Cardinality(1 .. n) = n
  BY <1>1, FS_Interval
<1>6. rank \in Surjection(S, 1 .. n)
  BY <1>4, <1>5, FS_Injection
<1>7. PICK i \in S : rank[i] = k
  BY <1>6 DEF Surjection
<1>8. Cardinality(Below(S, i)) \in Nat
  BY <1>1, BelowFinite
<1> QED BY <1>7, <1>8

LEMMA NthPlace ==
  ASSUME NEW S \in SUBSET Nat, IsFiniteSet(S)
  PROVE  /\ \A k \in 1 .. Cardinality(S) :
               Nth(S, k) \in S /\ Cardinality(Below(S, Nth(S, k))) = k - 1
         /\ \A k \in 1 .. Cardinality(S), i \in S :
               Cardinality(Below(S, i)) = k - 1 => Nth(S, k) = i
<1>1. ASSUME NEW k \in 1 .. Cardinality(S)
      PROVE  Nth(S, k) \in S /\ Cardinality(Below(S, Nth(S, k))) = k - 1
  BY <1>1, RankExists DEF Nth
<1> QED BY <1>1, RankUnique

\* A set in its order is a sequence of its members, each of them once.
LEMMA RankedSeq ==
  ASSUME NEW S \in SUBSET Nat, IsFiniteSet(S)
  PROVE  /\ Ranked(S) \in Seq(S) /\ Len(Ranked(S)) = Cardinality(S)
         /\ DOMAIN Ranked(S) = 1 .. Cardinality(S)
         /\ \A k \in DOMAIN Ranked(S) : Ranked(S)[k] \in S
         /\ \A x \in S : \E k \in DOMAIN Ranked(S) : Ranked(S)[k] = x
         /\ \A k, m \in DOMAIN Ranked(S) : k < m => Ranked(S)[k] < Ranked(S)[m]
<1> DEFINE n == Cardinality(S)
<1>1. n \in Nat
  BY FS_CardinalityType
<1>2. \A k \in 1 .. n : Nth(S, k) \in S /\ Cardinality(Below(S, Nth(S, k))) = k - 1
  BY NthPlace
<1>3. \A x \in S : \E k \in 1 .. n : Nth(S, k) = x
  <2> SUFFICES ASSUME NEW x \in S PROVE \E k \in 1 .. n : Nth(S, k) = x
    OBVIOUS
  <2>1. Cardinality(Below(S, x)) \in 0 .. n - 1
    BY BelowFinite
  <2>2. Cardinality(Below(S, x)) + 1 \in 1 .. n
    BY <1>1, <2>1
  <2>3. Nth(S, Cardinality(Below(S, x)) + 1) = x
    BY <1>1, <2>1, <2>2, NthPlace
  <2> QED BY <2>2, <2>3
<1>4. ASSUME NEW k \in 1 .. n, NEW m \in 1 .. n, k < m PROVE Nth(S, k) < Nth(S, m)
  <2>1. /\ Nth(S, k) \in S /\ Nth(S, m) \in S /\ Nth(S, k) \in Nat /\ Nth(S, m) \in Nat
        /\ Cardinality(Below(S, Nth(S, k))) = k - 1
        /\ Cardinality(Below(S, Nth(S, m))) = m - 1
    BY <1>2
  <2>2. IsFiniteSet(Below(S, Nth(S, k))) /\ IsFiniteSet(Below(S, Nth(S, m)))
    BY <2>1, BelowFinite
  <2>3. CASE Nth(S, m) <= Nth(S, k)
    <3>1. \A j \in Below(S, Nth(S, m)) : j \in Below(S, Nth(S, k))
      <4> SUFFICES ASSUME NEW j \in S, j < Nth(S, m) PROVE j < Nth(S, k)
        BY DEF Below
      <4>1. j \in Nat
        OBVIOUS
      <4> QED BY <2>1, <2>3, <4>1
    <3>2. m - 1 <= k - 1
      BY <2>1, <2>2, <3>1, FS_Subset
    <3> QED BY <1>1, <1>4, <3>2
  <2> QED BY <2>1, <2>3
<1>5. DOMAIN Ranked(S) = 1 .. n /\ \A k \in 1 .. n : Ranked(S)[k] = Nth(S, k)
  BY DEF Ranked
<1>6. Ranked(S) \in Seq(S) /\ Len(Ranked(S)) = n
  <2>1. Ranked(S) \in [1 .. n -> S]
    BY <1>2 DEF Ranked
  <2> QED BY <1>1, <2>1
<1> QED BY <1>2, <1>3, <1>4, <1>5, <1>6

\* What stands at some places of a list is a list of what stood there, all of it.
LEMMA AtPlacesSeq ==
  ASSUME NEW T, NEW s \in Seq(T), NEW S \in SUBSET (DOMAIN s)
  PROVE  /\ AtPlaces(s, S) \in Seq(T) /\ Len(AtPlaces(s, S)) = Cardinality(S)
         /\ \A k \in DOMAIN AtPlaces(s, S) : \E i \in S : AtPlaces(s, S)[k] = s[i]
         /\ \A i \in S : \E k \in DOMAIN AtPlaces(s, S) : AtPlaces(s, S)[k] = s[i]
<1>1. DOMAIN s = 1 .. Len(s) /\ Len(s) \in Nat
  OBVIOUS
<1>2. S \in SUBSET Nat /\ IsFiniteSet(S)
  <2>1. S \in SUBSET (1 .. Len(s)) /\ S \in SUBSET Nat
    BY <1>1
  <2>2. IsFiniteSet(1 .. Len(s))
    BY <1>1, FS_Interval
  <2> QED BY <2>1, <2>2, FS_Subset
<1> DEFINE n == Cardinality(S)
<1>3. n \in Nat
  BY <1>2, FS_CardinalityType
<1>4. /\ \A k \in 1 .. n : Nth(S, k) \in S
      /\ \A i \in S : \E k \in 1 .. n : Nth(S, k) = i
  <2>1. DOMAIN Ranked(S) = 1 .. n /\ \A k \in 1 .. n : Ranked(S)[k] = Nth(S, k)
    BY DEF Ranked
  <2>2. /\ \A k \in DOMAIN Ranked(S) : Ranked(S)[k] \in S
        /\ \A x \in S : \E k \in DOMAIN Ranked(S) : Ranked(S)[k] = x
    BY <1>2, RankedSeq
  <2> QED BY <2>1, <2>2
<1>5. DOMAIN AtPlaces(s, S) = 1 .. n /\ \A k \in 1 .. n : AtPlaces(s, S)[k] = s[Nth(S, k)]
  BY DEF AtPlaces
<1>6. AtPlaces(s, S) \in Seq(T) /\ Len(AtPlaces(s, S)) = n
  <2>1. AtPlaces(s, S) \in [1 .. n -> T]
    BY <1>4, <1>5 DEF AtPlaces
  <2> QED BY <1>3, <2>1
<1> QED BY <1>4, <1>5, <1>6

(***************************************************************************)
(* Sums and folds.  A function over the subsets of S of at most n members, *)
(* built one n at a time, stands for the recursive function that           *)
(* FoldFunctionOnSet chooses.                                              *)
(***************************************************************************)

\* Induction over the naturals, stated for a set.
LEMMA UpFromZero ==
  ASSUME NEW G, 0 \in G, \A n \in Nat : n \in G => n + 1 \in G
  PROVE  \A n \in Nat : n \in G
<1> SUFFICES ASSUME NEW n \in Nat, n \notin G PROVE FALSE
  OBVIOUS
<1> DEFINE bad == {k \in Nat : k \notin G}
<1>1. bad \in SUBSET Nat /\ n \in bad
  OBVIOUS
<1>2. PICK k \in bad : \A m \in bad : k <= m
  <2>1. \E k \in bad : \A m \in bad : ~ (<<m, k>> \in OpToRel(<, Nat))
    <3> HIDE DEF bad
    <3> QED BY <1>1, NatLessThanWellFounded, WFMin
  <2>2. PICK k \in bad : \A m \in bad : ~ (<<m, k>> \in OpToRel(<, Nat))
    BY <2>1
  <2>3. ASSUME NEW m \in bad PROVE k <= m
    <3>1. m \in Nat /\ k \in Nat
      OBVIOUS
    <3>2. ~ (m < k)
      BY <2>2, <3>1 DEF OpToRel
    <3> QED BY <3>1, <3>2
  <2> QED BY <2>3
<1>3. k \in Nat /\ k # 0 /\ k - 1 \in Nat /\ k - 1 \notin bad
  BY <1>2
<1>4. k - 1 \in G /\ (k - 1) + 1 = k
  BY <1>3
<1> QED BY <1>2, <1>3, <1>4

\* A set of sets that holds the empty set, and with a set every set of one member more.
LEMMA UpFromEmpty ==
  ASSUME NEW S, IsFiniteSet(S), NEW G, {} \in G,
         \A T \in SUBSET S : \A x \in S \ T : T \in G => T \cup {x} \in G
  PROVE  S \in G
<1> DEFINE H == {n \in Nat : \A T \in SUBSET S : Cardinality(T) = n => T \in G}
<1>1. 0 \in H
  <2> SUFFICES ASSUME NEW T \in SUBSET S, Cardinality(T) = 0 PROVE T \in G
    OBVIOUS
  <2>1. IsFiniteSet(T)
    BY FS_Subset
  <2>2. T = {}
    BY <2>1, FS_EmptySet
  <2> QED BY <2>2
<1>2. ASSUME NEW n \in Nat, n \in H PROVE n + 1 \in H
  <2> SUFFICES ASSUME NEW T \in SUBSET S, Cardinality(T) = n + 1 PROVE T \in G
    OBVIOUS
  <2>1. IsFiniteSet(T)
    BY FS_Subset
  <2>2. T # {}
    <3>1. Cardinality({}) = 0 /\ n + 1 # 0
      BY FS_EmptySet
    <3> QED BY <3>1
  <2>3. PICK x \in T : TRUE
    BY <2>2
  <2>4. Cardinality(T \ {x}) = n
    <3>1. Cardinality(T \ {x}) = Cardinality(T) - 1
      BY <2>1, <2>3, FS_RemoveElement
    <3> QED BY <3>1
  <2>5. T \ {x} \in SUBSET S /\ x \in S \ (T \ {x})
    BY <2>3
  <2>6. T \ {x} \in G
    BY <1>2, <2>4, <2>5
  <2>7. (T \ {x}) \cup {x} \in G
    BY <2>5, <2>6
  <2>8. (T \ {x}) \cup {x} = T
    BY <2>3
  <2> QED BY <2>7, <2>8
<1>3. \A n \in Nat : n \in H
  <2> HIDE DEF H
  <2> QED BY <1>1, <1>2, UpFromZero
<1>4. Cardinality(S) \in Nat /\ S \in SUBSET S
  BY FS_CardinalityType
<1> QED BY <1>3, <1>4

-----------------------------------------------------------------------------
\* The member that SumFunctionOnSet takes first, the sets that n steps reach, and the
\* equation that its recursive function solves on such sets.
AnyOf(T) == CHOOSE x \in T : TRUE
UpTo(S, n) == {T \in SUBSET S : Cardinality(T) <= n}
SumsOver(h, f, U) == h = [T \in U |-> IF T = {} THEN 0 ELSE f[AnyOf(T)] + h[T \ {AnyOf(T)}]]

LEMMA AnyOfIn ==
  ASSUME NEW T, T # {} PROVE AnyOf(T) \in T
BY DEF AnyOf

LEMMA SmallLess ==
  ASSUME NEW S, IsFiniteSet(S), NEW n \in Nat, NEW T \in UpTo(S, n + 1), T # {}
  PROVE  T \ {AnyOf(T)} \in UpTo(S, n)
<1>1. T \in SUBSET S /\ IsFiniteSet(T) /\ Cardinality(T) <= n + 1
  BY FS_Subset DEF UpTo
<1>2. AnyOf(T) \in T
  BY AnyOfIn
<1>3. Cardinality(T \ {AnyOf(T)}) = Cardinality(T) - 1 /\ Cardinality(T) \in Nat
  BY <1>1, <1>2, FS_RemoveElement, FS_CardinalityType
<1> QED BY <1>1, <1>3 DEF UpTo

LEMMA SumsUpTo ==
  ASSUME NEW S, IsFiniteSet(S), NEW f
  PROVE  \A n \in Nat : \E h : SumsOver(h, f, UpTo(S, n))
<1> DEFINE G == {n \in Nat : \E h : SumsOver(h, f, UpTo(S, n))}
<1>1. 0 \in G
  <2>1. \A T \in UpTo(S, 0) : T = {}
    <3> SUFFICES ASSUME NEW T \in UpTo(S, 0) PROVE T = {}
      OBVIOUS
    <3>1. T \in SUBSET S /\ IsFiniteSet(T) /\ Cardinality(T) <= 0
      BY FS_Subset DEF UpTo
    <3>2. Cardinality(T) = 0
      BY <3>1, FS_CardinalityType
    <3> QED BY <3>1, <3>2, FS_EmptySet
  <2> DEFINE h == [T \in UpTo(S, 0) |-> 0]
  <2>2. h = [T \in UpTo(S, 0) |-> IF T = {} THEN 0 ELSE f[AnyOf(T)] + h[T \ {AnyOf(T)}]]
    BY <2>1
  <2>3. SumsOver(h, f, UpTo(S, 0))
    BY <2>2 DEF SumsOver
  <2> QED BY <2>3
<1>2. ASSUME NEW n \in Nat, n \in G PROVE n + 1 \in G
  <2>1. PICK g : SumsOver(g, f, UpTo(S, n))
    BY <1>2
  <2> DEFINE h == [T \in UpTo(S, n + 1) |-> IF T = {} THEN 0 ELSE f[AnyOf(T)] + g[T \ {AnyOf(T)}]]
  <2>2. \A T \in UpTo(S, n) : T \in UpTo(S, n + 1)
    <3> SUFFICES ASSUME NEW T \in UpTo(S, n) PROVE T \in UpTo(S, n + 1)
      OBVIOUS
    <3>1. T \in SUBSET S /\ IsFiniteSet(T) /\ Cardinality(T) <= n
      BY FS_Subset DEF UpTo
    <3>2. Cardinality(T) \in Nat
      BY <3>1, FS_CardinalityType
    <3> QED BY <3>1, <3>2 DEF UpTo
  <2>3. \A T \in UpTo(S, n) : h[T] = g[T]
    <3> SUFFICES ASSUME NEW T \in UpTo(S, n) PROVE h[T] = g[T]
      OBVIOUS
    <3>1. h[T] = IF T = {} THEN 0 ELSE f[AnyOf(T)] + g[T \ {AnyOf(T)}]
      BY <2>2
    <3>2. g[T] = IF T = {} THEN 0 ELSE f[AnyOf(T)] + g[T \ {AnyOf(T)}]
      BY <2>1 DEF SumsOver
    <3> QED BY <3>1, <3>2
  <2>4. \A T \in UpTo(S, n + 1) : T # {} => g[T \ {AnyOf(T)}] = h[T \ {AnyOf(T)}]
    BY <2>3, SmallLess
  <2>5. h = [T \in UpTo(S, n + 1) |-> IF T = {} THEN 0 ELSE f[AnyOf(T)] + h[T \ {AnyOf(T)}]]
    BY <2>4
  <2>6. SumsOver(h, f, UpTo(S, n + 1))
    BY <2>5 DEF SumsOver
  <2> QED BY <2>6
<1>3. \A n \in Nat : n \in G
  <2> HIDE DEF G
  <2> QED BY <1>1, <1>2, UpFromZero
<1> QED BY <1>3

\* The recursive function that SumFunctionOnSet takes its value from exists.
LEMMA SumsExist ==
  ASSUME NEW S, IsFiniteSet(S), NEW f
  PROVE  \E h : SumsOver(h, f, SUBSET S)
<1>1. Cardinality(S) \in Nat
  BY FS_CardinalityType
<1>2. UpTo(S, Cardinality(S)) = SUBSET S
  BY FS_Subset DEF UpTo
<1>3. \E h : SumsOver(h, f, UpTo(S, Cardinality(S)))
  BY <1>1, SumsUpTo
<1> QED BY <1>2, <1>3

\* A smaller set's sums are those of the larger one.
LEMMA SumsAgree ==
  ASSUME NEW S, IsFiniteSet(S), NEW R \in SUBSET S, NEW f, NEW g, NEW h,
         SumsOver(g, f, SUBSET S), SumsOver(h, f, SUBSET R)
  PROVE  g[R] = h[R]
<1> DEFINE G == {n \in Nat : \A T \in SUBSET R : Cardinality(T) = n => g[T] = h[T]}
<1>0. IsFiniteSet(R) /\ \A T \in SUBSET R : IsFiniteSet(T) /\ T \in SUBSET S
  BY FS_Subset
<1>a. ASSUME NEW T \in SUBSET R
      PROVE  /\ g[T] = IF T = {} THEN 0 ELSE f[AnyOf(T)] + g[T \ {AnyOf(T)}]
             /\ h[T] = IF T = {} THEN 0 ELSE f[AnyOf(T)] + h[T \ {AnyOf(T)}]
  <2>1. T \in SUBSET S
    BY <1>0
  <2> QED BY <2>1 DEF SumsOver
<1>1. 0 \in G
  <2> SUFFICES ASSUME NEW T \in SUBSET R, Cardinality(T) = 0 PROVE g[T] = h[T]
    OBVIOUS
  <2>1. T = {}
    BY <1>0, FS_EmptySet
  <2> QED BY <2>1, <1>a
<1>2. ASSUME NEW n \in Nat, n \in G PROVE n + 1 \in G
  <2> SUFFICES ASSUME NEW T \in SUBSET R, Cardinality(T) = n + 1 PROVE g[T] = h[T]
    OBVIOUS
  <2>1. T # {}
    <3>1. Cardinality({}) = 0 /\ n + 1 # 0
      BY FS_EmptySet
    <3> QED BY <3>1
  <2>2. AnyOf(T) \in T
    BY <2>1, AnyOfIn
  <2>3. T \ {AnyOf(T)} \in SUBSET R /\ Cardinality(T \ {AnyOf(T)}) = n
    <3>1. Cardinality(T \ {AnyOf(T)}) = Cardinality(T) - 1
      BY <1>0, <2>2, FS_RemoveElement
    <3> QED BY <3>1
  <2>4. g[T \ {AnyOf(T)}] = h[T \ {AnyOf(T)}]
    BY <1>2, <2>3
  <2> QED BY <1>a, <2>1, <2>4
<1>3. \A n \in Nat : n \in G
  <2> HIDE DEF G
  <2> QED BY <1>1, <1>2, UpFromZero
<1>4. Cardinality(R) \in Nat /\ R \in SUBSET R
  BY <1>0, FS_CardinalityType
<1> QED BY <1>3, <1>4

LEMMA SumIs ==
  ASSUME NEW S, IsFiniteSet(S), NEW f
  PROVE  \E h : SumsOver(h, f, SUBSET S) /\ SumFunctionOnSet(f, S) = h[S]
<1> DEFINE c == CHOOSE h : SumsOver(h, f, SUBSET S)
<1>1. SumFunctionOnSet(f, S) = c[S]
  BY DEF SumFunctionOnSet, FoldFunctionOnSet, MapThenFoldSet, SumsOver, AnyOf
<1>2. SumsOver(c, f, SUBSET S)
  BY SumsExist
<1> QED BY <1>1, <1>2

\* The sum takes out one member, the one that the library chooses.
LEMMA SumStep ==
  ASSUME NEW S, IsFiniteSet(S), NEW f
  PROVE  SumFunctionOnSet(f, S) =
           IF S = {} THEN 0 ELSE f[AnyOf(S)] + SumFunctionOnSet(f, S \ {AnyOf(S)})
<1>1. PICK g : SumsOver(g, f, SUBSET S) /\ SumFunctionOnSet(f, S) = g[S]
  BY SumIs
<1>2. g[S] = IF S = {} THEN 0 ELSE f[AnyOf(S)] + g[S \ {AnyOf(S)}]
  BY <1>1 DEF SumsOver
<1>3. IsFiniteSet(S \ {AnyOf(S)}) /\ S \ {AnyOf(S)} \in SUBSET S
  BY FS_Subset
<1>4. PICK h : /\ SumsOver(h, f, SUBSET (S \ {AnyOf(S)}))
               /\ SumFunctionOnSet(f, S \ {AnyOf(S)}) = h[S \ {AnyOf(S)}]
  BY <1>3, SumIs
<1>5. g[S \ {AnyOf(S)}] = h[S \ {AnyOf(S)}]
  BY <1>1, <1>3, <1>4, SumsAgree
<1> QED BY <1>1, <1>2, <1>4, <1>5

-----------------------------------------------------------------------------
LEMMA SumEmpty ==
  ASSUME NEW f PROVE SumFunctionOnSet(f, {}) = 0
BY FS_EmptySet, SumStep

LEMMA SumInt ==
  ASSUME NEW S, IsFiniteSet(S), NEW f, \A x \in S : f[x] \in Int
  PROVE  SumFunctionOnSet(f, S) \in Int
<1> DEFINE G == {T \in SUBSET S : SumFunctionOnSet(f, T) \in Int}
           H == {n \in Nat : \A T \in SUBSET S : Cardinality(T) = n => T \in G}
<1>1. 0 \in H
  <2> SUFFICES ASSUME NEW T \in SUBSET S, Cardinality(T) = 0
               PROVE  SumFunctionOnSet(f, T) \in Int
    OBVIOUS
  <2>1. T = {}
    BY FS_Subset, FS_EmptySet
  <2> QED BY <2>1, SumEmpty
<1>2. ASSUME NEW n \in Nat, n \in H PROVE n + 1 \in H
  <2> SUFFICES ASSUME NEW T \in SUBSET S, Cardinality(T) = n + 1
               PROVE  SumFunctionOnSet(f, T) \in Int
    OBVIOUS
  <2>1. IsFiniteSet(T) /\ T # {}
    <3>1. Cardinality({}) = 0 /\ n + 1 # 0
      BY FS_EmptySet
    <3> QED BY <3>1, FS_Subset
  <2>2. AnyOf(T) \in T
    BY <2>1, AnyOfIn
  <2>3. T \ {AnyOf(T)} \in SUBSET S /\ Cardinality(T \ {AnyOf(T)}) = n
    <3>1. Cardinality(T \ {AnyOf(T)}) = Cardinality(T) - 1
      BY <2>1, <2>2, FS_RemoveElement
    <3> QED BY <3>1
  <2>4. SumFunctionOnSet(f, T \ {AnyOf(T)}) \in Int
    BY <1>2, <2>3
  <2>5. SumFunctionOnSet(f, T) = f[AnyOf(T)] + SumFunctionOnSet(f, T \ {AnyOf(T)})
    BY <2>1, SumStep
  <2>6. f[AnyOf(T)] \in Int
    BY <2>2
  <2> QED BY <2>4, <2>5, <2>6
<1>3. \A n \in Nat : n \in H
  <2> HIDE DEF H
  <2> QED BY <1>1, <1>2, UpFromZero
<1>4. Cardinality(S) \in Nat /\ S \in SUBSET S
  BY FS_CardinalityType
<1> QED BY <1>3, <1>4

\* Any member of the set may be taken out first.
LEMMA SumRemove ==
  ASSUME NEW S, IsFiniteSet(S), NEW f, \A y \in S : f[y] \in Int, NEW x \in S
  PROVE  SumFunctionOnSet(f, S) = f[x] + SumFunctionOnSet(f, S \ {x})
<1> DEFINE Out(T) == \A y \in T : SumFunctionOnSet(f, T) = f[y] + SumFunctionOnSet(f, T \ {y})
           H == {n \in Nat : \A T \in SUBSET S : Cardinality(T) = n => Out(T)}
<1>0. ASSUME NEW T \in SUBSET S
      PROVE  IsFiniteSet(T) /\ SumFunctionOnSet(f, T) \in Int
  <2>1. IsFiniteSet(T) /\ \A y \in T : f[y] \in Int
    BY FS_Subset
  <2> QED BY <2>1, SumInt
<1>1. 0 \in H
  <2> SUFFICES ASSUME NEW T \in SUBSET S, Cardinality(T) = 0 PROVE Out(T)
    OBVIOUS
  <2>1. T = {}
    BY FS_Subset, FS_EmptySet
  <2> QED BY <2>1
<1>2. ASSUME NEW n \in Nat, n \in H PROVE n + 1 \in H
  <2> SUFFICES ASSUME NEW T \in SUBSET S, Cardinality(T) = n + 1, NEW y \in T
               PROVE  SumFunctionOnSet(f, T) = f[y] + SumFunctionOnSet(f, T \ {y})
    OBVIOUS
  <2> DEFINE z == AnyOf(T)
  <2>1. IsFiniteSet(T) /\ z \in T
    BY FS_Subset, AnyOfIn
  <2>2. SumFunctionOnSet(f, T) = f[z] + SumFunctionOnSet(f, T \ {z})
    BY <2>1, SumStep
  <2> HIDE DEF z
  <2>3. CASE y = z
    BY <2>2, <2>3
  <2>4. CASE y # z
    <3> DEFINE R == (T \ {z}) \ {y}
    <3>1. /\ T \ {z} \in SUBSET S /\ Cardinality(T \ {z}) = n /\ y \in T \ {z}
          /\ T \ {y} \in SUBSET S /\ Cardinality(T \ {y}) = n /\ z \in T \ {y}
      <4>1. Cardinality(T \ {z}) = Cardinality(T) - 1 /\ Cardinality(T \ {y}) = Cardinality(T) - 1
        BY <2>1, FS_RemoveElement
      <4> QED BY <2>1, <2>4, <4>1
    <3>2. SumFunctionOnSet(f, T \ {z}) = f[y] + SumFunctionOnSet(f, R)
      BY <1>2, <3>1
    <3>3. SumFunctionOnSet(f, T \ {y}) = f[z] + SumFunctionOnSet(f, (T \ {y}) \ {z})
      BY <1>2, <3>1
    <3>4. (T \ {y}) \ {z} = R /\ R \in SUBSET S
      OBVIOUS
    <3>5. SumFunctionOnSet(f, R) \in Int /\ f[y] \in Int /\ f[z] \in Int
      BY <1>0, <2>1, <3>4
    <3>6. SumFunctionOnSet(f, T \ {y}) = f[z] + SumFunctionOnSet(f, R)
      BY <3>3, <3>4
    <3> HIDE DEF R
    <3> DEFINE r == SumFunctionOnSet(f, R)
               u == SumFunctionOnSet(f, T \ {y})
    <3>7. SumFunctionOnSet(f, T) = f[z] + (f[y] + r) /\ u = f[z] + r /\ r \in Int
      BY <2>2, <3>2, <3>5, <3>6
    <3> HIDE DEF r, u
    <3>8. SumFunctionOnSet(f, T) = f[y] + u
      BY <3>5, <3>7
    <3> QED BY <3>8 DEF u
  <2> QED BY <2>3, <2>4
<1>3. \A n \in Nat : n \in H
  <2> HIDE DEF H
  <2> QED BY <1>1, <1>2, UpFromZero
<1>4. Cardinality(S) \in Nat /\ S \in SUBSET S
  BY FS_CardinalityType
<1> QED BY <1>3, <1>4

LEMMA SumAdd ==
  ASSUME NEW S, IsFiniteSet(S), NEW x, x \notin S, NEW f,
         \A y \in S \cup {x} : f[y] \in Int
  PROVE  SumFunctionOnSet(f, S \cup {x}) = f[x] + SumFunctionOnSet(f, S)
<1>1. IsFiniteSet(S \cup {x}) /\ x \in S \cup {x}
  BY FS_AddElement
<1>2. (S \cup {x}) \ {x} = S
  OBVIOUS
<1>3. SumFunctionOnSet(f, S \cup {x}) = f[x] + SumFunctionOnSet(f, (S \cup {x}) \ {x})
  BY <1>1, SumRemove
<1> QED BY <1>2, <1>3

\* Functions that agree on the set have the same sum over it.
LEMMA SumSame ==
  ASSUME NEW S, IsFiniteSet(S), NEW f, NEW g, \A x \in S : f[x] = g[x] /\ f[x] \in Int
  PROVE  SumFunctionOnSet(f, S) = SumFunctionOnSet(g, S)
<1> DEFINE G == {T \in SUBSET S : SumFunctionOnSet(f, T) = SumFunctionOnSet(g, T)}
<1>1. {} \in G
  BY SumEmpty
<1>2. ASSUME NEW T \in SUBSET S, NEW x \in S \ T, T \in G PROVE T \cup {x} \in G
  <2>1. /\ IsFiniteSet(T) /\ x \notin T
        /\ \A y \in T \cup {x} : f[y] \in Int /\ g[y] \in Int
    BY FS_Subset
  <2>2. SumFunctionOnSet(f, T \cup {x}) = f[x] + SumFunctionOnSet(f, T)
    BY <2>1, SumAdd
  <2>3. SumFunctionOnSet(g, T \cup {x}) = g[x] + SumFunctionOnSet(g, T)
    BY <2>1, SumAdd
  <2> QED BY <1>2, <2>2, <2>3
<1>3. S \in G
  <2> HIDE DEF G
  <2> QED BY <1>1, <1>2, UpFromEmpty
<1> QED BY <1>3

\* The sum of a pointwise sum.
LEMMA SumPlus ==
  ASSUME NEW S, IsFiniteSet(S), NEW f, NEW g, NEW h,
         \A x \in S : f[x] \in Int /\ g[x] \in Int /\ h[x] = f[x] + g[x]
  PROVE  SumFunctionOnSet(h, S) = SumFunctionOnSet(f, S) + SumFunctionOnSet(g, S)
<1> DEFINE G == {T \in SUBSET S :
                   SumFunctionOnSet(h, T) = SumFunctionOnSet(f, T) + SumFunctionOnSet(g, T)}
<1>1. {} \in G
  BY SumEmpty
<1>2. ASSUME NEW T \in SUBSET S, NEW x \in S \ T, T \in G PROVE T \cup {x} \in G
  <2>1. /\ IsFiniteSet(T) /\ x \notin T
        /\ \A y \in T \cup {x} : f[y] \in Int /\ g[y] \in Int /\ h[y] \in Int
    BY FS_Subset
  <2>2. SumFunctionOnSet(f, T \cup {x}) = f[x] + SumFunctionOnSet(f, T)
    BY <2>1, SumAdd
  <2>3. SumFunctionOnSet(g, T \cup {x}) = g[x] + SumFunctionOnSet(g, T)
    BY <2>1, SumAdd
  <2>4. SumFunctionOnSet(h, T \cup {x}) = h[x] + SumFunctionOnSet(h, T)
    BY <2>1, SumAdd
  <2>5. SumFunctionOnSet(f, T) \in Int /\ SumFunctionOnSet(g, T) \in Int
    BY <2>1, SumInt
  <2>6. h[x] = f[x] + g[x] /\ f[x] \in Int /\ g[x] \in Int
    BY <2>1
  <2> QED BY <1>2, <2>2, <2>3, <2>4, <2>5, <2>6
<1>3. S \in G
  <2> HIDE DEF G
  <2> QED BY <1>1, <1>2, UpFromEmpty
<1> QED BY <1>3

LEMMA SumNat ==
  ASSUME NEW S, IsFiniteSet(S), NEW f, \A x \in S : f[x] \in Nat
  PROVE  /\ SumFunctionOnSet(f, S) \in Nat
         /\ \A x \in S : f[x] <= SumFunctionOnSet(f, S)
<1> DEFINE G == {T \in SUBSET S : SumFunctionOnSet(f, T) \in Nat}
<1>1. {} \in G
  BY SumEmpty
<1>2. ASSUME NEW T \in SUBSET S, NEW x \in S \ T, T \in G PROVE T \cup {x} \in G
  <2>1. /\ IsFiniteSet(T) /\ x \notin T
        /\ \A y \in T \cup {x} : f[y] \in Int
    BY FS_Subset
  <2>2. SumFunctionOnSet(f, T \cup {x}) = f[x] + SumFunctionOnSet(f, T)
    BY <2>1, SumAdd
  <2> QED BY <1>2, <2>2
<1>3. ASSUME NEW R \in SUBSET S PROVE SumFunctionOnSet(f, R) \in Nat
  <2>1. IsFiniteSet(R)
    BY FS_Subset
  <2>2. ASSUME NEW T \in SUBSET R, NEW x \in R \ T, T \in G PROVE T \cup {x} \in G
    BY <1>2, <2>2
  <2>3. R \in G
    <3> HIDE DEF G
    <3> QED BY <1>1, <2>1, <2>2, UpFromEmpty
  <2> QED BY <2>3
<1>4. ASSUME NEW x \in S PROVE f[x] <= SumFunctionOnSet(f, S)
  <2>1. SumFunctionOnSet(f, S) = f[x] + SumFunctionOnSet(f, S \ {x})
    <3>1. \A y \in S : f[y] \in Int
      OBVIOUS
    <3> QED BY <3>1, SumRemove
  <2>2. SumFunctionOnSet(f, S \ {x}) \in Nat /\ f[x] \in Nat
    BY <1>3
  <2> QED BY <2>1, <2>2
<1> QED BY <1>3, <1>4

\* A sum is no more than another whose terms are no less.
LEMMA SumLess ==
  ASSUME NEW S, IsFiniteSet(S), NEW f, NEW g,
         \A x \in S : f[x] \in Int /\ g[x] \in Int /\ f[x] <= g[x]
  PROVE  SumFunctionOnSet(f, S) <= SumFunctionOnSet(g, S)
<1> DEFINE d == [x \in S |-> g[x] - f[x]]
<1>1. \A x \in S : d[x] \in Nat /\ f[x] \in Int /\ d[x] \in Int /\ g[x] = f[x] + d[x]
  OBVIOUS
<1> HIDE DEF d
<1>2. SumFunctionOnSet(g, S) = SumFunctionOnSet(f, S) + SumFunctionOnSet(d, S)
  BY <1>1, SumPlus
<1>3. SumFunctionOnSet(d, S) \in Nat /\ SumFunctionOnSet(f, S) \in Int
  BY <1>1, SumNat, SumInt
<1> QED BY <1>2, <1>3

LEMMA SumZero ==
  ASSUME NEW S, IsFiniteSet(S), NEW f, \A x \in S : f[x] = 0
  PROVE  SumFunctionOnSet(f, S) = 0
<1>1. \A x \in S : f[x] \in Int /\ f[x] = f[x] + f[x]
  OBVIOUS
<1>2. SumFunctionOnSet(f, S) = SumFunctionOnSet(f, S) + SumFunctionOnSet(f, S)
  BY <1>1, SumPlus
<1>3. SumFunctionOnSet(f, S) \in Int
  BY <1>1, SumInt
<1> DEFINE s == SumFunctionOnSet(f, S)
<1>4. s = s + s /\ s \in Int
  BY <1>2, <1>3
<1> HIDE DEF s
<1>5. s = 0
  BY <1>4
<1> QED BY <1>5 DEF s

\* One term changes.
LEMMA SumOne ==
  ASSUME NEW S, IsFiniteSet(S), NEW f, NEW g, NEW a \in S,
         \A x \in S : f[x] \in Int /\ g[x] \in Int /\ (x # a => g[x] = f[x])
  PROVE  SumFunctionOnSet(g, S) = SumFunctionOnSet(f, S) - f[a] + g[a]
<1>1. SumFunctionOnSet(f, S) = f[a] + SumFunctionOnSet(f, S \ {a})
  BY SumRemove
<1>2. SumFunctionOnSet(g, S) = g[a] + SumFunctionOnSet(g, S \ {a})
  BY SumRemove
<1>3. IsFiniteSet(S \ {a}) /\ \A x \in S \ {a} : g[x] = f[x] /\ g[x] \in Int /\ f[x] \in Int
  BY FS_Subset
<1>4. SumFunctionOnSet(g, S \ {a}) = SumFunctionOnSet(f, S \ {a})
  BY <1>3, SumSame
<1>5. SumFunctionOnSet(f, S \ {a}) \in Int /\ f[a] \in Int /\ g[a] \in Int
  BY <1>3, SumInt
<1> QED BY <1>1, <1>2, <1>4, <1>5

\* Terms that are zero may be left out.
LEMMA SumPart ==
  ASSUME NEW S, IsFiniteSet(S), NEW R \in SUBSET S, NEW f, NEW g,
         \A x \in R : f[x] \in Int /\ g[x] = f[x], \A x \in S \ R : g[x] = 0
  PROVE  SumFunctionOnSet(g, S) = SumFunctionOnSet(f, R)
<1> DEFINE G == {T \in SUBSET S : SumFunctionOnSet(g, T) = SumFunctionOnSet(f, T \cap R)}
<1>1. {} \in G
  BY SumEmpty
<1>2. ASSUME NEW T \in SUBSET S, NEW x \in S \ T, T \in G PROVE T \cup {x} \in G
  <2>1. /\ IsFiniteSet(T) /\ IsFiniteSet(T \cap R) /\ x \notin T
        /\ \A y \in T \cup {x} : g[y] \in Int
    BY FS_Subset
  <2>2. SumFunctionOnSet(g, T \cup {x}) = g[x] + SumFunctionOnSet(g, T)
    BY <2>1, SumAdd
  <2>3. SumFunctionOnSet(g, T) \in Int
    BY <2>1, SumInt
  <2>4. CASE x \in R
    <3>1. \A y \in (T \cap R) \cup {x} : f[y] \in Int
      BY <2>4
    <3>2. SumFunctionOnSet(f, (T \cap R) \cup {x}) = f[x] + SumFunctionOnSet(f, T \cap R)
      BY <2>1, <3>1, SumAdd
    <3>3. (T \cup {x}) \cap R = (T \cap R) \cup {x}
      BY <2>4
    <3> QED BY <1>2, <2>2, <2>4, <3>2, <3>3
  <2>5. CASE x \notin R
    <3>1. (T \cup {x}) \cap R = T \cap R /\ g[x] = 0
      BY <2>5
    <3> QED BY <1>2, <2>2, <2>3, <3>1
  <2> QED BY <2>4, <2>5
<1>3. S \in G
  <2> HIDE DEF G
  <2> QED BY <1>1, <1>2, UpFromEmpty
<1>4. S \cap R = R
  OBVIOUS
<1> QED BY <1>3, <1>4

-----------------------------------------------------------------------------
\* A recursion over the subsets of S that takes one member at a time has a solution, and
\* all its values are of V when the first is and every step keeps to V.
Taken(h, U, base, step, pick) ==
    h = [T \in U |-> IF T = {} THEN base ELSE step[pick[T], h[T \ {pick[T]}]]]

Picks(pick, S) == \A T \in SUBSET S : T # {} => pick[T] \in T
Keeps(h, S, V, pick) ==
    h[{}] \in V /\ \A T \in SUBSET S : T # {} /\ h[T \ {pick[T]}] \in V => h[T] \in V

LEMMA FoldUpTo ==
  ASSUME NEW S, IsFiniteSet(S), NEW V, NEW base \in V, NEW pick, NEW step \in [S \X V -> V],
         Picks(pick, S)
  PROVE  \A n \in Nat : \E h \in [UpTo(S, n) -> V] : Taken(h, UpTo(S, n), base, step, pick)
<1> DEFINE G == {n \in Nat : \E h \in [UpTo(S, n) -> V] :
                                Taken(h, UpTo(S, n), base, step, pick)}
<1>0. ASSUME NEW n \in Nat, NEW T \in UpTo(S, n)
      PROVE  T \in SUBSET S /\ IsFiniteSet(T) /\ Cardinality(T) \in Nat /\ Cardinality(T) <= n
  BY FS_Subset, FS_CardinalityType DEF UpTo
<1>1. 0 \in G
  <2>1. \A T \in UpTo(S, 0) : T = {}
    <3> SUFFICES ASSUME NEW T \in UpTo(S, 0) PROVE T = {}
      OBVIOUS
    <3>1. IsFiniteSet(T) /\ Cardinality(T) = 0
      BY <1>0
    <3> QED BY <3>1, FS_EmptySet
  <2> DEFINE h == [T \in UpTo(S, 0) |-> base]
  <2>2. h \in [UpTo(S, 0) -> V] /\ Taken(h, UpTo(S, 0), base, step, pick)
    BY <2>1 DEF Taken
  <2> QED BY <2>2
<1>2. ASSUME NEW n \in Nat, n \in G PROVE n + 1 \in G
  <2>1. PICK g \in [UpTo(S, n) -> V] : Taken(g, UpTo(S, n), base, step, pick)
    BY <1>2
  <2> DEFINE h == [T \in UpTo(S, n + 1) |->
                     IF T = {} THEN base ELSE step[pick[T], g[T \ {pick[T]}]]]
  <2>2. \A T \in UpTo(S, n) : T \in UpTo(S, n + 1)
    <3> SUFFICES ASSUME NEW T \in UpTo(S, n) PROVE T \in UpTo(S, n + 1)
      OBVIOUS
    <3>1. T \in SUBSET S /\ Cardinality(T) \in Nat /\ Cardinality(T) <= n
      BY <1>0
    <3> QED BY <3>1 DEF UpTo
  <2>3. \A T \in UpTo(S, n) : h[T] = g[T]
    <3> SUFFICES ASSUME NEW T \in UpTo(S, n) PROVE h[T] = g[T]
      OBVIOUS
    <3>1. h[T] = IF T = {} THEN base ELSE step[pick[T], g[T \ {pick[T]}]]
      BY <2>2
    <3>2. g[T] = IF T = {} THEN base ELSE step[pick[T], g[T \ {pick[T]}]]
      <4> HIDE DEF h
      <4> QED BY <2>1 DEF Taken
    <3> QED BY <3>1, <3>2
  <2>4. \A T \in UpTo(S, n + 1) : T # {} => pick[T] \in S /\ T \ {pick[T]} \in UpTo(S, n)
    <3> SUFFICES ASSUME NEW T \in UpTo(S, n + 1), T # {}
                 PROVE  pick[T] \in S /\ T \ {pick[T]} \in UpTo(S, n)
      OBVIOUS
    <3>1. T \in SUBSET S /\ IsFiniteSet(T) /\ Cardinality(T) \in Nat /\ Cardinality(T) <= n + 1
      BY <1>0
    <3>2. pick[T] \in T
      BY <3>1 DEF Picks
    <3>3. Cardinality(T \ {pick[T]}) = Cardinality(T) - 1
      BY <3>1, <3>2, FS_RemoveElement
    <3> QED BY <3>1, <3>2, <3>3 DEF UpTo
  <2>5. h \in [UpTo(S, n + 1) -> V]
    BY <2>1, <2>4
  <2>6. \A T \in UpTo(S, n + 1) : T # {} => g[T \ {pick[T]}] = h[T \ {pick[T]}]
    BY <2>3, <2>4
  <2>7. Taken(h, UpTo(S, n + 1), base, step, pick)
    BY <2>6 DEF Taken
  <2> HIDE DEF h
  <2> QED BY <2>5, <2>7
<1>3. \A n \in Nat : n \in G
  <2> HIDE DEF G
  <2> QED BY <1>1, <1>2, UpFromZero
<1> QED BY <1>3

\* The recursive function that FoldFunctionOnSet takes its value from exists.
LEMMA FoldExists ==
  ASSUME NEW S, IsFiniteSet(S), NEW V, NEW base \in V, NEW pick, NEW step \in [S \X V -> V],
         Picks(pick, S)
  PROVE  \E h \in [SUBSET S -> V] : Taken(h, SUBSET S, base, step, pick)
<1>1. Cardinality(S) \in Nat
  BY FS_CardinalityType
<1>2. UpTo(S, Cardinality(S)) = SUBSET S
  BY FS_Subset DEF UpTo
<1>3. \E h \in [UpTo(S, Cardinality(S)) -> V] :
        Taken(h, UpTo(S, Cardinality(S)), base, step, pick)
  BY <1>1, FoldUpTo
<1> QED BY <1>2, <1>3

\* A fold stays in every set that holds its base and is closed under its step.
LEMMA FoldStays ==
  ASSUME NEW S, IsFiniteSet(S), NEW V, NEW pick, NEW h,
         Picks(pick, S), Keeps(h, S, V, pick)
  PROVE  h[S] \in V
<1> DEFINE G == {n \in Nat : \A T \in SUBSET S : Cardinality(T) = n => h[T] \in V}
<1>1. 0 \in G
  <2> SUFFICES ASSUME NEW T \in SUBSET S, Cardinality(T) = 0 PROVE h[T] \in V
    OBVIOUS
  <2>1. T = {}
    BY FS_Subset, FS_EmptySet
  <2> QED BY <2>1 DEF Keeps
<1>2. ASSUME NEW n \in Nat, n \in G PROVE n + 1 \in G
  <2> SUFFICES ASSUME NEW T \in SUBSET S, Cardinality(T) = n + 1 PROVE h[T] \in V
    OBVIOUS
  <2>1. T # {}
    <3>1. Cardinality({}) = 0 /\ n + 1 # 0
      BY FS_EmptySet
    <3> QED BY <3>1
  <2>2. IsFiniteSet(T) /\ pick[T] \in T
    BY <2>1, FS_Subset DEF Picks
  <2>3. T \ {pick[T]} \in SUBSET S /\ Cardinality(T \ {pick[T]}) = n
    <3>1. Cardinality(T \ {pick[T]}) = Cardinality(T) - 1
      BY <2>2, FS_RemoveElement
    <3> QED BY <3>1
  <2>4. h[T \ {pick[T]}] \in V
    BY <1>2, <2>3
  <2> QED BY <2>1, <2>4 DEF Keeps
<1>3. \A n \in Nat : n \in G
  <2> HIDE DEF G
  <2> QED BY <1>1, <1>2, UpFromZero
<1>4. Cardinality(S) \in Nat /\ S \in SUBSET S
  BY FS_CardinalityType
<1> QED BY <1>3, <1>4

\* A finite set of numbers that is not empty has a largest one.
LEMMA Largest ==
  ASSUME NEW S, IsFiniteSet(S), S \subseteq Int, S # {}
  PROVE  \E x \in S : \A y \in S : x >= y
<1> DEFINE G == {T \in SUBSET S : T = {} \/ \E x \in T : \A y \in T : x >= y}
<1>1. {} \in G
  OBVIOUS
<1>2. ASSUME NEW T \in SUBSET S, NEW x \in S \ T, T \in G PROVE T \cup {x} \in G
  <2>1. CASE T = {}
    <3>1. x >= x
      OBVIOUS
    <3> QED BY <2>1, <3>1
  <2>2. CASE T # {}
    <3>1. PICK z \in T : \A y \in T : z >= y
      BY <1>2, <2>2
    <3>2. \A y \in T \cup {x} : y \in Int
      OBVIOUS
    <3>3. CASE z >= x
      BY <3>1, <3>3
    <3>4. CASE ~(z >= x)
      <4>1. \A y \in T : x >= y
        BY <3>1, <3>2, <3>4
      <4>2. x >= x
        BY <3>2
      <4> QED BY <4>1, <4>2
    <3> QED BY <3>3, <3>4
  <2> QED BY <2>1, <2>2
<1>3. S \in G
  <2> HIDE DEF G
  <2> QED BY <1>1, <1>2, UpFromEmpty
<1> QED BY <1>3
-----------------------------------------------------------------------------
\* The members of S that key takes to k.
Among(S, key, k) == {x \in S : key[x] = k}

LEMMA AmongAdd ==
  ASSUME NEW S, NEW T \in SUBSET S, NEW x \in S \ T, NEW key, NEW k
  PROVE  /\ key[x] = k => Among(T \cup {x}, key, k) = Among(T, key, k) \cup {x}
         /\ key[x] # k => Among(T \cup {x}, key, k) = Among(T, key, k)
         /\ x \notin Among(T, key, k) /\ Among(T, key, k) \subseteq T
BY DEF Among

Grouped(f, key, S, K) == \A x \in S : f[x] \in Int /\ (key[x] \in K \/ f[x] = 0)
GroupSums(g, f, key, S, K) == \A k \in K : g[k] = SumFunctionOnSet(f, Among(S, key, k))

\* A sum is the sum of the sums of its groups; what is in no group is zero.
LEMMA SumGroups ==
  ASSUME NEW S, IsFiniteSet(S), NEW K, IsFiniteSet(K), NEW key, NEW f, NEW g,
         Grouped(f, key, S, K), GroupSums(g, f, key, S, K)
  PROVE  SumFunctionOnSet(f, S) = SumFunctionOnSet(g, K)
<1> USE DEF Grouped, GroupSums
<1> DEFINE sums(T) == [k \in K |-> SumFunctionOnSet(f, Among(T, key, k))]
           G == {T \in SUBSET S : SumFunctionOnSet(f, T) = SumFunctionOnSet(sums(T), K)}
<1>0. ASSUME NEW T \in SUBSET S, NEW k
      PROVE  /\ IsFiniteSet(T) /\ IsFiniteSet(Among(T, key, k))
             /\ \A x \in Among(T, key, k) : f[x] \in Int
             /\ SumFunctionOnSet(f, Among(T, key, k)) \in Int
  <2>1. IsFiniteSet(T)
    BY FS_Subset
  <2>2. IsFiniteSet(Among(T, key, k)) /\ \A x \in Among(T, key, k) : f[x] \in Int
    BY <2>1, FS_Subset DEF Among
  <2> QED BY <2>1, <2>2, SumInt
<1>1. {} \in G
  <2> DEFINE h == sums({})
  <2>1. \A k \in K : h[k] = 0
    <3>1. \A k \in K : Among({}, key, k) = {}
      BY DEF Among
    <3> QED BY <3>1, SumEmpty
  <2> HIDE DEF h
  <2>2. SumFunctionOnSet(h, K) = 0
    BY <2>1, SumZero
  <2>3. SumFunctionOnSet(sums({}), K) = 0
    BY <2>2 DEF h
  <2> HIDE DEF sums
  <2> QED BY <2>3, SumEmpty
<1>2. ASSUME NEW T \in SUBSET S, NEW x \in S \ T, T \in G PROVE T \cup {x} \in G
  <2> DEFINE U == T \cup {x}
             a == sums(T)
             b == sums(U)
  <2>1. /\ U \in SUBSET S /\ x \notin T /\ IsFiniteSet(T)
        /\ \A y \in T \cup {x} : f[y] \in Int
    BY <1>0
  <2>2. SumFunctionOnSet(f, U) = f[x] + SumFunctionOnSet(f, T)
    BY <2>1, SumAdd
  <2>3. ASSUME NEW k \in K
        PROVE  /\ a[k] \in Int /\ b[k] \in Int /\ b[k] = IF key[x] = k THEN f[x] + a[k] ELSE a[k]
    <3> DEFINE V == Among(T, key, k)
               W == Among(U, key, k)
    <3>1. a[k] = SumFunctionOnSet(f, V) /\ b[k] = SumFunctionOnSet(f, W)
      OBVIOUS
    <3>2. /\ key[x] = k => W = V \cup {x}
          /\ key[x] # k => W = V
          /\ x \notin V /\ V \subseteq T
      BY AmongAdd
    <3>3. /\ IsFiniteSet(V) /\ \A y \in V : f[y] \in Int
          /\ SumFunctionOnSet(f, V) \in Int
          /\ SumFunctionOnSet(f, W) \in Int
      BY <1>0, <2>1
    <3>4. f[x] \in Int
      BY <2>1
    <3> HIDE DEF V, W, a, b
    <3>5. SumFunctionOnSet(f, V \cup {x}) = f[x] + SumFunctionOnSet(f, V)
      BY <3>2, <3>3, <3>4, SumAdd
    <3> QED BY <3>1, <3>2, <3>3, <3>5
  <2>4. SumFunctionOnSet(f, T) = SumFunctionOnSet(a, K)
    BY <1>2
  <2> HIDE DEF a, b, U
  <2>5. SumFunctionOnSet(b, K) = f[x] + SumFunctionOnSet(a, K)
    <3>1. SumFunctionOnSet(a, K) \in Int /\ f[x] \in Int
      BY <2>1, <2>3, SumInt
    <3>2. CASE key[x] \in K
      <4> DEFINE m == key[x]
      <4>1. m \in K /\ \A k \in K : a[k] \in Int /\ b[k] \in Int /\ (k # m => b[k] = a[k])
        BY <2>3, <3>2
      <4>2. b[m] = f[x] + a[m] /\ a[m] \in Int
        BY <2>3, <3>2
      <4> HIDE DEF m
      <4>3. SumFunctionOnSet(b, K) = SumFunctionOnSet(a, K) - a[m] + b[m]
        BY <4>1, SumOne
      <4> QED BY <3>1, <4>2, <4>3
    <3>3. CASE key[x] \notin K
      <4>1. f[x] = 0 /\ \A k \in K : b[k] = a[k] /\ b[k] \in Int
        BY <2>3, <3>3
      <4>2. SumFunctionOnSet(b, K) = SumFunctionOnSet(a, K)
        BY <4>1, SumSame
      <4> QED BY <3>1, <4>1, <4>2
    <3> QED BY <3>2, <3>3
  <2>6. SumFunctionOnSet(f, U) = SumFunctionOnSet(b, K)
    BY <2>2, <2>4, <2>5
  <2> QED BY <2>1, <2>6 DEF U, b
<1>3. S \in G
  <2> HIDE DEF G
  <2> QED BY <1>1, <1>2, UpFromEmpty
<1>4. SumFunctionOnSet(f, S) = SumFunctionOnSet(sums(S), K)
  BY <1>3
<1>5. SumFunctionOnSet(sums(S), K) = SumFunctionOnSet(g, K)
  <2> DEFINE h == sums(S)
  <2>1. \A k \in K : h[k] = g[k] /\ h[k] \in Int
    BY <1>0
  <2> HIDE DEF h
  <2>2. SumFunctionOnSet(h, K) = SumFunctionOnSet(g, K)
    BY <2>1, SumSame
  <2> QED BY <2>2 DEF h
<1> QED BY <1>4, <1>5

\* The columns of m.
Column(m, S, k) == [x \in S |-> m[x][k]]
Numeric(m, S, K) == \A x \in S : \A k \in K : m[x][k] \in Int
RowSums(a, m, S, K) == \A x \in S : a[x] = SumFunctionOnSet(m[x], K)
ColumnSums(b, m, S, K) == \A k \in K : b[k] = SumFunctionOnSet(Column(m, S, k), S)

\* The rows of a table sum up to what its columns sum up to.
LEMMA SumSwap ==
  ASSUME NEW S, IsFiniteSet(S), NEW K, IsFiniteSet(K), NEW m, NEW a, NEW b,
         Numeric(m, S, K), RowSums(a, m, S, K), ColumnSums(b, m, S, K)
  PROVE  SumFunctionOnSet(a, S) = SumFunctionOnSet(b, K)
<1> USE DEF Numeric, RowSums, ColumnSums
<1> DEFINE sums(T) == [k \in K |-> SumFunctionOnSet(Column(m, S, k), T)]
           G == {T \in SUBSET S : SumFunctionOnSet(a, T) = SumFunctionOnSet(sums(T), K)}
<1>0. ASSUME NEW T \in SUBSET S, NEW k \in K
      PROVE  /\ IsFiniteSet(T) /\ \A x \in T : Column(m, S, k)[x] = m[x][k]
             /\ \A x \in T : Column(m, S, k)[x] \in Int
             /\ SumFunctionOnSet(Column(m, S, k), T) \in Int
  <2>1. IsFiniteSet(T)
    BY FS_Subset
  <2>2. \A x \in T : Column(m, S, k)[x] = m[x][k] /\ Column(m, S, k)[x] \in Int
    BY DEF Column
  <2> QED BY <2>1, <2>2, SumInt
<1>a. \A x \in S : a[x] \in Int
  BY SumInt
<1>1. {} \in G
  <2> DEFINE h == sums({})
  <2>1. \A k \in K : h[k] = 0
    BY SumEmpty
  <2> HIDE DEF h
  <2>2. SumFunctionOnSet(h, K) = 0
    BY <2>1, SumZero
  <2>3. SumFunctionOnSet(sums({}), K) = 0
    BY <2>2 DEF h
  <2> HIDE DEF sums
  <2> QED BY <2>3, SumEmpty
<1>2. ASSUME NEW T \in SUBSET S, NEW x \in S \ T, T \in G PROVE T \cup {x} \in G
  <2> DEFINE U == T \cup {x}
             c == sums(T)
             d == sums(U)
             e == m[x]
  <2>1. U \in SUBSET S /\ x \notin T /\ IsFiniteSet(T) /\ \A y \in T \cup {x} : a[y] \in Int
    BY <1>a, FS_Subset
  <2>2. SumFunctionOnSet(a, U) = a[x] + SumFunctionOnSet(a, T)
    BY <2>1, SumAdd
  <2>3. ASSUME NEW k \in K
        PROVE  /\ c[k] \in Int /\ e[k] \in Int /\ d[k] = e[k] + c[k]
    <3> DEFINE f == Column(m, S, k)
    <3>1. c[k] = SumFunctionOnSet(f, T) /\ d[k] = SumFunctionOnSet(f, U)
      OBVIOUS
    <3>2. SumFunctionOnSet(f, T) \in Int
      BY <1>0
    <3>3. \A y \in T \cup {x} : f[y] \in Int
      BY <1>0, <2>1
    <3>4. f[x] = e[k] /\ e[k] \in Int
      BY <1>0, <2>1
    <3> HIDE DEF f, c, d, e
    <3>5. SumFunctionOnSet(f, T \cup {x}) = f[x] + SumFunctionOnSet(f, T)
      BY <2>1, <3>3, SumAdd
    <3> QED BY <3>1, <3>2, <3>4, <3>5
  <2>4. SumFunctionOnSet(a, T) = SumFunctionOnSet(c, K) /\ a[x] = SumFunctionOnSet(e, K)
    BY <1>2
  <2> HIDE DEF c, d, e, U
  <2>5. SumFunctionOnSet(d, K) = SumFunctionOnSet(e, K) + SumFunctionOnSet(c, K)
    BY <2>3, SumPlus
  <2>6. SumFunctionOnSet(a, U) = SumFunctionOnSet(d, K)
    BY <2>2, <2>4, <2>5
  <2> QED BY <2>1, <2>6 DEF U, d
<1>3. S \in G
  <2> HIDE DEF G
  <2> QED BY <1>1, <1>2, UpFromEmpty
<1>4. SumFunctionOnSet(a, S) = SumFunctionOnSet(sums(S), K)
  BY <1>3
<1>5. SumFunctionOnSet(sums(S), K) = SumFunctionOnSet(b, K)
  <2> DEFINE h == sums(S)
  <2>1. \A k \in K : h[k] = b[k] /\ h[k] \in Int
    BY <1>0
  <2> HIDE DEF h
  <2>2. SumFunctionOnSet(h, K) = SumFunctionOnSet(b, K)
    BY <2>1, SumSame
  <2> QED BY <2>2 DEF h
<1> QED BY <1>4, <1>5

\* As many members as ones.
LEMMA SumOnes ==
  ASSUME NEW S, IsFiniteSet(S), NEW f, \A x \in S : f[x] = 1
  PROVE  SumFunctionOnSet(f, S) = Cardinality(S)
<1> DEFINE G == {T \in SUBSET S : SumFunctionOnSet(f, T) = Cardinality(T)}
<1>1. {} \in G
  BY SumEmpty, FS_EmptySet
<1>2. ASSUME NEW T \in SUBSET S, NEW x \in S \ T, T \in G PROVE T \cup {x} \in G
  <2>1. IsFiniteSet(T) /\ x \notin T /\ \A y \in T \cup {x} : f[y] \in Int
    BY FS_Subset
  <2>2. SumFunctionOnSet(f, T \cup {x}) = f[x] + SumFunctionOnSet(f, T)
    BY <2>1, SumAdd
  <2>3. Cardinality(T \cup {x}) = Cardinality(T) + 1 /\ Cardinality(T) \in Nat
    BY <2>1, FS_AddElement, FS_CardinalityType
  <2>4. f[x] = 1
    OBVIOUS
  <2> QED BY <1>2, <2>2, <2>3, <2>4
<1>3. S \in G
  <2> HIDE DEF G
  <2> QED BY <1>1, <1>2, UpFromEmpty
<1> QED BY <1>3
===============================================================================
