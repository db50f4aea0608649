--------------------------- MODULE ForceLedgerProofs ---------------------------
(***************************************************************************)
(* Proofs about ForceLedger: no operation on a force makes or loses a body, *)
(* and the documents of formations agree with those of force and cohorts.   *)
(* Sane is what every reducer keeps of a ledger, also where a later check   *)
(* refuses its result; Tallied is what validate_cohort_ledger demands of    *)
(* the personnel of a ledger that it accepts.  Both together account for    *)
(* all bodies: by cohort, by role, by formation and by name.  Validation    *)
(* does not compare a formation's document with its cohorts, so that they   *)
(* agree (Sure) is kept by the reducers: JInv says where, and what a        *)
(* reconstitution whose hours still pass owes to its document (Awaits).     *)
(***************************************************************************)
EXTENDS ForceLedger, CountingProofs

\* A cohort without a role is empty, and whoever is in a formation has a role.
Idle(c) == (\A l \in Places : c.res[l] = 0) /\ (\A f \in Formations : c.held[f] = 0)
Founded(C) == \A i \in Slots : C[i].role = None => Idle(C[i])
Enrolled(P) == \A p \in People : P[p].at \in Formations => P[p].role \in Roles

\* What the force lists has a document, and nothing was given to anything else.
Allotted(Y, G, D) == \A f \in Formations : IF f \in Y THEN D[f] # None ELSE G[f].n = 0
Souls(L) == L.pop + L.dead + L.head = Civilians + Total(Reserve)

Sane(L) ==
    /\ L \in Ledgers
    /\ Founded(L.cohort)
    /\ Enrolled(L.person)
    /\ Allotted(L.listed, L.given, L.doc)
    /\ Souls(L)

\* What a reducer returns: it is sane, and valid unless it was refused.
Good(L) == Sane(L) /\ (L.ok => Valid(L))
Saved(L) == Sane(L) /\ L.ok /\ Valid(L)

IInv ==
    /\ Saved(ledger)
    /\ order # None => order.f \in Formations /\ order.doc \in Docs /\ Saved(order.saved)

-----------------------------------------------------------------------------
(* Functions of numbers. *)

LEMMA Finite ==
  /\ IsFiniteSet(Slots) /\ IsFiniteSet(Roles) /\ IsFiniteSet(Places)
  /\ IsFiniteSet(Formations) /\ IsFiniteSet(People)
BY ForceAssumption

LEMMA TotalOn ==
  ASSUME NEW S, NEW T, NEW f \in [S -> T] PROVE Total(f) = SumFunctionOnSet(f, S)
<1>1. DOMAIN f = S
  OBVIOUS
<1> QED BY Zenon, <1>1 DEF Total, SumFunction, SumFunctionOnSet, FoldFunction, FoldFunctionOnSet

LEMMA TotalInt ==
  ASSUME NEW S, IsFiniteSet(S), NEW f \in [S -> Int] PROVE Total(f) \in Int
<1>1. \A x \in S : f[x] \in Int
  OBVIOUS
<1> QED BY <1>1, TotalOn, SumInt

LEMMA TotalNat ==
  ASSUME NEW S, IsFiniteSet(S), NEW f \in [S -> Nat]
  PROVE  Total(f) \in Nat /\ \A x \in S : f[x] <= Total(f)
<1>1. \A x \in S : f[x] \in Nat
  OBVIOUS
<1> QED BY <1>1, TotalOn, SumNat

LEMMA TotalZero ==
  ASSUME NEW S, IsFiniteSet(S), NEW f \in [S -> Int], \A x \in S : f[x] = 0
  PROVE  Total(f) = 0
BY TotalOn, SumZero

LEMMA PlusIs ==
  ASSUME NEW S, NEW f \in [S -> Int], NEW g \in [S -> Int]
  PROVE  /\ Plus(f, g) \in [S -> Int] /\ \A s \in S : Plus(f, g)[s] = f[s] + g[s]
         /\ f \in [S -> Nat] /\ g \in [S -> Nat] => Plus(f, g) \in [S -> Nat]
BY DEF Plus

LEMMA LessIs ==
  ASSUME NEW S, NEW f \in [S -> Int], NEW g \in [S -> Int]
  PROVE  /\ Less(f, g) \in [S -> Int] /\ \A s \in S : Less(f, g)[s] = f[s] - g[s]
         /\ f \in [S -> Nat] /\ (\A s \in S : g[s] <= f[s]) => Less(f, g) \in [S -> Nat]
BY DEF Less

LEMMA OnlyIs ==
  ASSUME NEW S, NEW x, NEW k \in Int
  PROVE  /\ Only(S, x, k) \in [S -> Int]
         /\ \A s \in S : Only(S, x, k)[s] = IF s = x THEN k ELSE 0
         /\ k \in Nat => Only(S, x, k) \in [S -> Nat]
BY DEF Only

LEMMA MoreIs ==
  ASSUME NEW S, NEW f \in [S -> Int], NEW x, NEW k \in Int
  PROVE  /\ More(f, x, k) \in [S -> Int]
         /\ \A s \in S : More(f, x, k)[s] = IF s = x THEN f[s] + k ELSE f[s]
         /\ f \in [S -> Nat] /\ k \in Nat => More(f, x, k) \in [S -> Nat]
<1> DEFINE g == Only(S, x, k)
<1>1. /\ g \in [S -> Int] /\ \A s \in S : g[s] = IF s = x THEN k ELSE 0
      /\ k \in Nat => g \in [S -> Nat]
  BY OnlyIs
<1>2. More(f, x, k) = Plus(f, g)
  BY DEF More
<1> HIDE DEF g
<1> QED BY <1>1, <1>2, PlusIs

LEMMA FewerIs ==
  ASSUME NEW S, NEW f \in [S -> Int], NEW x, NEW k \in Int
  PROVE  /\ Fewer(f, x, k) \in [S -> Int]
         /\ \A s \in S : Fewer(f, x, k)[s] = IF s = x THEN f[s] - k ELSE f[s]
         /\ f \in [S -> Nat] /\ (x \in S => k <= f[x]) => Fewer(f, x, k) \in [S -> Nat]
<1> DEFINE g == Only(S, x, k)
<1>1. /\ g \in [S -> Int] /\ \A s \in S : g[s] = IF s = x THEN k ELSE 0
  BY OnlyIs
<1>2. Fewer(f, x, k) = Less(f, g)
  BY DEF Fewer
<1> HIDE DEF g
<1>3. /\ Fewer(f, x, k) \in [S -> Int]
      /\ \A s \in S : Fewer(f, x, k)[s] = IF s = x THEN f[s] - k ELSE f[s]
  BY <1>1, <1>2, LessIs
<1>4. ASSUME f \in [S -> Nat], x \in S => k <= f[x] PROVE Fewer(f, x, k) \in [S -> Nat]
  <2>1. \A s \in S : g[s] <= f[s]
    BY <1>1, <1>4
  <2> QED BY <1>1, <1>2, <1>4, <2>1, LessIs
<1> QED BY <1>3, <1>4

-----------------------------------------------------------------------------
(* The documents. *)

LEMMA LedgerFields ==
  ASSUME NEW L \in Ledgers
  PROVE  /\ L.pop \in Int /\ L.dead \in Int /\ L.head \in Int /\ L.auth \in Int
         /\ L.free \in [Roles -> [Places -> Int]] /\ L.listed \in SUBSET Formations
         /\ L.given \in [Formations -> [n : Int, comp : [Roles -> Int]]]
         /\ L.person \in [People -> Persons] /\ L.cohort \in [Slots -> Cohorts]
         /\ L.doc \in [Formations -> Docs \cup {None}]
         /\ L.ok \in BOOLEAN /\ L.full \in BOOLEAN
BY DEF Ledgers

LEMMA CohortFields ==
  ASSUME NEW c \in Cohorts
  PROVE  /\ c.role \in Roles \cup {None}
         /\ c.res \in [Places -> Nat] /\ c.res \in [Places -> Int]
         /\ c.held \in [Formations -> Nat] /\ c.held \in [Formations -> Int]
         /\ Total(c.res) \in Nat /\ Total(c.held) \in Nat
<1>1. /\ c.role \in Roles \cup {None}
      /\ c.res \in [Places -> Nat] /\ c.held \in [Formations -> Nat]
  BY DEF Cohorts
<1>2. Total(c.res) \in Nat /\ Total(c.held) \in Nat
  BY <1>1, Finite, TotalNat
<1> QED BY <1>1, <1>2

LEMMA DocFields ==
  ASSUME NEW L \in Ledgers, NEW f \in Formations, L.doc[f] # None
  PROVE  /\ L.doc[f] \in Docs
         /\ L.doc[f].n \in Int /\ L.doc[f].comp \in [Roles -> Int]
         /\ L.doc[f].est \in [Roles -> Int] /\ L.doc[f].slices \in [Slots -> Nat]
         /\ L.doc[f].slices \in [Slots -> Int]
         /\ L.doc[f].at \in Places /\ L.doc[f].lost \in BOOLEAN
<1>1. L.doc[f] \in Docs
  BY LedgerFields
<1> QED BY <1>1 DEF Docs

LEMMA NoneIsNone ==
  /\ None \notin Docs /\ None \notin Roles /\ None \notin Formations
  /\ "own" \notin Formations /\ "gone" \notin Formations /\ None # "own" /\ None # "gone"
BY NoneAssumption

\* Cohorts are told apart by role, members by formation.
HeldIn(C, f) == [r \in Roles |->
    SumFunctionOnSet([i \in Slots |-> C[i].held[f]], {i \in Slots : C[i].role = r})]
NamedIn(P, f) == [r \in Roles |->
    Cardinality({p \in {q \in People : P[q].at = f} : P[p].role = r})]
BodiesIn(C, P, f) == Plus(HeldIn(C, f), NamedIn(P, f))
InReserve(C, r) ==
    SumFunctionOnSet([i \in Slots |-> Total(C[i].res)], {i \in Slots : C[i].role = r})

\* validate_cohort_ledger, of the parts of a ledger.
Tallied(C, P, h, F, Y, G) ==
    /\ Total([i \in Slots |-> Total(C[i].res) + Total(C[i].held)])
         + Cardinality({p \in People : P[p].at \in {"own"} \cup Formations}) = h
    /\ \A r \in Roles : InReserve(C, r) = Total(F[r])
    /\ \A f \in Formations :
          /\ (f \in Y) <=> (Total(BodiesIn(C, P, f)) > 0)
          /\ f \in Y => /\ G[f].n = Total(BodiesIn(C, P, f))
                        /\ G[f].comp # Zero(Roles) => G[f].comp = BodiesIn(C, P, f)

LEMMA ValidIs ==
  ASSUME NEW L PROVE Valid(L) = Tallied(L.cohort, L.person, L.head, L.free, L.listed, L.given)
BY Zenon DEF Valid, Tallied, InReserve, ReserveOf, BodiesIn, HeldIn, HeldBy, NamedIn, EmbeddedBy,
          Embedded

LEMMA EmbeddedIs ==
  ASSUME NEW L, NEW f
  PROVE  /\ HeldBy(L, f) = HeldIn(L.cohort, f) /\ EmbeddedBy(L, f) = NamedIn(L.person, f)
BY Zenon DEF HeldIn, HeldBy, NamedIn, EmbeddedBy, Embedded

\* Validity asks nothing of documents, nor of anything outside of the force.
SameForce(L, M) ==
    /\ M.cohort = L.cohort /\ M.person = L.person /\ M.head = L.head
    /\ M.free = L.free /\ M.listed = L.listed /\ M.given = L.given

LEMMA ValidAlike ==
  ASSUME NEW L, NEW M, SameForce(L, M), Valid(L) PROVE Valid(M)
BY ValidIs DEF SameForce

LEMMA RefuseGood ==
  ASSUME NEW L, Sane(L) PROVE Good(Refuse(L)) /\ Refuse(L).ok = FALSE
<1>1. Refuse(L) \in Ledgers
  BY DEF Refuse, Sane, Ledgers
<1>2. /\ SameForce(L, Refuse(L)) /\ Refuse(L).doc = L.doc /\ Refuse(L).ok = FALSE
      /\ Refuse(L).pop = L.pop /\ Refuse(L).dead = L.dead
  BY DEF Refuse, Sane, Ledgers, SameForce
<1> QED BY <1>1, <1>2 DEF Good, Sane, SameForce, Souls

LEMMA CheckGood ==
  ASSUME NEW L, Sane(L) PROVE Good(Check(L))
BY RefuseGood DEF Check, Good

LEMMA OverflowGood ==
  ASSUME NEW L, Good(L) PROVE Good(Overflow(L))
<1>1. Overflow(L) \in Ledgers
  BY DEF Overflow, Good, Sane, Ledgers
<1>2. /\ SameForce(L, Overflow(L)) /\ Overflow(L).doc = L.doc /\ Overflow(L).ok = L.ok
      /\ Overflow(L).pop = L.pop /\ Overflow(L).dead = L.dead
  BY DEF Overflow, Good, Sane, Ledgers, SameForce
<1>3. Sane(Overflow(L))
  BY <1>1, <1>2 DEF Good, Sane, SameForce, Souls
<1> QED BY <1>2, <1>3, ValidAlike DEF Good

\* A document may be rewritten as long as there is one.
Rewritten(L, f, d) == [L EXCEPT !.doc = [L.doc EXCEPT ![f] = d]]

LEMMA RewriteSane ==
  ASSUME NEW L, Sane(L), NEW f \in Formations, NEW d \in Docs, NEW M,
         M = Rewritten(L, f, d)
  PROVE  /\ Sane(M) /\ SameForce(L, M) /\ M.ok = L.ok /\ M.full = L.full
         /\ M.doc[f] = d /\ M.doc[f] # None
         /\ \A g \in Formations \ {f} : M.doc[g] = L.doc[g]
<1> DEFINE D == [L.doc EXCEPT ![f] = d]
<1>1. L \in Ledgers /\ L.doc \in [Formations -> Docs \cup {None}]
  BY LedgerFields DEF Sane
<1>2. /\ D \in [Formations -> Docs \cup {None}] /\ D[f] = d
      /\ \A g \in Formations \ {f} : D[g] = L.doc[g]
  BY <1>1
<1>3. M = [L EXCEPT !.doc = D]
  BY DEF Rewritten
<1> HIDE DEF D
<1>4. M \in Ledgers
  BY <1>1, <1>2, <1>3 DEF Ledgers
<1>5. /\ SameForce(L, M) /\ M.doc = D /\ M.pop = L.pop /\ M.dead = L.dead /\ M.ok = L.ok
      /\ M.full = L.full
  BY <1>1, <1>3 DEF Ledgers, SameForce
<1>6. d # None
  BY NoneIsNone
<1>7. Allotted(M.listed, M.given, M.doc)
  BY <1>2, <1>5, <1>6 DEF Sane, Allotted, SameForce
<1>8. Sane(M)
  BY <1>4, <1>5, <1>7 DEF Sane, SameForce, Souls
<1> QED BY <1>2, <1>5, <1>6, <1>8

LEMMA RewriteGood ==
  ASSUME NEW L, Good(L), NEW f \in Formations, NEW d \in Docs, NEW M,
         M = Rewritten(L, f, d)
  PROVE  /\ Good(M) /\ SameForce(L, M) /\ M.ok = L.ok /\ M.full = L.full
         /\ M.doc[f] = d /\ M.doc[f] # None
         /\ \A g \in Formations \ {f} : M.doc[g] = L.doc[g]
<1>1. /\ Sane(M) /\ SameForce(L, M) /\ M.ok = L.ok /\ M.full = L.full
      /\ M.doc[f] = d /\ M.doc[f] # None
      /\ \A g \in Formations \ {f} : M.doc[g] = L.doc[g]
  <2>1. Sane(L)
    BY DEF Good
  <2> QED BY <2>1, RewriteSane
<1>2. Good(M)
  <2>1. Valid(L) => Valid(M)
    BY <1>1, ValidAlike
  <2> QED BY <1>1, <2>1 DEF Good
<1> QED BY <1>1, <1>2

LEMMA ListedSane ==
  ASSUME NEW L, Sane(L), NEW f \in Formations, L.doc[f] # None
  PROVE  Sane(Listed(L, f)) /\ Listed(L, f).doc = L.doc
<1> DEFINE Y == L.listed \cup {f}
           r == [n |-> L.doc[f].n, comp |-> L.doc[f].comp]
           G == [L.given EXCEPT ![f] = r]
           M == Listed(L, f)
<1>1. /\ L \in Ledgers /\ L.doc[f].n \in Int /\ L.doc[f].comp \in [Roles -> Int]
      /\ L.given \in [Formations -> [n : Int, comp : [Roles -> Int]]]
      /\ L.listed \in SUBSET Formations
  BY LedgerFields, DocFields DEF Sane
<1>2. /\ G \in [Formations -> [n : Int, comp : [Roles -> Int]]]
      /\ \A g \in Formations \ {f} : G[g] = L.given[g]
      /\ Y \in SUBSET Formations
  BY <1>1
<1>3. M = [L EXCEPT !.listed = Y, !.given = G]
  BY DEF Listed
<1>y. \A g \in Formations \ {f} : g \in Y <=> g \in L.listed
  OBVIOUS
<1> HIDE DEF Y, G, M
<1>4. M \in Ledgers
  BY <1>1, <1>2, <1>3 DEF Ledgers
<1>5. /\ M.listed = Y /\ M.given = G /\ M.doc = L.doc /\ M.cohort = L.cohort
      /\ M.person = L.person /\ M.pop = L.pop /\ M.dead = L.dead /\ M.head = L.head
  BY <1>1, <1>3 DEF Ledgers
<1>6. Allotted(M.listed, M.given, M.doc)
  <2>1. f \in Y
    BY DEF Y
  <2> QED BY <1>2, <1>5, <1>y, <2>1 DEF Sane, Allotted
<1> QED BY <1>4, <1>5, <1>6 DEF Sane, Souls, M

LEMMA UnlistedSane ==
  ASSUME NEW L, Sane(L), NEW f \in Formations
  PROVE  /\ Sane(Unlisted(L, f)) /\ Unlisted(L, f).doc = L.doc
         /\ Unlisted(L, f).cohort = L.cohort /\ Unlisted(L, f).person = L.person
         /\ Unlisted(L, f).free = L.free
         /\ f \notin Unlisted(L, f).listed /\ Unlisted(L, f).given[f].n = 0
<1> DEFINE Y == L.listed \ {f}
           r == [n |-> 0, comp |-> Zero(Roles)]
           G == [L.given EXCEPT ![f] = r]
           M == Unlisted(L, f)
<1>1. /\ L \in Ledgers
      /\ L.given \in [Formations -> [n : Int, comp : [Roles -> Int]]]
      /\ L.listed \in SUBSET Formations
  BY LedgerFields DEF Sane
<1>2. /\ G \in [Formations -> [n : Int, comp : [Roles -> Int]]]
      /\ \A g \in Formations \ {f} : G[g] = L.given[g]
      /\ Y \in SUBSET Formations /\ G[f].n = 0
  BY <1>1 DEF Zero
<1>3. M = [L EXCEPT !.listed = Y, !.given = G]
  BY DEF Unlisted
<1>y. f \notin Y /\ \A g \in Formations \ {f} : g \in Y <=> g \in L.listed
  OBVIOUS
<1> HIDE DEF Y, G, M
<1>4. M \in Ledgers
  BY <1>1, <1>2, <1>3 DEF Ledgers
<1>5. /\ M.listed = Y /\ M.given = G /\ M.doc = L.doc /\ M.cohort = L.cohort
      /\ M.free = L.free
      /\ M.person = L.person /\ M.pop = L.pop /\ M.dead = L.dead /\ M.head = L.head
  BY <1>1, <1>3 DEF Ledgers
<1>6. Allotted(M.listed, M.given, M.doc)
  BY <1>2, <1>5, <1>y DEF Sane, Allotted
<1> QED BY <1>2, <1>4, <1>5, <1>6, <1>y DEF Sane, Souls, M

-----------------------------------------------------------------------------
(* Documents that are completed. *)

\* What the completion of f's document leaves as it was.
Kindred(L, M, f) ==
    /\ SameForce(L, M) /\ M.full = L.full /\ M.doc[f] # None /\ (M.ok => L.ok)
    /\ \A g \in Formations \ {f} : M.doc[g] = L.doc[g]

LEMMA EnsureGood ==
  ASSUME NEW L, Good(L), NEW f \in Formations, L.doc[f] # None
  PROVE  Good(Ensure(L, f)) /\ Kindred(L, Ensure(L, f), f)
<1> DEFINE held == [i \in Slots |-> L.cohort[i].held[f]]
           d == [L.doc[f] EXCEPT !.slices = held]
           N == [L EXCEPT !.doc[f].slices = held]
<1>1. L \in Ledgers /\ L.doc[f] \in Docs
  BY DocFields DEF Good, Sane
<1>2. held \in [Slots -> Nat]
  BY <1>1, LedgerFields, CohortFields
<1> HIDE DEF held
<1>3. d \in Docs
  BY <1>1, <1>2 DEF Docs
<1>4. N = Rewritten(L, f, d)
  BY <1>1 DEF Ledgers, Rewritten
<1> HIDE DEF d, N
<1>5. Good(N) /\ Kindred(L, N, f)
  BY <1>3, <1>4, RewriteGood DEF Kindred
<1>6. Good(Refuse(L)) /\ Kindred(L, Refuse(L), f)
  BY <1>1, RefuseGood DEF Good, Refuse, Ledgers, Kindred, SameForce
<1>7. Good(L) /\ Kindred(L, L, f)
  BY DEF Kindred, SameForce
<1>8. Ensure(L, f) \in {L, N, Refuse(L)}
  BY DEF Ensure, N, held
<1> QED BY <1>5, <1>6, <1>7, <1>8

LEMMA NormalGood ==
  ASSUME NEW L, Good(L), NEW f \in Formations, L.doc[f] # None
  PROVE  Good(Normal(L, f)) /\ Kindred(L, Normal(L, f), f)
<1> DEFINE d == [L.doc[f] EXCEPT !.est = L.doc[f].comp]
           N == [L EXCEPT !.doc[f].est = L.doc[f].comp]
<1>1. L \in Ledgers /\ L.doc[f] \in Docs
  BY DocFields DEF Good, Sane
<1>2. d \in Docs
  BY <1>1 DEF Docs
<1>3. N = Rewritten(L, f, d)
  BY <1>1 DEF Ledgers, Rewritten
<1> HIDE DEF d, N
<1>4. Good(N) /\ Kindred(L, N, f)
  BY <1>2, <1>3, RewriteGood DEF Kindred
<1>5. Good(L) /\ Kindred(L, L, f)
  BY DEF Kindred, SameForce
<1>6. Normal(L, f) \in {L, N}
  BY DEF Normal, N
<1> QED BY <1>4, <1>5, <1>6

LEMMA NormalSane ==
  ASSUME NEW L, Sane(L), NEW f \in Formations, L.doc[f] # None
  PROVE  Sane(Normal(L, f)) /\ Normal(L, f).doc[f] # None
<1> DEFINE d == [L.doc[f] EXCEPT !.est = L.doc[f].comp]
           N == [L EXCEPT !.doc[f].est = L.doc[f].comp]
<1>1. L \in Ledgers /\ L.doc[f] \in Docs
  BY DocFields DEF Sane
<1>2. d \in Docs
  BY <1>1 DEF Docs
<1>3. N = Rewritten(L, f, d)
  BY <1>1 DEF Ledgers, Rewritten
<1> HIDE DEF d, N
<1>4. Sane(N) /\ N.doc[f] # None
  BY <1>2, <1>3, RewriteSane
<1>5. Normal(L, f) \in {L, N}
  BY DEF Normal, N
<1> QED BY <1>4, <1>5

-----------------------------------------------------------------------------
(* Recruits and musters. *)

LEMMA FirstIs ==
  ASSUME NEW S \in SUBSET Slots, S # {}
  PROVE  (CHOOSE j \in S : \A b \in S : j <= b) \in S
<1>1. S \in SUBSET Nat /\ IsFiniteSet(S)
  BY Finite, FS_Subset, ForceAssumption
<1>2. Cardinality(S) \in Nat /\ Cardinality(S) # 0
  BY <1>1, FS_CardinalityType, FS_EmptySet
<1>3. 1 \in 1..Cardinality(S)
  BY <1>2
<1> DEFINE j == Nth(S, 1)
<1>4. j \in S /\ Cardinality(Below(S, j)) = 1 - 1
  BY <1>1, <1>3, NthPlace
<1>5. Below(S, j) = {}
  <2>1. IsFiniteSet(Below(S, j))
    BY <1>1, FS_Subset DEF Below
  <2> QED BY <1>4, <2>1, FS_EmptySet
<1>6. \A b \in S : j <= b
  <2>1. \A b \in S : ~(b < j)
    BY <1>5 DEF Below
  <2>2. j \in Nat
    BY <1>1, <1>4
  <2> HIDE DEF j
  <2> QED BY <1>1, <2>1, <2>2
<1> QED BY <1>4, <1>6

LEMMA EnlistGood ==
  ASSUME NEW L, Good(L), NEW role \in Roles, NEW k \in Nat
  PROVE  Good(Enlist(L, role, k))
<1> DEFINE i == CHOOSE j \in Blanks(L) : \A b \in Blanks(L) : j <= b
           c == Cohort(role, Only(Places, Home, k), Zero(Formations))
           C == [L.cohort EXCEPT ![i] = c]
           F == [L.free EXCEPT ![role] = [L.free[role] EXCEPT ![Home] = L.free[role][Home] + k]]
           a == IF L.auth < L.head + k THEN L.head + k ELSE L.auth
           M == [CalledUp(L, k) EXCEPT
                    !.head = @ + k,
                    !.auth = IF @ < L.head + k THEN L.head + k ELSE @,
                    !.free[role][Home] = @ + k,
                    !.cohort[i] = Cohort(role, Only(Places, Home, k), Zero(Formations))]
<1>1. L \in Ledgers /\ Home \in Places
  BY ForceAssumption DEF Good, Sane
<1>2. /\ L.pop \in Int /\ L.dead \in Int /\ L.head \in Int /\ L.auth \in Int
      /\ L.free \in [Roles -> [Places -> Int]] /\ L.cohort \in [Slots -> Cohorts]
  BY <1>1, LedgerFields
<1>3. c \in Cohorts /\ c.role = role
  <2>1. Only(Places, Home, k) \in [Places -> Nat] /\ Zero(Formations) \in [Formations -> Nat]
    BY OnlyIs DEF Zero
  <2> QED BY <2>1 DEF Cohort, Cohorts
<1>4. F \in [Roles -> [Places -> Int]] /\ a \in Int
  BY <1>1, <1>2
<1>5. M = [L EXCEPT !.pop = L.pop - k, !.head = L.head + k, !.auth = a, !.free = F, !.cohort = C]
  BY <1>1 DEF CalledUp, Ledgers
<1>6. ASSUME Blanks(L) # {} PROVE Sane(M)
  <2>1. i \in Slots
    BY <1>6, FirstIs DEF Blanks
  <2> HIDE DEF c, i
  <2>2. C \in [Slots -> Cohorts] /\ C[i] = c /\ \A j \in Slots \ {i} : C[j] = L.cohort[j]
    BY <1>2, <1>3, <2>1
  <2> HIDE DEF C, F, a, M
  <2>3. M \in Ledgers
    <3>1. L.pop - k \in Int /\ L.head + k \in Int
      BY <1>2
    <3> QED BY <1>1, <1>4, <1>5, <2>2, <3>1 DEF Ledgers
  <2>4. /\ M.cohort = C /\ M.person = L.person /\ M.listed = L.listed /\ M.given = L.given
        /\ M.doc = L.doc /\ M.pop = L.pop - k /\ M.head = L.head + k /\ M.dead = L.dead
    BY <1>1, <1>5 DEF Ledgers
  <2>5. Founded(C)
    BY <1>3, <2>2, NoneIsNone DEF Good, Sane, Founded
  <2>6. M.pop + M.dead + M.head = L.pop + L.dead + L.head
    BY <1>2, <2>4
  <2> QED BY <2>3, <2>4, <2>5, <2>6 DEF Good, Sane, Souls
<1> HIDE DEF M
<1>7. Enlist(L, role, k) \in {L, Overflow(L)} \/ (Blanks(L) # {} /\ Enlist(L, role, k) = Check(M))
  BY DEF Enlist, M
<1> QED BY <1>6, <1>7, OverflowGood, CheckGood

\* What is drawn from a cohort is there, and nothing is drawn from one without a role.
Lent(C, h, place) ==
    \A i \in Slots : h[i] <= C[i].res[place] /\ (C[i].role = None => h[i] = 0)

LEMMA DrawnIs ==
  ASSUME NEW L \in Ledgers, NEW adds \in [Roles -> Int], NEW place \in Places
  PROVE  /\ Drawn(L, adds, place) \in [Slots -> Nat]
         /\ Lent(L.cohort, Drawn(L, adds, place), place)
<1> DEFINE at == [j \in Slots |-> L.cohort[j].res[place]]
           older(i) == {j \in Slots : j < i /\ L.cohort[j].role = L.cohort[i].role}
           before(i) == SumFunctionOnSet(at, older(i))
           h(i) == IF L.cohort[i].role = None THEN 0
                   ELSE AtMost(L.cohort[i].res[place], Minus(adds[L.cohort[i].role], before(i)))
<1>1. ASSUME NEW i \in Slots
      PROVE  h(i) \in Nat /\ h(i) <= L.cohort[i].res[place] /\ (L.cohort[i].role = None => h(i) = 0)
  <2>1. /\ L.cohort[i].res[place] \in Nat /\ L.cohort[i].role \in Roles \cup {None}
    BY <1>1, LedgerFields, CohortFields
  <2>2. before(i) \in Int
    <3>1. IsFiniteSet(older(i))
      BY Finite, FS_Subset
    <3>2. \A j \in older(i) : at[j] \in Int
      BY LedgerFields, CohortFields
    <3> HIDE DEF at, older
    <3> QED BY <3>1, <3>2, SumInt
  <2> HIDE DEF before
  <2>3. CASE L.cohort[i].role = None
    BY <2>1, <2>3
  <2>4. CASE L.cohort[i].role # None
    <3>1. adds[L.cohort[i].role] \in Int
      BY <2>1, <2>4
    <3> QED BY <2>1, <2>2, <2>4, <3>1 DEF AtMost, Minus
  <2> QED BY <2>3, <2>4
<1>2. Drawn(L, adds, place) = [i \in Slots |-> h(i)]
  BY DEF Drawn
<1> HIDE DEF h
<1> QED BY <1>1, <1>2 DEF Lent

\* Bodies leave the reserve of a place for a formation.
Placing(C, h, place, f) ==
    [i \in Slots |-> Placed(C[i], place, f, h[i])]

LEMMA PlacingIs ==
  ASSUME NEW C \in [Slots -> Cohorts], Founded(C), NEW place \in Places, NEW f \in Formations,
         NEW h \in [Slots -> Nat], Lent(C, h, place)
  PROVE  Placing(C, h, place, f) \in [Slots -> Cohorts] /\ Founded(Placing(C, h, place, f))
<1> DEFINE P == Placing(C, h, place, f)
<1>1. ASSUME NEW i \in Slots PROVE P[i] \in Cohorts /\ (P[i].role = None => Idle(P[i]))
  <2> DEFINE c == C[i]
             res == Fewer(c.res, place, h[i])
             held == More(c.held, f, h[i])
  <2>1. /\ c \in Cohorts /\ c.res \in [Places -> Nat] /\ c.res \in [Places -> Int]
        /\ c.held \in [Formations -> Nat] /\ c.held \in [Formations -> Int]
        /\ h[i] \in Nat /\ h[i] \in Int /\ h[i] <= c.res[place] /\ (c.role = None => h[i] = 0)
    BY CohortFields DEF Lent
  <2>2. P[i] = [c EXCEPT !.res = res, !.held = held]
    BY DEF Placing, Placed
  <2> HIDE DEF c, P
  <2>3. res \in [Places -> Nat] /\ \A s \in Places : res[s] = IF s = place THEN c.res[s] - h[i] ELSE c.res[s]
    BY <2>1, FewerIs
  <2>4. held \in [Formations -> Nat] /\ \A s \in Formations : held[s] = IF s = f THEN c.held[s] + h[i] ELSE c.held[s]
    BY <2>1, MoreIs
  <2> HIDE DEF res, held
  <2>5. P[i] \in Cohorts /\ P[i].role = c.role /\ P[i].res = res /\ P[i].held = held
    BY <2>1, <2>2, <2>3, <2>4 DEF Cohorts
  <2>6. ASSUME c.role = None PROVE Idle(P[i])
    <3>1. Idle(c) /\ h[i] = 0
      BY <2>1, <2>6 DEF Founded, c
    <3> QED BY <2>1, <2>3, <2>4, <2>5, <3>1 DEF Idle
  <2> QED BY <2>5, <2>6
<1>2. P = [i \in Slots |-> P[i]]
  BY DEF Placing
<1> HIDE DEF P
<1>3. P \in [Slots -> Cohorts] /\ Founded(P)
  BY <1>1, <1>2 DEF Founded
<1> QED BY <1>3 DEF P

\* What a muster leaves as it was.
Mustered(L, M, f) ==
    /\ M.pop = L.pop /\ M.dead = L.dead /\ M.head = L.head /\ M.person = L.person
    /\ M.listed = L.listed /\ M.given = L.given /\ M.full = L.full
    /\ M.doc[f] # None /\ (M.ok => L.ok)
    /\ \A g \in Formations \ {f} : M.doc[g] = L.doc[g]

LEMMA MusterSane ==
  ASSUME NEW L, Sane(L), NEW f \in Formations, L.doc[f] # None, NEW adds \in [Roles -> Int],
         NEW place \in Places
  PROVE  Sane(Muster(L, f, adds, place)) /\ Mustered(L, Muster(L, f, adds, place), f)
<1> DEFINE h == Drawn(L, adds, place)
           F == [r \in Roles |-> Fewer(L.free[r], place, adds[r])]
           C == Placing(L.cohort, h, place, f)
           d == [L.doc[f] EXCEPT !.slices = Plus(L.doc[f].slices, h)]
           D == [L.doc EXCEPT ![f] = d]
           M == [L EXCEPT
            !.free = [r \in Roles |-> Fewer(L.free[r], place, adds[r])],
            !.cohort = [i \in Slots |-> Placed(L.cohort[i], place, f, h[i])],
            !.doc[f].slices = Plus(L.doc[f].slices, h)]
<1>1. /\ L \in Ledgers /\ L.free \in [Roles -> [Places -> Int]]
      /\ L.cohort \in [Slots -> Cohorts] /\ L.doc \in [Formations -> Docs \cup {None}]
      /\ L.doc[f] \in Docs /\ L.doc[f].slices \in [Slots -> Nat]
      /\ L.doc[f].slices \in [Slots -> Int]
  BY LedgerFields, DocFields DEF Sane
<1>2. h \in [Slots -> Nat] /\ h \in [Slots -> Int] /\ Lent(L.cohort, h, place)
  BY <1>1, DrawnIs
<1>3. Muster(L, f, adds, place) \in {Refuse(L), M}
  BY DEF Muster
<1> HIDE DEF h
<1>4. C \in [Slots -> Cohorts] /\ Founded(C)
  BY <1>1, <1>2, PlacingIs DEF Sane
<1>5. F \in [Roles -> [Places -> Int]]
  <2>1. \A r \in Roles : Fewer(L.free[r], place, adds[r]) \in [Places -> Int]
    BY <1>1, FewerIs
  <2> QED BY <2>1
<1>6. d \in Docs
  <2>1. Plus(L.doc[f].slices, h) \in [Slots -> Nat]
    BY <1>1, <1>2, PlusIs
  <2> QED BY <1>1, <2>1 DEF Docs
<1>7. M = [L EXCEPT !.free = F, !.cohort = C, !.doc = D]
  BY <1>1 DEF Placing, Ledgers
<1>8. /\ D \in [Formations -> Docs \cup {None}] /\ D[f] = d /\ D[f] # None
      /\ \A g \in Formations \ {f} : D[g] = L.doc[g]
  BY <1>1, <1>6, NoneIsNone
<1> HIDE DEF C, F, d, D, M
<1>9. M \in Ledgers
  BY <1>1, <1>4, <1>5, <1>7, <1>8 DEF Ledgers
<1>10. /\ M.pop = L.pop /\ M.dead = L.dead /\ M.head = L.head /\ M.person = L.person
       /\ M.listed = L.listed /\ M.given = L.given /\ M.full = L.full /\ M.ok = L.ok
       /\ M.doc = D /\ M.cohort = C
  BY <1>1, <1>7 DEF Ledgers
<1>11. Sane(M) /\ Mustered(L, M, f)
  <2>1. Allotted(M.listed, M.given, M.doc)
    BY <1>8, <1>10 DEF Sane, Allotted
  <2> QED BY <1>4, <1>8, <1>9, <1>10, <2>1 DEF Sane, Souls, Mustered
<1>12. Sane(Refuse(L)) /\ Mustered(L, Refuse(L), f)
  <2>1. Sane(Refuse(L)) /\ Refuse(L).ok = FALSE
    BY RefuseGood DEF Good
  <2> QED BY <1>1, <2>1 DEF Refuse, Ledgers, Mustered
<1> QED BY <1>3, <1>11, <1>12

LEMMA ReinforceSane ==
  ASSUME NEW L, Sane(L), NEW f \in Formations, L.doc[f] # None, NEW adds \in [Roles -> Int]
  PROVE  Sane(Reinforce(L, f, adds)) /\ Mustered(L, Reinforce(L, f, adds), f)
<1> DEFINE M == Muster(L, f, adds, L.doc[f].at)
           d == M.doc[f]
           e == [d EXCEPT !.n = d.n + Total(adds), !.comp = Plus(d.comp, adds)]
<1>1. Sane(M) /\ Mustered(L, M, f)
  <2>1. L.doc[f].at \in Places
    BY DocFields DEF Sane
  <2> QED BY <2>1, MusterSane
<1>2. Reinforce(L, f, adds) = [M EXCEPT !.doc[f] = e]
  BY Zenon DEF Reinforce
<1> HIDE DEF M
<1>3. M \in Ledgers /\ d \in Docs /\ d.n \in Int /\ d.comp \in [Roles -> Int]
  BY <1>1, DocFields DEF Sane, Mustered
<1>4. e \in Docs
  <2>1. Total(adds) \in Int
    BY Finite, TotalInt
  <2>2. Plus(d.comp, adds) \in [Roles -> Int]
    BY <1>3, PlusIs
  <2>3. d.n + Total(adds) \in Int
    BY <1>3, <2>1
  <2> HIDE DEF d
  <2> QED BY <1>3, <2>2, <2>3 DEF Docs
<1> HIDE DEF e
<1>5. Reinforce(L, f, adds) = Rewritten(M, f, e)
  BY <1>2, <1>3 DEF Rewritten, Ledgers
<1>6. /\ Sane(Rewritten(M, f, e)) /\ SameForce(M, Rewritten(M, f, e))
      /\ Rewritten(M, f, e).ok = M.ok /\ Rewritten(M, f, e).full = M.full
      /\ Rewritten(M, f, e).doc[f] # None
      /\ \A g \in Formations \ {f} : Rewritten(M, f, e).doc[g] = M.doc[g]
  BY <1>1, <1>4, RewriteSane
<1>7. Rewritten(M, f, e).pop = M.pop /\ Rewritten(M, f, e).dead = M.dead
  BY <1>3 DEF Rewritten, Ledgers
<1> QED BY <1>1, <1>5, <1>6, <1>7 DEF Mustered, SameForce

-----------------------------------------------------------------------------
(* Training. *)

\* No document disappears.
Kept(L, M) == \A g \in Formations : L.doc[g] # None => M.doc[g] # None

LEMMA IsolateGood ==
  ASSUME NEW L0, Good(L0), NEW f \in Formations, L0.doc[f] # None
  PROVE  Good(Isolate(L0, f)) /\ Kept(L0, Isolate(L0, f))
<1> DEFINE L == Ensure(L0, f)
           slices == L.doc[f].slices
           Shared(i) == \/ Total(L.cohort[i].res) > 0
                        \/ \E g \in Formations \ {f} : L.cohort[i].held[g] > 0
           S == {i \in Slots : slices[i] > 0 /\ Shared(i)}
           branch == Ranked(S)
           fresh == Ranked(Blanks(L))
           Branches == 1..Len(branch)
           From(j) == branch[CHOOSE k \in Branches : fresh[k] = j]
           New(j) == \E k \in Branches : fresh[k] = j
           c(j) == IF New(j) THEN Cohort(L.cohort[From(j)].role, Zero(Places),
                                         Only(Formations, f, slices[From(j)]))
                   ELSE IF j \in ToSet(branch) THEN Spent(L.cohort[j], f, L.cohort[j].held[f])
                   ELSE L.cohort[j]
           s(j) == IF New(j) THEN slices[From(j)]
                   ELSE IF j \in ToSet(branch) THEN 0 ELSE slices[j]
           C == [j \in Slots |-> c(j)]
           s2 == [j \in Slots |-> s(j)]
           d == [L.doc[f] EXCEPT !.slices = s2]
           N == [L EXCEPT !.cohort = C, !.doc[f].slices = s2]
<1>1. Good(L) /\ Kindred(L0, L, f)
  BY EnsureGood
<1>2. Isolate(L0, f) \in {L, Overflow(L), Refuse(L), Check(N)}
  BY Zenon DEF Isolate
<1> HIDE DEF L
<1>3. /\ L \in Ledgers /\ L.cohort \in [Slots -> Cohorts]
      /\ L.doc \in [Formations -> Docs \cup {None}] /\ L.doc[f] # None
      /\ L.doc[f] \in Docs /\ slices \in [Slots -> Nat]
  BY <1>1, LedgerFields, DocFields DEF Good, Sane, Kindred
<1>4. ASSUME NEW j \in Slots, New(j)
      PROVE  From(j) \in S
  <2>1. S \in SUBSET Nat /\ IsFiniteSet(S)
    BY Finite, FS_Subset, ForceAssumption
  <2> HIDE DEF S
  <2>2. DOMAIN branch = 1..Cardinality(S) /\ Len(branch) = Cardinality(S)
        /\ \A k \in DOMAIN branch : branch[k] \in S
    BY <2>1, RankedSeq
  <2> HIDE DEF branch, fresh
  <2> QED BY <1>4, <2>2
<1>5. ASSUME NEW i \in S PROVE L.cohort[i].role \in Roles
  <2>1. L.cohort[i] \in Cohorts /\ L.cohort[i].role \in Roles \cup {None}
        /\ L.cohort[i].res \in [Places -> Int]
    BY <1>3, CohortFields
  <2>2. ASSUME Idle(L.cohort[i]) PROVE FALSE
    <3>1. \A l \in Places : L.cohort[i].res[l] = 0
      BY <2>2 DEF Idle
    <3>2. Total(L.cohort[i].res) = 0
      BY <2>1, <3>1, Finite, TotalZero
    <3>3. \A g \in Formations : L.cohort[i].held[g] = 0
      BY <2>2 DEF Idle
    <3> QED BY <3>2, <3>3
  <2> QED BY <1>1, <2>1, <2>2 DEF Good, Sane, Founded
<1> HIDE DEF S, branch, fresh
<1>6. ASSUME NEW j \in Slots PROVE c(j) \in Cohorts /\ (c(j).role = None => Idle(c(j)))
                                   /\ s(j) \in Nat
  <2>1. CASE New(j)
    <3> DEFINE i == From(j)
    <3>1. i \in Slots /\ L.cohort[i].role \in Roles
      BY <1>4, <1>5, <2>1 DEF S
    <3> HIDE DEF i
    <3>2. slices[i] \in Nat
      BY <1>3, <3>1
    <3>3. Zero(Places) \in [Places -> Nat] /\ Only(Formations, f, slices[i]) \in [Formations -> Nat]
      BY <3>2, OnlyIs DEF Zero
    <3> DEFINE y == Cohort(L.cohort[i].role, Zero(Places), Only(Formations, f, slices[i]))
    <3>4. y \in Cohorts /\ y.role = L.cohort[i].role
      BY <3>1, <3>3 DEF Cohort, Cohorts
    <3>5. c(j) = y /\ s(j) = slices[i]
      BY <2>1 DEF i
    <3> HIDE DEF c, s, y
    <3> QED BY <3>1, <3>2, <3>4, <3>5, NoneIsNone
  <2>2. CASE ~New(j) /\ j \in ToSet(branch)
    <3> DEFINE x == L.cohort[j]
               h == Fewer(x.held, f, x.held[f])
    <3>1. x \in Cohorts /\ x.held \in [Formations -> Nat] /\ x.held \in [Formations -> Int]
      BY <1>3, CohortFields
    <3>2. x.role = None => Idle(x)
      BY <1>1 DEF Good, Sane, Founded
    <3>3. c(j) = [x EXCEPT !.held = h] /\ s(j) = 0
      BY <2>2 DEF Spent
    <3> HIDE DEF x, New
    <3>4. x.held[f] \in Nat /\ x.held[f] \in Int /\ x.held[f] <= x.held[f]
      BY <3>1
    <3>5. h \in [Formations -> Nat] /\ \A g \in Formations :
             h[g] = IF g = f THEN x.held[g] - x.held[f] ELSE x.held[g]
      BY <3>1, <3>4, FewerIs
    <3> HIDE DEF h, c, s
    <3>6. c(j) \in Cohorts /\ c(j).role = x.role /\ c(j).res = x.res /\ c(j).held = h
      BY <3>1, <3>3, <3>5 DEF Cohorts
    <3>7. ASSUME x.role = None PROVE Idle(c(j))
      <4>1. /\ \A g \in Formations : x.held[g] = 0
            /\ \A l \in Places : x.res[l] = 0
        BY <3>2, <3>7 DEF Idle
      <4>2. \A g \in Formations : h[g] = 0
        BY <3>5, <4>1
      <4> QED BY <3>6, <4>1, <4>2 DEF Idle
    <3> QED BY <3>3, <3>6, <3>7
  <2>3. CASE ~New(j) /\ j \notin ToSet(branch)
    <3>1. c(j) = L.cohort[j] /\ s(j) = slices[j]
      BY <2>3
    <3>2. L.cohort[j] \in Cohorts /\ slices[j] \in Nat
      BY <1>3
    <3> HIDE DEF c, s
    <3> QED BY <1>1, <3>1, <3>2 DEF Good, Sane, Founded
  <2> QED BY Zenon, <2>1, <2>2, <2>3
<1> HIDE DEF c, s
<1>7. C \in [Slots -> Cohorts] /\ Founded(C) /\ s2 \in [Slots -> Nat]
  BY <1>6 DEF Founded
<1> HIDE DEF C, s2
<1>8. d \in Docs
  BY <1>3, <1>7 DEF Docs
<1> DEFINE D == [L.doc EXCEPT ![f] = d]
<1>9. N = [L EXCEPT !.cohort = C, !.doc = D]
  BY <1>3 DEF Ledgers
<1>10. /\ D \in [Formations -> Docs \cup {None}] /\ D[f] # None
       /\ \A g \in Formations \ {f} : D[g] = L.doc[g]
  BY <1>3, <1>8, NoneIsNone
<1> HIDE DEF d, D, N
<1>11. N \in Ledgers
  BY <1>3, <1>7, <1>9, <1>10 DEF Ledgers
<1>12. /\ N.pop = L.pop /\ N.dead = L.dead /\ N.head = L.head /\ N.person = L.person
       /\ N.listed = L.listed /\ N.given = L.given /\ N.doc = D /\ N.cohort = C
  BY <1>3, <1>9 DEF Ledgers
<1>13. Sane(N)
  <2>1. Allotted(N.listed, N.given, N.doc)
    BY <1>1, <1>10, <1>12 DEF Good, Sane, Allotted
  <2> QED BY <1>1, <1>7, <1>11, <1>12, <2>1 DEF Good, Sane, Souls
<1>14. Good(Check(N)) /\ Good(Overflow(L)) /\ Good(Refuse(L)) /\ Good(L)
  BY <1>1, <1>13, CheckGood, OverflowGood, RefuseGood DEF Good
<1>15. Kept(L, L) /\ Kept(L, Overflow(L)) /\ Kept(L, Refuse(L)) /\ Kept(L, Check(N))
  <2>1. Kept(L, N)
    BY <1>10, <1>12 DEF Kept
  <2>2. Check(N).doc = N.doc /\ Overflow(L).doc = L.doc /\ Refuse(L).doc = L.doc
    BY <1>3, <1>11 DEF Check, Refuse, Overflow, Ledgers
  <2> QED BY <2>1, <2>2 DEF Kept
<1>16. Kept(L0, L)
  BY <1>1 DEF Kindred, Kept
<1> QED BY <1>2, <1>14, <1>15, <1>16 DEF Kept

-----------------------------------------------------------------------------
(* Bodies and persons that move. *)

\* A cohort that lost or gained bodies.
Fit(c) == c \in Cohorts /\ (c.role = None => Idle(c))
Fitting(C) == \A i \in Slots : Fit(C[i])

LEMMA FitIs ==
  ASSUME NEW C, C \in [Slots -> Cohorts] /\ Founded(C)
  PROVE  Fitting(C)
BY DEF Fitting, Fit, Founded

LEMMA FitCohorts ==
  ASSUME NEW C, Fitting(C)
  PROVE  \A D : D = [i \in Slots |-> C[i]] => D \in [Slots -> Cohorts] /\ Founded(D)
BY DEF Fitting, Fit, Founded

LEMMA SpentFit ==
  ASSUME NEW c, Fit(c), NEW f \in Formations, NEW k \in Nat, k <= c.held[f]
  PROVE  Fit(Spent(c, f, k)) /\ Spent(c, f, k).role = c.role
<1> DEFINE held == Fewer(c.held, f, k)
<1>1. /\ c \in Cohorts /\ c.held \in [Formations -> Nat] /\ c.held \in [Formations -> Int]
      /\ c.res \in [Places -> Nat] /\ k \in Int
  BY CohortFields DEF Fit
<1>2. held \in [Formations -> Nat] /\ \A s \in Formations : held[s] = IF s = f THEN c.held[s] - k ELSE c.held[s]
  BY <1>1, FewerIs
<1>3. Spent(c, f, k) = [c EXCEPT !.held = held]
  BY DEF Spent
<1> HIDE DEF held
<1> DEFINE y == [c EXCEPT !.held = held]
<1>4. y \in Cohorts /\ y.role = c.role /\ y.res = c.res /\ y.held = held
  BY <1>1, <1>2 DEF Cohorts
<1> HIDE DEF y
<1>5. ASSUME c.role = None PROVE Idle(y)
  <2>1. Idle(c)
    BY <1>5 DEF Fit
  <2>2. k = 0
    BY <1>1, <2>1 DEF Idle
  <2> QED BY <1>1, <1>2, <1>4, <2>1, <2>2 DEF Idle
<1> QED BY <1>3, <1>4, <1>5 DEF Fit, y

LEMMA PassedFit ==
  ASSUME NEW c, Fit(c), NEW f \in Formations, NEW g \in Formations, NEW k \in Nat, k <= c.held[f]
  PROVE  Fit(Passed(c, f, g, k)) /\ Passed(c, f, g, k).role = c.role
<1> DEFINE less == Fewer(c.held, f, k)
           held == More(less, g, k)
<1>1. /\ c \in Cohorts /\ c.held \in [Formations -> Nat] /\ c.held \in [Formations -> Int]
      /\ c.res \in [Places -> Nat] /\ k \in Int
  BY CohortFields DEF Fit
<1>2. /\ less \in [Formations -> Nat] /\ less \in [Formations -> Int]
      /\ \A s \in Formations : less[s] = IF s = f THEN c.held[s] - k ELSE c.held[s]
  BY <1>1, FewerIs
<1>3. Passed(c, f, g, k) = [c EXCEPT !.held = held]
  BY DEF Passed
<1> HIDE DEF less
<1>4. held \in [Formations -> Nat] /\ \A s \in Formations : held[s] = IF s = g THEN less[s] + k ELSE less[s]
  BY <1>1, <1>2, MoreIs
<1> HIDE DEF held
<1> DEFINE y == [c EXCEPT !.held = held]
<1>5. y \in Cohorts /\ y.role = c.role /\ y.res = c.res /\ y.held = held
  BY <1>1, <1>4 DEF Cohorts
<1> HIDE DEF y
<1>6. ASSUME c.role = None PROVE Idle(y)
  <2>1. Idle(c)
    BY <1>6 DEF Fit
  <2>2. k = 0
    BY <1>1, <2>1 DEF Idle
  <2> QED BY <1>1, <1>2, <1>4, <1>5, <2>1, <2>2 DEF Idle
<1> QED BY <1>3, <1>5, <1>6 DEF Fit, y

LEMMA FreedFit ==
  ASSUME NEW c, Fit(c), NEW f \in Formations, NEW place \in Places, NEW k \in Nat, k <= c.held[f]
  PROVE  Fit(Freed(c, f, place, k)) /\ Freed(c, f, place, k).role = c.role
<1> DEFINE held == Fewer(c.held, f, k)
           res == More(c.res, place, k)
<1>1. /\ c \in Cohorts /\ c.held \in [Formations -> Nat] /\ c.held \in [Formations -> Int]
      /\ c.res \in [Places -> Nat] /\ c.res \in [Places -> Int] /\ k \in Int
  BY CohortFields DEF Fit
<1>2. held \in [Formations -> Nat] /\ \A s \in Formations : held[s] = IF s = f THEN c.held[s] - k ELSE c.held[s]
  BY <1>1, FewerIs
<1>3. res \in [Places -> Nat] /\ \A s \in Places : res[s] = IF s = place THEN c.res[s] + k ELSE c.res[s]
  BY <1>1, MoreIs
<1>4. Freed(c, f, place, k) = [c EXCEPT !.held = held, !.res = res]
  BY DEF Freed
<1> HIDE DEF held, res
<1> DEFINE y == [c EXCEPT !.held = held, !.res = res]
<1>5. y \in Cohorts /\ y.role = c.role /\ y.res = res /\ y.held = held
  BY <1>1, <1>2, <1>3 DEF Cohorts
<1> HIDE DEF y
<1>6. ASSUME c.role = None PROVE Idle(y)
  <2>1. Idle(c)
    BY <1>6 DEF Fit
  <2>2. k = 0
    BY <1>1, <2>1 DEF Idle
  <2> QED BY <1>1, <1>2, <1>3, <1>5, <2>1, <2>2 DEF Idle
<1> QED BY <1>4, <1>5, <1>6 DEF Fit, y

LEMMA MovedIs ==
  ASSUME NEW P \in [People -> Persons], Enrolled(P), NEW S,
         NEW to \in Formations \cup {"own", "gone"},
         to \in Formations => \A p \in People : p \in S => P[p].role \in Roles
  PROVE  Moved(P, S, to) \in [People -> Persons] /\ Enrolled(Moved(P, S, to))
<1> DEFINE q(p) == IF p \in S THEN [P[p] EXCEPT !.at = to] ELSE P[p]
<1>1. ASSUME NEW p \in People
      PROVE  q(p) \in Persons /\ (q(p).at \in Formations => q(p).role \in Roles)
  <2>1. P[p] \in Persons
    OBVIOUS
  <2>2. CASE p \in S
    <3>1. q(p) \in Persons /\ q(p).at = to /\ q(p).role = P[p].role
      BY <2>1, <2>2 DEF Persons
    <3> QED BY <2>2, <3>1
  <2>3. CASE p \notin S
    BY <2>1, <2>3 DEF Enrolled
  <2> QED BY <2>2, <2>3
<1>2. Moved(P, S, to) = [p \in People |-> q(p)]
  BY DEF Moved
<1> HIDE DEF q
<1> QED BY <1>1, <1>2 DEF Enrolled

\* Two documents are rewritten, one of them perhaps for the first or the last time.
LEMMA TwoDocs ==
  ASSUME NEW D \in [Formations -> Docs \cup {None}], NEW f \in Formations, NEW g \in Formations,
         f # g, NEW a \in Docs \cup {None}, NEW b \in Docs \cup {None}, NEW E,
         E = [[D EXCEPT ![f] = a] EXCEPT ![g] = b]
  PROVE  /\ E \in [Formations -> Docs \cup {None}] /\ E[f] = a /\ E[g] = b
         /\ \A e \in Formations \ {f, g} : E[e] = D[e]
OBVIOUS

\* A ledger whose bodies have moved.
Made(L, dead, head, F, Y, G, P, C, D) ==
    [L EXCEPT !.dead = dead, !.head = head, !.free = F, !.listed = Y, !.given = G,
              !.person = P, !.cohort = C, !.doc = D]

Makes(L, dead, head, F, Y, G, P, C, D) ==
    /\ dead \in Int /\ head \in Int /\ dead + head = L.dead + L.head
    /\ F \in [Roles -> [Places -> Int]] /\ Y \in SUBSET Formations
    /\ G \in [Formations -> [n : Int, comp : [Roles -> Int]]]
    /\ P \in [People -> Persons] /\ Enrolled(P)
    /\ C \in [Slots -> Cohorts] /\ Founded(C)
    /\ D \in [Formations -> Docs \cup {None}] /\ Allotted(Y, G, D)

LEMMA MadeSane ==
  ASSUME NEW L, Sane(L), NEW dead, NEW head, NEW F, NEW Y, NEW G, NEW P, NEW C, NEW D,
         Makes(L, dead, head, F, Y, G, P, C, D)
  PROVE  /\ Sane(Made(L, dead, head, F, Y, G, P, C, D))
         /\ Made(L, dead, head, F, Y, G, P, C, D).doc = D
         /\ Made(L, dead, head, F, Y, G, P, C, D).ok = L.ok
<1> DEFINE M == Made(L, dead, head, F, Y, G, P, C, D)
<1>1. L \in Ledgers /\ L.pop \in Int /\ L.dead \in Int /\ L.head \in Int
  BY LedgerFields DEF Sane
<1>2. M \in Ledgers
  BY <1>1 DEF Made, Ledgers, Makes
<1>3. /\ M.pop = L.pop /\ M.dead = dead /\ M.head = head /\ M.listed = Y /\ M.given = G
      /\ M.person = P /\ M.cohort = C /\ M.doc = D /\ M.ok = L.ok
  BY <1>1 DEF Made, Ledgers
<1> HIDE DEF M
<1>4. Souls(M)
  <2>1. L.pop + L.dead + L.head = Civilians + Total(Reserve)
    BY DEF Sane, Souls
  <2>2. dead \in Int /\ head \in Int /\ dead + head = L.dead + L.head
    BY DEF Makes
  <2>3. M.pop + M.dead + M.head = L.pop + L.dead + L.head
    BY <1>1, <1>3, <2>2
  <2> QED BY <2>1, <2>3 DEF Souls
<1>5. Sane(M)
  BY <1>2, <1>3, <1>4 DEF Sane, Makes
<1> QED BY <1>3, <1>5 DEF M

LEMMA DocIs ==
  ASSUME NEW place \in Places, NEW comp \in [Roles -> Int], NEW slices \in [Slots -> Nat]
  PROVE  Doc(place, comp, slices) \in Docs
<1>1. Total(comp) \in Int
  BY Finite, TotalInt
<1> QED BY <1>1 DEF Doc, Docs

LEMMA SharesIs ==
  ASSUME NEW S, NEW weight \in [S -> Int], NEW k \in Int, NEW h \in Shares(weight, k)
  PROVE  h \in [S -> Int]
<1>1. DOMAIN weight = S
  OBVIOUS
<1> DEFINE all == Total(weight)
<1>2. h = weight \/ h \in [DOMAIN weight -> 0..k]
  BY DEF Shares
<1>3. CASE h \in [DOMAIN weight -> 0..k]
  <2>1. 0..k \subseteq Int
    OBVIOUS
  <2> QED BY <1>1, <1>3, <2>1
<1> QED BY <1>2, <1>3

\* The members of a formation, by role.
LEMMA ByRole ==
  ASSUME NEW L, Sane(L), NEW f \in Formations
  PROVE  /\ EmbeddedBy(L, f) \in [Roles -> Int]
         /\ L.doc[f] # None => SlicesBy(L, f) \in [Roles -> Int]
<1>1. EmbeddedBy(L, f) \in [Roles -> Int]
  <2>1. ASSUME NEW r \in Roles
        PROVE  Cardinality({p \in Embedded(L, f) : L.person[p].role = r}) \in Int
    <3>1. IsFiniteSet({p \in Embedded(L, f) : L.person[p].role = r})
      BY Finite, FS_Subset DEF Embedded
    <3> QED BY <3>1, FS_CardinalityType
  <2> QED BY <2>1 DEF EmbeddedBy
<1>2. ASSUME L.doc[f] # None PROVE SlicesBy(L, f) \in [Roles -> Int]
  <2>1. ASSUME NEW r \in Roles
        PROVE  SumFunctionOnSet(L.doc[f].slices, {i \in Slots : L.cohort[i].role = r}) \in Int
    <3> DEFINE S == {i \in Slots : L.cohort[i].role = r}
    <3>1. IsFiniteSet(S)
      BY Finite, FS_Subset
    <3>2. \A i \in S : L.doc[f].slices[i] \in Int
      BY <1>2, DocFields DEF Sane
    <3> HIDE DEF S
    <3>3. SumFunctionOnSet(L.doc[f].slices, S) \in Int
      BY <3>1, <3>2, SumInt
    <3> QED BY <3>3 DEF S
  <2> QED BY <2>1 DEF SlicesBy
<1> QED BY <1>1, <1>2

-----------------------------------------------------------------------------
(* Partitions, mergers and dissolutions. *)

\* The anonymous h of f, by role.
HeldOf(C, h) == [r \in Roles |-> SumFunctionOnSet(h, {i \in Slots : C[i].role = r})]
Stays(L, f, h) == Less(Plus(SlicesBy(L, f), EmbeddedBy(L, f)), HeldOf(L.cohort, h))

\* M is L with the h of f in the new formation g.
PartedFrom(L, M, f, g, h) ==
    /\ M.ok = L.ok /\ M.listed = L.listed /\ M.given = L.given /\ M.person = L.person
    /\ \A i \in Slots : M.cohort[i] = Passed(L.cohort[i], f, g, h[i]) /\ h[i] <= L.cohort[i].held[f]
    /\ M.doc[f] \in Docs /\ M.doc[g] \in Docs
    /\ \A e \in Formations \ {f, g} : M.doc[e] = L.doc[e]
    /\ L.doc[f].comp \in {Plus(Stays(L, f, h), HeldOf(L.cohort, h)), Stays(L, f, h)}
    /\ M.doc[f].n = L.doc[f].n - Total(h) /\ M.doc[f].comp = Stays(L, f, h)
    /\ M.doc[g].n = Total(HeldOf(L.cohort, h)) /\ M.doc[g].comp = HeldOf(L.cohort, h)
    /\ \A i \in Slots : /\ M.doc[f].slices[i] = L.doc[f].slices[i] - h[i]
                         /\ M.doc[g].slices[i] = h[i]

LEMMA PartitionIs ==
  ASSUME NEW L, Good(L), NEW f \in Formations, NEW g \in Formations, f # g, L.doc[f] # None,
         NEW k \in Int, NEW h \in Partitions(L, f, k), NEW est \in Shares(L.doc[f].est, k)
  PROVE  /\ h \in [Slots -> Nat] /\ h \in [Slots -> Int]
         /\ HeldOf(L.cohort, h) \in [Roles -> Int] /\ Stays(L, f, h) \in [Roles -> Int]
         /\ \/ Partition(L, f, g, h, est) = Refuse(L)
            \/ \E M : /\ Partition(L, f, g, h, est) = Check(Listed(Listed(M, f), g))
                      /\ Sane(M) /\ PartedFrom(L, M, f, g, h)
<1> DEFINE moved == [r \in Roles |-> SumFunctionOnSet(h, {i \in Slots : L.cohort[i].role = r})]
           stay  == Less(Plus(SlicesBy(L, f), EmbeddedBy(L, f)), moved)
           child == [Doc(L.doc[f].at, moved, h) EXCEPT !.est = est, !.lost = L.doc[f].lost]
           d == L.doc[f]
           parent == [d EXCEPT !.n = d.n - Total(h), !.comp = stay, !.est = Less(d.est, est),
                               !.slices = Less(d.slices, h)]
           C == [i \in Slots |-> Passed(L.cohort[i], f, g, h[i])]
           D == [[L.doc EXCEPT ![f] = parent] EXCEPT ![g] = child]
           parted == [L EXCEPT
            !.cohort = [i \in Slots |-> Passed(L.cohort[i], f, g, h[i])],
            !.doc[f] = parent, !.doc[g] = child]
           M == Made(L, L.dead, L.head, L.free, L.listed, L.given, L.person, C, D)
           n == d.n - Total(h)
           rest == Less(d.slices, h)
<1>0. Sane(L)
  BY DEF Good
<1>1. /\ L \in Ledgers /\ L.cohort \in [Slots -> Cohorts] /\ d \in Docs
      /\ L.doc \in [Formations -> Docs \cup {None}]
      /\ d.n \in Int /\ d.comp \in [Roles -> Int] /\ d.est \in [Roles -> Int]
      /\ d.slices \in [Slots -> Nat] /\ d.slices \in [Slots -> Int] /\ d.at \in Places
      /\ d.lost \in BOOLEAN
  BY <1>0, LedgerFields, DocFields DEF Sane
<1>2. h \in [Slots -> Nat] /\ h \in [Slots -> Int] /\ \A i \in Slots : h[i] <= d.slices[i]
  <2>1. h \in [Slots -> 0..k] /\ \A i \in Slots : h[i] <= d.slices[i]
    BY DEF Partitions
  <2>2. 0..k \subseteq Nat
    OBVIOUS
  <2> QED BY <2>1, <2>2
<1>3. moved \in [Roles -> Int]
  <2>1. ASSUME NEW r \in Roles
        PROVE  SumFunctionOnSet(h, {i \in Slots : L.cohort[i].role = r}) \in Int
    <3> DEFINE S == {i \in Slots : L.cohort[i].role = r}
    <3>1. IsFiniteSet(S)
      BY Finite, FS_Subset
    <3>2. \A i \in S : h[i] \in Int
      BY <1>2
    <3> HIDE DEF S
    <3>3. SumFunctionOnSet(h, S) \in Int
      BY <3>1, <3>2, SumInt
    <3> QED BY <3>3 DEF S
  <2> QED BY <2>1
<1>4. Partition(L, f, g, h, est) = Refuse(L)
      \/ /\ \A i \in Slots : ~(h[i] > L.cohort[i].held[f])
         /\ d.comp \in {Plus(stay, moved), stay}
         /\ Partition(L, f, g, h, est) = Check(Listed(Listed(parted, f), g))
  BY Zenon DEF Partition
<1>m. moved = HeldOf(L.cohort, h) /\ stay = Stays(L, f, h)
  BY Zenon DEF HeldOf, Stays
<1> HIDE DEF moved
<1>5. stay \in [Roles -> Int]
  <2> DEFINE x == SlicesBy(L, f)
             y == EmbeddedBy(L, f)
             z == Plus(x, y)
  <2>1. x \in [Roles -> Int] /\ y \in [Roles -> Int]
    BY <1>0, ByRole
  <2> HIDE DEF x, y
  <2>2. z \in [Roles -> Int]
    BY <2>1, PlusIs
  <2> HIDE DEF z
  <2>3. Less(z, moved) \in [Roles -> Int]
    BY <1>3, <2>2, LessIs
  <2> QED BY <2>3 DEF z, x, y
<1> HIDE DEF stay, d
<1>6. est \in [Roles -> Int]
  BY <1>1, SharesIs DEF d
<1>7. child \in Docs /\ child.n = Total(moved) /\ child.comp = moved /\ child.slices = h
  <2> DEFINE x == Doc(d.at, moved, h)
  <2>1. x \in Docs
    BY <1>1, <1>2, <1>3, DocIs
  <2>2. x.n = Total(moved) /\ x.comp = moved /\ x.slices = h
    BY DEF Doc
  <2>3. child = [x EXCEPT !.est = est, !.lost = d.lost]
    BY DEF d
  <2> HIDE DEF x, child
  <2> QED BY <1>1, <1>6, <2>1, <2>2, <2>3 DEF Docs
<1>8. parent \in Docs /\ parent.n = n /\ parent.comp = stay /\ parent.slices = rest
  <2>1. Total(h) \in Int
    BY <1>2, Finite, TotalInt
  <2>2. Less(d.est, est) \in [Roles -> Int]
    BY <1>1, <1>6, LessIs
  <2>3. Less(d.slices, h) \in [Slots -> Nat]
    BY <1>1, <1>2, LessIs
  <2>4. d.n - Total(h) \in Int
    BY <1>1, <2>1
  <2> HIDE DEF n, rest
  <2> QED BY <1>1, <1>5, <2>2, <2>3, <2>4 DEF Docs, n, rest
<1>r. \A i \in Slots : rest[i] = d.slices[i] - h[i]
  BY <1>1, <1>2, LessIs
<1> HIDE DEF child, parent, rest
<1>9. /\ D \in [Formations -> Docs \cup {None}] /\ D[f] = parent /\ D[g] = child
      /\ \A e \in Formations \ {f, g} : D[e] = L.doc[e]
  BY <1>1, <1>7, <1>8, TwoDocs
<1>10. parted = M
  BY <1>1 DEF Made, Ledgers
<1> HIDE DEF D, parted, C
<1>11. ASSUME \A i \in Slots : ~(h[i] > L.cohort[i].held[f]) PROVE Sane(parted) /\ parted.doc = D
  <2>1. \A i \in Slots : Fit(Passed(L.cohort[i], f, g, h[i]))
    <3> SUFFICES ASSUME NEW i \in Slots PROVE Fit(Passed(L.cohort[i], f, g, h[i]))
      OBVIOUS
    <3>1. L.cohort[i] \in Cohorts /\ L.cohort[i].held \in [Formations -> Nat]
      BY <1>1, CohortFields
    <3>2. Fit(L.cohort[i])
      BY <1>0, <3>1 DEF Sane, Founded, Fit
    <3>3. h[i] \in Nat /\ h[i] <= L.cohort[i].held[f]
      BY <1>2, <1>11, <3>1
    <3> QED BY <3>2, <3>3, PassedFit
  <2>2. C \in [Slots -> Cohorts] /\ Founded(C)
    BY <2>1 DEF Fit, Founded, C
  <2>3. Allotted(L.listed, L.given, D)
    BY <1>0, <1>7, <1>8, <1>9, NoneIsNone DEF Sane, Allotted
  <2>4. /\ L.dead \in Int /\ L.head \in Int /\ L.free \in [Roles -> [Places -> Int]]
        /\ L.listed \in SUBSET Formations
        /\ L.given \in [Formations -> [n : Int, comp : [Roles -> Int]]]
        /\ L.person \in [People -> Persons] /\ Enrolled(L.person)
    BY <1>0, LedgerFields DEF Sane
  <2>5. Sane(M) /\ M.doc = D
    <3>1. Makes(L, L.dead, L.head, L.free, L.listed, L.given, L.person, C, D)
      BY <1>9, <2>2, <2>3, <2>4 DEF Makes
    <3> QED BY <1>0, <3>1, MadeSane
  <2> QED BY <1>10, <2>5
<1>12. ASSUME \A i \in Slots : ~(h[i] > L.cohort[i].held[f]), d.comp \in {Plus(stay, moved), stay}
       PROVE  PartedFrom(L, parted, f, g, h)
  <2>1. /\ parted.listed = L.listed /\ parted.given = L.given /\ parted.person = L.person
        /\ parted.ok = L.ok /\ parted.cohort = C
    BY <1>1, <1>10 DEF Made, Ledgers
  <2>2. parted.doc = D
    BY <1>11, <1>12
  <2>3. \A i \in Slots : h[i] <= L.cohort[i].held[f]
    <3> SUFFICES ASSUME NEW i \in Slots PROVE h[i] <= L.cohort[i].held[f]
      OBVIOUS
    <3>1. L.cohort[i] \in Cohorts
      BY <1>1
    <3> QED BY <1>2, <1>12, <3>1, CohortFields
  <2>4. \A i \in Slots : C[i] = Passed(L.cohort[i], f, g, h[i])
    BY DEF C
  <2> QED BY <1>7, <1>8, <1>9, <1>12, <1>m, <1>r, <2>1, <2>2, <2>3, <2>4 DEF PartedFrom, d, n
<1> HIDE DEF parted
<1> QED BY <1>2, <1>3, <1>4, <1>5, <1>11, <1>12, <1>m

LEMMA PartitionGood ==
  ASSUME NEW L, Good(L), NEW f \in Formations, NEW g \in Formations, f # g, L.doc[f] # None,
         NEW k \in Int, NEW h \in Partitions(L, f, k), NEW est \in Shares(L.doc[f].est, k)
  PROVE  Good(Partition(L, f, g, h, est))
<1>1. ASSUME NEW M, Sane(M), PartedFrom(L, M, f, g, h) PROVE Good(Check(Listed(Listed(M, f), g)))
  <2>1. M.doc[f] # None /\ M.doc[g] # None
    BY <1>1, NoneIsNone DEF PartedFrom
  <2> DEFINE X == Listed(M, f)
  <2>2. Sane(X) /\ X.doc = M.doc
    BY <1>1, <2>1, ListedSane
  <2> HIDE DEF X
  <2>3. Sane(Listed(X, g))
    BY <2>1, <2>2, ListedSane
  <2> QED BY <2>3, CheckGood DEF X
<1>2. Good(Refuse(L))
  BY RefuseGood DEF Good
<1> QED BY <1>1, <1>2, PartitionIs

\* M is L with the members of g in f.
AbsorbedIn(L, M, f, g) ==
    /\ M.ok = L.ok /\ M.listed = L.listed \ {g}
    /\ \A x \in Formations \ {g} : M.given[x] = L.given[x]
    /\ \A i \in Slots : M.cohort[i] = Passed(L.cohort[i], g, f, L.doc[g].slices[i])
    /\ M.doc[f] \in Docs /\ M.doc[g] = None
    /\ \A x \in Formations \ {f, g} : M.doc[x] = L.doc[x]
    /\ M.doc[f].n = L.doc[f].n + L.doc[g].n /\ M.doc[f].comp = Plus(L.doc[f].comp, L.doc[g].comp)
    /\ \A i \in Slots : M.doc[f].slices[i] = L.doc[f].slices[i] + L.doc[g].slices[i]

LEMMA AbsorbIs ==
  ASSUME NEW L, Good(L), NEW f \in Formations, NEW g \in Formations, f # g,
         L.doc[f] # None, L.doc[g] # None
  PROVE  \/ Absorb(L, f, g) = Refuse(L)
         \/ \E M : Absorb(L, f, g) = Check(Listed(M, f)) /\ Sane(M) /\ AbsorbedIn(L, M, f, g)
<1> DEFINE U == Unlisted(L, g)
           d == L.doc[f]
           e == L.doc[g]
           joined == [d EXCEPT !.n = d.n + e.n, !.comp = Plus(d.comp, e.comp),
                               !.est = Plus(d.est, e.est), !.slices = Plus(d.slices, e.slices)]
           C == [i \in Slots |-> Passed(L.cohort[i], g, f, e.slices[i])]
           P == Moved(L.person, Embedded(L, g), f)
           D == [[U.doc EXCEPT ![f] = joined] EXCEPT ![g] = None]
           merged == [U EXCEPT
            !.doc[f] = joined,
            !.doc[g] = None,
            !.cohort = [i \in Slots |-> Passed(L.cohort[i], g, f, e.slices[i])],
            !.person = Moved(L.person, Embedded(L, g), f)]
           M == Made(U, U.dead, U.head, U.free, U.listed, U.given, P, C, D)
           n == d.n + e.n
           comp == Plus(d.comp, e.comp)
           both == Plus(d.slices, e.slices)
<1>0. Sane(L)
  BY DEF Good
<1>1. /\ L.cohort \in [Slots -> Cohorts] /\ d \in Docs /\ e \in Docs
      /\ L.doc \in [Formations -> Docs \cup {None}]
      /\ d.n \in Int /\ d.comp \in [Roles -> Int] /\ d.est \in [Roles -> Int]
      /\ d.slices \in [Slots -> Nat] /\ d.slices \in [Slots -> Int]
      /\ e.n \in Int /\ e.comp \in [Roles -> Int] /\ e.est \in [Roles -> Int]
      /\ e.slices \in [Slots -> Nat] /\ e.slices \in [Slots -> Int]
      /\ L.person \in [People -> Persons] /\ Enrolled(L.person)
  BY <1>0, LedgerFields, DocFields DEF Sane
<1>2. /\ Sane(U) /\ U.doc = L.doc /\ g \notin U.listed /\ U.given[g].n = 0
  BY <1>0, UnlistedSane
<1>u. /\ U.ok = L.ok /\ U.listed = L.listed \ {g}
      /\ \A x \in Formations \ {g} : U.given[x] = L.given[x]
  <2> DEFINE G == [L.given EXCEPT ![g] = [n |-> 0, comp |-> Zero(Roles)]]
  <2>1. \A x \in Formations \ {g} : G[x] = L.given[x]
    BY <1>0, LedgerFields DEF Sane
  <2> HIDE DEF G
  <2>2. U.ok = L.ok /\ U.listed = L.listed \ {g} /\ U.given = G
    BY <1>0 DEF Unlisted, Sane, Ledgers, G
  <2> QED BY <2>1, <2>2
<1>3. Absorb(L, f, g) = Refuse(L)
      \/ /\ \A i \in Slots : ~(e.slices[i] > 0 /\ L.cohort[i].held[g] # e.slices[i])
         /\ Absorb(L, f, g) = Check(Listed(merged, f))
  BY Zenon DEF Absorb
<1> HIDE DEF U, d, e
<1>4. joined \in Docs /\ joined.n = n /\ joined.comp = comp /\ joined.slices = both
  <2>1. /\ Plus(d.comp, e.comp) \in [Roles -> Int] /\ Plus(d.est, e.est) \in [Roles -> Int]
        /\ Plus(d.slices, e.slices) \in [Slots -> Nat]
    BY <1>1, PlusIs
  <2>2. d.n + e.n \in Int
    BY <1>1
  <2> HIDE DEF n, comp, both
  <2> QED BY <1>1, <2>1, <2>2 DEF Docs, n, comp, both
<1>b. \A i \in Slots : both[i] = d.slices[i] + e.slices[i]
  BY <1>1, PlusIs
<1> HIDE DEF both
<1>5. P \in [People -> Persons] /\ Enrolled(P)
  <2>1. \A p \in People : p \in Embedded(L, g) => L.person[p].role \in Roles
    BY <1>1 DEF Embedded, Enrolled
  <2> QED BY <1>1, <2>1, MovedIs
<1> HIDE DEF joined, P
<1>6. /\ D \in [Formations -> Docs \cup {None}] /\ D[f] = joined /\ D[g] = None
      /\ \A x \in Formations \ {f, g} : D[x] = L.doc[x]
  BY <1>1, <1>2, <1>4, TwoDocs
<1>7. merged = M
  BY <1>2 DEF Made, Ledgers, Sane, P
<1> HIDE DEF D, merged, C
<1>8. ASSUME \A i \in Slots : ~(e.slices[i] > 0 /\ L.cohort[i].held[g] # e.slices[i])
      PROVE  Sane(merged) /\ merged.doc = D
  <2>1. \A i \in Slots : Fit(Passed(L.cohort[i], g, f, e.slices[i]))
    <3> SUFFICES ASSUME NEW i \in Slots PROVE Fit(Passed(L.cohort[i], g, f, e.slices[i]))
      OBVIOUS
    <3>1. L.cohort[i] \in Cohorts /\ L.cohort[i].held \in [Formations -> Nat]
      BY <1>1, CohortFields
    <3>2. Fit(L.cohort[i])
      BY <1>0, <3>1 DEF Sane, Founded, Fit
    <3>3. e.slices[i] \in Nat /\ e.slices[i] <= L.cohort[i].held[g]
      BY <1>1, <1>8, <3>1
    <3> QED BY <3>2, <3>3, PassedFit
  <2>2. C \in [Slots -> Cohorts] /\ Founded(C)
    BY <2>1 DEF Fit, Founded, C
  <2>3. Allotted(U.listed, U.given, D)
    <3>1. joined # None
      BY <1>4, NoneIsNone
    <3>2. Allotted(U.listed, U.given, L.doc)
      BY <1>2 DEF Sane
    <3> QED BY <1>2, <1>6, <3>1, <3>2 DEF Allotted
  <2>4. /\ U.dead \in Int /\ U.head \in Int /\ U.free \in [Roles -> [Places -> Int]]
        /\ U.listed \in SUBSET Formations
        /\ U.given \in [Formations -> [n : Int, comp : [Roles -> Int]]]
    BY <1>2, LedgerFields DEF Sane
  <2>5. Makes(U, U.dead, U.head, U.free, U.listed, U.given, P, C, D)
    BY <1>5, <1>6, <2>2, <2>3, <2>4 DEF Makes
  <2> QED BY <1>2, <1>7, <2>5, MadeSane
<1>9. ASSUME merged.doc = D PROVE AbsorbedIn(L, merged, f, g)
  <2>1. merged.ok = U.ok /\ merged.listed = U.listed /\ merged.given = U.given /\ merged.cohort = C
    BY <1>2, <1>7 DEF Made, Ledgers, Sane
  <2>2. \A i \in Slots : C[i] = Passed(L.cohort[i], g, f, e.slices[i])
    BY DEF C
  <2> QED BY <1>4, <1>6, <1>9, <1>b, <1>u, <2>1, <2>2 DEF AbsorbedIn, d, e, n, comp
<1> HIDE DEF merged
<1> QED BY <1>3, <1>8, <1>9

LEMMA AbsorbGood ==
  ASSUME NEW L, Good(L), NEW f \in Formations, NEW g \in Formations, f # g,
         L.doc[f] # None, L.doc[g] # None
  PROVE  Good(Absorb(L, f, g))
<1>1. ASSUME NEW M, Sane(M), AbsorbedIn(L, M, f, g) PROVE Good(Check(Listed(M, f)))
  <2>1. M.doc[f] # None
    BY <1>1, NoneIsNone DEF AbsorbedIn
  <2>2. Sane(Listed(M, f))
    BY <1>1, <2>1, ListedSane
  <2> QED BY <2>2, CheckGood
<1>2. Good(Refuse(L))
  BY RefuseGood DEF Good
<1> QED BY <1>1, <1>2, AbsorbIs

\* M is L without f, its anonymous members in the reserve of its place.
DisbandedIn(L, M, f) ==
    /\ M.ok = L.ok /\ M.listed = L.listed \ {f}
    /\ \A x \in Formations \ {f} : M.given[x] = L.given[x] /\ M.doc[x] = L.doc[x]
    /\ M.doc[f] = None
    /\ \A i \in Slots : M.cohort[i] = Freed(L.cohort[i], f, L.doc[f].at, L.doc[f].slices[i])

LEMMA DisbandIs ==
  ASSUME NEW L, Good(L), NEW f \in Formations, L.doc[f] # None
  PROVE  \/ Disband(L, f) = Refuse(L)
         \/ \E M : Disband(L, f) = Check(M) /\ Sane(M) /\ DisbandedIn(L, M, f)
<1> DEFINE U == Unlisted(L, f)
           d == L.doc[f]
           F == [r \in Roles |-> More(L.free[r], d.at, d.comp[r])]
           C == [i \in Slots |-> Freed(L.cohort[i], f, d.at, d.slices[i])]
           P == Moved(L.person, Embedded(L, f), "own")
           D == [U.doc EXCEPT ![f] = None]
           returned == [U EXCEPT
            !.free = [r \in Roles |-> More(L.free[r], d.at, d.comp[r])],
            !.cohort = [i \in Slots |-> Freed(L.cohort[i], f, d.at, d.slices[i])],
            !.person = Moved(L.person, Embedded(L, f), "own"),
            !.doc[f] = None]
           M == Made(U, U.dead, U.head, F, U.listed, U.given, P, C, D)
<1>0. Sane(L)
  BY DEF Good
<1>1. /\ L.cohort \in [Slots -> Cohorts] /\ d \in Docs
      /\ L.doc \in [Formations -> Docs \cup {None}] /\ L.free \in [Roles -> [Places -> Int]]
      /\ d.comp \in [Roles -> Int] /\ d.slices \in [Slots -> Nat] /\ d.at \in Places
      /\ L.person \in [People -> Persons] /\ Enrolled(L.person)
  BY <1>0, LedgerFields, DocFields DEF Sane
<1>2. /\ Sane(U) /\ U.doc = L.doc /\ f \notin U.listed /\ U.given[f].n = 0
  BY <1>0, UnlistedSane
<1>u. /\ U.ok = L.ok /\ U.listed = L.listed \ {f}
      /\ \A x \in Formations \ {f} : U.given[x] = L.given[x]
  <2> DEFINE G == [L.given EXCEPT ![f] = [n |-> 0, comp |-> Zero(Roles)]]
  <2>1. \A x \in Formations \ {f} : G[x] = L.given[x]
    BY <1>0, LedgerFields DEF Sane
  <2> HIDE DEF G
  <2>2. U.ok = L.ok /\ U.listed = L.listed \ {f} /\ U.given = G
    BY <1>0 DEF Unlisted, Sane, Ledgers, G
  <2> QED BY <2>1, <2>2
<1>3. Disband(L, f) = Refuse(L)
      \/ /\ \A i \in Slots : ~(L.cohort[i].held[f] < d.slices[i])
         /\ Disband(L, f) = Check(returned)
  BY Zenon DEF Disband
<1> HIDE DEF U, d
<1>4. F \in [Roles -> [Places -> Int]]
  <2>1. \A r \in Roles : More(L.free[r], d.at, d.comp[r]) \in [Places -> Int]
    BY <1>1, MoreIs
  <2> QED BY <2>1
<1>5. P \in [People -> Persons] /\ Enrolled(P)
  <2>1. "own" \notin Formations
    BY NoneIsNone
  <2> QED BY <1>1, <2>1, MovedIs
<1> HIDE DEF P
<1>6. /\ D \in [Formations -> Docs \cup {None}] /\ D[f] = None
      /\ \A x \in Formations \ {f} : D[x] = L.doc[x]
  BY <1>1, <1>2
<1>7. returned = M
  BY <1>2 DEF Made, Ledgers, Sane, P
<1> HIDE DEF D, returned, C, F
<1>8. ASSUME \A i \in Slots : ~(L.cohort[i].held[f] < d.slices[i])
      PROVE  Sane(returned) /\ returned.doc = D
  <2>1. \A i \in Slots : Fit(Freed(L.cohort[i], f, d.at, d.slices[i]))
    <3> SUFFICES ASSUME NEW i \in Slots PROVE Fit(Freed(L.cohort[i], f, d.at, d.slices[i]))
      OBVIOUS
    <3>1. L.cohort[i] \in Cohorts /\ L.cohort[i].held \in [Formations -> Nat]
      BY <1>1, CohortFields
    <3>2. Fit(L.cohort[i])
      BY <1>0, <3>1 DEF Sane, Founded, Fit
    <3>3. d.slices[i] \in Nat /\ d.slices[i] <= L.cohort[i].held[f]
      BY <1>1, <1>8, <3>1
    <3> QED BY <1>1, <3>2, <3>3, FreedFit
  <2>2. C \in [Slots -> Cohorts] /\ Founded(C)
    BY <2>1 DEF Fit, Founded, C
  <2>3. Allotted(U.listed, U.given, D)
    <3>1. Allotted(U.listed, U.given, L.doc)
      BY <1>2 DEF Sane
    <3> QED BY <1>2, <1>6, <3>1 DEF Allotted
  <2>4. /\ U.dead \in Int /\ U.head \in Int /\ U.listed \in SUBSET Formations
        /\ U.given \in [Formations -> [n : Int, comp : [Roles -> Int]]]
    BY <1>2, LedgerFields DEF Sane
  <2>5. Makes(U, U.dead, U.head, F, U.listed, U.given, P, C, D)
    BY <1>4, <1>5, <1>6, <2>2, <2>3, <2>4 DEF Makes
  <2> QED BY <1>2, <1>7, <2>5, MadeSane
<1>9. ASSUME returned.doc = D PROVE DisbandedIn(L, returned, f)
  <2>1. returned.ok = U.ok /\ returned.listed = U.listed /\ returned.given = U.given
        /\ returned.cohort = C
    BY <1>2, <1>7 DEF Made, Ledgers, Sane
  <2>2. \A i \in Slots : C[i] = Freed(L.cohort[i], f, d.at, d.slices[i])
    BY DEF C
  <2> QED BY <1>6, <1>9, <1>u, <2>1, <2>2 DEF DisbandedIn, d
<1> HIDE DEF returned
<1> QED BY <1>3, <1>8, <1>9

LEMMA DisbandGood ==
  ASSUME NEW L, Good(L), NEW f \in Formations, L.doc[f] # None
  PROVE  Good(Disband(L, f))
<1>1. Good(Refuse(L))
  BY RefuseGood DEF Good
<1> QED BY <1>1, DisbandIs, CheckGood

-----------------------------------------------------------------------------
(* Battles. *)

LEMMA TrimGood ==
  ASSUME NEW L, Good(L), NEW f \in Formations, L.doc[f] # None, NEW k \in Int,
         NEW h \in Falls(L, f, k), NEW killed \in SUBSET People
  PROVE  Good(Trim(L, f, h, killed))
<1> DEFINE loss == Total(h) + Cardinality(killed)
           d == L.doc[f]
           e == [d EXCEPT !.n = d.n - loss, !.lost = (d.n = loss), !.slices = Less(d.slices, h)]
           P == Moved(L.person, killed, "gone")
           C == [i \in Slots |-> Spent(L.cohort[i], f, h[i])]
           D == [L.doc EXCEPT ![f] = e]
           left == [L EXCEPT
            !.head = L.head - loss, !.dead = L.dead + loss,
            !.person = Moved(L.person, killed, "gone"),
            !.cohort = [i \in Slots |-> Spent(L.cohort[i], f, h[i])],
            !.doc[f] = e]
           M == Made(L, L.dead + loss, L.head - loss, L.free, L.listed, L.given, P, C, D)
           comp == Plus(SlicesBy(left, f), EmbeddedBy(left, f))
           done == [left EXCEPT !.doc[f].comp = comp]
<1>0. Sane(L)
  BY DEF Good
<1>1. /\ L.cohort \in [Slots -> Cohorts] /\ d \in Docs
      /\ L.doc \in [Formations -> Docs \cup {None}]
      /\ d.n \in Int /\ d.slices \in [Slots -> Nat] /\ d.slices \in [Slots -> Int]
      /\ L.person \in [People -> Persons] /\ Enrolled(L.person)
      /\ L.dead \in Int /\ L.head \in Int
  BY <1>0, LedgerFields, DocFields DEF Sane
<1>2. h \in [Slots -> Int] /\ \A i \in Slots : h[i] <= d.slices[i]
  <2>1. h \in Shares(d.slices, k) /\ \A i \in Slots : h[i] <= d.slices[i]
    BY DEF Falls
  <2> QED BY <1>1, <2>1, SharesIs
<1>n. h \in [Slots -> Nat]
  <2>1. h = d.slices \/ h \in [DOMAIN d.slices -> 0..k]
    BY DEF Falls, Shares
  <2>2. DOMAIN d.slices = Slots
    BY <1>1
  <2>3. 0..k \subseteq Nat
    OBVIOUS
  <2> HIDE DEF d
  <2> QED BY <1>1, <2>1, <2>2, <2>3
<1>3. loss \in Int
  <2>1. Total(h) \in Int
    BY <1>2, Finite, TotalInt
  <2>2. IsFiniteSet(killed)
    BY Finite, FS_Subset
  <2>3. Cardinality(killed) \in Nat
    BY <2>2, FS_CardinalityType
  <2> QED BY <2>1, <2>3
<1>4. Trim(L, f, h, killed) = Refuse(L)
      \/ /\ \A i \in Slots : ~(L.cohort[i].held[f] < h[i])
         /\ Trim(L, f, h, killed) \in {Check(Listed(done, f)), Check(Unlisted(done, f))}
  BY DEF Trim
<1> HIDE DEF loss, d
<1>5. e \in Docs
  <2>1. Less(d.slices, h) \in [Slots -> Nat]
    BY <1>1, <1>2, <1>n, LessIs
  <2>2. d.n - loss \in Int /\ (d.n = loss) \in BOOLEAN
    BY <1>1, <1>3
  <2> QED BY <1>1, <2>1, <2>2 DEF Docs
<1>6. P \in [People -> Persons] /\ Enrolled(P)
  <2>1. "gone" \notin Formations
    BY NoneIsNone
  <2> QED BY <1>1, <2>1, MovedIs
<1> HIDE DEF P, e
<1>7. /\ D \in [Formations -> Docs \cup {None}] /\ D[f] = e
      /\ \A x \in Formations \ {f} : D[x] = L.doc[x]
  BY <1>1, <1>5
<1>8. left = M
  BY <1>0 DEF Made, Ledgers, Sane, P
<1> HIDE DEF D, C
<1>9. ASSUME \A i \in Slots : ~(L.cohort[i].held[f] < h[i])
      PROVE  Sane(M) /\ M.doc = D
  <2>1. \A i \in Slots : Fit(Spent(L.cohort[i], f, h[i]))
    <3> SUFFICES ASSUME NEW i \in Slots PROVE Fit(Spent(L.cohort[i], f, h[i]))
      OBVIOUS
    <3>1. L.cohort[i] \in Cohorts /\ L.cohort[i].held \in [Formations -> Nat]
      BY <1>1, CohortFields
    <3>2. Fit(L.cohort[i])
      BY <1>0, <3>1 DEF Sane, Founded, Fit
    <3>3. h[i] \in Nat /\ h[i] <= L.cohort[i].held[f]
      BY <1>n, <1>9, <3>1
    <3> QED BY <3>2, <3>3, SpentFit
  <2>2. C \in [Slots -> Cohorts] /\ Founded(C)
    BY <2>1 DEF Fit, Founded, C
  <2>3. Allotted(L.listed, L.given, D)
    <3>1. e # None
      BY <1>5, NoneIsNone
    <3> QED BY <1>0, <1>7, <3>1 DEF Sane, Allotted
  <2>4. /\ L.free \in [Roles -> [Places -> Int]] /\ L.listed \in SUBSET Formations
        /\ L.given \in [Formations -> [n : Int, comp : [Roles -> Int]]]
    BY <1>0, LedgerFields DEF Sane
  <2>5. /\ L.dead + loss \in Int /\ L.head - loss \in Int
        /\ (L.dead + loss) + (L.head - loss) = L.dead + L.head
    BY <1>1, <1>3
  <2> DEFINE a == L.dead + loss
             b == L.head - loss
  <2> HIDE DEF a, b
  <2>6. Makes(L, a, b, L.free, L.listed, L.given, P, C, D)
    BY <1>6, <1>7, <2>2, <2>3, <2>4, <2>5 DEF Makes, a, b
  <2> QED BY <1>0, <2>6, MadeSane DEF a, b
<1> HIDE DEF left, M
<1>10. ASSUME Sane(left), left.doc = D
       PROVE  Good(Check(Listed(done, f))) /\ Good(Check(Unlisted(done, f)))
  <2>1. left.doc[f] # None /\ left.doc[f] \in Docs /\ left \in Ledgers
    BY <1>5, <1>7, <1>10, NoneIsNone DEF Sane
  <2> DEFINE u == [left.doc[f] EXCEPT !.comp = comp]
  <2>2. comp \in [Roles -> Int]
    <3> DEFINE x == SlicesBy(left, f)
               y == EmbeddedBy(left, f)
    <3>1. x \in [Roles -> Int] /\ y \in [Roles -> Int]
      BY <1>10, <2>1, ByRole
    <3> HIDE DEF x, y
    <3>2. Plus(x, y) \in [Roles -> Int]
      BY <3>1, PlusIs
    <3> QED BY <3>2 DEF x, y
  <2> HIDE DEF comp
  <2>3. u \in Docs
    BY <2>1, <2>2 DEF Docs
  <2>4. done = Rewritten(left, f, u)
    BY <2>1 DEF Rewritten, Ledgers
  <2> HIDE DEF u, done
  <2>5. Sane(done) /\ done.doc[f] # None
    BY <1>10, <2>3, <2>4, RewriteSane
  <2>6. Sane(Listed(done, f)) /\ Sane(Unlisted(done, f))
    BY <2>5, ListedSane, UnlistedSane
  <2> QED BY <2>6, CheckGood
<1>11. Good(Refuse(L))
  BY <1>0, RefuseGood
<1> QED BY <1>4, <1>8, <1>9, <1>10, <1>11

-----------------------------------------------------------------------------
(* The review. *)

\* What the force is told of a formation may be anything, once there is a document.
ToldOf(L, f, r) == [L EXCEPT !.listed = L.listed \cup {f}, !.given = [L.given EXCEPT ![f] = r]]

LEMMA ToldSane ==
  ASSUME NEW L, Sane(L), NEW f \in Formations, L.doc[f] # None,
         NEW r \in [n : Int, comp : [Roles -> Int]]
  PROVE  Sane(ToldOf(L, f, r))
<1> DEFINE Y == L.listed \cup {f}
           G == [L.given EXCEPT ![f] = r]
           M == ToldOf(L, f, r)
<1>1. /\ L \in Ledgers /\ L.listed \in SUBSET Formations
      /\ L.given \in [Formations -> [n : Int, comp : [Roles -> Int]]]
      /\ L.dead \in Int /\ L.head \in Int /\ L.free \in [Roles -> [Places -> Int]]
      /\ L.person \in [People -> Persons] /\ L.cohort \in [Slots -> Cohorts]
      /\ L.doc \in [Formations -> Docs \cup {None}]
  BY LedgerFields DEF Sane
<1>2. /\ G \in [Formations -> [n : Int, comp : [Roles -> Int]]]
      /\ \A g \in Formations \ {f} : G[g] = L.given[g]
  BY <1>1
<1>3. Y \in SUBSET Formations /\ f \in Y /\ \A g \in Formations \ {f} : g \in Y <=> g \in L.listed
  BY <1>1
<1>4. M = Made(L, L.dead, L.head, L.free, Y, G, L.person, L.cohort, L.doc)
  BY <1>1 DEF ToldOf, Made, Ledgers
<1> HIDE DEF Y, G, M
<1>5. Allotted(Y, G, L.doc)
  BY <1>2, <1>3 DEF Sane, Allotted
<1>6. Makes(L, L.dead, L.head, L.free, Y, G, L.person, L.cohort, L.doc)
  BY <1>1, <1>2, <1>3, <1>5 DEF Makes, Sane
<1> QED BY <1>4, <1>6, MadeSane DEF M

LEMMA BlueprintGood ==
  ASSUME NEW L0, Good(L0) PROVE Good(Blueprint(L0))
<1> DEFINE L == IF Exists(L0, Standing) THEN Ensure(L0, Standing) ELSE L0
           d == L.doc[Standing]
           take == AtMost(Minus(Target, d.n), L.free[Line][d.at])
           only(k) == Only(Roles, Line, k)
           comp == [r \in Roles |-> IF r = Line THEN d.n + take ELSE d.comp[r]]
           R == Reinforce(L, Standing, only(take))
           filled == [R EXCEPT !.doc[Standing].comp = comp]
           r == [n |-> d.n + take, comp |-> only(d.n + take)]
           given == [filled EXCEPT !.listed = @ \union {Standing}, !.given[Standing] = r]
           x == Doc(Home, only(Target), Zero(Slots))
           new == [L EXCEPT !.doc[Standing] = x]
           U == Muster(new, Standing, only(Target), Home)
<1>0. Standing \in Formations /\ Line \in Roles /\ Home \in Places /\ Target \in Int
  BY ForceAssumption
<1>1. Good(L)
  BY <1>0, EnsureGood DEF Exists
<1>2. \/ Blueprint(L0) = L
      \/ Exists(L, Standing) /\ Blueprint(L0) = Check(given)
      \/ Blueprint(L0) = Check(Listed(U, Standing))
  BY Zenon DEF Blueprint
<1> HIDE DEF L
<1>3. L \in Ledgers /\ L.doc \in [Formations -> Docs \cup {None}]
  BY <1>1, LedgerFields DEF Good, Sane
<1>4. ASSUME Exists(L, Standing) PROVE Sane(given)
  <2>1. /\ d \in Docs /\ d.n \in Int /\ d.at \in Places /\ L.free[Line][d.at] \in Int
        /\ d.comp \in [Roles -> Int] /\ L.doc[Standing] # None
    BY <1>0, <1>3, <1>4, LedgerFields, DocFields DEF Exists
  <2> HIDE DEF d
  <2>2. take \in Int
    BY <1>0, <2>1 DEF AtMost, Minus
  <2> HIDE DEF take
  <2>3. only(take) \in [Roles -> Int] /\ only(d.n + take) \in [Roles -> Int]
    <3>1. d.n + take \in Int
      BY <2>1, <2>2
    <3> QED BY <2>2, <3>1, OnlyIs
  <2>4. comp \in [Roles -> Int]
    BY <2>1, <2>2
  <2>5. r \in [n : Int, comp : [Roles -> Int]]
    BY <2>1, <2>2, <2>3
  <2> HIDE DEF only, comp, r
  <2>6. Sane(R) /\ R.doc[Standing] # None
    <3>1. Sane(R) /\ Mustered(L, R, Standing)
      BY <1>0, <1>1, <2>1, <2>3, ReinforceSane DEF Good
    <3> QED BY <3>1 DEF Mustered
  <2> HIDE DEF R
  <2>7. R \in Ledgers /\ R.doc[Standing] \in Docs
    BY <1>0, <2>6, DocFields DEF Sane
  <2> DEFINE u == [R.doc[Standing] EXCEPT !.comp = comp]
  <2>8. u \in Docs
    BY <2>4, <2>7 DEF Docs
  <2>9. filled = Rewritten(R, Standing, u)
    BY <2>7 DEF Rewritten, Ledgers
  <2> HIDE DEF u, filled
  <2>10. Sane(filled) /\ filled.doc[Standing] # None
    BY <1>0, <2>6, <2>8, <2>9, RewriteSane
  <2>11. given = ToldOf(filled, Standing, r)
    BY <2>10 DEF ToldOf, Sane, Ledgers
  <2> HIDE DEF given
  <2> QED BY <1>0, <2>5, <2>10, <2>11, ToldSane
<1>5. Sane(Listed(U, Standing))
  <2>1. only(Target) \in [Roles -> Int] /\ Zero(Slots) \in [Slots -> Nat]
    BY <1>0, OnlyIs DEF Zero
  <2>2. x \in Docs
    BY <1>0, <2>1, DocIs
  <2>3. new = Rewritten(L, Standing, x)
    BY <1>3 DEF Rewritten, Ledgers
  <2> HIDE DEF x, new, only
  <2>4. Sane(new) /\ new.doc[Standing] # None
    BY <1>0, <1>1, <2>2, <2>3, RewriteSane DEF Good
  <2>5. Sane(U) /\ U.doc[Standing] # None
    <3>1. Sane(U) /\ Mustered(new, U, Standing)
      BY <1>0, <2>1, <2>4, MusterSane
    <3> QED BY <3>1 DEF Mustered
  <2> HIDE DEF U
  <2> QED BY <1>0, <2>5, ListedSane
<1> HIDE DEF given, U
<1> QED BY <1>1, <1>2, <1>4, <1>5, CheckGood

LEMMA ReplaceGood ==
  ASSUME NEW L, Good(L), NEW f \in Formations PROVE Good(Replace(L, f))
<1> DEFINE adds == Replacements(L, f)
           R == Reinforce(L, f, adds)
           N == Normal(R, f)
<1>1. Replace(L, f) = L \/ (L.doc[f] # None /\ Replace(L, f) = Check(Listed(N, f)))
  BY Zenon DEF Replace, Exists
<1>2. ASSUME L.doc[f] # None PROVE Sane(Listed(N, f))
  <2>0. Sane(L)
    BY DEF Good
  <2>1. adds \in [Roles -> Int]
    <3> DEFINE d == L.doc[f]
    <3>1. /\ d.est \in [Roles -> Int] /\ d.comp \in [Roles -> Int] /\ d.at \in Places
          /\ L.free \in [Roles -> [Places -> Int]]
      BY <1>2, <2>0, LedgerFields, DocFields DEF Sane
    <3> DEFINE v(q) == AtMost(Minus(d.est[q], d.comp[q]), L.free[q][d.at])
    <3>2. ASSUME NEW q \in Roles PROVE v(q) \in Int
      <4>1. d.est[q] \in Int /\ d.comp[q] \in Int /\ L.free[q][d.at] \in Int
        BY <3>1
      <4> HIDE DEF d
      <4> QED BY <4>1 DEF AtMost, Minus
    <3>3. adds = [q \in Roles |-> v(q)]
      BY DEF Replacements
    <3> HIDE DEF v, adds
    <3> QED BY <3>2, <3>3
  <2> HIDE DEF adds
  <2>2. Sane(R) /\ R.doc[f] # None
    <3>1. Sane(R) /\ Mustered(L, R, f)
      BY <1>2, <2>0, <2>1, ReinforceSane
    <3> QED BY <3>1 DEF Mustered
  <2> HIDE DEF R
  <2>3. Sane(N) /\ N.doc[f] # None
    BY <2>2, NormalSane
  <2> HIDE DEF N
  <2> QED BY <2>3, ListedSane
<1> HIDE DEF N
<1> QED BY <1>1, <1>2, CheckGood

LEMMA TrainGood ==
  ASSUME NEW L, Good(L), NEW f \in Formations PROVE Good(Train(L, f))
BY IsolateGood DEF Train, Exists

\* Every formation, each once.
Listing(s) == s \in [1..Cardinality(Formations) -> Formations]

LEMMA EachListing == Listing(SetToSeq(Formations))
<1> DEFINE B == 1..Cardinality(Formations)
<1>1. ExistsBijection(B, Formations)
  BY Finite, FS_CardinalityType
<1>2. \E s \in [B -> Formations] : IsInjective(s)
  BY <1>1 DEF ExistsBijection, Bijection, Injection
<1> HIDE DEF B
<1>3. (CHOOSE s \in [B -> Formations] : IsInjective(s)) \in [B -> Formations]
  BY <1>2
<1> QED BY <1>3 DEF SetToSeq, Listing, B

GoodOnes == {L \in Ledgers : Good(L)}

\* A fold over a listing takes the last place first.
LastOf(D) == [t \in SUBSET D |-> Max(t)]

LEMMA ListingPlaces ==
  ASSUME NEW s, Listing(s), NEW D, D = DOMAIN s
  PROVE  /\ IsFiniteSet(D) /\ \A i \in D : s[i] \in Formations
         /\ Picks(LastOf(D), D)
         /\ \A t \in SUBSET D : t # {} => LastOf(D)[t] = Max(t) /\ Max(t) \in t
<1>1. D = 1..Cardinality(Formations) /\ \A i \in D : s[i] \in Formations
  BY DEF Listing
<1>2. IsFiniteSet(D) /\ D \subseteq Int
  <2> DEFINE n == Cardinality(Formations)
  <2>1. n \in Nat
    BY Finite, FS_CardinalityType
  <2>2. n \in Int /\ 1 \in Int /\ D = 1..n
    BY <1>1, <2>1
  <2> HIDE DEF n
  <2> QED BY <2>2, FS_Interval
<1>3. \A t \in SUBSET D : t # {} => LastOf(D)[t] = Max(t) /\ Max(t) \in t
  <2> SUFFICES ASSUME NEW t \in SUBSET D, t # {} PROVE LastOf(D)[t] = Max(t) /\ Max(t) \in t
    OBVIOUS
  <2>1. IsFiniteSet(t) /\ t \subseteq Int
    BY <1>2, FS_Subset
  <2>2. \E i \in t : \A j \in t : i >= j
    BY <2>1, Largest
  <2>3. Max(t) \in t
    BY <2>2 DEF Max
  <2>4. LastOf(D)[t] = Max(t)
    BY DEF LastOf
  <2> QED BY <2>3, <2>4
<1>4. Picks(LastOf(D), D)
  BY <1>3 DEF Picks
<1> QED BY <1>1, <1>2, <1>3, <1>4

LEMMA TrainedAll ==
  ASSUME NEW V, NEW x \in V, \A f \in Formations : \A y \in V : Train(y, f) \in V,
         NEW s, Listing(s)
  PROVE  FoldLeft(Train, x, s) \in V
<1> DEFINE D == DOMAIN s
           After(i, y) == Train(y, s[i])
           Eq(h) == h = [t \in SUBSET D |-> IF t = {} THEN x ELSE After(Max(t), h[t \ {Max(t)}])]
           step == [e \in D \X V |-> After(e[1], e[2])]
           pick == LastOf(D)
           c == CHOOSE h : Eq(h)
<1>1. FoldLeft(Train, x, s) = c[D]
  BY DEF FoldLeft, MapThenFoldSet
<1> HIDE DEF D
<1>2. /\ IsFiniteSet(D) /\ \A i \in D : s[i] \in Formations
      /\ Picks(pick, D)
      /\ \A t \in SUBSET D : t # {} => pick[t] = Max(t) /\ Max(t) \in t
  BY ListingPlaces DEF D
<1>3. \A i \in D : \A y \in V : After(i, y) \in V
  BY <1>2
<1> HIDE DEF pick
<1>4. x \in V
  OBVIOUS
<1>5. \E h : Eq(h)
  <2>1. step \in [D \X V -> V]
    BY <1>3
  <2> HIDE DEF step
  <2>2. PICK h \in [SUBSET D -> V] : Taken(h, SUBSET D, x, step, pick)
    BY <1>2, <1>4, <2>1, FoldExists
  <2>3. \A t \in SUBSET D : t # {} =>
          step[pick[t], h[t \ {pick[t]}]] = After(Max(t), h[t \ {Max(t)}])
    <3> SUFFICES ASSUME NEW t \in SUBSET D, t # {}
                 PROVE  step[Max(t), h[t \ {Max(t)}]] = After(Max(t), h[t \ {Max(t)}])
      BY Zenon, <1>2
    <3> DEFINE i == Max(t)
               y == h[t \ {Max(t)}]
    <3>1. i \in D /\ y \in V
      BY <1>2
    <3> HIDE DEF i, y
    <3>2. step[i, y] = After(i, y)
      BY Zenon, <3>1 DEF step
    <3> QED BY Zenon, <3>2 DEF i, y
  <2> HIDE DEF After
  <2>4. Eq(h)
    BY Zenon, <2>2, <2>3 DEF Taken
  <2> QED BY <2>4
<1>6. Eq(c)
  BY <1>5
<1> HIDE DEF c
<1>7. \A t \in SUBSET D : c[t] = IF t = {} THEN x ELSE After(Max(t), c[t \ {Max(t)}])
  <2> HIDE DEF After
  <2> QED BY <1>6
<1>8. c[D] \in V
  <2>1. c[{}] \in V
    BY <1>4, <1>7
  <2>2. ASSUME NEW t \in SUBSET D, t # {}, c[t \ {pick[t]}] \in V PROVE c[t] \in V
    <3>1. Max(t) \in D /\ pick[t] = Max(t)
      BY <1>2, <2>2
    <3> HIDE DEF After
    <3>2. c[t] = After(Max(t), c[t \ {Max(t)}])
      BY <1>7, <2>2
    <3> QED BY <1>3, <2>2, <3>1, <3>2
  <2> HIDE DEF After
  <2>3. Keeps(c, D, V, pick)
    BY <2>1, <2>2 DEF Keeps
  <2> QED BY <1>2, <2>3, FoldStays
<1> QED BY <1>1, <1>8

LEMMA ReplacedAll ==
  ASSUME NEW V, NEW x \in V, \A f \in Formations : \A y \in V : Replace(y, f) \in V,
         NEW s, Listing(s)
  PROVE  FoldLeft(Replace, x, s) \in V
<1> DEFINE D == DOMAIN s
           After(i, y) == Replace(y, s[i])
           Eq(h) == h = [t \in SUBSET D |-> IF t = {} THEN x ELSE After(Max(t), h[t \ {Max(t)}])]
           step == [e \in D \X V |-> After(e[1], e[2])]
           pick == LastOf(D)
           c == CHOOSE h : Eq(h)
<1>1. FoldLeft(Replace, x, s) = c[D]
  BY DEF FoldLeft, MapThenFoldSet
<1> HIDE DEF D
<1>2. /\ IsFiniteSet(D) /\ \A i \in D : s[i] \in Formations
      /\ Picks(pick, D)
      /\ \A t \in SUBSET D : t # {} => pick[t] = Max(t) /\ Max(t) \in t
  BY ListingPlaces DEF D
<1>3. \A i \in D : \A y \in V : After(i, y) \in V
  BY <1>2
<1> HIDE DEF pick
<1>4. x \in V
  OBVIOUS
<1>5. \E h : Eq(h)
  <2>1. step \in [D \X V -> V]
    BY <1>3
  <2> HIDE DEF step
  <2>2. PICK h \in [SUBSET D -> V] : Taken(h, SUBSET D, x, step, pick)
    BY <1>2, <1>4, <2>1, FoldExists
  <2>3. \A t \in SUBSET D : t # {} =>
          step[pick[t], h[t \ {pick[t]}]] = After(Max(t), h[t \ {Max(t)}])
    <3> SUFFICES ASSUME NEW t \in SUBSET D, t # {}
                 PROVE  step[Max(t), h[t \ {Max(t)}]] = After(Max(t), h[t \ {Max(t)}])
      BY Zenon, <1>2
    <3> DEFINE i == Max(t)
               y == h[t \ {Max(t)}]
    <3>1. i \in D /\ y \in V
      BY <1>2
    <3> HIDE DEF i, y
    <3>2. step[i, y] = After(i, y)
      BY Zenon, <3>1 DEF step
    <3> QED BY Zenon, <3>2 DEF i, y
  <2> HIDE DEF After
  <2>4. Eq(h)
    BY Zenon, <2>2, <2>3 DEF Taken
  <2> QED BY <2>4
<1>6. Eq(c)
  BY <1>5
<1> HIDE DEF c
<1>7. \A t \in SUBSET D : c[t] = IF t = {} THEN x ELSE After(Max(t), c[t \ {Max(t)}])
  <2> HIDE DEF After
  <2> QED BY <1>6
<1>8. c[D] \in V
  <2>1. c[{}] \in V
    BY <1>4, <1>7
  <2>2. ASSUME NEW t \in SUBSET D, t # {}, c[t \ {pick[t]}] \in V PROVE c[t] \in V
    <3>1. Max(t) \in D /\ pick[t] = Max(t)
      BY <1>2, <2>2
    <3> HIDE DEF After
    <3>2. c[t] = After(Max(t), c[t \ {Max(t)}])
      BY <1>7, <2>2
    <3> QED BY <1>3, <2>2, <3>1, <3>2
  <2> HIDE DEF After
  <2>3. Keeps(c, D, V, pick)
    BY <2>1, <2>2 DEF Keeps
  <2> QED BY <1>2, <2>3, FoldStays
<1> QED BY <1>1, <1>8

LEMMA ReviewedGood ==
  ASSUME NEW L, Good(L), NEW hired \in Nat PROVE Good(Reviewed(L, hired))
<1> DEFINE each == SetToSeq(Formations)
           x == Blueprint(Enlist(L, Line, hired))
           y == FoldLeft(Train, x, each)
<1>1. Good(x)
  <2>1. Line \in Roles
    BY ForceAssumption
  <2> QED BY <2>1, EnlistGood, BlueprintGood
<1>2. x \in GoodOnes
  BY <1>1 DEF GoodOnes, Good, Sane
<1>3. Listing(each)
  BY EachListing
<1>4. Reviewed(L, hired) = FoldLeft(Replace, y, each)
  BY DEF Reviewed
<1> HIDE DEF each, x
<1>5. y \in GoodOnes
  <2>1. \A f \in Formations : \A z \in GoodOnes : Train(z, f) \in GoodOnes
    BY TrainGood DEF GoodOnes, Good, Sane
  <2> QED BY <1>2, <1>3, <2>1, TrainedAll
<1> HIDE DEF y
<1>6. FoldLeft(Replace, y, each) \in GoodOnes
  <2>1. \A f \in Formations : \A z \in GoodOnes : Replace(z, f) \in GoodOnes
    BY ReplaceGood DEF GoodOnes, Good, Sane
  <2> QED BY <1>3, <1>5, <2>1, ReplacedAll
<1> QED BY <1>4, <1>6 DEF GoodOnes

-----------------------------------------------------------------------------
(* Cohorts that are forgotten. *)

\* Cohorts of one role, as a sum over all cohorts.
Chosen(C, v, r) == [i \in Slots |-> IF C[i].role = r THEN v[i] ELSE 0]

LEMMA ChosenSum ==
  ASSUME NEW C, NEW v, \A i \in Slots : v[i] \in Int, NEW r
  PROVE  /\ SumFunctionOnSet(v, {i \in Slots : C[i].role = r}) = SumFunctionOnSet(Chosen(C, v, r), Slots)
         /\ \A i \in Slots : Chosen(C, v, r)[i] \in Int
<1> DEFINE R == {i \in Slots : C[i].role = r}
           g == Chosen(C, v, r)
<1>1. R \in SUBSET Slots
  OBVIOUS
<1>2. \A i \in R : v[i] \in Int /\ g[i] = v[i]
  BY DEF Chosen
<1>3. \A i \in Slots \ R : g[i] = 0
  BY DEF Chosen
<1>4. \A i \in Slots : g[i] \in Int
  BY DEF Chosen
<1> HIDE DEF R, g
<1>5. SumFunctionOnSet(g, Slots) = SumFunctionOnSet(v, R)
  BY <1>1, <1>2, <1>3, Finite, SumPart
<1> QED BY <1>4, <1>5 DEF R, g

Alike(C, D) == \A i \in Slots : D[i] = C[i] \/ (Idle(C[i]) /\ Idle(D[i]))

LEMMA IdleIs ==
  ASSUME NEW c \in Cohorts
  PROVE  /\ Idle(c) => Total(c.res) = 0 /\ Total(c.held) = 0
         /\ Total(c.res) + Total(c.held) = 0 => Idle(c)
<1>1. /\ c.res \in [Places -> Nat] /\ c.res \in [Places -> Int]
      /\ c.held \in [Formations -> Nat] /\ c.held \in [Formations -> Int]
  BY CohortFields
<1>2. ASSUME Idle(c) PROVE Total(c.res) = 0 /\ Total(c.held) = 0
  <2>1. (\A l \in Places : c.res[l] = 0) /\ (\A f \in Formations : c.held[f] = 0)
    BY <1>2 DEF Idle
  <2> QED BY <1>1, <2>1, Finite, TotalZero
<1>3. ASSUME Total(c.res) + Total(c.held) = 0 PROVE Idle(c)
  <2> DEFINE a == Total(c.res)
             b == Total(c.held)
  <2>1. /\ a \in Nat /\ \A l \in Places : c.res[l] <= a
        /\ b \in Nat /\ \A f \in Formations : c.held[f] <= b
    BY <1>1, Finite, TotalNat
  <2> HIDE DEF a, b
  <2>2. a = 0 /\ b = 0
    BY <1>3, <2>1 DEF a, b
  <2> QED BY <1>1, <2>1, <2>2 DEF Idle
<1> QED BY <1>2, <1>3

LEMMA AlikeSums ==
  ASSUME NEW C \in [Slots -> Cohorts], NEW D \in [Slots -> Cohorts], Alike(C, D)
  PROVE  /\ [i \in Slots |-> Total(D[i].res) + Total(D[i].held)]
              = [i \in Slots |-> Total(C[i].res) + Total(C[i].held)]
         /\ \A r \in Roles : InReserve(D, r) = InReserve(C, r)
         /\ \A f \in Formations : HeldIn(D, f) = HeldIn(C, f)
<1>0. /\ \A i \in Slots : C[i] \in Cohorts /\ D[i] \in Cohorts
      /\ \A i \in Slots : Total(C[i].res) \in Int /\ Total(D[i].res) \in Int
      /\ \A i \in Slots : \A f \in Formations : C[i].held[f] \in Int /\ D[i].held[f] \in Int
  BY CohortFields
<1>1. \A i \in Slots : Total(D[i].res) = Total(C[i].res) /\ Total(D[i].held) = Total(C[i].held)
  <2> SUFFICES ASSUME NEW i \in Slots, Idle(C[i]), Idle(D[i])
               PROVE  Total(D[i].res) = Total(C[i].res) /\ Total(D[i].held) = Total(C[i].held)
    BY DEF Alike
  <2> QED BY <1>0, IdleIs
<1>2. \A r \in Roles : InReserve(D, r) = InReserve(C, r)
  <2> SUFFICES ASSUME NEW r \in Roles PROVE InReserve(D, r) = InReserve(C, r)
    OBVIOUS
  <2> DEFINE v == [i \in Slots |-> Total(C[i].res)]
             u == [i \in Slots |-> Total(D[i].res)]
  <2>1. \A i \in Slots : v[i] \in Int /\ u[i] \in Int /\ u[i] = v[i]
    BY <1>0, <1>1
  <2>2. \A i \in Slots : C[i].role # D[i].role => v[i] = 0
    <3> SUFFICES ASSUME NEW i \in Slots, C[i].role # D[i].role PROVE v[i] = 0
      OBVIOUS
    <3>1. Idle(C[i])
      BY DEF Alike
    <3> QED BY <1>0, <3>1, IdleIs
  <2>3. InReserve(D, r) = SumFunctionOnSet(u, {i \in Slots : D[i].role = r})
    BY DEF InReserve
  <2>4. InReserve(C, r) = SumFunctionOnSet(v, {i \in Slots : C[i].role = r})
    BY DEF InReserve
  <2> HIDE DEF u, v
  <2>5. /\ InReserve(D, r) = SumFunctionOnSet(Chosen(D, u, r), Slots)
        /\ \A i \in Slots : Chosen(D, u, r)[i] \in Int
    BY <2>1, <2>3, ChosenSum
  <2>6. InReserve(C, r) = SumFunctionOnSet(Chosen(C, v, r), Slots)
    BY <2>1, <2>4, ChosenSum
  <2>7. \A i \in Slots : Chosen(D, u, r)[i] = Chosen(C, v, r)[i]
    BY <2>1, <2>2 DEF Chosen
  <2> QED BY <2>5, <2>6, <2>7, Finite, SumSame
<1>3. \A f \in Formations : HeldIn(D, f) = HeldIn(C, f)
  <2> SUFFICES ASSUME NEW f \in Formations PROVE HeldIn(D, f) = HeldIn(C, f)
    OBVIOUS
  <2> DEFINE v == [i \in Slots |-> C[i].held[f]]
             u == [i \in Slots |-> D[i].held[f]]
  <2>1. \A i \in Slots : v[i] \in Int /\ u[i] \in Int /\ u[i] = v[i]
    <3> SUFFICES ASSUME NEW i \in Slots PROVE C[i].held[f] = D[i].held[f]
      BY <1>0
    <3> QED BY DEF Alike, Idle
  <2>2. \A i \in Slots : C[i].role # D[i].role => v[i] = 0
    BY DEF Alike, Idle
  <2> HIDE DEF u, v
  <2>3. ASSUME NEW r \in Roles
        PROVE  SumFunctionOnSet(u, {i \in Slots : D[i].role = r})
                 = SumFunctionOnSet(v, {i \in Slots : C[i].role = r})
    <3>1. /\ SumFunctionOnSet(u, {i \in Slots : D[i].role = r}) = SumFunctionOnSet(Chosen(D, u, r), Slots)
          /\ \A i \in Slots : Chosen(D, u, r)[i] \in Int
      BY <2>1, ChosenSum
    <3>2. SumFunctionOnSet(v, {i \in Slots : C[i].role = r}) = SumFunctionOnSet(Chosen(C, v, r), Slots)
      BY <2>1, ChosenSum
    <3>3. \A i \in Slots : Chosen(D, u, r)[i] = Chosen(C, v, r)[i]
      BY <2>1, <2>2 DEF Chosen
    <3>4. SumFunctionOnSet(Chosen(D, u, r), Slots) = SumFunctionOnSet(Chosen(C, v, r), Slots)
      BY <3>1, <3>3, Finite, SumSame
    <3> QED BY <3>1, <3>2, <3>4
  <2> QED BY <2>3 DEF HeldIn, u, v
<1> QED BY <1>1, <1>2, <1>3

LEMMA AlikeValid ==
  ASSUME NEW C \in [Slots -> Cohorts], NEW D \in [Slots -> Cohorts], Alike(C, D),
         NEW P, NEW h, NEW F, NEW Y, NEW G, Tallied(C, P, h, F, Y, G)
  PROVE  Tallied(D, P, h, F, Y, G)
<1>1. /\ [i \in Slots |-> Total(D[i].res) + Total(D[i].held)]
           = [i \in Slots |-> Total(C[i].res) + Total(C[i].held)]
      /\ \A r \in Roles : InReserve(D, r) = InReserve(C, r)
      /\ \A f \in Formations : HeldIn(D, f) = HeldIn(C, f)
  BY AlikeSums
<1>2. \A f \in Formations : BodiesIn(D, P, f) = BodiesIn(C, P, f)
  BY <1>1 DEF BodiesIn
<1> QED BY <1>1, <1>2 DEF Tallied

LEMMA PrunedGood ==
  ASSUME NEW L, Good(L), NEW held PROVE Good(Pruned(L, held)) /\ Pruned(L, held).ok = L.ok
<1> DEFINE kept(i) == \/ Total(L.cohort[i].res) + Total(L.cohort[i].held) > 0
                      \/ Named(held, i) \/ \E f \in Formations : Named(L.doc[f], i)
           c(i) == IF kept(i) THEN L.cohort[i] ELSE Blank
           D == [i \in Slots |-> c(i)]
           M == Pruned(L, held)
<1>0. Sane(L)
  BY DEF Good
<1>1. /\ L \in Ledgers /\ L.cohort \in [Slots -> Cohorts]
      /\ L.dead \in Int /\ L.head \in Int /\ L.free \in [Roles -> [Places -> Int]]
      /\ L.listed \in SUBSET Formations
      /\ L.given \in [Formations -> [n : Int, comp : [Roles -> Int]]]
      /\ L.person \in [People -> Persons] /\ L.doc \in [Formations -> Docs \cup {None}]
  BY <1>0, LedgerFields DEF Sane
<1>2. Blank \in Cohorts /\ Idle(Blank)
  BY DEF Blank, Cohorts, Idle, Zero
<1>3. ASSUME NEW i \in Slots PROVE c(i) = L.cohort[i] \/ (c(i) = Blank /\ Idle(L.cohort[i]))
  <2>1. CASE kept(i)
    BY <2>1
  <2>2. CASE ~kept(i)
    <3> DEFINE x == L.cohort[i]
    <3>1. x \in Cohorts /\ Total(x.res) \in Nat /\ Total(x.held) \in Nat
      BY <1>1, CohortFields
    <3>2. ~(Total(x.res) + Total(x.held) > 0)
      BY <2>2
    <3> HIDE DEF x
    <3> DEFINE a == Total(x.res)
               b == Total(x.held)
    <3> HIDE DEF a, b
    <3>3. a \in Nat /\ b \in Nat /\ ~(a + b > 0)
      BY <3>1, <3>2 DEF a, b
    <3>4. a + b = 0
      BY <3>3
    <3>5. Idle(x)
      BY <3>1, <3>4, IdleIs DEF a, b
    <3> QED BY <2>2, <3>5 DEF x
  <2> QED BY <2>1, <2>2
<1>4. M = [L EXCEPT !.cohort = D]
  BY DEF Pruned
<1> HIDE DEF c, M
<1>5. D \in [Slots -> Cohorts] /\ Founded(D) /\ Alike(L.cohort, D)
  BY <1>0, <1>1, <1>2, <1>3 DEF Sane, Founded, Alike
<1> HIDE DEF D
<1>6. M = Made(L, L.dead, L.head, L.free, L.listed, L.given, L.person, D, L.doc)
  BY <1>1, <1>4 DEF Made, Ledgers
<1>7. Makes(L, L.dead, L.head, L.free, L.listed, L.given, L.person, D, L.doc)
  BY <1>0, <1>1, <1>5 DEF Makes, Sane
<1>8. Sane(M) /\ M.ok = L.ok
  BY <1>0, <1>6, <1>7, MadeSane
<1>9. /\ M.cohort = D /\ M.person = L.person /\ M.head = L.head /\ M.free = L.free
      /\ M.listed = L.listed /\ M.given = L.given
  BY <1>1, <1>4 DEF Ledgers
<1>10. ASSUME Valid(L) PROVE Valid(M)
  <2>1. Tallied(L.cohort, L.person, L.head, L.free, L.listed, L.given)
    BY <1>10, ValidIs
  <2>2. Tallied(D, L.person, L.head, L.free, L.listed, L.given)
    BY <1>1, <1>5, <2>1, AlikeValid
  <2>3. Tallied(M.cohort, M.person, M.head, M.free, M.listed, M.given)
    BY <1>9, <2>2
  <2> QED BY <2>3, ValidIs
<1> QED BY <1>8, <1>10 DEF Good, M

-----------------------------------------------------------------------------
(* Steps. *)

LEMMA Numbers ==
  /\ Total(Reserve) \in Nat /\ Civilians \in Nat
  /\ \A k \in {0} \cup Bodies : k \in Nat /\ k \in Int
  /\ \A adds \in Some : adds \in [Roles -> Int]
<1>1. Total(Reserve) \in Nat /\ Civilians \in Nat
  BY Finite, ForceAssumption, TotalNat
<1>2. \A k \in {0} \cup Bodies : k \in Nat /\ k \in Int
  <2> DEFINE n == Civilians + Total(Reserve)
  <2>1. n \in Int
    BY <1>1
  <2>2. Bodies = 1..n
    BY DEF Bodies
  <2> HIDE DEF n
  <2> QED BY <2>1, <2>2
<1>3. \A adds \in Some : adds \in [Roles -> Int]
  <2> DEFINE n == Total(Reserve) + Civilians
  <2>1. n \in Int
    BY <1>1
  <2>2. \A adds \in Some : adds \in [Roles -> 0..n]
    BY DEF Some
  <2> HIDE DEF n
  <2>3. 0..n \subseteq Int
    BY <2>1
  <2> QED BY <2>2, <2>3
<1> QED BY <1>1, <1>2, <1>3

LEMMA SavedGood ==
  ASSUME NEW L PROVE (Good(L) /\ L.ok = TRUE => Saved(L)) /\ (Saved(L) => Good(L) /\ Sane(L))
BY DEF Good, Saved

LEMMA RefusedKeeps ==
  ASSUME IInv, NEW excuse, Refused(excuse) PROVE IInv'
<1>1. order' = None
  BY DEF Refused
<1>2. CASE order = None
  <2>1. ledger' = ledger
    BY <1>2 DEF Refused
  <2> QED BY <1>1, <2>1 DEF IInv
<1>3. CASE order # None
  <2>1. ledger' = order.saved
    BY <1>3 DEF Refused
  <2>2. Saved(order.saved)
    BY <1>3 DEF IInv
  <2> QED BY <1>1, <2>1, <2>2 DEF IInv
<1> QED BY <1>2, <1>3

LEMMA SettleKeeps ==
  ASSUME IInv, NEW L, Good(L), NEW excuse, Settle(L, excuse) PROVE IInv'
<1>1. CASE ~L.ok
  <2>1. Refused(excuse)
    BY <1>1 DEF Settle
  <2> QED BY <2>1, RefusedKeeps
<1>2. CASE L.ok
  <2> DEFINE held == IF order = None THEN None ELSE order.doc
             M == Pruned(L, held)
  <2>1. ledger' = M /\ order' = order
    BY <1>2 DEF Settle
  <2> HIDE DEF held
  <2>2. Good(M) /\ M.ok = L.ok
    BY PrunedGood
  <2> HIDE DEF M
  <2>3. Saved(M)
    BY <1>2, <2>2 DEF Good, Saved
  <2> QED BY <2>1, <2>3 DEF IInv
<1> QED BY <1>1, <1>2

LEMMA CommandKeeps ==
  ASSUME IInv, NEW L, Good(L), NEW excuse, Command(L, excuse) PROVE IInv'
BY SettleKeeps DEF Command

LEMMA Now == ASSUME IInv PROVE Good(ledger) /\ Sane(ledger) /\ Valid(ledger)
BY DEF IInv, Saved, Good

LEMMA RecruitKeeps == ASSUME IInv, NEW r \in Roles, NEW k \in Bodies, Recruit(r, k) PROVE IInv'
<1> DEFINE L == Enlist(ledger, r, k)
<1>1. k \in Nat
  BY Numbers
<1>2. Good(L)
  BY <1>1, Now, EnlistGood
<1>3. Command(L, FALSE)
  BY DEF Recruit
<1> HIDE DEF L
<1> QED BY <1>2, <1>3, CommandKeeps

LEMMA CreateKeeps ==
  ASSUME IInv, NEW f \in Formations, NEW comp \in Some, NEW place \in Places,
         Create(f, comp, place)
  PROVE  IInv'
<1> DEFINE d == Doc(place, comp, Zero(Slots))
           new == [ledger EXCEPT !.doc[f] = Doc(place, comp, Zero(Slots))]
           U == Muster(new, f, comp, place)
           L == Check(Listed(U, f))
<1>1. comp \in [Roles -> Int] /\ Zero(Slots) \in [Slots -> Nat]
  BY Numbers DEF Zero
<1>2. d \in Docs
  BY <1>1, DocIs
<1>3. new = Rewritten(ledger, f, d)
  BY Now DEF Rewritten, Sane, Ledgers
<1>c. Command(L, FALSE)
  BY DEF Create
<1> HIDE DEF d, new, L
<1>4. Sane(new) /\ new.doc[f] # None
  BY <1>2, <1>3, Now, RewriteSane
<1>5. Sane(U) /\ U.doc[f] # None
  <2>1. Sane(U) /\ Mustered(new, U, f)
    BY <1>1, <1>4, MusterSane
  <2> QED BY <2>1 DEF Mustered
<1> HIDE DEF U
<1>6. Sane(Listed(U, f))
  BY <1>5, ListedSane
<1>7. Good(L)
  BY <1>6, CheckGood DEF L
<1> QED BY <1>c, <1>7, CommandKeeps

LEMMA SplitKeeps ==
  ASSUME IInv, NEW f \in Formations, NEW g \in Formations, NEW k \in Bodies, Split(f, g, k)
  PROVE  IInv'
<1> DEFINE N == Normal(ledger, f)
           L == Ensure(N, f)
<1>1. ledger.doc[f] # None /\ ledger.doc[g] = None /\ f # g /\ k \in Int
  BY Numbers DEF Split, Exists
<1>2. Good(N) /\ N.doc[f] # None
  <2>1. Good(N) /\ Kindred(ledger, N, f)
    BY <1>1, Now, NormalGood
  <2> QED BY <2>1 DEF Kindred
<1>3. Good(L) /\ L.doc[f] # None
  <2> HIDE DEF N
  <2>1. Good(L) /\ Kindred(N, L, f)
    BY <1>2, EnsureGood
  <2> QED BY <2>1 DEF Kindred
<1>4. PICK h \in Partitions(L, f, k), est \in Shares(L.doc[f].est, k) :
         Command(IF L.ok THEN Partition(L, f, g, h, est) ELSE L, FALSE)
  BY DEF Split
<1> HIDE DEF L
<1>5. Good(Partition(L, f, g, h, est))
  BY <1>1, <1>3, PartitionGood
<1> DEFINE M == IF L.ok THEN Partition(L, f, g, h, est) ELSE L
<1>6. Good(M) /\ Command(M, FALSE)
  BY <1>3, <1>4, <1>5
<1> HIDE DEF M
<1> QED BY <1>6, CommandKeeps

LEMMA MergeKeeps ==
  ASSUME IInv, NEW f \in Formations, NEW g \in Formations, Merge(f, g) PROVE IInv'
<1> DEFINE A == Normal(ledger, f)
           B == Ensure(A, f)
           X == Normal(B, g)
           Y == Ensure(X, g)
           L == Absorb(Y, f, g)
           excuse == ledger.doc[f].n + ledger.doc[g].n = 0
<1>1. f # g /\ ledger.doc[f] # None /\ ledger.doc[g] # None
  BY DEF Merge, Exists
<1>c. Command(L, excuse)
  BY DEF Merge
<1>2. Good(A) /\ Kindred(ledger, A, f)
  BY <1>1, Now, NormalGood
<1>3. Good(A) /\ A.doc[f] # None /\ A.doc[g] # None
  BY <1>1, <1>2 DEF Kindred
<1> HIDE DEF A
<1>4. Good(B) /\ Kindred(A, B, f)
  BY <1>3, EnsureGood
<1>5. Good(B) /\ B.doc[f] # None /\ B.doc[g] # None
  BY <1>1, <1>3, <1>4 DEF Kindred
<1> HIDE DEF B
<1>6. Good(X) /\ Kindred(B, X, g)
  BY <1>5, NormalGood
<1>7. Good(X) /\ X.doc[f] # None /\ X.doc[g] # None
  BY <1>1, <1>5, <1>6 DEF Kindred
<1> HIDE DEF X
<1>8. Good(Y) /\ Kindred(X, Y, g)
  BY <1>7, EnsureGood
<1>9. Good(Y) /\ Y.doc[f] # None /\ Y.doc[g] # None
  BY <1>1, <1>7, <1>8 DEF Kindred
<1> HIDE DEF Y
<1>10. Good(L)
  BY <1>1, <1>9, AbsorbGood
<1> HIDE DEF L, excuse
<1> QED BY <1>c, <1>10, CommandKeeps

LEMMA DissolveKeeps == ASSUME IInv, NEW f \in Formations, Dissolve(f) PROVE IInv'
<1> DEFINE E == Ensure(ledger, f)
           L == Disband(E, f)
           excuse == Embedded(ledger, f) # {}
<1>1. ledger.doc[f] # None
  BY DEF Dissolve, Exists
<1>2. Command(L, excuse)
  BY DEF Dissolve
<1>3. Good(E) /\ E.doc[f] # None
  <2>1. Good(E) /\ Kindred(ledger, E, f)
    BY <1>1, Now, EnsureGood
  <2> QED BY <2>1 DEF Kindred
<1> HIDE DEF E, excuse
<1>4. Good(L)
  BY <1>3, DisbandGood
<1> HIDE DEF L
<1> QED BY <1>2, <1>4, CommandKeeps

LEMMA ReviewKeeps == ASSUME IInv, NEW hired \in {0} \cup Bodies, Review(hired) PROVE IInv'
<1> DEFINE L == Reviewed(ledger, hired)
<1>1. hired \in Nat
  BY Numbers
<1>2. Good(L)
  BY <1>1, Now, ReviewedGood
<1>3. Settle(L, MixedStanding)
  BY DEF Review
<1> HIDE DEF L
<1> QED BY <1>2, <1>3, SettleKeeps

LEMMA FightKeeps ==
  ASSUME IInv, NEW f \in Formations, NEW k \in {0} \cup Bodies, NEW killed \in SUBSET People,
         NEW isolates \in BOOLEAN, Fight(f, k, killed, isolates)
  PROVE  IInv'
<1> DEFINE L == IF isolates THEN Isolate(ledger, f) ELSE ledger
           excuse == Total(ledger.doc[f].slices) = 0
<1>1. ledger.doc[f] # None /\ k \in Int
  BY Numbers DEF Fight, Exists
<1>2. Good(L) /\ L.doc[f] # None
  <2>1. Good(Isolate(ledger, f)) /\ Kept(ledger, Isolate(ledger, f))
    BY <1>1, Now, IsolateGood
  <2>2. Isolate(ledger, f).doc[f] # None
    BY <1>1, <2>1 DEF Kept
  <2> QED BY <1>1, <2>1, <2>2, Now
<1>3. PICK h \in Falls(L, f, k) : Settle(Trim(L, f, h, killed), excuse)
  BY DEF Fight
<1> HIDE DEF L, excuse
<1>4. Good(Trim(L, f, h, killed))
  BY <1>1, <1>2, TrimGood
<1> QED BY <1>3, <1>4, SettleKeeps

\* Nothing is said anew of any formation, and the cohorts hold what they held.
Untouched(L, M) ==
    /\ M.doc = L.doc /\ M.given = L.given /\ M.listed = L.listed
    /\ \A j \in Slots : \A g \in Formations : M.cohort[j].held[g] = L.cohort[j].held[g]

LEMMA MaterializeFreeIs ==
  ASSUME IInv, NEW p \in People, NEW role \in Roles, NEW place \in Places,
         MaterializeFree(p, role, place)
  PROVE  \E M : Command(Check(M), FALSE) /\ Sane(M) /\ Untouched(ledger, M)
<1> DEFINE from == {j \in Slots : ledger.cohort[j].role = role /\ ledger.cohort[j].res[place] > 0}
           i == CHOOSE j \in from : \A k \in from : j <= k
           F == [ledger.free EXCEPT ![role] =
                   [ledger.free[role] EXCEPT ![place] = ledger.free[role][place] - 1]]
           res == [ledger.cohort[i].res EXCEPT ![place] = ledger.cohort[i].res[place] - 1]
           c == [ledger.cohort[i] EXCEPT !.res = res]
           C == [ledger.cohort EXCEPT ![i] = c]
           q == [at |-> "own", role |-> role]
           P == [ledger.person EXCEPT ![p] = q]
           M == [ledger EXCEPT !.free[role][place] = @ - 1, !.cohort[i].res[place] = @ - 1,
                               !.person[p] = [at |-> "own", role |-> role]]
<1>1. /\ ledger \in Ledgers /\ ledger.cohort \in [Slots -> Cohorts]
      /\ ledger.dead \in Int /\ ledger.head \in Int /\ ledger.free \in [Roles -> [Places -> Int]]
      /\ ledger.listed \in SUBSET Formations
      /\ ledger.given \in [Formations -> [n : Int, comp : [Roles -> Int]]]
      /\ ledger.person \in [People -> Persons] /\ ledger.doc \in [Formations -> Docs \cup {None}]
      /\ Founded(ledger.cohort) /\ Enrolled(ledger.person)
      /\ Allotted(ledger.listed, ledger.given, ledger.doc)
  BY Now, LedgerFields DEF Sane
<1>2. from # {} /\ Command(Check(M), FALSE)
  BY Zenon DEF MaterializeFree
<1>3. i \in from
  <2>1. from \in SUBSET Slots
    OBVIOUS
  <2> HIDE DEF from
  <2> QED BY <1>2, <2>1, FirstIs
<1>4. i \in Slots /\ ledger.cohort[i].role = role /\ ledger.cohort[i].res[place] > 0
  BY Zenon, <1>3
<1> HIDE DEF i
<1>5. ledger.cohort[i] \in Cohorts /\ ledger.cohort[i].res \in [Places -> Nat]
  BY <1>1, <1>4, CohortFields
<1>6. res \in [Places -> Nat]
  BY <1>4, <1>5
<1>7. M = Made(ledger, ledger.dead, ledger.head, F, ledger.listed, ledger.given, P, C, ledger.doc)
  BY <1>1 DEF Made, Ledgers
<1> HIDE DEF res
<1>8. c \in Cohorts /\ c.role = role /\ c.held = ledger.cohort[i].held
  BY <1>4, <1>5, <1>6 DEF Cohorts
<1> HIDE DEF c, M
<1>9. C \in [Slots -> Cohorts] /\ Founded(C)
  BY <1>1, <1>4, <1>8, NoneIsNone DEF Founded
<1>10. P \in [People -> Persons] /\ Enrolled(P)
  <2>1. q \in Persons
    BY DEF Persons
  <2>2. q.at \notin Formations
    BY NoneIsNone
  <2> HIDE DEF q
  <2> QED BY <1>1, <2>1, <2>2 DEF Enrolled
<1>11. F \in [Roles -> [Places -> Int]]
  BY <1>1
<1>h. \A j \in Slots : \A g \in Formations : C[j].held[g] = ledger.cohort[j].held[g]
  BY <1>1, <1>4, <1>8
<1> HIDE DEF C, P, F
<1>12. Makes(ledger, ledger.dead, ledger.head, F, ledger.listed, ledger.given, P, C, ledger.doc)
  BY <1>1, <1>9, <1>10, <1>11 DEF Makes
<1>13. Sane(M)
  BY <1>7, <1>12, Now, MadeSane
<1>14. Untouched(ledger, M)
  <2>1. /\ M.doc = ledger.doc /\ M.given = ledger.given /\ M.listed = ledger.listed
        /\ M.cohort = C
    BY <1>1, <1>7 DEF Made, Ledgers
  <2> QED BY <1>h, <2>1 DEF Untouched
<1> QED BY Zenon, <1>2, <1>13, <1>14

LEMMA MaterializeFreeKeeps ==
  ASSUME IInv, NEW p \in People, NEW role \in Roles, NEW place \in Places,
         MaterializeFree(p, role, place)
  PROVE  IInv'
<1>1. PICK M : Command(Check(M), FALSE) /\ Sane(M)
  BY MaterializeFreeIs
<1> DEFINE L == Check(M)
<1>2. Good(L) /\ Command(L, FALSE)
  BY <1>1, CheckGood
<1> HIDE DEF L
<1> QED BY <1>2, CommandKeeps

\* One of the anonymous members of f gets a name.
Christened(L, M, f) ==
    /\ M.ok = L.ok /\ M.given = L.given /\ M.listed = L.listed
    /\ M.doc[f] \in Docs /\ M.doc[f].n = L.doc[f].n /\ M.doc[f].comp = L.doc[f].comp
    /\ \A g \in Formations \ {f} : M.doc[g] = L.doc[g]
    /\ \A j \in Slots : \A g \in Formations \ {f} : M.cohort[j].held[g] = L.cohort[j].held[g]
    /\ \A j \in Slots : L.doc[f].slices[j] = L.cohort[j].held[f]
                             => M.doc[f].slices[j] = M.cohort[j].held[f]

LEMMA MaterializeInIs ==
  ASSUME IInv, NEW p \in People, NEW role \in Roles, NEW f \in Formations,
         MaterializeIn(p, role, f)
  PROVE  /\ ledger.doc[f] # None
         /\ \/ Command(Refuse(Ensure(ledger, f)), FALSE)
            \/ \E M : Command(Check(M), FALSE) /\ Sane(M) /\ Christened(Ensure(ledger, f), M, f)
<1> DEFINE L == Ensure(ledger, f)
           from == {j \in Slots : L.cohort[j].role = role /\ L.doc[f].slices[j] > 0}
           i == CHOOSE j \in from : \A k \in from : j <= k
           held == [L.cohort[i].held EXCEPT ![f] = L.cohort[i].held[f] - 1]
           c == [L.cohort[i] EXCEPT !.held = held]
           C == [L.cohort EXCEPT ![i] = c]
           s == [L.doc[f].slices EXCEPT ![i] = L.doc[f].slices[i] - 1]
           d == [L.doc[f] EXCEPT !.slices = s]
           D == [L.doc EXCEPT ![f] = d]
           q == [at |-> f, role |-> role]
           P == [L.person EXCEPT ![p] = q]
           M == [L EXCEPT !.cohort[i].held[f] = @ - 1, !.doc[f].slices[i] = @ - 1,
                          !.person[p] = [at |-> f, role |-> role]]
           R == IF L.cohort[i].held[f] = 0 THEN Refuse(L) ELSE Check(M)
<1>0. ledger.doc[f] # None /\ from # {} /\ Command(R, FALSE)
  BY Zenon DEF MaterializeIn, Exists
<1>a. Good(L) /\ L.doc[f] # None
  <2>1. Good(L) /\ Kindred(ledger, L, f)
    BY Zenon, <1>0, Now, EnsureGood
  <2> QED BY <2>1 DEF Kindred
<1> HIDE DEF L
<1>1. /\ L \in Ledgers /\ L.cohort \in [Slots -> Cohorts]
      /\ L.dead \in Int /\ L.head \in Int /\ L.free \in [Roles -> [Places -> Int]]
      /\ L.listed \in SUBSET Formations
      /\ L.given \in [Formations -> [n : Int, comp : [Roles -> Int]]]
      /\ L.person \in [People -> Persons] /\ L.doc \in [Formations -> Docs \cup {None}]
      /\ Founded(L.cohort) /\ Enrolled(L.person)
      /\ Allotted(L.listed, L.given, L.doc)
      /\ L.doc[f] \in Docs /\ L.doc[f].slices \in [Slots -> Nat]
  BY <1>a, LedgerFields, DocFields DEF Good, Sane
<1>3. i \in from
  <2>1. from \in SUBSET Slots
    OBVIOUS
  <2> HIDE DEF from
  <2> QED BY <1>0, <2>1, FirstIs
<1>4. i \in Slots /\ L.cohort[i].role = role /\ L.doc[f].slices[i] > 0
  BY <1>3
<1> HIDE DEF i
<1>5. L.cohort[i] \in Cohorts /\ L.cohort[i].held \in [Formations -> Nat]
  BY <1>1, <1>4, CohortFields
<1>6. ASSUME L.cohort[i].held[f] # 0 PROVE Sane(M) /\ Christened(L, M, f)
  <2>1. /\ held \in [Formations -> Nat] /\ held[f] = L.cohort[i].held[f] - 1
        /\ \A g \in Formations \ {f} : held[g] = L.cohort[i].held[g]
    BY <1>5, <1>6
  <2>2. /\ s \in [Slots -> Nat] /\ s[i] = L.doc[f].slices[i] - 1
        /\ \A j \in Slots \ {i} : s[j] = L.doc[f].slices[j]
    BY <1>1, <1>4
  <2>3. M = Made(L, L.dead, L.head, L.free, L.listed, L.given, P, C, D)
    BY <1>1 DEF Made, Ledgers
  <2> HIDE DEF held, s
  <2>4. c \in Cohorts /\ c.role = role /\ c.held = held
    BY <1>4, <1>5, <2>1 DEF Cohorts
  <2>5. d \in Docs /\ d.n = L.doc[f].n /\ d.comp = L.doc[f].comp /\ d.slices = s
    BY <1>1, <2>2 DEF Docs
  <2> HIDE DEF c, d, M
  <2>6. C \in [Slots -> Cohorts] /\ Founded(C)
    BY <1>1, <1>4, <2>4, NoneIsNone DEF Founded
  <2>7. P \in [People -> Persons] /\ Enrolled(P)
    <3>1. q \in Persons /\ q.role = role
      BY DEF Persons
    <3> HIDE DEF q
    <3> QED BY <1>1, <3>1 DEF Enrolled
  <2>8. D \in [Formations -> Docs \cup {None}] /\ Allotted(L.listed, L.given, D)
    BY <1>1, <2>5, NoneIsNone DEF Allotted
  <2>h. /\ C[i] = c /\ \A j \in Slots \ {i} : C[j] = L.cohort[j]
        /\ D[f] = d /\ \A g \in Formations \ {f} : D[g] = L.doc[g]
    BY <1>1, <1>4
  <2> HIDE DEF C, P, D
  <2>9. Makes(L, L.dead, L.head, L.free, L.listed, L.given, P, C, D)
    BY <1>1, <2>6, <2>7, <2>8 DEF Makes
  <2>10. Sane(L)
    BY <1>a DEF Good
  <2>11. Sane(M)
    BY <2>3, <2>9, <2>10, MadeSane
  <2>12. /\ M.doc = D /\ M.given = L.given /\ M.listed = L.listed
         /\ M.cohort = C /\ M.ok = L.ok
    BY <1>1, <2>3 DEF Made, Ledgers
  <2>13. \A j \in Slots : \A g \in Formations \ {f} : C[j].held[g] = L.cohort[j].held[g]
    BY <2>1, <2>4, <2>h
  <2>14. \A j \in Slots : L.doc[f].slices[j] = L.cohort[j].held[f] => s[j] = C[j].held[f]
    BY <2>1, <2>2, <2>4, <2>h
  <2> QED BY <2>5, <2>h, <2>11, <2>12, <2>13, <2>14 DEF Christened
<1> HIDE DEF M
<1>7. Sane(L)
  BY <1>a DEF Good
<1> QED BY Zenon, <1>0, <1>6 DEF L

LEMMA MaterializeInKeeps ==
  ASSUME IInv, NEW p \in People, NEW role \in Roles, NEW f \in Formations,
         MaterializeIn(p, role, f)
  PROVE  IInv'
<1> DEFINE L == Ensure(ledger, f)
<1>1. Sane(L)
  BY MaterializeInIs, Now, EnsureGood DEF Good
<1>2. Good(Refuse(L))
  BY <1>1, RefuseGood
<1> HIDE DEF L
<1>3. CASE Command(Refuse(L), FALSE)
  BY <1>2, <1>3, CommandKeeps
<1>4. ASSUME NEW M, Command(Check(M), FALSE), Sane(M) PROVE IInv'
  BY <1>4, CheckGood, CommandKeeps
<1> QED BY <1>3, <1>4, MaterializeInIs DEF L

\* Bodies are numbers, and a person in a formation is one of its bodies.
LEMMA BodiesNat ==
  ASSUME NEW C \in [Slots -> Cohorts], NEW P \in [People -> Persons], NEW f \in Formations
  PROVE  /\ HeldIn(C, f) \in [Roles -> Nat] /\ NamedIn(P, f) \in [Roles -> Nat]
         /\ BodiesIn(C, P, f) \in [Roles -> Nat] /\ Total(BodiesIn(C, P, f)) \in Nat
         /\ \A r \in Roles : BodiesIn(C, P, f)[r] = HeldIn(C, f)[r] + NamedIn(P, f)[r]
<1>1. HeldIn(C, f) \in [Roles -> Nat]
  <2> DEFINE v == [i \in Slots |-> C[i].held[f]]
  <2>1. \A i \in Slots : v[i] \in Nat
    BY CohortFields
  <2> HIDE DEF v
  <2>2. ASSUME NEW r \in Roles
        PROVE  SumFunctionOnSet(v, {i \in Slots : C[i].role = r}) \in Nat
    <3> DEFINE S == {i \in Slots : C[i].role = r}
    <3>1. IsFiniteSet(S) /\ S \in SUBSET Slots
      BY Finite, FS_Subset
    <3> HIDE DEF S
    <3>2. SumFunctionOnSet(v, S) \in Nat
      BY <2>1, <3>1, SumNat
    <3> QED BY <3>2 DEF S
  <2> QED BY <2>2 DEF HeldIn, v
<1>2. NamedIn(P, f) \in [Roles -> Nat]
  <2>1. ASSUME NEW r \in Roles
        PROVE  Cardinality({p \in {q \in People : P[q].at = f} : P[p].role = r}) \in Nat
    <3>1. IsFiniteSet({p \in {q \in People : P[q].at = f} : P[p].role = r})
      BY Finite, FS_Subset
    <3> QED BY <3>1, FS_CardinalityType
  <2> QED BY <2>1 DEF NamedIn
<1>3. /\ BodiesIn(C, P, f) \in [Roles -> Nat]
      /\ \A r \in Roles : BodiesIn(C, P, f)[r] = HeldIn(C, f)[r] + NamedIn(P, f)[r]
  <2> DEFINE x == HeldIn(C, f)
             y == NamedIn(P, f)
  <2>1. x \in [Roles -> Nat] /\ y \in [Roles -> Nat] /\ x \in [Roles -> Int] /\ y \in [Roles -> Int]
    BY <1>1, <1>2
  <2>2. BodiesIn(C, P, f) = Plus(x, y)
    BY DEF BodiesIn
  <2> HIDE DEF x, y
  <2>3. Plus(x, y) \in [Roles -> Nat] /\ \A r \in Roles : Plus(x, y)[r] = x[r] + y[r]
    BY <2>1, PlusIs
  <2> QED BY <2>2, <2>3 DEF x, y
<1>4. Total(BodiesIn(C, P, f)) \in Nat
  BY <1>3, Finite, TotalNat
<1> QED BY <1>1, <1>2, <1>3, <1>4

LEMMA EmbeddedListed ==
  ASSUME NEW L, Sane(L), Valid(L), NEW p \in People, L.person[p].at \in Formations
  PROVE  /\ L.person[p].at \in L.listed /\ L.doc[L.person[p].at] # None
         /\ L.person[p].role \in Roles
<1> DEFINE f == L.person[p].at
           r == L.person[p].role
           P == L.person
           C == L.cohort
           b == BodiesIn(C, P, f)
<1>1. /\ C \in [Slots -> Cohorts] /\ P \in [People -> Persons] /\ r \in Roles /\ f \in Formations
      /\ Allotted(L.listed, L.given, L.doc)
  BY LedgerFields DEF Sane, Enrolled
<1>2. /\ HeldIn(C, f) \in [Roles -> Nat] /\ NamedIn(P, f) \in [Roles -> Nat]
      /\ b \in [Roles -> Nat] /\ Total(b) \in Nat
      /\ \A x \in Roles : b[x] = HeldIn(C, f)[x] + NamedIn(P, f)[x]
  BY <1>1, BodiesNat
<1>3. NamedIn(P, f)[r] # 0
  <2> DEFINE S == {x \in {q \in People : P[q].at = f} : P[x].role = r}
  <2>1. IsFiniteSet(S) /\ p \in S
    BY Finite, FS_Subset
  <2> HIDE DEF S
  <2>2. Cardinality(S) # 0
    BY <2>1, FS_EmptySet
  <2>3. NamedIn(P, f)[r] = Cardinality(S)
    BY <1>1 DEF NamedIn, S
  <2> QED BY <2>2, <2>3
<1>4. Tallied(C, P, L.head, L.free, L.listed, L.given)
  BY ValidIs
<1> HIDE DEF f, r, P, C
<1>5. (f \in L.listed) <=> (Total(b) > 0)
  BY <1>1, <1>4 DEF Tallied
<1> HIDE DEF b
<1>6. b[r] <= Total(b)
  BY <1>1, <1>2, Finite, TotalNat
<1>7. b[r] > 0
  <2> DEFINE x == HeldIn(C, f)[r]
             y == NamedIn(P, f)[r]
             v == b[r]
  <2>1. x \in Nat /\ y \in Nat /\ y # 0 /\ v = x + y
    BY <1>1, <1>2, <1>3
  <2> HIDE DEF x, y, v
  <2>2. v > 0
    BY <2>1
  <2> QED BY <2>2 DEF v
<1>8. Total(b) > 0
  <2> DEFINE t == Total(b)
             v == b[r]
  <2>1. t \in Nat /\ v \in Nat /\ v <= t /\ v > 0
    BY <1>1, <1>2, <1>6, <1>7
  <2> HIDE DEF t, v
  <2>2. t > 0
    BY <2>1
  <2> QED BY <2>2 DEF t
<1>9. f \in L.listed
  BY <1>5, <1>8
<1>10. L.doc[f] # None
  BY <1>1, <1>9 DEF Allotted
<1> QED BY <1>1, <1>9, <1>10 DEF f, r

\* A composition with one body less in a role, unless there is none.
Downed(comp, r) == [comp EXCEPT ![r] = Minus(comp[r], 1)]

\* What the death of p makes of the force, and of the formation of p.
Gone(L, p) == [L EXCEPT !.head = @ - 1, !.dead = @ + 1, !.person[p].at = "gone"]
Mourned(L, p, f) ==
    LET r == L.person[p].role IN
    [Gone(L, p) EXCEPT
        !.doc[f] = [L.doc[f] EXCEPT !.n = L.doc[f].n - 1, !.comp = Downed(L.doc[f].comp, r)],
        !.given[f] = [n |-> L.doc[f].n - 1, comp |-> Downed(L.given[f].comp, r)]]

LEMMA GoneSane ==
  ASSUME NEW L, Sane(L), Valid(L), NEW p \in People
  PROVE  /\ Sane(Gone(L, p)) /\ Gone(L, p).doc = L.doc /\ Gone(L, p).given = L.given
         /\ Gone(L, p).listed = L.listed /\ Gone(L, p).cohort = L.cohort
<1> DEFINE q == [L.person[p] EXCEPT !.at = "gone"]
           P == [L.person EXCEPT ![p] = q]
           a == L.dead + 1
           b == L.head - 1
           M == Made(L, a, b, L.free, L.listed, L.given, P, L.cohort, L.doc)
<1>1. /\ L \in Ledgers /\ L.cohort \in [Slots -> Cohorts]
      /\ L.dead \in Int /\ L.head \in Int /\ L.free \in [Roles -> [Places -> Int]]
      /\ L.listed \in SUBSET Formations
      /\ L.given \in [Formations -> [n : Int, comp : [Roles -> Int]]]
      /\ L.person \in [People -> Persons] /\ L.doc \in [Formations -> Docs \cup {None}]
      /\ Founded(L.cohort) /\ Enrolled(L.person)
      /\ Allotted(L.listed, L.given, L.doc)
  BY LedgerFields DEF Sane
<1>2. P \in [People -> Persons] /\ Enrolled(P)
  <2>1. q \in Persons /\ q.at = "gone"
    BY <1>1 DEF Persons
  <2>2. q.at \notin Formations
    BY <2>1, NoneIsNone
  <2> HIDE DEF q
  <2> QED BY <1>1, <2>1, <2>2 DEF Enrolled
<1>3. a \in Int /\ b \in Int /\ a + b = L.dead + L.head
  <2>1. \A m, n \in Int : m + 1 \in Int /\ n - 1 \in Int /\ (m + 1) + (n - 1) = m + n
    OBVIOUS
  <2> QED BY <1>1, <2>1
<1>4. Gone(L, p) = M
  BY <1>1 DEF Gone, Made, Ledgers
<1>5. M.listed = L.listed /\ M.given = L.given /\ M.cohort = L.cohort
  BY <1>1 DEF Made, Ledgers
<1> HIDE DEF P, a, b
<1>6. Makes(L, a, b, L.free, L.listed, L.given, P, L.cohort, L.doc)
  BY <1>1, <1>2, <1>3 DEF Makes
<1> HIDE DEF M
<1>7. Sane(M) /\ M.doc = L.doc
  BY <1>6, MadeSane DEF M
<1> QED BY <1>4, <1>5, <1>7

LEMMA MournedSane ==
  ASSUME NEW L, Sane(L), Valid(L), NEW p \in People, NEW f \in Formations, L.person[p].at = f,
         NEW N, N = Mourned(L, p, f)
  PROVE  /\ Sane(N) /\ N.cohort = L.cohort /\ N.listed = L.listed
         /\ N.person[p].at = "gone" /\ \A q \in People \ {p} : N.person[q] = L.person[q]
         /\ \A g \in Formations \ {f} : N.doc[g] = L.doc[g] /\ N.given[g] = L.given[g]
         /\ N.doc[f] \in Docs /\ N.doc[f].n = L.doc[f].n - 1
         /\ N.doc[f].comp = Downed(L.doc[f].comp, L.person[p].role)
         /\ N.doc[f].slices = L.doc[f].slices
         /\ N.given[f].n = L.doc[f].n - 1
         /\ N.given[f].comp = Downed(L.given[f].comp, L.person[p].role)
<1> DEFINE r == L.person[p].role
           q == [L.person[p] EXCEPT !.at = "gone"]
           P == [L.person EXCEPT ![p] = q]
           a == L.dead + 1
           b == L.head - 1
           old == L.doc[f]
           told == L.given[f].comp
           less == Downed(old.comp, r)
           rest == Downed(told, r)
           d == [old EXCEPT !.n = old.n - 1, !.comp = less]
           t == [n |-> old.n - 1, comp |-> rest]
           D == [L.doc EXCEPT ![f] = d]
           G == [L.given EXCEPT ![f] = t]
           M == Made(L, a, b, L.free, L.listed, G, P, L.cohort, D)
<1>1. /\ L \in Ledgers /\ L.cohort \in [Slots -> Cohorts]
      /\ L.dead \in Int /\ L.head \in Int /\ L.free \in [Roles -> [Places -> Int]]
      /\ L.listed \in SUBSET Formations
      /\ L.given \in [Formations -> [n : Int, comp : [Roles -> Int]]]
      /\ L.person \in [People -> Persons] /\ L.doc \in [Formations -> Docs \cup {None}]
      /\ Founded(L.cohort) /\ Enrolled(L.person)
      /\ Allotted(L.listed, L.given, L.doc)
  BY LedgerFields DEF Sane
<1>2. f \in L.listed /\ old # None /\ r \in Roles
  BY EmbeddedListed
<1>3. /\ old \in Docs /\ old.n \in Int /\ old.comp \in [Roles -> Int] /\ told \in [Roles -> Int]
  BY <1>1, <1>2, DocFields
<1>4. q \in Persons /\ q.at = "gone" /\ q.at \notin Formations
  <2>1. q \in Persons /\ q.at = "gone"
    BY <1>1 DEF Persons
  <2> QED BY <2>1, NoneIsNone
<1>5. N = M
  <2> DEFINE X == Gone(L, p)
  <2>1. /\ X = [L EXCEPT !.dead = a, !.head = b, !.person = P]
        /\ X.doc = L.doc /\ X.given = L.given
    BY <1>1 DEF Gone, Ledgers
  <2>2. N = [X EXCEPT !.doc = [X.doc EXCEPT ![f] = d], !.given = [X.given EXCEPT ![f] = t]]
    <3> HIDE DEF X
    <3>1. N = [X EXCEPT !.doc[f] = d, !.given[f] = t]
      BY Zenon DEF Mourned, X
    <3> HIDE DEF d, t
    <3> QED BY <3>1
  <2> HIDE DEF X, a, b, P, d, t
  <2>3. M = [L EXCEPT !.dead = a, !.head = b, !.person = P, !.doc = D, !.given = G]
    BY <1>1 DEF Made, Ledgers
  <2> QED BY <1>1, <2>1, <2>2, <2>3 DEF Ledgers
<1>6. a \in Int /\ b \in Int /\ a + b = L.dead + L.head
  <2>1. \A m, n \in Int : m + 1 \in Int /\ n - 1 \in Int /\ (m + 1) + (n - 1) = m + n
    OBVIOUS
  <2> QED BY <1>1, <2>1
<1> HIDE DEF q, a, b
<1>7. P \in [People -> Persons] /\ Enrolled(P) /\ P[p] = q /\ \A s \in People \ {p} : P[s] = L.person[s]
  BY <1>1, <1>4 DEF Enrolled
<1>8. less \in [Roles -> Int] /\ rest \in [Roles -> Int]
  <2>1. Minus(old.comp[r], 1) \in Int /\ Minus(told[r], 1) \in Int
    BY <1>2, <1>3 DEF Minus
  <2> HIDE DEF old, told
  <2> QED BY <1>2, <1>3, <2>1 DEF Downed
<1> HIDE DEF old, told, less, rest, r
<1>9. d \in Docs /\ d.n = old.n - 1 /\ d.comp = less /\ d.slices = old.slices
  <2> DEFINE n == old.n - 1
  <2>1. n \in Int
    BY <1>3
  <2> HIDE DEF n
  <2>2. [old EXCEPT !.n = n, !.comp = less] \in Docs
    BY <1>3, <1>8, <2>1 DEF Docs
  <2>3. /\ [old EXCEPT !.n = n, !.comp = less].n = n
        /\ [old EXCEPT !.n = n, !.comp = less].comp = less
        /\ [old EXCEPT !.n = n, !.comp = less].slices = old.slices
    BY <1>3 DEF Docs
  <2> QED BY <2>2, <2>3 DEF n
<1>10. t \in [n : Int, comp : [Roles -> Int]] /\ t.n = old.n - 1 /\ t.comp = rest
  BY <1>3, <1>8
<1> HIDE DEF d, t
<1>11. /\ D \in [Formations -> Docs \cup {None}] /\ G \in [Formations -> [n : Int, comp : [Roles -> Int]]]
       /\ D[f] = d /\ G[f] = t /\ \A g \in Formations \ {f} : D[g] = L.doc[g] /\ G[g] = L.given[g]
  BY <1>1, <1>9, <1>10
<1>12. Allotted(L.listed, G, D)
  BY <1>1, <1>2, <1>9, <1>11, NoneIsNone DEF Allotted
<1> HIDE DEF D, G, P
<1>13. M.listed = L.listed /\ M.given = G /\ M.cohort = L.cohort /\ M.person = P
  BY <1>1 DEF Made, Ledgers
<1>14. Makes(L, a, b, L.free, L.listed, G, P, L.cohort, D)
  BY <1>1, <1>6, <1>7, <1>11, <1>12 DEF Makes
<1> HIDE DEF M
<1>15. Sane(M) /\ M.doc = D
  BY <1>14, MadeSane DEF M
<1> QED BY <1>4, <1>5, <1>7, <1>9, <1>10, <1>11, <1>13, <1>15 DEF old, told, less, rest, r

LEMMA DieIs ==
  ASSUME NEW p \in People, Die(p)
  PROVE  \/ Settle(Check(Gone(ledger, p)), FALSE)
         \/ /\ ledger.person[p].at \in Formations
            /\ Settle(Check(Mourned(ledger, p, ledger.person[p].at)),
                      ledger.doc[ledger.person[p].at].n = 1)
BY Zenon DEF Die, Gone, Mourned, Downed

LEMMA DieKeeps == ASSUME IInv, NEW p \in People, Die(p) PROVE IInv'
<1>1. Good(Check(Gone(ledger, p)))
  BY Now, GoneSane, CheckGood
<1>2. ASSUME ledger.person[p].at \in Formations
      PROVE  Good(Check(Mourned(ledger, p, ledger.person[p].at)))
  BY <1>2, Now, MournedSane, CheckGood
<1> QED BY <1>1, <1>2, DieIs, SettleKeeps

LEMMA OpenKeeps ==
  ASSUME IInv, NEW f \in Formations, NEW kind, NEW d \in Docs, NEW L, Saved(L),
         Open(f, kind, d, L)
  PROVE  IInv'
<1>1. /\ order'.f = f /\ order'.doc = d /\ order'.saved = ledger /\ ledger' = L
  BY DEF Open
<1>2. Saved(ledger)
  BY DEF IInv
<1> QED BY <1>1, <1>2 DEF IInv

LEMMA BeginKeeps == ASSUME IInv, NEW f \in Formations, NEW kind, Begin(f, kind) PROVE IInv'
<1> DEFINE d == ledger.doc[f]
<1>1. d # None /\ Open(f, kind, d, ledger)
  BY DEF Begin, Exists
<1>2. d \in Docs
  BY <1>1, Now, DocFields DEF Sane
<1>3. Saved(ledger)
  BY DEF IInv
<1> HIDE DEF d
<1> QED BY <1>1, <1>2, <1>3, OpenKeeps

LEMMA ReconstituteKeeps ==
  ASSUME IInv, NEW f \in Formations, NEW adds \in Some, Reconstitute(f, adds) PROVE IInv'
<1> DEFINE d == ledger.doc[f]
           R == Reinforce(ledger, f, adds)
           N == Listed(R, f)
           L == Check(N)
           M == [L EXCEPT !.doc[f] = d]
<1>1. d # None /\ ((L.ok /\ Open(f, "reconstitute", L.doc[f], M)) \/ Refused(FALSE))
  BY DEF Reconstitute, Exists
<1>2. d \in Docs /\ adds \in [Roles -> Int]
  BY <1>1, Now, Numbers, DocFields DEF Sane
<1>3. Sane(R) /\ R.doc[f] # None
  <2>1. Sane(R) /\ Mustered(ledger, R, f)
    BY <1>1, <1>2, Now, ReinforceSane
  <2> QED BY <2>1 DEF Mustered
<1> HIDE DEF R
<1>4. Sane(N) /\ N.doc[f] # None
  BY <1>3, ListedSane
<1> HIDE DEF N
<1>5. Good(L)
  BY <1>4, CheckGood
<1>6. ASSUME L.ok PROVE L = N
  BY <1>4, <1>6 DEF Check, Refuse, Sane, Ledgers
<1> HIDE DEF L
<1>7. ASSUME L.ok PROVE L.doc[f] \in Docs
  BY <1>4, <1>6, <1>7, DocFields DEF Sane
<1>8. M = Rewritten(L, f, d)
  BY <1>5 DEF Rewritten, Good, Sane, Ledgers
<1> HIDE DEF d, M
<1>9. Good(M) /\ M.ok = L.ok
  BY <1>2, <1>5, <1>8, RewriteGood
<1>10. ASSUME L.ok PROVE Saved(M)
  BY <1>9, <1>10 DEF Good, Saved
<1> QED BY <1>1, <1>7, <1>10, OpenKeeps, RefusedKeeps

LEMMA FinishKeeps == ASSUME IInv, NEW L, Good(L), Finish(L) PROVE IInv'
<1>1. CASE Refused(ledger.doc[order.f] # order.saved.doc[order.f])
  <2> DEFINE excuse == ledger.doc[order.f] # order.saved.doc[order.f]
  <2>1. Refused(excuse)
    BY <1>1
  <2> HIDE DEF excuse
  <2> QED BY <2>1, RefusedKeeps
<1>2. CASE L.ok /\ ledger' = Pruned(L, None) /\ order' = None
  <2> DEFINE M == Pruned(L, None)
  <2>1. ledger' = M /\ order' = None
    BY <1>2
  <2>2. Good(M) /\ M.ok = L.ok
    BY PrunedGood
  <2> HIDE DEF M
  <2>3. Saved(M)
    BY <1>2, <2>2 DEF Good, Saved
  <2> QED BY <2>1, <2>3 DEF IInv
<1> QED BY <1>1, <1>2 DEF Finish

LEMMA EndKeeps == ASSUME IInv, NEW place \in Places, End(place) PROVE IInv'
<1> DEFINE f == order.f
           copy == [ledger EXCEPT !.doc[f] = order.doc]
           E == Ensure(copy, f)
           K == Check(E)
           T == Isolate(K, f)
           S == [copy EXCEPT !.doc[f].at = place,
                             !.doc[f].lost = @ /\ order.kind \notin {"mobilize", "move"}]
           d == [order.doc EXCEPT !.at = place,
                                  !.lost = @ /\ order.kind \notin {"mobilize", "move"}]
           L == IF order.kind = "train" THEN T ELSE S
<1>1. order # None /\ Finish(L)
  BY DEF End
<1>2. f \in Formations /\ order.doc \in Docs
  BY <1>1 DEF IInv
<1>3. copy = Rewritten(ledger, f, order.doc)
  BY Now DEF Rewritten, Sane, Ledgers
<1>4. copy.doc[f] = order.doc
  BY <1>2, Now DEF Sane, Ledgers
<1>5. d \in Docs
  BY <1>2 DEF Docs
<1>6. copy \in Ledgers => S = Rewritten(copy, f, d)
  BY Zenon, <1>2, <1>4 DEF Rewritten, Ledgers
<1> HIDE DEF f, copy, d
<1>7. Good(copy) /\ copy.doc[f] # None
  BY <1>2, <1>3, Now, RewriteGood
<1>8. copy \in Ledgers
  BY <1>7 DEF Good, Sane
<1> HIDE DEF S
<1>9. Good(S)
  BY <1>2, <1>5, <1>6, <1>7, <1>8, RewriteGood
<1>10. Good(E) /\ E.doc[f] # None
  <2>1. Good(E) /\ Kindred(copy, E, f)
    BY <1>2, <1>7, EnsureGood
  <2> QED BY <2>1 DEF Kindred
<1> HIDE DEF E
<1>11. Good(K) /\ K.doc[f] # None
  <2>1. Good(K)
    BY <1>10, CheckGood DEF Good
  <2>2. K.doc = E.doc
    BY <1>10 DEF Check, Refuse, Good, Sane, Ledgers
  <2> QED BY <1>10, <2>1, <2>2
<1> HIDE DEF K
<1>12. Good(T)
  BY <1>2, <1>11, IsolateGood
<1> HIDE DEF T
<1>13. Good(L)
  BY <1>9, <1>12
<1> HIDE DEF L
<1> QED BY <1>1, <1>13, FinishKeeps

-----------------------------------------------------------------------------
(* The account of all bodies. *)

\* Cohorts without a role have nothing to add.
LEMMA RoleSum ==
  ASSUME NEW C \in [Slots -> Cohorts], NEW v,
         \A i \in Slots : v[i] \in Int /\ (C[i].role = None => v[i] = 0),
         NEW g, \A r \in Roles : g[r] = SumFunctionOnSet(v, {i \in Slots : C[i].role = r})
  PROVE  SumFunctionOnSet(v, Slots) = SumFunctionOnSet(g, Roles)
<1> DEFINE key == [i \in Slots |-> C[i].role]
<1>1. \A i \in Slots : v[i] \in Int /\ (key[i] \in Roles \/ v[i] = 0)
  <2> SUFFICES ASSUME NEW i \in Slots PROVE C[i].role \in Roles \/ v[i] = 0
    OBVIOUS
  <2>1. C[i].role \in Roles \cup {None}
    BY DEF Cohorts
  <2>2. C[i].role = None => v[i] = 0
    OBVIOUS
  <2> QED BY <2>1, <2>2
<1>2. ASSUME NEW r \in Roles PROVE g[r] = SumFunctionOnSet(v, Among(Slots, key, r))
  <2>1. Among(Slots, key, r) = {i \in Slots : C[i].role = r}
    BY DEF Among
  <2> QED BY <2>1
<1> HIDE DEF key
<1>3. Grouped(v, key, Slots, Roles) /\ GroupSums(g, v, key, Slots, Roles)
  BY <1>1, <1>2 DEF Grouped, GroupSums
<1> QED BY <1>3, Finite, SumGroups

\* A set is as large as its groups together.
LEMMA CountGroups ==
  ASSUME NEW S, IsFiniteSet(S), NEW K, IsFiniteSet(K), NEW key, \A x \in S : key[x] \in K,
         NEW g, \A k \in K : g[k] = Cardinality(Among(S, key, k))
  PROVE  Cardinality(S) = SumFunctionOnSet(g, K)
<1> DEFINE one == [x \in S |-> 1]
<1>1. \A x \in S : one[x] = 1 /\ one[x] \in Int
  OBVIOUS
<1> HIDE DEF one
<1>2. SumFunctionOnSet(one, S) = Cardinality(S)
  BY <1>1, SumOnes
<1>3. ASSUME NEW k \in K PROVE g[k] = SumFunctionOnSet(one, Among(S, key, k))
  <2> DEFINE T == Among(S, key, k)
  <2>1. T \in SUBSET S
    BY DEF Among
  <2>2. IsFiniteSet(T) /\ \A x \in T : one[x] = 1
    BY <1>1, <2>1, FS_Subset
  <2> HIDE DEF T
  <2>3. SumFunctionOnSet(one, T) = Cardinality(T)
    BY <2>2, SumOnes
  <2> QED BY <2>3 DEF T
<1>4. SumFunctionOnSet(one, S) = SumFunctionOnSet(g, K)
  <2>1. Grouped(one, key, S, K) /\ GroupSums(g, one, key, S, K)
    BY <1>1, <1>3 DEF Grouped, GroupSums
  <2> QED BY <2>1, SumGroups
<1> QED BY <1>2, <1>4

\* The bodies of the reserve, by cohort and by role.
LEMMA ReserveAccount ==
  ASSUME NEW L, Sane(L), Valid(L)
  PROVE  SumFunctionOnSet([i \in Slots |-> Total(L.cohort[i].res)], Slots)
           = Total([r \in Roles |-> Total(L.free[r])])
<1> DEFINE C == L.cohort
           v == [i \in Slots |-> Total(C[i].res)]
           g == [r \in Roles |-> Total(L.free[r])]
<1>1. C \in [Slots -> Cohorts] /\ Founded(C)
  BY LedgerFields DEF Sane
<1>2. \A i \in Slots : v[i] \in Int /\ (C[i].role = None => v[i] = 0)
  BY <1>1, CohortFields, IdleIs DEF Founded
<1>3. \A r \in Roles : InReserve(C, r) = Total(L.free[r])
  BY ValidIs DEF Tallied
<1>4. \A r \in Roles : g[r] = SumFunctionOnSet(v, {i \in Slots : C[i].role = r})
  BY <1>3 DEF InReserve
<1>5. Total(g) = SumFunctionOnSet(g, Roles)
  <2>1. g \in [Roles -> {Total(L.free[r]) : r \in Roles}]
    OBVIOUS
  <2> HIDE DEF g
  <2> QED BY <2>1, TotalOn
<1> HIDE DEF C, v, g
<1>6. SumFunctionOnSet(v, Slots) = SumFunctionOnSet(g, Roles)
  BY <1>1, <1>2, <1>4, RoleSum
<1> QED BY <1>5, <1>6 DEF v, g, C

\* The bodies in formations, by cohort and by formation.
LEMMA HeldAccount ==
  ASSUME NEW C \in [Slots -> Cohorts], Founded(C)
  PROVE  SumFunctionOnSet([i \in Slots |-> Total(C[i].held)], Slots)
           = SumFunctionOnSet([f \in Formations |-> Total(HeldIn(C, f))], Formations)
<1> DEFINE a == [i \in Slots |-> Total(C[i].held)]
           b == [f \in Formations |-> Total(HeldIn(C, f))]
           m == [i \in Slots |-> C[i].held]
<1>1. /\ \A i \in Slots : \A f \in Formations : m[i][f] \in Int
      /\ \A i \in Slots : C[i].held \in [Formations -> Int]
  BY CohortFields
<1>2. \A i \in Slots : a[i] = SumFunctionOnSet(m[i], Formations)
  BY <1>1, TotalOn
<1>3. ASSUME NEW f \in Formations PROVE b[f] = SumFunctionOnSet(Column(m, Slots, f), Slots)
  <2> DEFINE v == [i \in Slots |-> C[i].held[f]]
             g == HeldIn(C, f)
  <2>1. \A i \in Slots : v[i] \in Int /\ (C[i].role = None => v[i] = 0)
    BY <1>1 DEF Founded, Idle
  <2>2. \A r \in Roles : g[r] = SumFunctionOnSet(v, {i \in Slots : C[i].role = r})
    BY DEF HeldIn
  <2>3. v = Column(m, Slots, f)
    BY DEF Column
  <2>4. b[f] = Total(g)
    OBVIOUS
  <2>5. g \in [Roles -> {g[r] : r \in Roles}]
    BY DEF HeldIn
  <2> HIDE DEF v, g, b, m
  <2>6. Total(g) = SumFunctionOnSet(g, Roles)
    BY <2>5, TotalOn
  <2>7. SumFunctionOnSet(v, Slots) = SumFunctionOnSet(g, Roles)
    BY <2>1, <2>2, RoleSum
  <2> QED BY <2>3, <2>4, <2>6, <2>7
<1> HIDE DEF a, b, m
<1>4. /\ Numeric(m, Slots, Formations) /\ RowSums(a, m, Slots, Formations)
      /\ ColumnSums(b, m, Slots, Formations)
  BY <1>1, <1>2, <1>3 DEF Numeric, RowSums, ColumnSums
<1>5. SumFunctionOnSet(a, Slots) = SumFunctionOnSet(b, Formations)
  BY <1>4, Finite, SumSwap
<1> QED BY <1>5 DEF a, b

\* The persons in formations.
InFormations(P) == {p \in People : P[p].at \in Formations}

LEMMA NamedAccount ==
  ASSUME NEW P \in [People -> Persons], Enrolled(P)
  PROVE  /\ Cardinality(InFormations(P))
              = SumFunctionOnSet([f \in Formations |-> Total(NamedIn(P, f))], Formations)
         /\ Cardinality({p \in People : P[p].at \in {"own"} \cup Formations})
              = Cardinality({p \in People : P[p].at = "own"}) + Cardinality(InFormations(P))
<1> DEFINE S == InFormations(P)
           at == [p \in People |-> P[p].at]
           role == [p \in People |-> P[p].role]
           g == [f \in Formations |-> Total(NamedIn(P, f))]
<1>1. IsFiniteSet(S) /\ S \in SUBSET People /\ \A p \in S : at[p] \in Formations
  <2>1. S \in SUBSET People /\ \A p \in S : at[p] \in Formations
    BY DEF InFormations
  <2> QED BY <2>1, Finite, FS_Subset
<1>2. ASSUME NEW f \in Formations PROVE g[f] = Cardinality(Among(S, at, f))
  <2> DEFINE T == Among(S, at, f)
             n == NamedIn(P, f)
  <2>1. T = {q \in People : P[q].at = f}
    BY DEF Among, InFormations
  <2>2. IsFiniteSet(T)
    BY <2>1, Finite, FS_Subset
  <2>3. \A p \in T : role[p] \in Roles
    BY <2>1 DEF Enrolled
  <2>4. \A r \in Roles : n[r] = Cardinality(Among(T, role, r))
    <3> SUFFICES ASSUME NEW r \in Roles PROVE n[r] = Cardinality(Among(T, role, r))
      OBVIOUS
    <3>1. Among(T, role, r) = {p \in {q \in People : P[q].at = f} : P[p].role = r}
      BY <2>1 DEF Among
    <3>2. n[r] = Cardinality({p \in {q \in People : P[q].at = f} : P[p].role = r})
      BY DEF NamedIn
    <3> QED BY <3>1, <3>2
  <2>5. n \in [Roles -> {n[r] : r \in Roles}]
    BY DEF NamedIn
  <2>6. g[f] = Total(n)
    OBVIOUS
  <2> HIDE DEF T, n, g, role
  <2>7. Total(n) = SumFunctionOnSet(n, Roles)
    BY <2>5, TotalOn
  <2>8. Cardinality(T) = SumFunctionOnSet(n, Roles)
    BY <2>2, <2>3, <2>4, Finite, CountGroups
  <2> QED BY <2>6, <2>7, <2>8 DEF T
<1>3. Cardinality(S) = SumFunctionOnSet(g, Formations)
  <2> HIDE DEF S, at, g
  <2> QED BY <1>1, <1>2, Finite, CountGroups
<1>4. Cardinality({p \in People : P[p].at \in {"own"} \cup Formations})
        = Cardinality({p \in People : P[p].at = "own"}) + Cardinality(S)
  <2> DEFINE A == {p \in People : P[p].at = "own"}
             B == {p \in People : P[p].at \in {"own"} \cup Formations}
  <2>1. IsFiniteSet(A) /\ IsFiniteSet(S)
    BY <1>1, Finite, FS_Subset
  <2>2. A \cup S = B /\ A \cap S = {}
    BY NoneIsNone DEF InFormations
  <2> HIDE DEF A, B, S
  <2>3. Cardinality(A \cup S) = Cardinality(A) + Cardinality(S) - Cardinality(A \cap S)
    BY <2>1, FS_Union
  <2>4. Cardinality(A \cap S) = 0 /\ Cardinality(A) \in Nat /\ Cardinality(S) \in Nat
    BY <2>1, <2>2, FS_EmptySet, FS_CardinalityType
  <2>5. Cardinality(B) = Cardinality(A) + Cardinality(S)
    BY <2>2, <2>3, <2>4
  <2> QED BY <2>5 DEF A, B
<1> QED BY <1>3, <1>4

\* What was given to a formation is what the cohorts hold there and who is named there.
LEMMA GivenIs ==
  ASSUME NEW L, Sane(L), Valid(L), NEW f \in Formations
  PROVE  /\ L.given[f].n = Total(HeldIn(L.cohort, f)) + Total(NamedIn(L.person, f))
         /\ Total(HeldIn(L.cohort, f)) \in Nat /\ Total(NamedIn(L.person, f)) \in Nat
<1> DEFINE C == L.cohort
           P == L.person
           x == HeldIn(C, f)
           y == NamedIn(P, f)
           z == BodiesIn(C, P, f)
<1>1. /\ C \in [Slots -> Cohorts] /\ P \in [People -> Persons]
      /\ Allotted(L.listed, L.given, L.doc)
  BY LedgerFields DEF Sane
<1>2. /\ x \in [Roles -> Nat] /\ y \in [Roles -> Nat] /\ z \in [Roles -> Nat] /\ Total(z) \in Nat
      /\ \A r \in Roles : z[r] = x[r] + y[r]
  BY <1>1, BodiesNat
<1>3. /\ (f \in L.listed) <=> (Total(z) > 0)
      /\ f \in L.listed => L.given[f].n = Total(z)
  BY ValidIs DEF Tallied
<1>4. f \notin L.listed => L.given[f].n = 0
  BY <1>1 DEF Allotted
<1> HIDE DEF C, P, x, y, z
<1>5. /\ Total(x) = SumFunctionOnSet(x, Roles) /\ Total(y) = SumFunctionOnSet(y, Roles)
      /\ Total(z) = SumFunctionOnSet(z, Roles)
  BY <1>2, TotalOn
<1>6. \A r \in Roles : x[r] \in Int /\ y[r] \in Int /\ z[r] = x[r] + y[r]
  BY <1>2
<1>7. SumFunctionOnSet(z, Roles) = SumFunctionOnSet(x, Roles) + SumFunctionOnSet(y, Roles)
  BY <1>6, Finite, SumPlus
<1>8. Total(x) \in Nat /\ Total(y) \in Nat
  BY <1>2, Finite, TotalNat
<1>9. L.given[f].n = Total(z)
  <2> DEFINE t == Total(z)
             n == L.given[f].n
  <2>1. t \in Nat /\ ((f \in L.listed) <=> (t > 0)) /\ (f \in L.listed => n = t)
        /\ (f \notin L.listed => n = 0)
    BY <1>2, <1>3, <1>4
  <2> HIDE DEF t, n
  <2>2. n = t
    BY <2>1
  <2> QED BY <2>2 DEF n, t
<1> QED BY <1>5, <1>7, <1>8, <1>9 DEF x, y, C, P

LEMMA Accounted ==
  ASSUME NEW L, Sane(L), Valid(L)
  PROVE  L.head = Total([r \in Roles |-> Total(L.free[r])])
                    + Total([f \in Formations |-> L.given[f].n]) + Cardinality(Unassigned(L))
<1> DEFINE C == L.cohort
           P == L.person
           a == [i \in Slots |-> Total(C[i].res)]
           b == [i \in Slots |-> Total(C[i].held)]
           c == [i \in Slots |-> Total(C[i].res) + Total(C[i].held)]
           h == [f \in Formations |-> Total(HeldIn(C, f))]
           n == [f \in Formations |-> Total(NamedIn(P, f))]
           g == [f \in Formations |-> L.given[f].n]
           own == {p \in People : P[p].at = "own"}
           all == {p \in People : P[p].at \in {"own"} \cup Formations}
           X == Total([r \in Roles |-> Total(L.free[r])])
<1>1. C \in [Slots -> Cohorts] /\ Founded(C) /\ P \in [People -> Persons] /\ Enrolled(P)
  BY LedgerFields DEF Sane
<1>2. \A i \in Slots : a[i] \in Int /\ b[i] \in Int /\ c[i] = a[i] + b[i]
  BY <1>1, CohortFields
<1>3. SumFunctionOnSet(a, Slots) = X
  BY ReserveAccount
<1>4. SumFunctionOnSet(b, Slots) = SumFunctionOnSet(h, Formations)
  BY <1>1, HeldAccount
<1>5. /\ Cardinality(InFormations(P)) = SumFunctionOnSet(n, Formations)
      /\ Cardinality(all) = Cardinality(own) + Cardinality(InFormations(P))
  BY <1>1, NamedAccount
<1>6. \A f \in Formations : h[f] \in Int /\ n[f] \in Int /\ g[f] = h[f] + n[f]
  <2> SUFFICES ASSUME NEW f \in Formations PROVE h[f] \in Int /\ n[f] \in Int /\ g[f] = h[f] + n[f]
    OBVIOUS
  <2> QED BY GivenIs
<1>7. Total(c) + Cardinality(all) = L.head
  BY ValidIs DEF Tallied
<1>8. Unassigned(L) = own
  BY DEF Unassigned
<1>9. Total(c) = SumFunctionOnSet(c, Slots) /\ Total(g) = SumFunctionOnSet(g, Formations)
  <2>1. c \in [Slots -> {c[i] : i \in Slots}] /\ g \in [Formations -> {g[f] : f \in Formations}]
    OBVIOUS
  <2> HIDE DEF c, g
  <2> QED BY <2>1, TotalOn
<1> DEFINE sa == SumFunctionOnSet(a, Slots)
           sb == SumFunctionOnSet(b, Slots)
           sh == SumFunctionOnSet(h, Formations)
           sn == SumFunctionOnSet(n, Formations)
           sg == SumFunctionOnSet(g, Formations)
           u == Cardinality(own)
<1>10. IsFiniteSet(own)
  BY Finite, FS_Subset
<1>11. u \in Nat
  BY <1>10, FS_CardinalityType
<1> HIDE DEF a, b, c, h, n, g, X, own, all, P
<1>12. SumFunctionOnSet(c, Slots) = sa + sb
  BY <1>2, Finite, SumPlus
<1>13. sg = sh + sn
  BY <1>6, Finite, SumPlus
<1>14. sa \in Int /\ sb \in Int /\ sh \in Int /\ sn \in Int
  BY <1>2, <1>6, Finite, SumInt
<1>15. L.head = (sa + sb) + (u + sn)
  BY <1>5, <1>7, <1>9, <1>12
<1> HIDE DEF sa, sb, sh, sn, sg, u
<1>16. (sa + sb) + (u + sn) = sa + sg + u
  <2>1. sb = sh
    BY <1>4 DEF sb, sh
  <2> QED BY <1>11, <1>13, <1>14, <2>1
<1>17. L.head = X + Total(g) + Cardinality(Unassigned(L))
  BY <1>3, <1>8, <1>9, <1>15, <1>16 DEF sa, sg, u
<1> QED BY <1>17 DEF X, g

LEMMA Conserved == ASSUME IInv PROVE BodiesConserved
<1>1. ledger.pop + ledger.dead + ledger.head = Civilians + Total(Reserve)
  BY Now DEF Sane, Souls
<1>2. ledger.head = Total([r \in Roles |-> Total(ledger.free[r])])
                      + Total([f \in Formations |-> ledger.given[f].n])
                      + Cardinality(Unassigned(ledger))
  BY Now, Accounted
<1> QED BY <1>1, <1>2 DEF BodiesConserved

-----------------------------------------------------------------------------
(* The start. *)

LEMMA OnlyTotal ==
  ASSUME NEW S, IsFiniteSet(S), NEW x \in S, NEW k \in Int
  PROVE  Total(Only(S, x, k)) = k
<1> DEFINE z == [s \in S |-> 0]
           o == Only(S, x, k)
<1>1. \A s \in S : z[s] = 0 /\ z[s] \in Int
  OBVIOUS
<1>6. o \in [S -> Int] /\ \A s \in S : o[s] = IF s = x THEN k ELSE 0
  BY OnlyIs
<1> HIDE DEF z, o
<1>2. o[x] = k /\ \A s \in S : o[s] \in Int /\ (s # x => o[s] = z[s])
  BY <1>1, <1>6
<1>3. SumFunctionOnSet(z, S) = 0
  BY <1>1, SumZero
<1>4. SumFunctionOnSet(o, S) = SumFunctionOnSet(z, S) - z[x] + o[x]
  BY <1>1, <1>2, SumOne
<1>5. Total(o) = SumFunctionOnSet(o, S)
  BY <1>6, TotalOn
<1> QED BY <1>1, <1>2, <1>3, <1>4, <1>5 DEF o

\* Every role, each once.
LEMMA RolesListed ==
  /\ DOMAIN SetToSeq(Roles) = 1..Cardinality(Roles)
  /\ \A k \in 1..Cardinality(Roles) : SetToSeq(Roles)[k] \in Roles
  /\ \A r \in Roles : \E k \in 1..Cardinality(Roles) : SetToSeq(Roles)[k] = r
  /\ \A k, l \in 1..Cardinality(Roles) : SetToSeq(Roles)[k] = SetToSeq(Roles)[l] => k = l
<1> DEFINE n == Cardinality(Roles)
           B == 1..n
           each == SetToSeq(Roles)
<1>1. n \in Nat /\ ExistsBijection(B, Roles)
  BY Finite, FS_CardinalityType
<1>2. \E s \in [B -> Roles] : IsInjective(s)
  BY <1>1 DEF ExistsBijection, Bijection, Injection
<1>3. IsFiniteSet(B) /\ Cardinality(B) = n
  <2>1. n \in Int /\ 1 \in Int /\ n - 1 + 1 = n /\ (1 > n => n = 0)
    BY <1>1
  <2> HIDE DEF n
  <2>2. /\ IsFiniteSet(1..n)
        /\ Cardinality(1..n) = IF 1 > n THEN 0 ELSE n - 1 + 1
    BY <2>1, FS_Interval
  <2> QED BY <2>1, <2>2
<1> HIDE DEF B
<1>4. each \in [B -> Roles] /\ IsInjective(each)
  <2>1. each = CHOOSE s \in [B -> Roles] : IsInjective(s)
    BY DEF SetToSeq, B
  <2> HIDE DEF each
  <2> QED BY <1>2, <2>1
<1> HIDE DEF each
<1>5. each \in Injection(B, Roles)
  BY <1>4 DEF Injection
<1>6. each \in Surjection(B, Roles)
  BY <1>3, <1>5, Finite, FS_Injection
<1>7. \A r \in Roles : \E k \in B : each[k] = r
  BY <1>6 DEF Surjection
<1>8. DOMAIN each = B /\ \A k \in B : each[k] \in Roles
  BY <1>4
<1>9. \A k, l \in B : each[k] = each[l] => k = l
  BY <1>4, <1>8 DEF IsInjective
<1> QED BY <1>7, <1>8, <1>9 DEF each, B

\* What the cohorts are at the start: one for each role that has bodies.
Opened(r) == Cohort(r, Only(Places, Home, Reserve[r]), Zero(Formations))
Opening(C) ==
    /\ C \in [Slots -> {Opened(r) : r \in Roles} \cup {Blank}]
    /\ \A i \in Slots : C[i] = Blank \/ \E r \in Roles : Reserve[r] > 0 /\ C[i] = Opened(r)
    /\ \A r \in Roles : \E i \in Slots :
          /\ Reserve[r] > 0 => C[i] = Opened(r)
          /\ \A j \in Slots : C[j] = Opened(r) /\ Reserve[r] > 0 => j = i

LEMMA OpenedIs ==
  /\ \A r \in Roles : Reserve[r] \in Nat
  /\ \A r \in Roles : /\ Opened(r).role = r /\ Opened(r) \in Cohorts
                      /\ Total(Opened(r).res) = Reserve[r]
                      /\ \A f \in Formations : Opened(r).held[f] = 0
  /\ Blank.role = None /\ Blank \in Cohorts /\ Idle(Blank)
<1>1. \A r \in Roles : Reserve[r] \in Nat /\ Reserve[r] \in Int
  BY ForceAssumption
<1>2. ASSUME NEW r \in Roles
      PROVE  /\ Opened(r).role = r /\ Opened(r) \in Cohorts
             /\ Total(Opened(r).res) = Reserve[r]
             /\ \A f \in Formations : Opened(r).held[f] = 0
  <2> DEFINE o == Only(Places, Home, Reserve[r])
             z == Zero(Formations)
  <2>1. o \in [Places -> Nat]
    BY <1>1, OnlyIs
  <2>2. Total(o) = Reserve[r]
    BY <1>1, Finite, ForceAssumption, OnlyTotal
  <2>3. z \in [Formations -> Nat] /\ \A f \in Formations : z[f] = 0
    BY DEF Zero
  <2>4. Opened(r) = [role |-> r, res |-> o, held |-> z]
    BY DEF Opened, Cohort
  <2> HIDE DEF o, z
  <2> QED BY <2>1, <2>2, <2>3, <2>4 DEF Cohorts
<1>3. Blank.role = None /\ Blank \in Cohorts /\ Idle(Blank)
  BY DEF Blank, Zero, Cohorts, Idle
<1> QED BY <1>1, <1>2, <1>3

LEMMA InitOpening == ASSUME Init PROVE Opening(ledger.cohort)
<1> DEFINE n == Cardinality(Roles)
           m == Cardinality(Slots)
           first == Ranked(Slots)
           each == SetToSeq(Roles)
           RoleOf(i) == each[CHOOSE k \in DOMAIN each : first[k] = i]
           used == {first[k] : k \in DOMAIN each}
           C == ledger.cohort
<1>1. C = [i \in Slots |-> IF i \in used /\ Reserve[RoleOf(i)] > 0
                           THEN Cohort(RoleOf(i), Only(Places, Home, Reserve[RoleOf(i)]), Zero(Formations))
                           ELSE Blank]
  BY DEF Init
<1>2. /\ DOMAIN each = 1..n /\ \A k \in 1..n : each[k] \in Roles
      /\ \A r \in Roles : \E k \in 1..n : each[k] = r
      /\ \A k, l \in 1..n : each[k] = each[l] => k = l
  BY RolesListed
<1>3. n \in Nat /\ m \in Nat /\ n <= m /\ 1..n \subseteq 1..m
  <2>1. n \in Nat /\ m \in Nat /\ n <= m
    BY Finite, FS_CardinalityType, ForceAssumption
  <2> HIDE DEF n, m
  <2> QED BY <2>1
<1>4. /\ \A k \in 1..m : first[k] \in Slots
      /\ \A k, l \in 1..m : k < l => first[k] < first[l]
  BY Finite, ForceAssumption, RankedSeq
<1>5. \A i \in Slots : i \in Nat
  BY ForceAssumption
<1> HIDE DEF n, m, first, each
<1>6. \A k, l \in 1..n : first[k] = first[l] => k = l
  <2> SUFFICES ASSUME NEW k \in 1..n, NEW l \in 1..n, first[k] = first[l], k # l PROVE FALSE
    OBVIOUS
  <2>1. k \in Nat /\ l \in Nat /\ (k < l \/ l < k) /\ k \in 1..m /\ l \in 1..m
    BY <1>3
  <2>2. first[k] \in Nat /\ first[l] \in Nat
    BY <1>4, <1>5, <2>1
  <2> QED BY <1>4, <2>1, <2>2
<1>7. ASSUME NEW k \in 1..n
      PROVE  /\ first[k] \in Slots /\ first[k] \in used /\ RoleOf(first[k]) = each[k]
             /\ each[k] \in Roles
  <2>1. first[k] \in Slots /\ first[k] \in used /\ each[k] \in Roles
    BY <1>2, <1>3, <1>4
  <2>2. (CHOOSE l \in 1..n : first[l] = first[k]) = k
    BY <1>6
  <2>3. RoleOf(first[k]) = each[k]
    BY <1>2, <2>2
  <2> QED BY <2>1, <2>3
<1>8. \A i \in used : \E k \in 1..n : first[k] = i
  BY <1>2
<1> HIDE DEF RoleOf, used
<1>9. \A i \in Slots : C[i] = IF i \in used /\ Reserve[RoleOf(i)] > 0 THEN Opened(RoleOf(i)) ELSE Blank
  BY <1>1 DEF Opened
<1>10. DOMAIN C = Slots /\ C = [i \in Slots |-> C[i]]
  BY <1>1
<1> HIDE DEF C
<1>11. \A i \in used : RoleOf(i) \in Roles
  BY <1>7, <1>8
<1>12. \A i \in Slots : C[i] = Blank \/ \E r \in Roles : Reserve[r] > 0 /\ C[i] = Opened(r)
  BY <1>9, <1>11
<1>13. C \in [Slots -> {Opened(r) : r \in Roles} \cup {Blank}]
  BY <1>10, <1>12
<1>14. ASSUME NEW r \in Roles
       PROVE  \E i \in Slots : /\ Reserve[r] > 0 => C[i] = Opened(r)
                               /\ \A j \in Slots : C[j] = Opened(r) /\ Reserve[r] > 0 => j = i
  <2>1. PICK k \in 1..n : each[k] = r
    BY <1>2
  <2>2. /\ first[k] \in Slots /\ first[k] \in used /\ RoleOf(first[k]) = r
    BY <1>7, <2>1
  <2>3. Reserve[r] > 0 => C[first[k]] = Opened(r)
    BY <1>9, <2>2
  <2>4. ASSUME NEW j \in Slots, C[j] = Opened(r), Reserve[r] > 0 PROVE j = first[k]
    <3>1. C[j] # Blank
      <4>1. Opened(r).role = r /\ Blank.role = None /\ r # None
        BY OpenedIs, NoneIsNone
      <4> QED BY <2>4, <4>1
    <3>2. j \in used /\ C[j] = Opened(RoleOf(j)) /\ RoleOf(j) \in Roles
      BY <1>9, <1>11, <3>1
    <3>3. RoleOf(j) = r
      <4>1. Opened(RoleOf(j)).role = RoleOf(j) /\ Opened(r).role = r
        BY <3>2, OpenedIs
      <4> QED BY <2>4, <3>2, <4>1
    <3>4. PICK l \in 1..n : first[l] = j
      BY <1>8, <3>2
    <3>5. each[l] = r
      BY <1>7, <3>3, <3>4
    <3>6. each[l] = each[k]
      BY <2>1, <3>5
    <3>7. l = k
      BY <1>2, <3>6
    <3> QED BY <3>4, <3>7
  <2> QED BY <2>2, <2>3, <2>4
<1> QED BY <1>12, <1>13, <1>14 DEF Opening, C

LEMMA OpeningCohorts ==
  ASSUME NEW C, Opening(C)
  PROVE  /\ C \in [Slots -> Cohorts] /\ Founded(C)
         /\ \A i \in Slots : C[i].held \in [Formations -> Int] /\ Total(C[i].held) = 0
         /\ \A i \in Slots : \A f \in Formations : C[i].held[f] = 0
<1>1. ASSUME NEW i \in Slots
      PROVE  /\ C[i] \in Cohorts /\ (C[i].role = None => Idle(C[i]))
             /\ \A f \in Formations : C[i].held[f] = 0
  <2>1. C[i] = Blank \/ \E r \in Roles : C[i] = Opened(r)
    BY DEF Opening
  <2>2. CASE C[i] = Blank
    BY <2>2, OpenedIs DEF Idle
  <2>3. CASE \E r \in Roles : C[i] = Opened(r)
    BY <2>3, OpenedIs, NoneIsNone
  <2> QED BY <2>1, <2>2, <2>3
<1>2. ASSUME NEW i \in Slots
      PROVE  C[i].held \in [Formations -> Int] /\ Total(C[i].held) = 0
  <2>1. C[i].held \in [Formations -> Int] /\ \A f \in Formations : C[i].held[f] = 0
    BY <1>1, CohortFields
  <2> QED BY <2>1, Finite, TotalZero
<1>3. C \in [Slots -> Cohorts]
  <2>1. C \in [Slots -> {Opened(r) : r \in Roles} \cup {Blank}]
    BY DEF Opening
  <2> QED BY <1>1, <2>1
<1> QED BY <1>1, <1>2, <1>3 DEF Founded

\* The cohorts hold what the force says is free.
LEMMA OpeningReserve ==
  ASSUME NEW C, Opening(C), NEW r \in Roles PROVE InReserve(C, r) = Reserve[r]
<1> DEFINE v == [i \in Slots |-> Total(C[i].res)]
           w == Chosen(C, v, r)
           z == [i \in Slots |-> 0]
<1>1. PICK i \in Slots : /\ Reserve[r] > 0 => C[i] = Opened(r)
                         /\ \A j \in Slots : C[j] = Opened(r) /\ Reserve[r] > 0 => j = i
  BY DEF Opening
<1>2. /\ Reserve[r] \in Nat /\ Opened(r).role = r /\ Total(Opened(r).res) = Reserve[r]
      /\ Blank.role # r
  BY OpenedIs, NoneIsNone
<1>3. ASSUME NEW j \in Slots, C[j].role = r PROVE Reserve[r] > 0 /\ C[j] = Opened(r)
  <2>1. C[j] # Blank
    BY <1>2, <1>3
  <2>2. PICK q \in Roles : Reserve[q] > 0 /\ C[j] = Opened(q)
    BY <2>1 DEF Opening
  <2>3. q = r
    BY <1>3, <2>2, OpenedIs
  <2> QED BY <2>2, <2>3
<1>4. \A j \in Slots : v[j] \in Int
  BY OpeningCohorts, CohortFields
<1>5. \A j \in Slots : v[j] = Total(C[j].res)
  OBVIOUS
<1>6. \A j \in Slots : z[j] = 0
  OBVIOUS
<1>7. \A j \in Slots : w[j] = IF C[j].role = r THEN v[j] ELSE 0
  BY DEF Chosen
<1>8. InReserve(C, r) = SumFunctionOnSet(v, {j \in Slots : C[j].role = r})
  BY DEF InReserve
<1> HIDE DEF v
<1>9. SumFunctionOnSet(v, {j \in Slots : C[j].role = r}) = SumFunctionOnSet(w, Slots)
  BY <1>4, ChosenSum
<1> HIDE DEF w, z
<1>10. /\ w[i] = Reserve[r]
       /\ \A j \in Slots : w[j] \in Int /\ z[j] \in Int /\ (j # i => w[j] = z[j])
  <2>1. w[i] = Reserve[r]
    <3>1. CASE Reserve[r] > 0
      BY <1>1, <1>2, <1>5, <1>7, <3>1
    <3>2. CASE ~(Reserve[r] > 0)
      <4>1. w[i] = 0
        BY <1>3, <1>7, <3>2
      <4> QED BY <1>2, <3>2, <4>1
    <3> QED BY <3>1, <3>2
  <2>2. ASSUME NEW j \in Slots, j # i PROVE w[j] = z[j]
    <3>1. C[j].role # r
      BY <1>1, <1>3, <2>2
    <3> QED BY <1>6, <1>7, <3>1
  <2> QED BY <1>4, <1>6, <1>7, <2>1, <2>2
<1>11. SumFunctionOnSet(z, Slots) = 0
  BY <1>6, Finite, SumZero
<1>12. SumFunctionOnSet(w, Slots) = SumFunctionOnSet(z, Slots) - z[i] + w[i]
  <2>1. IsFiniteSet(Slots) /\ i \in Slots
    BY Finite
  <2>2. \A j \in Slots : z[j] \in Int /\ w[j] \in Int /\ (j # i => w[j] = z[j])
    BY <1>10
  <2> QED BY <2>1, <2>2, SumOne
<1>13. Reserve[r] \in Int /\ z[i] = 0 /\ w[i] = Reserve[r]
  BY <1>2, <1>6, <1>10
<1> DEFINE k == Reserve[r]
<1>14. SumFunctionOnSet(w, Slots) = 0 - 0 + k
  BY <1>11, <1>12, <1>13
<1>15. 0 - 0 + k = k
  <2>1. k \in Int
    BY <1>13
  <2> HIDE DEF k
  <2> QED BY <2>1
<1> QED BY <1>8, <1>9, <1>14, <1>15

LEMMA OpeningSum ==
  ASSUME NEW C, Opening(C)
  PROVE  Total([i \in Slots |-> Total(C[i].res) + Total(C[i].held)]) = Total(Reserve)
<1> DEFINE v == [i \in Slots |-> Total(C[i].res)]
           w == [i \in Slots |-> Total(C[i].res) + Total(C[i].held)]
<1>1. C \in [Slots -> Cohorts] /\ Founded(C) /\ \A i \in Slots : Total(C[i].held) = 0
  BY OpeningCohorts
<1>2. \A i \in Slots : v[i] \in Int /\ (C[i].role = None => v[i] = 0)
  BY <1>1, CohortFields, IdleIs DEF Founded
<1>3. \A i \in Slots : w[i] = v[i] /\ w[i] \in Int
  BY <1>1, <1>2
<1>4. w \in [Slots -> Int]
  BY <1>3
<1>5. \A r \in Roles : Reserve[r] = SumFunctionOnSet(v, {i \in Slots : C[i].role = r})
  BY OpeningReserve DEF InReserve
<1>6. Total(Reserve) = SumFunctionOnSet(Reserve, Roles)
  BY ForceAssumption, TotalOn
<1> HIDE DEF v, w
<1>7. SumFunctionOnSet(v, Slots) = SumFunctionOnSet(Reserve, Roles)
  BY <1>1, <1>2, <1>5, RoleSum
<1>8. SumFunctionOnSet(w, Slots) = SumFunctionOnSet(v, Slots)
  BY <1>3, Finite, SumSame
<1>9. Total(w) = SumFunctionOnSet(w, Slots)
  BY <1>4, TotalOn
<1> QED BY <1>6, <1>7, <1>8, <1>9 DEF w

LEMMA InitValid == ASSUME Init PROVE Valid(ledger)
<1> DEFINE C == ledger.cohort
           P == ledger.person
           F == ledger.free
           Y == ledger.listed
           G == ledger.given
<1>1. Opening(C)
  BY InitOpening
<1>2. /\ ledger.head = Total(Reserve) /\ Y = {}
      /\ \A r \in Roles : F[r] = Only(Places, Home, Reserve[r])
      /\ \A p \in People : P[p].at = None
  BY DEF Init
<1> HIDE DEF C, P, F, Y, G
<1>3. Total([i \in Slots |-> Total(C[i].res) + Total(C[i].held)])
        + Cardinality({p \in People : P[p].at \in {"own"} \cup Formations}) = ledger.head
  <2>1. {p \in People : P[p].at \in {"own"} \cup Formations} = {}
    BY <1>2, NoneIsNone
  <2>2. Cardinality({p \in People : P[p].at \in {"own"} \cup Formations}) = 0
    BY <2>1, FS_EmptySet
  <2>3. Total(Reserve) \in Int
    BY Numbers
  <2> QED BY <1>1, <1>2, <2>2, <2>3, OpeningSum
<1>4. ASSUME NEW r \in Roles PROVE InReserve(C, r) = Total(F[r])
  <2>1. Reserve[r] \in Int /\ Home \in Places
    BY ForceAssumption
  <2>2. Total(Only(Places, Home, Reserve[r])) = Reserve[r]
    BY <2>1, Finite, OnlyTotal
  <2> QED BY <1>1, <1>2, <2>2, OpeningReserve
<1>5. ASSUME NEW f \in Formations PROVE Total(BodiesIn(C, P, f)) = 0
  <2> DEFINE h == HeldIn(C, f)
             m == NamedIn(P, f)
  <2>1. ASSUME NEW r \in Roles PROVE h[r] = 0
    <3> DEFINE v == [i \in Slots |-> C[i].held[f]]
               R == {i \in Slots : C[i].role = r}
    <3>1. IsFiniteSet(R) /\ \A i \in R : v[i] = 0
      BY <1>1, Finite, FS_Subset, OpeningCohorts
    <3>2. h[r] = SumFunctionOnSet(v, R)
      BY DEF HeldIn
    <3> HIDE DEF v, R, h
    <3> QED BY <3>1, <3>2, SumZero
  <2>2. ASSUME NEW r \in Roles PROVE m[r] = 0
    <3>1. {p \in {q \in People : P[q].at = f} : P[p].role = r} = {}
      BY <1>2, NoneIsNone
    <3> QED BY <3>1, FS_EmptySet DEF NamedIn
  <2>3. h \in [Roles -> Int] /\ m \in [Roles -> Int]
    BY <2>1, <2>2 DEF HeldIn, NamedIn
  <2>4. BodiesIn(C, P, f) = Plus(h, m)
    BY DEF BodiesIn
  <2> HIDE DEF h, m
  <2>5. Plus(h, m) \in [Roles -> Int] /\ \A r \in Roles : Plus(h, m)[r] = 0
    BY <2>1, <2>2, <2>3, PlusIs
  <2> QED BY <2>4, <2>5, Finite, TotalZero
<1>6. Tallied(C, P, ledger.head, F, Y, G)
  BY <1>2, <1>3, <1>4, <1>5 DEF Tallied
<1> QED BY <1>6, ValidIs DEF C, P, F, Y, G

LEMMA InitKeeps == ASSUME Init PROVE IInv
<1> DEFINE C == ledger.cohort
<1>1. Opening(C)
  BY InitOpening
<1>2. C \in [Slots -> Cohorts] /\ Founded(C)
  BY <1>1, OpeningCohorts
<1>3. /\ ledger = [pop |-> Civilians, dead |-> 0, head |-> Total(Reserve), auth |-> Authorized,
                   free |-> [r \in Roles |-> Only(Places, Home, Reserve[r])],
                   listed |-> {},
                   given |-> [f \in Formations |-> [n |-> 0, comp |-> Zero(Roles)]],
                   person |-> [p \in People |-> [at |-> None, role |-> None]],
                   cohort |-> C, doc |-> [f \in Formations |-> None],
                   ok |-> TRUE, full |-> FALSE]
      /\ order = None
  BY DEF Init
<1>4. [r \in Roles |-> Only(Places, Home, Reserve[r])] \in [Roles -> [Places -> Int]]
  <2>1. \A r \in Roles : Reserve[r] \in Int
    BY ForceAssumption
  <2>2. \A r \in Roles : Only(Places, Home, Reserve[r]) \in [Places -> Int]
    BY <2>1, OnlyIs
  <2> QED BY <2>2
<1>5. [f \in Formations |-> [n |-> 0, comp |-> Zero(Roles)]]
        \in [Formations -> [n : Int, comp : [Roles -> Int]]]
  BY DEF Zero
<1>6. [p \in People |-> [at |-> None, role |-> None]] \in [People -> Persons]
  BY DEF Persons
<1>7. Total(Reserve) \in Int /\ Civilians \in Int /\ Authorized \in Int
  BY Numbers, ForceAssumption
<1> DEFINE F == [r \in Roles |-> Only(Places, Home, Reserve[r])]
           G == [f \in Formations |-> [n |-> 0, comp |-> Zero(Roles)]]
           P == [p \in People |-> [at |-> None, role |-> None]]
           D == [f \in Formations |-> None]
<1>8. /\ \A f \in Formations : G[f].n = 0
      /\ \A p \in People : P[p].at = None
      /\ D \in [Formations -> Docs \cup {None}]
  OBVIOUS
<1> HIDE DEF C, F, G, P, D
<1>9. ledger = [pop |-> Civilians, dead |-> 0, head |-> Total(Reserve), auth |-> Authorized,
                free |-> F, listed |-> {}, given |-> G, person |-> P, cohort |-> C, doc |-> D,
                ok |-> TRUE, full |-> FALSE]
  BY <1>3 DEF F, G, P, D
<1>10. ledger \in Ledgers
  BY <1>2, <1>4, <1>5, <1>6, <1>7, <1>8, <1>9 DEF Ledgers, F, G, P
<1>11. /\ ledger.person = P /\ ledger.listed = {} /\ ledger.given = G /\ ledger.ok = TRUE
       /\ ledger.pop = Civilians /\ ledger.dead = 0 /\ ledger.head = Total(Reserve)
  BY <1>9
<1>12. Enrolled(ledger.person) /\ Allotted(ledger.listed, ledger.given, ledger.doc)
  BY <1>8, <1>11, NoneIsNone DEF Enrolled, Allotted
<1>13. Souls(ledger)
  BY <1>7, <1>11 DEF Souls
<1>14. Sane(ledger)
  BY <1>2, <1>10, <1>12, <1>13 DEF Sane, C
<1> QED BY <1>3, <1>11, <1>14, InitValid DEF IInv, Saved

-----------------------------------------------------------------------------
(* The theorems. *)

LEMMA StepKeeps == ASSUME IInv, [Next]_vars PROVE IInv'
<1>1. ASSUME NEW r \in Roles, NEW k \in Bodies, Recruit(r, k) PROVE IInv'
  BY <1>1, RecruitKeeps
<1>2. ASSUME NEW f \in Formations, NEW comp \in Some, NEW place \in Places, Create(f, comp, place)
      PROVE  IInv'
  BY <1>2, CreateKeeps
<1>3. ASSUME NEW p \in People, NEW r \in Roles, NEW place \in Places, MaterializeFree(p, r, place)
      PROVE  IInv'
  BY <1>3, MaterializeFreeKeeps
<1>4. ASSUME NEW p \in People, NEW r \in Roles, NEW f \in Formations, MaterializeIn(p, r, f)
      PROVE  IInv'
  BY <1>4, MaterializeInKeeps
<1>5. ASSUME NEW f \in Formations, NEW g \in Formations, NEW k \in Bodies, Split(f, g, k)
      PROVE  IInv'
  BY <1>5, SplitKeeps
<1>6. ASSUME NEW f \in Formations, NEW g \in Formations, Merge(f, g) PROVE IInv'
  BY <1>6, MergeKeeps
<1>7. ASSUME NEW f \in Formations, Dissolve(f) PROVE IInv'
  BY <1>7, DissolveKeeps
<1>8. ASSUME NEW hired \in {0} \cup Bodies, Review(hired) PROVE IInv'
  BY <1>8, ReviewKeeps
<1>9. ASSUME NEW f \in Formations, NEW k \in {0} \cup Bodies, NEW killed \in SUBSET People,
             NEW b \in BOOLEAN, Fight(f, k, killed, b)
      PROVE  IInv'
  BY <1>9, FightKeeps
<1>10. ASSUME NEW p \in People, Die(p) PROVE IInv'
  BY <1>10, DieKeeps
<1>11. ASSUME NEW f \in Formations, NEW kind \in Kinds \ {"reconstitute"},
              Begin(f, kind)
       PROVE  IInv'
  BY <1>11, BeginKeeps
<1>12. ASSUME NEW f \in Formations, NEW adds \in Some, Reconstitute(f, adds) PROVE IInv'
  BY <1>12, ReconstituteKeeps
<1>13. ASSUME NEW place \in Places, End(place) PROVE IInv'
  BY <1>13, EndKeeps
<1>14. ASSUME UNCHANGED vars PROVE IInv'
  BY <1>14 DEF vars, IInv
<1> QED BY <1>1, <1>2, <1>3, <1>4, <1>5, <1>6, <1>7, <1>8, <1>9, <1>10, <1>11, <1>12, <1>13,
           <1>14 DEF Next

\* Every set of documents that a command, a battle or a callback of an order's hours
\* leaves behind, and the one that an open order would fall back on, is sane and passes
\* cohort_personnel.validate_cohort_ledger.
THEOREM LedgerStaysSound == Spec => []IInv
<1>1. Init => IInv
  BY InitKeeps
<1>2. IInv /\ [Next]_vars => IInv'
  BY StepKeeps
<1> QED BY <1>1, <1>2, PTL DEF Spec

\* No operation on a force makes or loses a body, for any roles, places, formations and
\* persons: civilians, dead and serving add up to those of the start, and the force
\* accounts for each one who serves as free, as given to a formation, or as a person of
\* its own (engine._validate_invariants).
THEOREM BodiesStayConserved == Spec => []BodiesConserved
<1>1. IInv => BodiesConserved
  BY Conserved
<1> QED BY <1>1, LedgerStaysSound, PTL

-----------------------------------------------------------------------------
(* What the documents tell. *)

\* A document names no more bodies than its composition has.
Ample(d) == d.comp \in [Roles -> Nat] /\ d.n <= Total(d.comp)
Told(L, f) ==
    /\ L.doc[f].n = Total(L.doc[f].comp)
    /\ L.doc[f].comp = BodiesIn(L.cohort, L.person, f)
    /\ \A i \in Slots : L.doc[f].slices[i] = L.cohort[i].held[f]
Fine(L, x, U) ==
    /\ L.doc[x] # None => Ample(L.doc[x]) /\ (x \notin U => Told(L, x))
    /\ x \in L.listed => L.given[x].comp # Zero(Roles)

\* An open reconstitution: the force and the cohorts have what w.doc tells, the document
\* is still a smaller one, w.old with what the hours made of it.
Owed == [f : Formations, doc : Docs, old : Docs]
Awaits(L, w) ==
    /\ L.doc[w.f] # None /\ L.doc[w.f].n < w.doc.n /\ w.doc.n = Total(w.doc.comp)
    /\ w.doc.comp = BodiesIn(L.cohort, L.person, w.f)
    /\ \A i \in Slots :
          /\ w.doc.slices[i] >= w.old.slices[i]
          /\ L.cohort[i].held[w.f] = L.doc[w.f].slices[i] + (w.doc.slices[i] - w.old.slices[i])

\* Every formation outside of U has a document that tells what the cohorts tell of it, and
\* the reconstitutions W are still owed.
Sure(L, U, W) ==
    /\ \A x \in Formations : Fine(L, x, U)
    /\ \A w \in W : Awaits(L, w)

\* Outside of S nothing is said anew.
Framed(L, M, S) == \A g \in Formations \ S :
    /\ M.doc[g] = L.doc[g] /\ M.given[g] = L.given[g]
    /\ (g \in M.listed) <=> (g \in L.listed)
    /\ \A i \in Slots : M.cohort[i].held[g] = L.cohort[i].held[g]
Mends(M, S, U, W) == \A f \in S \cap Formations :
    /\ Fine(M, f, U)
    /\ \A w \in W : w.f = f => Awaits(M, w)

\* The members of a formation that the documents know by number.
HeldColumn(C, f) == [i \in Slots |-> C[i].held[f]]
Members(P, f) == {p \in People : P[p].at = f}

LEMMA CheckIs ==
  ASSUME NEW N, Sane(N), Check(N).ok
  PROVE  Check(N) = N /\ Saved(N)
<1>1. N \in Ledgers /\ N.ok \in BOOLEAN
  BY LedgerFields DEF Sane
<1>2. Refuse(N).ok = FALSE
  BY <1>1 DEF Refuse, Ledgers
<1> QED BY <1>1, <1>2 DEF Check, Saved

LEMMA BodiesCount ==
  ASSUME NEW C \in [Slots -> Cohorts], Founded(C), NEW P \in [People -> Persons], Enrolled(P),
         NEW f \in Formations
  PROVE  /\ Total(BodiesIn(C, P, f))
              = SumFunctionOnSet(HeldColumn(C, f), Slots) + Cardinality(Members(P, f))
         /\ IsFiniteSet(Members(P, f)) /\ Cardinality(Members(P, f)) \in Nat
         /\ \A i \in Slots : HeldColumn(C, f)[i] = C[i].held[f] /\ HeldColumn(C, f)[i] \in Nat
         /\ SumFunctionOnSet(HeldColumn(C, f), Slots) \in Nat
         /\ \A i \in Slots : C[i].held[f] <= SumFunctionOnSet(HeldColumn(C, f), Slots)
<1> DEFINE v == HeldColumn(C, f)
           T == Members(P, f)
           x == HeldIn(C, f)
           y == NamedIn(P, f)
           z == BodiesIn(C, P, f)
           role == [p \in People |-> P[p].role]
<1>1. /\ x \in [Roles -> Nat] /\ y \in [Roles -> Nat] /\ z \in [Roles -> Nat]
      /\ \A r \in Roles : z[r] = x[r] + y[r]
  BY BodiesNat
<1>2. \A i \in Slots : v[i] = C[i].held[f] /\ v[i] \in Nat
  BY CohortFields DEF HeldColumn
<1>3. \A i \in Slots : v[i] \in Int /\ (C[i].role = None => v[i] = 0)
  BY <1>2 DEF Founded, Idle
<1>4. \A r \in Roles : x[r] = SumFunctionOnSet(v, {i \in Slots : C[i].role = r})
  BY DEF HeldIn, HeldColumn
<1>5. IsFiniteSet(T) /\ \A p \in T : role[p] \in Roles
  <2>1. T \in SUBSET People
    BY DEF Members
  <2>2. \A p \in T : role[p] \in Roles
    BY DEF Members, Enrolled
  <2> QED BY <2>1, <2>2, Finite, FS_Subset
<1>6. \A r \in Roles : y[r] = Cardinality(Among(T, role, r))
  <2> SUFFICES ASSUME NEW r \in Roles PROVE y[r] = Cardinality(Among(T, role, r))
    OBVIOUS
  <2>1. Among(T, role, r) = {p \in {q \in People : P[q].at = f} : P[p].role = r}
    BY DEF Among, Members
  <2>2. y[r] = Cardinality({p \in {q \in People : P[q].at = f} : P[p].role = r})
    BY DEF NamedIn
  <2> QED BY <2>1, <2>2
<1> HIDE DEF v, T, x, y, z, role
<1>7. SumFunctionOnSet(v, Slots) = SumFunctionOnSet(x, Roles)
  BY <1>3, <1>4, RoleSum
<1>8. Cardinality(T) = SumFunctionOnSet(y, Roles)
  BY <1>5, <1>6, Finite, CountGroups
<1>9. Total(z) = SumFunctionOnSet(z, Roles)
  BY <1>1, TotalOn
<1>10. \A r \in Roles : x[r] \in Int /\ y[r] \in Int /\ z[r] = x[r] + y[r]
  BY <1>1
<1>11. SumFunctionOnSet(z, Roles) = SumFunctionOnSet(x, Roles) + SumFunctionOnSet(y, Roles)
  BY <1>10, Finite, SumPlus
<1>12. Cardinality(T) \in Nat
  BY <1>5, FS_CardinalityType
<1>13. \A i \in Slots : v[i] \in Nat
  BY <1>2
<1>14. SumFunctionOnSet(v, Slots) \in Nat /\ \A i \in Slots : v[i] <= SumFunctionOnSet(v, Slots)
  BY <1>13, Finite, SumNat
<1> QED BY <1>2, <1>5, <1>7, <1>8, <1>9, <1>11, <1>12, <1>14 DEF v, T, z

\* What validation says of one formation.
LEMMA ValidTells ==
  ASSUME NEW L, Sane(L), Valid(L), NEW f \in Formations
  PROVE  /\ BodiesIn(L.cohort, L.person, f) \in [Roles -> Nat]
         /\ Total(BodiesIn(L.cohort, L.person, f)) \in Nat
         /\ \A r \in Roles : BodiesIn(L.cohort, L.person, f)[r]
                               <= Total(BodiesIn(L.cohort, L.person, f))
         /\ (f \in L.listed) <=> (Total(BodiesIn(L.cohort, L.person, f)) > 0)
         /\ f \in L.listed =>
              /\ L.given[f].n = Total(BodiesIn(L.cohort, L.person, f))
              /\ L.given[f].comp # Zero(Roles)
                   => L.given[f].comp = BodiesIn(L.cohort, L.person, f)
         /\ f \notin L.listed => L.given[f].n = 0
<1>1. L.cohort \in [Slots -> Cohorts] /\ L.person \in [People -> Persons]
      /\ Allotted(L.listed, L.given, L.doc)
  BY LedgerFields DEF Sane
<1>2. Tallied(L.cohort, L.person, L.head, L.free, L.listed, L.given)
  BY ValidIs
<1> DEFINE b == BodiesIn(L.cohort, L.person, f)
<1>3. b \in [Roles -> Nat] /\ Total(b) \in Nat
  BY <1>1, BodiesNat
<1>4. /\ (f \in L.listed) <=> (Total(b) > 0)
      /\ f \in L.listed => /\ L.given[f].n = Total(b)
                           /\ L.given[f].comp # Zero(Roles) => L.given[f].comp = b
  BY <1>2 DEF Tallied
<1> HIDE DEF b
<1>5. \A r \in Roles : b[r] <= Total(b)
  BY <1>3, Finite, TotalNat
<1>6. f \notin L.listed => L.given[f].n = 0
  BY <1>1 DEF Allotted
<1> QED BY <1>3, <1>4, <1>5, <1>6 DEF b

\* Two accepted ledgers whose force says the same of g have the same bodies in g.
LEMMA SameBodies ==
  ASSUME NEW L, Sane(L), Valid(L), NEW M, Sane(M), Valid(M), NEW g \in Formations,
         (g \in M.listed) <=> (g \in L.listed), M.given[g] = L.given[g],
         g \in L.listed => L.given[g].comp # Zero(Roles)
  PROVE  BodiesIn(M.cohort, M.person, g) = BodiesIn(L.cohort, L.person, g)
<1> DEFINE a == BodiesIn(L.cohort, L.person, g)
           b == BodiesIn(M.cohort, M.person, g)
<1>1. /\ a \in [Roles -> Nat] /\ Total(a) \in Nat /\ \A r \in Roles : a[r] <= Total(a)
      /\ (g \in L.listed) <=> (Total(a) > 0)
      /\ g \in L.listed /\ L.given[g].comp # Zero(Roles) => L.given[g].comp = a
  BY ValidTells
<1>2. /\ b \in [Roles -> Nat] /\ Total(b) \in Nat /\ \A r \in Roles : b[r] <= Total(b)
      /\ (g \in M.listed) <=> (Total(b) > 0)
      /\ g \in M.listed /\ M.given[g].comp # Zero(Roles) => M.given[g].comp = b
  BY ValidTells
<1> HIDE DEF a, b
<1>3. CASE g \in L.listed
  BY <1>1, <1>2, <1>3 DEF a, b
<1>4. CASE g \notin L.listed
  <2>1. Total(a) = 0 /\ Total(b) = 0
    BY <1>1, <1>2, <1>4
  <2>2. \A r \in Roles : a[r] = 0 /\ b[r] = 0
    BY <1>1, <1>2, <2>1
  <2>3. a = b
    BY <1>1, <1>2, <2>2
  <2> QED BY <2>3 DEF a, b
<1> QED BY <1>3, <1>4

LEMMA FrameSure ==
  ASSUME NEW L, Sane(L), Valid(L), NEW M, Sane(M), Valid(M), NEW S, NEW U, NEW W \in SUBSET Owed,
         Sure(L, U, W), Framed(L, M, S), Mends(M, S, U, W)
  PROVE  Sure(M, U, W)
<1>1. ASSUME NEW g \in Formations \ S
      PROVE  /\ M.doc[g] = L.doc[g] /\ M.given[g] = L.given[g]
             /\ (g \in M.listed) <=> (g \in L.listed)
             /\ \A i \in Slots : M.cohort[i].held[g] = L.cohort[i].held[g]
             /\ Fine(L, g, U)
             /\ BodiesIn(M.cohort, M.person, g) = BodiesIn(L.cohort, L.person, g)
  <2>1. /\ M.doc[g] = L.doc[g] /\ M.given[g] = L.given[g]
        /\ (g \in M.listed) <=> (g \in L.listed)
        /\ \A i \in Slots : M.cohort[i].held[g] = L.cohort[i].held[g]
    BY DEF Framed
  <2>2. Fine(L, g, U)
    BY DEF Sure
  <2>3. g \in L.listed => L.given[g].comp # Zero(Roles)
    BY <2>2 DEF Fine
  <2>4. BodiesIn(M.cohort, M.person, g) = BodiesIn(L.cohort, L.person, g)
    BY <2>1, <2>3, SameBodies
  <2> QED BY <2>1, <2>2, <2>4
<1>2. ASSUME NEW g \in Formations PROVE Fine(M, g, U)
  <2>1. CASE g \in S
    BY <2>1 DEF Mends
  <2>2. CASE g \notin S
    <3>1. /\ M.doc[g] = L.doc[g] /\ M.given[g] = L.given[g]
          /\ (g \in M.listed) <=> (g \in L.listed)
          /\ \A i \in Slots : M.cohort[i].held[g] = L.cohort[i].held[g]
          /\ Fine(L, g, U)
          /\ BodiesIn(M.cohort, M.person, g) = BodiesIn(L.cohort, L.person, g)
      BY <1>1, <2>2
    <3>2. Told(L, g) => Told(M, g)
      BY <3>1 DEF Told
    <3> QED BY <3>1, <3>2 DEF Fine
  <2> QED BY <2>1, <2>2
<1>3. ASSUME NEW w \in W PROVE Awaits(M, w)
  <2>1. w.f \in Formations /\ Awaits(L, w)
    BY DEF Owed, Sure
  <2>2. CASE w.f \in S
    BY <2>1, <2>2 DEF Mends
  <2>3. CASE w.f \notin S
    <3> DEFINE g == w.f
    <3>1. /\ M.doc[g] = L.doc[g]
          /\ \A i \in Slots : M.cohort[i].held[g] = L.cohort[i].held[g]
          /\ BodiesIn(M.cohort, M.person, g) = BodiesIn(L.cohort, L.person, g)
      BY <1>1, <2>1, <2>3
    <3> QED BY <2>1, <3>1 DEF Awaits
  <2> QED BY <2>2, <2>3
<1> QED BY <1>2, <1>3 DEF Sure

\* A formation that the force is told what its document tells.
LEMMA ListedFine ==
  ASSUME NEW M, Sane(M), Valid(M), NEW f \in Formations, f \in M.listed, M.doc[f] # None,
         M.given[f].n = M.doc[f].n, M.given[f].comp = M.doc[f].comp,
         M.doc[f].n <= Total(M.doc[f].comp), NEW U,
         f \notin U => \A i \in Slots : M.doc[f].slices[i] = M.cohort[i].held[f]
  PROVE  /\ Fine(M, f, U) /\ M.doc[f].n = Total(M.doc[f].comp) /\ M.doc[f].n > 0
         /\ M.doc[f].comp = BodiesIn(M.cohort, M.person, f)
<1> DEFINE b == BodiesIn(M.cohort, M.person, f)
           n == M.doc[f].n
           comp == M.doc[f].comp
<1>1. /\ b \in [Roles -> Nat] /\ Total(b) \in Nat /\ Total(b) > 0 /\ n = Total(b)
      /\ comp # Zero(Roles) => comp = b
  BY ValidTells
<1>2. comp # Zero(Roles)
  <2> SUFFICES ASSUME comp = Zero(Roles) PROVE FALSE
    OBVIOUS
  <2>1. Zero(Roles) \in [Roles -> Int] /\ \A r \in Roles : Zero(Roles)[r] = 0
    BY DEF Zero
  <2>2. Total(Zero(Roles)) = 0
    BY <2>1, Finite, TotalZero
  <2>3. n <= 0
    BY <2>2
  <2> HIDE DEF b, n, comp
  <2> QED BY <1>1, <2>3
<1>3. comp = b
  BY <1>1, <1>2
<1>4. n = Total(comp) /\ n > 0
  BY <1>1, <1>3
<1>5. f \notin U => Told(M, f)
  BY <1>3, <1>4 DEF Told
<1>6. Ample(M.doc[f])
  <2>1. comp \in [Roles -> Nat]
    BY <1>1, <1>3
  <2> QED BY <2>1 DEF Ample
<1> QED BY <1>2, <1>3, <1>4, <1>5, <1>6 DEF Fine

\* Nothing is held for a formation that the force does not list.
LEMMA Unheld ==
  ASSUME NEW L, Sane(L), Valid(L), NEW f \in Formations, f \notin L.listed
  PROVE  /\ \A i \in Slots : L.cohort[i].held[f] = 0
         /\ Members(L.person, f) = {}
         /\ \A r \in Roles : BodiesIn(L.cohort, L.person, f)[r] = 0
<1> DEFINE b == BodiesIn(L.cohort, L.person, f)
           T == Members(L.person, f)
           s == SumFunctionOnSet(HeldColumn(L.cohort, f), Slots)
<1>1. /\ L.cohort \in [Slots -> Cohorts] /\ Founded(L.cohort)
      /\ L.person \in [People -> Persons] /\ Enrolled(L.person)
  BY LedgerFields DEF Sane
<1>2. b \in [Roles -> Nat] /\ Total(b) \in Nat /\ ~(Total(b) > 0) /\ \A r \in Roles : b[r] <= Total(b)
  BY ValidTells
<1>3. /\ Total(b) = s + Cardinality(T) /\ IsFiniteSet(T) /\ Cardinality(T) \in Nat
      /\ s \in Nat /\ \A i \in Slots : L.cohort[i].held[f] \in Nat /\ L.cohort[i].held[f] <= s
  <2>1. /\ Total(b) = s + Cardinality(T) /\ IsFiniteSet(T) /\ Cardinality(T) \in Nat
        /\ s \in Nat /\ \A i \in Slots : L.cohort[i].held[f] <= s
    BY <1>1, BodiesCount
  <2>2. \A i \in Slots : L.cohort[i].held[f] \in Nat
    BY <1>1, CohortFields
  <2> QED BY <2>1, <2>2
<1> HIDE DEF b, T, s
<1>4. s = 0 /\ Cardinality(T) = 0 /\ Total(b) = 0
  <2> DEFINE t == Total(b)
             c == Cardinality(T)
  <2>1. t \in Nat /\ ~(t > 0) /\ t = s + c /\ s \in Nat /\ c \in Nat
    BY <1>2, <1>3
  <2> HIDE DEF t, c
  <2>2. s = 0 /\ c = 0 /\ t = 0
    BY <2>1
  <2> QED BY <2>2 DEF t, c
<1>5. T = {}
  BY <1>3, <1>4, FS_EmptySet
<1>6. \A i \in Slots : L.cohort[i].held[f] = 0
  <2> SUFFICES ASSUME NEW i \in Slots PROVE L.cohort[i].held[f] = 0
    OBVIOUS
  <2> DEFINE h == L.cohort[i].held[f]
  <2>1. h \in Nat /\ h <= 0
    BY <1>3, <1>4
  <2> HIDE DEF h
  <2>2. h = 0
    BY <2>1
  <2> QED BY <2>2 DEF h
<1>7. \A r \in Roles : b[r] = 0
  BY <1>2, <1>4
<1> QED BY <1>5, <1>6, <1>7 DEF T, b

\* What the moves make of a cohort's column.
LEMMA MovesHeld ==
  ASSUME NEW c \in Cohorts, NEW f \in Formations, NEW k \in Int, NEW place
  PROVE  /\ \A s \in Formations : Spent(c, f, k).held[s] = IF s = f THEN c.held[s] - k ELSE c.held[s]
         /\ \A s \in Formations : Freed(c, f, place, k).held[s] = IF s = f THEN c.held[s] - k ELSE c.held[s]
         /\ \A s \in Formations : Placed(c, place, f, k).held[s] = IF s = f THEN c.held[s] + k ELSE c.held[s]
<1>1. c.held \in [Formations -> Int]
  BY CohortFields
<1> DEFINE a == Fewer(c.held, f, k)
           b == More(c.held, f, k)
<1>2. \A s \in Formations : a[s] = IF s = f THEN c.held[s] - k ELSE c.held[s]
  BY <1>1, FewerIs
<1>3. \A s \in Formations : b[s] = IF s = f THEN c.held[s] + k ELSE c.held[s]
  BY <1>1, MoreIs
<1> HIDE DEF a, b
<1>4. Spent(c, f, k).held = a
  BY DEF Spent, Cohorts, a
<1>5. Freed(c, f, place, k).held = a
  BY DEF Freed, Cohorts, a
<1>6. Placed(c, place, f, k).held = b
  BY DEF Placed, Cohorts, b
<1> QED BY <1>2, <1>3, <1>4, <1>5, <1>6

LEMMA FreedHeld ==
  ASSUME NEW c \in Cohorts, NEW f \in Formations, NEW place, NEW k \in Int
  PROVE  \A s \in Formations : Freed(c, f, place, k).held[s] = IF s = f THEN c.held[s] - k ELSE c.held[s]
<1>1. c.held \in [Formations -> Int]
  BY CohortFields
<1> DEFINE a == Fewer(c.held, f, k)
<1>2. \A s \in Formations : a[s] = IF s = f THEN c.held[s] - k ELSE c.held[s]
  BY <1>1, FewerIs
<1> HIDE DEF a
<1>3. Freed(c, f, place, k).held = a
  BY DEF Freed, Cohorts, a
<1> QED BY <1>2, <1>3

LEMMA SpentHeld ==
  ASSUME NEW c \in Cohorts, NEW f \in Formations, NEW k \in Int
  PROVE  \A s \in Formations : Spent(c, f, k).held[s] = IF s = f THEN c.held[s] - k ELSE c.held[s]
<1>1. c.held \in [Formations -> Int]
  BY CohortFields
<1> DEFINE a == Fewer(c.held, f, k)
<1>2. \A s \in Formations : a[s] = IF s = f THEN c.held[s] - k ELSE c.held[s]
  BY <1>1, FewerIs
<1> HIDE DEF a
<1>3. Spent(c, f, k).held = a
  BY DEF Spent, Cohorts, a
<1> QED BY <1>2, <1>3

LEMMA PassedHeld ==
  ASSUME NEW c \in Cohorts, NEW f \in Formations, NEW g \in Formations, f # g, NEW k \in Int
  PROVE  \A s \in Formations : Passed(c, f, g, k).held[s] =
            IF s = f THEN c.held[s] - k ELSE IF s = g THEN c.held[s] + k ELSE c.held[s]
<1>1. c.held \in [Formations -> Int]
  BY CohortFields
<1> DEFINE a == Fewer(c.held, f, k)
           b == More(a, g, k)
<1>2. a \in [Formations -> Int] /\ \A s \in Formations : a[s] = IF s = f THEN c.held[s] - k ELSE c.held[s]
  BY <1>1, FewerIs
<1>4. Passed(c, f, g, k).held = b
  BY DEF Passed, Cohorts
<1> HIDE DEF a
<1>3. \A s \in Formations : b[s] = IF s = g THEN a[s] + k ELSE a[s]
  BY <1>2, MoreIs
<1> HIDE DEF b
<1> QED BY <1>2, <1>3, <1>4

-----------------------------------------------------------------------------
(* Documents that are completed. *)

LEMMA SameSure ==
  ASSUME NEW L, NEW M, SameForce(L, M), M.doc = L.doc, NEW U, NEW W, Sure(L, U, W)
  PROVE  Sure(M, U, W)
<1>1. \A x \in Formations : Fine(M, x, U)
  <2> SUFFICES ASSUME NEW x \in Formations PROVE Fine(M, x, U)
    OBVIOUS
  <2>1. Fine(L, x, U)
    BY DEF Sure
  <2>2. Told(L, x) => Told(M, x)
    BY DEF Told, SameForce
  <2> QED BY <2>1, <2>2 DEF Fine, SameForce
<1>2. \A w \in W : Awaits(M, w)
  BY DEF Awaits, Sure, SameForce
<1> QED BY <1>1, <1>2 DEF Sure

LEMMA RewriteSure ==
  ASSUME NEW L, Saved(L), NEW U, NEW W \in SUBSET Owed, Sure(L, U, W),
         NEW f \in Formations, L.doc[f] # None, NEW d \in Docs, NEW M, M = Rewritten(L, f, d),
         d.n = L.doc[f].n, d.comp = L.doc[f].comp,
         f \notin U => \A i \in Slots : d.slices[i] = L.cohort[i].held[f],
         \A w \in W : w.f = f => d.slices = L.doc[f].slices
  PROVE  Sure(M, U, W) /\ Saved(M) /\ Kindred(L, M, f) /\ M.doc[f] = d
<1>1. Sane(L) /\ Valid(L) /\ Good(L) /\ L.ok
  BY DEF Saved, Good
<1>2. /\ Good(M) /\ SameForce(L, M) /\ M.ok = L.ok /\ M.full = L.full
      /\ M.doc[f] = d /\ M.doc[f] # None
      /\ \A g \in Formations \ {f} : M.doc[g] = L.doc[g]
  <2>1. Good(L)
    BY <1>1
  <2> QED BY ONLY <2>1, f \in Formations, d \in Docs, M = Rewritten(L, f, d), RewriteGood
<1>3. Sane(M) /\ Valid(M) /\ Saved(M)
  BY <1>1, <1>2 DEF Good, Saved
<1>4. Framed(L, M, {f})
  BY <1>2 DEF Framed, SameForce
<1>5. Mends(M, {f}, U, W)
  <2>1. Fine(L, f, U)
    BY DEF Sure
  <2>2. f \notin U => Told(M, f)
    BY <1>2, <2>1 DEF Fine, Told, SameForce
  <2>3. Fine(M, f, U)
    BY <1>2, <2>1, <2>2 DEF Fine, SameForce, Ample
  <2>4. ASSUME NEW w \in W, w.f = f PROVE Awaits(M, w)
    <3>1. Awaits(L, w) /\ d.slices = L.doc[f].slices
      BY <2>4 DEF Sure
    <3> QED BY <1>2, <2>4, <3>1 DEF Awaits, SameForce
  <2> QED BY <2>3, <2>4 DEF Mends
<1>6. Sure(M, U, W)
  BY <1>1, <1>3, <1>4, <1>5, FrameSure
<1> QED BY <1>1, <1>2, <1>3, <1>6 DEF Kindred

\* The bodies of a formation whose reconstitution is open are more than its document says.
LEMMA OwedMore ==
  ASSUME NEW L, Sane(L), NEW w \in Owed, Awaits(L, w)
  PROVE  /\ L.doc[w.f].n < SumFunctionOnSet(HeldColumn(L.cohort, w.f), Slots)
                             + Cardinality(Members(L.person, w.f))
         /\ Total(BodiesIn(L.cohort, L.person, w.f)) = w.doc.n
         /\ w.f \in Formations /\ w.doc.n \in Int /\ L.doc[w.f].n \in Int
<1>1. /\ L.cohort \in [Slots -> Cohorts] /\ Founded(L.cohort)
      /\ L.person \in [People -> Persons] /\ Enrolled(L.person) /\ w.f \in Formations
      /\ w.doc.n \in Int
  BY LedgerFields DEF Sane, Owed, Docs
<1>2. L.doc[w.f].n \in Int
  BY <1>1, DocFields DEF Sane, Awaits
<1>3. Total(BodiesIn(L.cohort, L.person, w.f))
        = SumFunctionOnSet(HeldColumn(L.cohort, w.f), Slots) + Cardinality(Members(L.person, w.f))
  BY <1>1, BodiesCount
<1>4. Total(BodiesIn(L.cohort, L.person, w.f)) = w.doc.n /\ L.doc[w.f].n < w.doc.n
  BY DEF Awaits
<1> QED BY <1>1, <1>2, <1>3, <1>4

LEMMA EnsureSure ==
  ASSUME NEW L, Saved(L), NEW U, NEW W \in SUBSET Owed, Sure(L, U, W),
         NEW f \in Formations, L.doc[f] # None, Ensure(L, f).ok
  PROVE  /\ Sure(Ensure(L, f), U, W) /\ Saved(Ensure(L, f)) /\ Kindred(L, Ensure(L, f), f)
         /\ Ensure(L, f).doc[f].n = L.doc[f].n
         /\ \A w \in W : w.f = f => Ensure(L, f) = L
<1> DEFINE held == [i \in Slots |-> L.cohort[i].held[f]]
           d == [L.doc[f] EXCEPT !.slices = held]
           N == [L EXCEPT !.doc[f].slices = held]
           M == Ensure(L, f)
<1>1. Sane(L) /\ L \in Ledgers /\ L.doc[f] \in Docs /\ L.cohort \in [Slots -> Cohorts]
  BY LedgerFields, DocFields DEF Saved, Sane
<1>2. held \in [Slots -> Nat] /\ \A i \in Slots : held[i] = L.cohort[i].held[f]
  BY <1>1, CohortFields
<1>3. held = HeldColumn(L.cohort, f) /\ Embedded(L, f) = Members(L.person, f)
  BY DEF HeldColumn, Embedded, Members
<1>4. M = L \/ M = Refuse(L)
      \/ (M = N /\ Total(held) + Cardinality(Embedded(L, f)) = L.doc[f].n)
  BY DEF Ensure
<1> HIDE DEF held
<1>5. d \in Docs /\ d.n = L.doc[f].n /\ d.comp = L.doc[f].comp /\ d.slices = held
  BY <1>1, <1>2 DEF Docs
<1>6. N = Rewritten(L, f, d)
  BY <1>1 DEF Ledgers, Rewritten
<1>7. Refuse(L).ok = FALSE
  BY <1>1 DEF Refuse, Ledgers
<1> HIDE DEF d, N, M
<1>8. CASE M = L
  <2>1. Kindred(L, L, f)
    BY DEF Kindred, SameForce
  <2> QED BY <1>8, <2>1 DEF M
<1>9. CASE M = N /\ Total(held) + Cardinality(Embedded(L, f)) = L.doc[f].n
  <2>1. ASSUME NEW w \in W, w.f = f PROVE FALSE
    <3>1. w \in Owed /\ Awaits(L, w)
      BY DEF Sure
    <3>2. L.doc[f].n < SumFunctionOnSet(HeldColumn(L.cohort, f), Slots) + Cardinality(Members(L.person, f))
          /\ L.doc[f].n \in Int
      BY <1>1, <2>1, <3>1, OwedMore
    <3>3. Total(held) = SumFunctionOnSet(held, Slots)
      BY <1>2, TotalOn
    <3> QED BY <1>3, <1>9, <3>2, <3>3
  <2>2. \A i \in Slots : d.slices[i] = L.cohort[i].held[f]
    BY <1>2, <1>5
  <2>3. \A w \in W : w.f = f => d.slices = L.doc[f].slices
    BY <2>1
  <2>4. Sure(N, U, W) /\ Saved(N) /\ Kindred(L, N, f) /\ N.doc[f] = d
    BY <1>5, <1>6, <2>2, <2>3, RewriteSure
  <2> QED BY <1>5, <1>9, <2>1, <2>4 DEF M
<1> QED BY <1>4, <1>7, <1>8, <1>9 DEF M

LEMMA NormalSure ==
  ASSUME NEW L, Saved(L), NEW U, NEW W \in SUBSET Owed, Sure(L, U, W),
         NEW f \in Formations, L.doc[f] # None
  PROVE  /\ Sure(Normal(L, f), U, W) /\ Saved(Normal(L, f)) /\ Kindred(L, Normal(L, f), f)
         /\ Normal(L, f).doc[f].n = L.doc[f].n
<1> DEFINE d == [L.doc[f] EXCEPT !.est = L.doc[f].comp]
           N == [L EXCEPT !.doc[f].est = L.doc[f].comp]
<1>1. L \in Ledgers /\ L.doc[f] \in Docs
  BY DocFields DEF Saved, Sane
<1>2. d \in Docs /\ d.n = L.doc[f].n /\ d.comp = L.doc[f].comp /\ d.slices = L.doc[f].slices
  BY <1>1 DEF Docs
<1>3. N = Rewritten(L, f, d)
  BY <1>1 DEF Ledgers, Rewritten
<1>4. Normal(L, f) \in {L, N}
  BY DEF Normal, N
<1> HIDE DEF d, N
<1>5. f \notin U => \A i \in Slots : d.slices[i] = L.cohort[i].held[f]
  BY <1>2 DEF Sure, Fine, Told
<1>6. Sure(N, U, W) /\ Saved(N) /\ Kindred(L, N, f) /\ N.doc[f] = d
  BY <1>2, <1>3, <1>5, RewriteSure
<1>7. Kindred(L, L, f)
  BY DEF Kindred, SameForce
<1> QED BY <1>2, <1>4, <1>6, <1>7

-----------------------------------------------------------------------------
(* Recruits and musters. *)

LEMMA CheckOk ==
  ASSUME NEW N, Refuse(N).ok = FALSE, Good(Check(N)), Check(N).ok
  PROVE  Check(N) = N /\ Saved(N)
BY DEF Check, Saved, Good

LEMMA EnlistSure ==
  ASSUME NEW L, Saved(L), NEW U, NEW W \in SUBSET Owed, Sure(L, U, W),
         NEW role \in Roles, NEW k \in Nat, Enlist(L, role, k).ok
  PROVE  Sure(Enlist(L, role, k), U, W) /\ Enlist(L, role, k).doc = L.doc
<1> DEFINE i == CHOOSE j \in Blanks(L) : \A b \in Blanks(L) : j <= b
           c == Cohort(role, Only(Places, Home, k), Zero(Formations))
           N == [CalledUp(L, k) EXCEPT
                    !.head = @ + k,
                    !.auth = IF @ < L.head + k THEN L.head + k ELSE @,
                    !.free[role][Home] = @ + k,
                    !.cohort[i] = Cohort(role, Only(Places, Home, k), Zero(Formations))]
           E == Enlist(L, role, k)
<1>1. Sane(L) /\ Valid(L) /\ Good(L) /\ L \in Ledgers /\ L.cohort \in [Slots -> Cohorts]
  BY LedgerFields DEF Saved, Good, Sane
<1>2. Good(E)
  BY <1>1, EnlistGood
<1>3. E = L \/ E = Overflow(L) \/ (Blanks(L) # {} /\ E = Check(N))
  BY DEF Enlist, N
<1>4. Sure(Overflow(L), U, W) /\ Overflow(L).doc = L.doc
  <2>1. SameForce(L, Overflow(L)) /\ Overflow(L).doc = L.doc
    BY <1>1 DEF Overflow, Ledgers, SameForce
  <2> QED BY <2>1, SameSure
<1>5. CASE Blanks(L) # {} /\ E = Check(N)
  <2>1. i \in Slots /\ L.cohort[i] = Blank
    <3>1. Blanks(L) \in SUBSET Slots
      BY DEF Blanks
    <3>2. i \in Blanks(L)
      BY <1>5, <3>1, FirstIs
    <3> QED BY <3>2 DEF Blanks
  <2> HIDE DEF i
  <2>2. c.held = Zero(Formations)
    BY DEF Cohort
  <2>3. N.cohort = [L.cohort EXCEPT ![i] = c]
    BY <1>1 DEF CalledUp, Ledgers
  <2> HIDE DEF c
  <2>4. N.doc = L.doc /\ N.listed = L.listed /\ N.given = L.given
    BY <1>1 DEF CalledUp, Ledgers
  <2>5. Refuse(N).ok = FALSE
    BY <1>1 DEF Refuse, CalledUp, Ledgers
  <2> HIDE DEF N, E
  <2>6. E = N /\ Saved(N)
    BY <1>2, <1>5, <2>5, CheckOk DEF E
  <2>7. \A j \in Slots : \A g \in Formations : N.cohort[j].held[g] = L.cohort[j].held[g]
    <3>1. Blank.held = Zero(Formations)
      BY DEF Blank
    <3>2. \A j \in Slots : N.cohort[j] = IF j = i THEN c ELSE L.cohort[j]
      BY <1>1, <2>1, <2>3
    <3> QED BY <2>1, <2>2, <3>1, <3>2
  <2>8. Framed(L, N, {}) /\ Mends(N, {}, U, W)
    BY <2>4, <2>7 DEF Framed, Mends
  <2>9. Sure(N, U, W)
    BY <1>1, <2>6, <2>8, FrameSure DEF Saved
  <2> QED BY <2>4, <2>6, <2>9 DEF E
<1> QED BY <1>3, <1>4, <1>5

LEMMA PrunedSure ==
  ASSUME NEW L, Saved(L), NEW U, NEW W \in SUBSET Owed, Sure(L, U, W), NEW held
  PROVE  Sure(Pruned(L, held), U, W) /\ Pruned(L, held).doc = L.doc
<1> DEFINE kept(i) == \/ Total(L.cohort[i].res) + Total(L.cohort[i].held) > 0
                      \/ Named(held, i) \/ \E f \in Formations : Named(L.doc[f], i)
           c(i) == IF kept(i) THEN L.cohort[i] ELSE Blank
           D == [i \in Slots |-> c(i)]
           M == Pruned(L, held)
<1>1. Sane(L) /\ Valid(L) /\ Good(L) /\ L.ok /\ L \in Ledgers /\ L.cohort \in [Slots -> Cohorts]
  BY LedgerFields DEF Saved, Good, Sane
<1>2. Good(M) /\ M.ok = L.ok
  BY <1>1, PrunedGood
<1>3. M = [L EXCEPT !.cohort = D]
  BY DEF Pruned
<1>4. ASSUME NEW i \in Slots, NEW g \in Formations PROVE c(i).held[g] = L.cohort[i].held[g]
  <2>1. CASE kept(i)
    BY <2>1
  <2>2. CASE ~kept(i)
    <3> DEFINE x == L.cohort[i]
               a == Total(x.res)
               b == Total(x.held)
    <3>1. x \in Cohorts /\ a \in Nat /\ b \in Nat
      BY <1>1, CohortFields
    <3>2. ~(a + b > 0)
      BY <2>2
    <3> HIDE DEF x, a, b
    <3>3. a + b = 0
      BY <3>1, <3>2
    <3>4. Idle(x)
      BY <3>1, <3>3, IdleIs DEF a, b
    <3>5. Blank.held[g] = 0
      BY DEF Blank, Zero
    <3> QED BY <2>2, <3>4, <3>5 DEF x, Idle
  <2> QED BY <2>1, <2>2
<1> HIDE DEF c, M
<1>5. M.doc = L.doc /\ M.listed = L.listed /\ M.given = L.given /\ M.cohort = D
  BY <1>1, <1>3 DEF Ledgers
<1>6. Framed(L, M, {}) /\ Mends(M, {}, U, W)
  BY <1>4, <1>5 DEF Framed, Mends
<1>7. Sane(M) /\ Valid(M)
  BY <1>1, <1>2 DEF Good
<1>8. Sure(M, U, W)
  BY <1>1, <1>6, <1>7, FrameSure
<1> QED BY <1>5, <1>8 DEF M

\* Bodies h come from the cohorts' reserves into f, with its document telling so.
Filled(L, M, f, h) ==
    /\ h \in [Slots -> Nat] /\ M.person = L.person /\ (M.ok => L.ok)
    /\ M.listed = L.listed /\ M.given = L.given
    /\ M.doc[f] \in Docs /\ \A g \in Formations \ {f} : M.doc[g] = L.doc[g]
    /\ \A i \in Slots :
          /\ M.doc[f].slices[i] = L.doc[f].slices[i] + h[i]
          /\ M.cohort[i].role = L.cohort[i].role
          /\ \A s \in Formations : M.cohort[i].held[s] =
                IF s = f THEN L.cohort[i].held[s] + h[i] ELSE L.cohort[i].held[s]

LEMMA MusterIs ==
  ASSUME NEW L, Sane(L), NEW f \in Formations, L.doc[f] # None, NEW adds \in [Roles -> Int],
         NEW place \in Places, Muster(L, f, adds, place).ok
  PROVE  /\ Filled(L, Muster(L, f, adds, place), f, Drawn(L, adds, place))
         /\ Total(Drawn(L, adds, place)) >= Total(adds)
         /\ Total(Drawn(L, adds, place)) \in Nat
         /\ Muster(L, f, adds, place).doc[f].n = L.doc[f].n
         /\ Muster(L, f, adds, place).doc[f].comp = L.doc[f].comp
<1> DEFINE h == Drawn(L, adds, place)
           C == [i \in Slots |-> Placed(L.cohort[i], place, f, h[i])]
           s == Plus(L.doc[f].slices, h)
           d == [L.doc[f] EXCEPT !.slices = s]
           N == [L EXCEPT
            !.free = [r \in Roles |-> Fewer(L.free[r], place, adds[r])],
            !.cohort = [i \in Slots |-> Placed(L.cohort[i], place, f, h[i])],
            !.doc[f].slices = Plus(L.doc[f].slices, h)]
           M == Muster(L, f, adds, place)
<1>1. /\ L \in Ledgers /\ L.cohort \in [Slots -> Cohorts] /\ L.doc \in [Formations -> Docs \cup {None}]
      /\ L.doc[f] \in Docs /\ L.doc[f].slices \in [Slots -> Nat]
      /\ L.doc[f].slices \in [Slots -> Int]
  BY LedgerFields, DocFields DEF Sane
<1>2. h \in [Slots -> Nat] /\ h \in [Slots -> Int]
  BY <1>1, DrawnIs
<1>3. M = Refuse(L) \/ (M = N /\ ~(Total(h) < Total(adds)))
  BY DEF Muster
<1>4. Refuse(L).ok = FALSE
  BY <1>1 DEF Refuse, Ledgers
<1> HIDE DEF h
<1>5. s \in [Slots -> Nat] /\ \A i \in Slots : s[i] = L.doc[f].slices[i] + h[i]
  BY <1>1, <1>2, PlusIs
<1>6. \A i \in Slots : \A x \in Formations : C[i].held[x] =
                IF x = f THEN L.cohort[i].held[x] + h[i] ELSE L.cohort[i].held[x]
  <2> SUFFICES ASSUME NEW i \in Slots PROVE \A x \in Formations : C[i].held[x] =
                IF x = f THEN L.cohort[i].held[x] + h[i] ELSE L.cohort[i].held[x]
    OBVIOUS
  <2>1. L.cohort[i] \in Cohorts /\ h[i] \in Int
    BY <1>1, <1>2
  <2>2. C[i] = Placed(L.cohort[i], place, f, h[i])
    OBVIOUS
  <2> HIDE DEF C
  <2> QED BY <2>1, <2>2, MovesHeld
<1>7. \A i \in Slots : C[i].role = L.cohort[i].role
  <2> SUFFICES ASSUME NEW i \in Slots PROVE Placed(L.cohort[i], place, f, h[i]).role = L.cohort[i].role
    OBVIOUS
  <2>1. L.cohort[i] \in Cohorts
    BY <1>1
  <2> QED BY <2>1 DEF Placed, Cohorts
<1> HIDE DEF C, s
<1>8. N = [L EXCEPT !.free = [r \in Roles |-> Fewer(L.free[r], place, adds[r])],
                    !.cohort = C, !.doc = [L.doc EXCEPT ![f] = d]]
  BY <1>1 DEF Ledgers, C, s
<1>9. d \in Docs /\ d.slices = s /\ d.n = L.doc[f].n /\ d.comp = L.doc[f].comp
  BY <1>1, <1>5 DEF Docs
<1> HIDE DEF d, N
<1>10. /\ N.person = L.person /\ N.ok = L.ok /\ N.listed = L.listed /\ N.given = L.given
       /\ N.cohort = C /\ N.doc = [L.doc EXCEPT ![f] = d]
  BY <1>1, <1>8 DEF Ledgers
<1>11. N.doc[f] = d /\ \A g \in Formations \ {f} : N.doc[g] = L.doc[g]
  BY <1>1, <1>10
<1>12. Filled(L, N, f, h)
  BY <1>2, <1>5, <1>6, <1>7, <1>9, <1>10, <1>11 DEF Filled
<1>13. Total(h) \in Nat /\ Total(adds) \in Int
  BY <1>2, Finite, TotalNat, TotalInt
<1>14. M = N /\ Total(h) >= Total(adds)
  BY <1>3, <1>4, <1>13
<1> QED BY <1>9, <1>11, <1>12, <1>13, <1>14 DEF h

LEMMA ReinforceIs ==
  ASSUME NEW L, Sane(L), NEW f \in Formations, L.doc[f] # None, NEW adds \in [Roles -> Int],
         Reinforce(L, f, adds).ok
  PROVE  \E h \in [Slots -> Nat] :
            /\ Filled(L, Reinforce(L, f, adds), f, h) /\ Total(h) >= Total(adds)
            /\ Total(h) \in Nat /\ Total(adds) \in Int
            /\ Reinforce(L, f, adds).doc[f].n = L.doc[f].n + Total(adds)
            /\ Reinforce(L, f, adds).doc[f].comp = Plus(L.doc[f].comp, adds)
<1> DEFINE place == L.doc[f].at
           h == Drawn(L, adds, place)
           M == Muster(L, f, adds, place)
           d == M.doc[f]
           e == [d EXCEPT !.n = d.n + Total(adds), !.comp = Plus(d.comp, adds)]
           R == Reinforce(L, f, adds)
<1>1. place \in Places
  BY DocFields DEF Sane
<1>2. Sane(M) /\ Mustered(L, M, f)
  BY <1>1, MusterSane
<1>3. R = [M EXCEPT !.doc[f] = e]
  BY Zenon DEF Reinforce
<1> HIDE DEF M, place, R
<1>4. M \in Ledgers /\ M.doc \in [Formations -> Docs \cup {None}] /\ d \in Docs
      /\ d.comp \in [Roles -> Int] /\ d.n \in Int
  BY <1>2, LedgerFields, DocFields DEF Sane, Mustered
<1>5. R.ok = M.ok
  BY <1>3, <1>4 DEF Ledgers
<1>6. /\ Filled(L, M, f, h) /\ Total(h) >= Total(adds) /\ Total(h) \in Nat
      /\ d.n = L.doc[f].n /\ d.comp = L.doc[f].comp
  <2>1. Muster(L, f, adds, place).ok
    BY <1>5 DEF R, M
  <2> QED BY <1>1, <2>1, MusterIs DEF M
<1>7. Total(adds) \in Int /\ Plus(d.comp, adds) \in [Roles -> Int]
  BY <1>4, Finite, TotalInt, PlusIs
<1>8. /\ e \in Docs /\ e.slices = d.slices /\ e.n = d.n + Total(adds)
      /\ e.comp = Plus(d.comp, adds)
  <2>1. d.n + Total(adds) \in Int
    BY <1>4, <1>7
  <2> HIDE DEF d
  <2> QED BY <1>4, <1>7, <2>1 DEF Docs
<1> HIDE DEF e, h
<1>9. /\ R.person = M.person /\ R.listed = M.listed /\ R.given = M.given
      /\ R.cohort = M.cohort /\ R.doc = [M.doc EXCEPT ![f] = e]
  BY <1>3, <1>4 DEF Ledgers
<1>10. R.doc[f] = e /\ \A g \in Formations \ {f} : R.doc[g] = M.doc[g]
  BY <1>4, <1>9
<1>11. Filled(L, R, f, h)
  BY <1>5, <1>6, <1>8, <1>9, <1>10 DEF Filled
<1>12. h \in [Slots -> Nat]
  BY <1>6 DEF Filled
<1> QED BY <1>6, <1>7, <1>8, <1>10, <1>11, <1>12 DEF R

\* The force is told of f: what changes and what stays.
LEMMA ListedIs ==
  ASSUME NEW Z, Sane(Z), NEW f \in Formations, Z.doc[f] # None, NEW N, N = Listed(Z, f)
  PROVE  /\ Sane(N) /\ N.cohort = Z.cohort /\ N.person = Z.person /\ N.doc = Z.doc
         /\ N.ok = Z.ok /\ N.listed = Z.listed \cup {f}
         /\ N.given[f].n = Z.doc[f].n /\ N.given[f].comp = Z.doc[f].comp
         /\ \A g \in Formations \ {f} : N.given[g] = Z.given[g]
<1> DEFINE r == [n |-> Z.doc[f].n, comp |-> Z.doc[f].comp]
           G == [Z.given EXCEPT ![f] = r]
           Y == Z.listed \cup {f}
<1>1. Z \in Ledgers /\ Z.given \in [Formations -> [n : Int, comp : [Roles -> Int]]]
  BY LedgerFields DEF Sane
<1>2. N = [Z EXCEPT !.listed = Y, !.given = G]
  BY DEF Listed
<1>3. G[f] = r /\ \A g \in Formations \ {f} : G[g] = Z.given[g]
  BY <1>1
<1> HIDE DEF G, Y
<1>4. /\ N.cohort = Z.cohort /\ N.person = Z.person /\ N.doc = Z.doc /\ N.ok = Z.ok
      /\ N.listed = Y /\ N.given = G
  BY <1>1, <1>2 DEF Ledgers
<1>5. Sane(N)
  BY ListedSane
<1> QED BY <1>3, <1>4, <1>5 DEF Y

LEMMA NormalIs ==
  ASSUME NEW R, Sane(R), NEW f \in Formations, R.doc[f] # None, NEW Z, Z = Normal(R, f)
  PROVE  /\ Sane(Z) /\ SameForce(R, Z) /\ Z.ok = R.ok /\ Z.doc[f] # None
         /\ \A g \in Formations \ {f} : Z.doc[g] = R.doc[g]
         /\ Z.doc[f].n = R.doc[f].n /\ Z.doc[f].comp = R.doc[f].comp
         /\ Z.doc[f].slices = R.doc[f].slices
<1> DEFINE d == [R.doc[f] EXCEPT !.est = R.doc[f].comp]
           N == [R EXCEPT !.doc[f].est = R.doc[f].comp]
<1>1. R \in Ledgers /\ R.doc[f] \in Docs
  BY DocFields DEF Sane
<1>2. d \in Docs /\ d.n = R.doc[f].n /\ d.comp = R.doc[f].comp /\ d.slices = R.doc[f].slices
  BY <1>1 DEF Docs
<1>3. N = Rewritten(R, f, d)
  BY <1>1 DEF Ledgers, Rewritten
<1>4. Z \in {R, N}
  BY DEF Normal, N
<1> HIDE DEF d, N
<1>5. /\ Sane(N) /\ SameForce(R, N) /\ N.ok = R.ok /\ N.doc[f] # None /\ N.doc[f] = d
      /\ \A g \in Formations \ {f} : N.doc[g] = R.doc[g]
  BY <1>2, <1>3, RewriteSane
<1>6. SameForce(R, R)
  BY DEF SameForce
<1> QED BY <1>2, <1>4, <1>5, <1>6

\* The cohorts hold as much more for f as was drawn.
LEMMA FilledMore ==
  ASSUME NEW L, Sane(L), NEW f \in Formations, NEW M, NEW h, Filled(L, M, f, h)
  PROVE  /\ SumFunctionOnSet(HeldColumn(M.cohort, f), Slots)
              = SumFunctionOnSet(HeldColumn(L.cohort, f), Slots) + Total(h)
         /\ SumFunctionOnSet(HeldColumn(L.cohort, f), Slots) \in Nat /\ Total(h) \in Nat
<1> DEFINE v == HeldColumn(L.cohort, f)
           w == HeldColumn(M.cohort, f)
<1>1. L.cohort \in [Slots -> Cohorts] /\ h \in [Slots -> Nat]
  BY LedgerFields DEF Sane, Filled
<1>2. \A i \in Slots : v[i] \in Nat /\ v[i] \in Int /\ h[i] \in Int /\ w[i] = v[i] + h[i]
  <2>1. \A i \in Slots : L.cohort[i].held[f] \in Nat
    BY <1>1, CohortFields
  <2>2. \A i \in Slots : M.cohort[i].held[f] = L.cohort[i].held[f] + h[i]
    BY DEF Filled
  <2> QED BY <1>1, <2>1, <2>2 DEF HeldColumn
<1> HIDE DEF v, w
<1>3. SumFunctionOnSet(w, Slots) = SumFunctionOnSet(v, Slots) + SumFunctionOnSet(h, Slots)
  BY <1>2, Finite, SumPlus
<1>4. SumFunctionOnSet(v, Slots) \in Nat
  BY <1>2, Finite, SumNat
<1>5. Total(h) = SumFunctionOnSet(h, Slots) /\ Total(h) \in Nat
  BY <1>1, Finite, TotalOn, TotalNat
<1> QED BY <1>3, <1>4, <1>5 DEF v, w

\* A muster is accepted only when no reconstitution of the formation is open.
LEMMA FilledOwed ==
  ASSUME NEW L, Sane(L), NEW f \in Formations, NEW M, NEW h, Filled(L, M, f, h),
         NEW N, Sane(N), Valid(N), N.cohort = M.cohort, N.person = M.person, f \in N.listed,
         NEW k \in Int, k <= Total(h), N.given[f].n = L.doc[f].n + k,
         NEW w \in Owed, Awaits(L, w), w.f = f
  PROVE  FALSE
<1> DEFINE a == SumFunctionOnSet(HeldColumn(L.cohort, f), Slots)
           b == SumFunctionOnSet(HeldColumn(N.cohort, f), Slots)
           c == Cardinality(Members(L.person, f))
           n == L.doc[f].n
           t == Total(h)
<1>1. b = a + t /\ a \in Nat /\ t \in Nat
  BY FilledMore
<1>2. n < a + c /\ n \in Int
  BY OwedMore
<1>3. c \in Nat
  <2>1. IsFiniteSet(Members(L.person, f))
    BY Finite, FS_Subset DEF Members
  <2> QED BY <2>1, FS_CardinalityType
<1>4. Total(BodiesIn(N.cohort, N.person, f)) = b + c
  <2>1. /\ N.cohort \in [Slots -> Cohorts] /\ Founded(N.cohort)
        /\ N.person \in [People -> Persons] /\ Enrolled(N.person)
    BY LedgerFields DEF Sane
  <2>2. N.person = L.person
    BY DEF Filled
  <2> QED BY <2>1, <2>2, BodiesCount
<1>5. Total(BodiesIn(N.cohort, N.person, f)) = n + k
  BY ValidTells
<1>6. n + k = b + c
  BY <1>4, <1>5
<1> HIDE DEF a, b, c, n, t
<1>7. k <= t
  BY DEF t
<1> QED BY <1>1, <1>2, <1>3, <1>6, <1>7

\* N is L with what M says of the bodies of f, and of no other formation.
Reported(L, M, N, f) ==
    /\ N.cohort = M.cohort /\ N.person = M.person /\ N.listed = L.listed \cup {f}
    /\ \A g \in Formations \ {f} : N.given[g] = L.given[g] /\ N.doc[g] = L.doc[g]

LEMMA FilledSure ==
  ASSUME NEW L, Saved(L), NEW U, NEW W \in SUBSET Owed, Sure(L, U, W), NEW f \in Formations,
         NEW M, NEW h, Filled(L, M, f, h),
         NEW N, Sane(N), Valid(N), Reported(L, M, N, f),
         NEW k \in Int, k <= Total(h), N.given[f].n = L.doc[f].n + k,
         Fine(N, f, U)
  PROVE  Sure(N, U, W)
<1>1. Sane(L) /\ Valid(L)
  BY DEF Saved
<1>r. /\ N.cohort = M.cohort /\ N.person = M.person /\ f \in N.listed
  BY DEF Reported
<1>2. Framed(L, N, {f})
  BY DEF Framed, Filled, Reported
<1>3. Mends(N, {f}, U, W)
  <2>1. ASSUME NEW w \in W, w.f = f PROVE FALSE
    <3>1. w \in Owed /\ Awaits(L, w)
      BY DEF Sure
    <3> QED BY <1>1, <1>r, <2>1, <3>1, FilledOwed
  <2> QED BY <2>1 DEF Mends
<1> QED BY <1>1, <1>2, <1>3, FrameSure

\* A formation that is reinforced, and of which the force is told.
LEMMA ReinforcedSure ==
  ASSUME NEW L, Saved(L), NEW U, NEW W \in SUBSET Owed, Sure(L, U, W),
         NEW f \in Formations, L.doc[f] # None, NEW adds \in [Roles -> Int],
         NEW R, R = Reinforce(L, f, adds), NEW Z, Sane(Z), SameForce(R, Z), Z.ok = R.ok,
         Z.doc[f] # None, \A g \in Formations \ {f} : Z.doc[g] = R.doc[g],
         Z.doc[f].n = R.doc[f].n, Z.doc[f].comp = R.doc[f].comp, Z.doc[f].slices = R.doc[f].slices,
         NEW N, N = Listed(Z, f), Check(N).ok
  PROVE  /\ Check(N) = N /\ Saved(N) /\ Sure(N, U, W) /\ Kept(L, N) /\ N.doc = Z.doc
         /\ N.doc[f].n = Total(N.doc[f].comp)
         /\ N.doc[f].comp = BodiesIn(N.cohort, N.person, f)
<1>1. Sane(L) /\ Valid(L) /\ L.ok /\ Fine(L, f, U)
  BY DEF Saved, Sure
<1>2. /\ Sane(N) /\ N.cohort = Z.cohort /\ N.person = Z.person /\ N.doc = Z.doc
      /\ N.ok = Z.ok /\ N.listed = Z.listed \cup {f}
      /\ N.given[f].n = Z.doc[f].n /\ N.given[f].comp = Z.doc[f].comp
      /\ \A g \in Formations \ {f} : N.given[g] = Z.given[g]
  BY ListedIs
<1>3. Check(N) = N /\ Saved(N)
  BY <1>2, CheckIs
<1>4. Valid(N) /\ N.ok
  BY <1>3 DEF Saved
<1>5. PICK h \in [Slots -> Nat] :
            /\ Filled(L, R, f, h) /\ Total(h) >= Total(adds)
            /\ Total(h) \in Nat /\ Total(adds) \in Int
            /\ R.doc[f].n = L.doc[f].n + Total(adds)
            /\ R.doc[f].comp = Plus(L.doc[f].comp, adds)
  <2>1. Reinforce(L, f, adds).ok
    BY <1>2, <1>4
  <2> QED BY <1>1, <2>1, ReinforceIs
<1>6. N.cohort = R.cohort /\ N.person = R.person /\ N.listed = L.listed \cup {f}
  BY <1>2, <1>5 DEF SameForce, Filled
<1>7. /\ \A g \in Formations \ {f} : N.given[g] = L.given[g]
      /\ \A g \in Formations \ {f} : N.doc[g] = L.doc[g]
  BY <1>2, <1>5 DEF SameForce, Filled
<1>8. L.doc[f] \in Docs /\ L.doc[f].comp \in [Roles -> Int] /\ L.doc[f].n \in Int
  BY <1>1, DocFields DEF Sane
<1>9. Total(Plus(L.doc[f].comp, adds)) = Total(L.doc[f].comp) + Total(adds)
      /\ Total(L.doc[f].comp) \in Int
  <2> DEFINE x == L.doc[f].comp
             z == Plus(x, adds)
  <2>1. x \in [Roles -> Int] /\ z \in [Roles -> Int] /\ \A r \in Roles : z[r] = x[r] + adds[r]
    BY <1>8, PlusIs
  <2> HIDE DEF x, z
  <2>2. \A r \in Roles : x[r] \in Int /\ adds[r] \in Int /\ z[r] = x[r] + adds[r]
    BY <2>1
  <2>3. SumFunctionOnSet(z, Roles) = SumFunctionOnSet(x, Roles) + SumFunctionOnSet(adds, Roles)
    BY <2>2, Finite, SumPlus
  <2>4. /\ Total(x) = SumFunctionOnSet(x, Roles) /\ Total(z) = SumFunctionOnSet(z, Roles)
        /\ Total(adds) = SumFunctionOnSet(adds, Roles)
    BY <2>1, TotalOn
  <2>5. Total(x) \in Int
    BY <2>1, Finite, TotalInt
  <2> QED BY <2>3, <2>4, <2>5 DEF x, z
<1>10. N.doc[f].n <= Total(N.doc[f].comp)
  <2>1. L.doc[f].n <= Total(L.doc[f].comp)
    BY <1>1 DEF Fine, Ample
  <2>2. N.doc[f].n = L.doc[f].n + Total(adds)
        /\ Total(N.doc[f].comp) = Total(L.doc[f].comp) + Total(adds)
    BY <1>2, <1>5, <1>9
  <2> DEFINE a == L.doc[f].n
             b == Total(L.doc[f].comp)
             c == Total(adds)
             x == N.doc[f].n
             y == Total(N.doc[f].comp)
  <2>3. a \in Int /\ b \in Int /\ c \in Int /\ a <= b /\ x = a + c /\ y = b + c
    BY <1>5, <1>8, <1>9, <2>1, <2>2
  <2> HIDE DEF a, b, c, x, y
  <2>4. x <= y
    BY <2>3
  <2> QED BY <2>4 DEF x, y
<1>11. f \notin U => \A i \in Slots : N.doc[f].slices[i] = N.cohort[i].held[f]
  <2> SUFFICES ASSUME f \notin U, NEW i \in Slots PROVE N.doc[f].slices[i] = N.cohort[i].held[f]
    OBVIOUS
  <2>1. L.doc[f].slices[i] = L.cohort[i].held[f]
    BY <1>1 DEF Fine, Told
  <2>2. /\ R.doc[f].slices[i] = L.doc[f].slices[i] + h[i]
        /\ R.cohort[i].held[f] = L.cohort[i].held[f] + h[i]
    BY <1>5 DEF Filled
  <2> QED BY <1>2, <1>6, <2>1, <2>2
<1>12. f \in N.listed /\ N.doc[f] # None /\ N.given[f].n = N.doc[f].n /\ N.given[f].comp = N.doc[f].comp
  BY <1>2
<1>13. /\ Fine(N, f, U) /\ N.doc[f].n = Total(N.doc[f].comp)
       /\ N.doc[f].comp = BodiesIn(N.cohort, N.person, f)
  BY <1>2, <1>4, <1>10, <1>11, <1>12, ListedFine
<1>14. N.given[f].n = L.doc[f].n + Total(adds) /\ Total(adds) <= Total(h)
  BY <1>2, <1>5
<1>15. Sure(N, U, W)
  <2>1. Reported(L, R, N, f)
    BY <1>6, <1>7 DEF Reported
  <2> QED BY <1>2, <1>4, <1>5, <1>13, <1>14, <2>1, FilledSure
<1>16. Kept(L, N)
  BY <1>7, <1>12 DEF Kept
<1> QED BY <1>2, <1>3, <1>13, <1>15, <1>16

LEMMA ReplaceSure ==
  ASSUME NEW L, Saved(L), NEW U, NEW W \in SUBSET Owed, Sure(L, U, W),
         NEW f \in Formations, Replace(L, f).ok
  PROVE  Sure(Replace(L, f), U, W) /\ Kept(L, Replace(L, f))
<1> DEFINE adds == Replacements(L, f)
           R == Reinforce(L, f, adds)
           Z == Normal(R, f)
           N == Listed(Z, f)
<1>1. Replace(L, f) = L \/ (L.doc[f] # None /\ Replace(L, f) = Check(N))
  BY Zenon DEF Replace, Exists
<1>2. CASE Replace(L, f) = L
  BY <1>2 DEF Kept
<1>3. CASE L.doc[f] # None /\ Replace(L, f) = Check(N)
  <2>0. Sane(L)
    BY DEF Saved
  <2>1. adds \in [Roles -> Int]
    <3> DEFINE d == L.doc[f]
    <3>1. /\ d.est \in [Roles -> Int] /\ d.comp \in [Roles -> Int] /\ d.at \in Places
          /\ L.free \in [Roles -> [Places -> Int]]
      BY <1>3, <2>0, LedgerFields, DocFields DEF Sane
    <3> DEFINE v(q) == AtMost(Minus(d.est[q], d.comp[q]), L.free[q][d.at])
    <3>2. ASSUME NEW q \in Roles PROVE v(q) \in Int
      <4>1. d.est[q] \in Int /\ d.comp[q] \in Int /\ L.free[q][d.at] \in Int
        BY <3>1
      <4> HIDE DEF d
      <4> QED BY <4>1 DEF AtMost, Minus
    <3>3. adds = [q \in Roles |-> v(q)]
      BY DEF Replacements
    <3> HIDE DEF v, adds
    <3> QED BY <3>2, <3>3
  <2> HIDE DEF adds
  <2>2. Sane(R) /\ R.doc[f] # None
    <3>1. Sane(R) /\ Mustered(L, R, f)
      BY <1>3, <2>0, <2>1, ReinforceSane
    <3> QED BY <3>1 DEF Mustered
  <2>3. /\ Sane(Z) /\ SameForce(R, Z) /\ Z.ok = R.ok /\ Z.doc[f] # None
        /\ \A g \in Formations \ {f} : Z.doc[g] = R.doc[g]
        /\ Z.doc[f].n = R.doc[f].n /\ Z.doc[f].comp = R.doc[f].comp
        /\ Z.doc[f].slices = R.doc[f].slices
    <3> HIDE DEF R
    <3> QED BY <2>2, NormalIs
  <2> HIDE DEF Z, N
  <2>4. N = Listed(Z, f) /\ R = Reinforce(L, f, adds) /\ Check(N).ok
    BY <1>3 DEF N
  <2> HIDE DEF R
  <2>5. Check(N) = N /\ Sure(N, U, W) /\ Kept(L, N)
    BY <1>3, <2>1, <2>3, <2>4, ReinforcedSure
  <2> QED BY <1>3, <2>5
<1> QED BY <1>1, <1>2, <1>3

\* A muster takes nobody out of the formation.
LEMMA FilledGrows ==
  ASSUME NEW L, Sane(L), NEW f \in Formations, NEW M, NEW h, Filled(L, M, f, h),
         NEW N, Sane(N), N.cohort = M.cohort, N.person = M.person, NEW r \in Roles
  PROVE  BodiesIn(L.cohort, L.person, f)[r] <= BodiesIn(N.cohort, N.person, f)[r]
<1> DEFINE C == L.cohort
           D == N.cohort
           v == [i \in Slots |-> C[i].held[f]]
           w == [i \in Slots |-> D[i].held[f]]
           S == {i \in Slots : C[i].role = r}
           T == {i \in Slots : D[i].role = r}
<1>1. C \in [Slots -> Cohorts] /\ D \in [Slots -> Cohorts] /\ L.person \in [People -> Persons]
      /\ N.person = L.person
  BY LedgerFields DEF Sane, Filled
<1>2. ASSUME NEW i \in Slots PROVE v[i] \in Int /\ w[i] \in Int /\ v[i] <= w[i]
  <2>1. C[i] \in Cohorts /\ D[i] \in Cohorts
    BY <1>1
  <2>2. C[i].held[f] \in Nat /\ D[i].held[f] \in Nat
    BY <2>1, CohortFields
  <2>3. D[i].held[f] = C[i].held[f] + h[i] /\ h[i] \in Nat
    BY DEF Filled
  <2> QED BY <2>2, <2>3
<1>3. S = T
  BY DEF Filled
<1>4. IsFiniteSet(S) /\ S \in SUBSET Slots
  BY Finite, FS_Subset
<1>5. HeldIn(C, f)[r] = SumFunctionOnSet(v, S) /\ HeldIn(D, f)[r] = SumFunctionOnSet(w, T)
  BY DEF HeldIn
<1> HIDE DEF v, w, S, T
<1>6. \A i \in S : v[i] \in Int /\ w[i] \in Int /\ v[i] <= w[i]
  BY <1>2, <1>4
<1>7. SumFunctionOnSet(v, S) <= SumFunctionOnSet(w, S)
  BY <1>4, <1>6, SumLess
<1>8. /\ HeldIn(C, f) \in [Roles -> Nat] /\ NamedIn(L.person, f) \in [Roles -> Nat]
      /\ BodiesIn(C, L.person, f)[r] = HeldIn(C, f)[r] + NamedIn(L.person, f)[r]
  BY <1>1, BodiesNat
<1>9. /\ HeldIn(D, f) \in [Roles -> Nat]
      /\ BodiesIn(D, L.person, f)[r] = HeldIn(D, f)[r] + NamedIn(L.person, f)[r]
  BY <1>1, BodiesNat
<1> DEFINE x == HeldIn(C, f)[r]
           y == HeldIn(D, f)[r]
           z == NamedIn(L.person, f)[r]
<1>10. x \in Nat /\ y \in Nat /\ z \in Nat /\ x <= y
  BY <1>3, <1>5, <1>7, <1>8, <1>9
<1>11. BodiesIn(C, L.person, f)[r] = x + z /\ BodiesIn(D, L.person, f)[r] = y + z
  BY <1>8, <1>9
<1> HIDE DEF x, y, z, C, D
<1>12. BodiesIn(C, L.person, f)[r] <= BodiesIn(D, L.person, f)[r]
  BY <1>10, <1>11
<1> QED BY <1>1, <1>12 DEF C, D

\* A formation that is mustered anew.
LEMMA CreatedSure ==
  ASSUME NEW L, Saved(L), NEW U, NEW W \in SUBSET Owed, Sure(L, U, W),
         NEW f \in Formations, L.doc[f] = None, NEW comp \in [Roles -> Int], NEW place \in Places,
         NEW X, X = Rewritten(L, f, Doc(place, comp, Zero(Slots))),
         NEW M, M = Muster(X, f, comp, place), NEW N, N = Listed(M, f), Check(N).ok
  PROVE  Check(N) = N /\ Saved(N) /\ Sure(N, U, W) /\ Kept(L, N)
<1> DEFINE d == Doc(place, comp, Zero(Slots))
           h == Drawn(X, comp, place)
<1>1. Sane(L) /\ Valid(L)
  BY DEF Saved
<1>2. d \in Docs /\ d.n = Total(comp) /\ d.comp = comp /\ \A i \in Slots : d.slices[i] = 0
  <2>1. Zero(Slots) \in [Slots -> Nat] /\ \A i \in Slots : Zero(Slots)[i] = 0
    BY DEF Zero
  <2>2. d \in Docs
    BY <2>1, DocIs
  <2> QED BY <2>1, <2>2 DEF Doc
<1> HIDE DEF d
<1>3. /\ Sane(X) /\ SameForce(L, X) /\ X.doc[f] = d /\ X.doc[f] # None
      /\ \A g \in Formations \ {f} : X.doc[g] = L.doc[g]
  <2>1. X = Rewritten(L, f, d)
    BY DEF d
  <2> QED BY ONLY <1>1, <1>2, <2>1, f \in Formations, RewriteSane
<1>4. Sane(M) /\ M.doc[f] # None
  <2>1. Sane(M) /\ Mustered(X, M, f)
    BY <1>3, MusterSane
  <2> QED BY <2>1 DEF Mustered
<1>5. /\ Sane(N) /\ N.cohort = M.cohort /\ N.person = M.person /\ N.doc = M.doc
      /\ N.ok = M.ok /\ N.listed = M.listed \cup {f}
      /\ N.given[f].n = M.doc[f].n /\ N.given[f].comp = M.doc[f].comp
      /\ \A g \in Formations \ {f} : N.given[g] = M.given[g]
  BY <1>4, ListedIs
<1>6. Check(N) = N /\ Saved(N)
  BY <1>5, CheckIs
<1>7. Valid(N) /\ N.ok
  BY <1>6 DEF Saved
<1>8. Filled(X, M, f, h) /\ M.doc[f].n = X.doc[f].n /\ M.doc[f].comp = X.doc[f].comp
  <2>1. Muster(X, f, comp, place).ok
    BY <1>5, <1>7
  <2> QED BY <1>3, <2>1, MusterIs
<1> HIDE DEF h
<1>9. f \notin L.listed
  BY <1>1 DEF Sane, Allotted
<1>10. \A i \in Slots : L.cohort[i].held[f] = 0
  BY <1>1, <1>9, Unheld
<1>11. \A i \in Slots : N.doc[f].slices[i] = N.cohort[i].held[f]
  <2>1. \A i \in Slots : X.cohort[i].held[f] = 0 /\ X.doc[f].slices[i] = 0
    BY <1>2, <1>3, <1>10 DEF SameForce
  <2>2. ASSUME NEW i \in Slots PROVE N.doc[f].slices[i] = N.cohort[i].held[f]
    <3>1. /\ M.doc[f].slices[i] = X.doc[f].slices[i] + h[i]
          /\ M.cohort[i].held[f] = X.cohort[i].held[f] + h[i]
      BY <1>8 DEF Filled
    <3> QED BY <1>5, <2>1, <3>1
  <2> QED BY <2>2
<1>12. /\ f \in N.listed /\ N.doc[f] # None /\ N.given[f].n = N.doc[f].n
       /\ N.given[f].comp = N.doc[f].comp
  BY <1>4, <1>5
<1>13. N.doc[f].n <= Total(N.doc[f].comp)
  <2>1. N.doc[f].n = Total(comp) /\ N.doc[f].comp = comp /\ Total(comp) \in Int
    BY <1>2, <1>3, <1>5, <1>8, Finite, TotalInt
  <2> QED BY <2>1
<1>14. Fine(N, f, U)
  <2>1. f \notin U => \A i \in Slots : N.doc[f].slices[i] = N.cohort[i].held[f]
    BY <1>11
  <2> QED BY <1>5, <1>7, <1>12, <1>13, <2>1, ListedFine
<1>15. Framed(L, N, {f}) /\ Kept(L, N)
  <2>1. ASSUME NEW g \in Formations \ {f}
        PROVE  /\ N.doc[g] = L.doc[g] /\ N.given[g] = L.given[g]
               /\ (g \in N.listed) <=> (g \in L.listed)
               /\ \A i \in Slots : N.cohort[i].held[g] = L.cohort[i].held[g]
    BY <1>3, <1>5, <1>8 DEF Filled, SameForce
  <2> QED BY <1>12, <2>1 DEF Framed, Kept
<1>16. Mends(N, {f}, U, W)
  <2>1. ASSUME NEW w \in W, w.f = f PROVE FALSE
    BY <2>1 DEF Sure, Awaits
  <2> QED BY <1>14, <2>1 DEF Mends
<1>17. Sure(N, U, W)
  BY <1>1, <1>5, <1>7, <1>15, <1>16, FrameSure
<1> QED BY <1>6, <1>15, <1>17

\* The formation of the blueprint that is brought to strength: only its main role counts
\* with the force and the document.
LEMMA BroughtSure ==
  ASSUME NEW L, Saved(L), NEW U, NEW W \in SUBSET Owed, Sure(L, U, W),
         NEW f \in Formations, L.doc[f] # None, NEW take \in Int, NEW n, n = L.doc[f].n + take,
         NEW R, R = Reinforce(L, f, Only(Roles, Line, take)),
         NEW comp, comp = [r \in Roles |-> IF r = Line THEN n ELSE L.doc[f].comp[r]],
         NEW d \in Docs, d.n = R.doc[f].n, d.comp = comp, d.slices = R.doc[f].slices,
         NEW Z, Z = Rewritten(R, f, d),
         NEW N, N = ToldOf(Z, f, [n |-> n, comp |-> Only(Roles, Line, n)]), Check(N).ok
  PROVE  Check(N) = N /\ Saved(N) /\ Sure(N, U, W) /\ Kept(L, N)
<1> DEFINE adds == Only(Roles, Line, take)
           all == Only(Roles, Line, n)
           r == [n |-> n, comp |-> all]
<1>0. Line \in Roles
  BY ForceAssumption
<1>1. Sane(L) /\ Valid(L) /\ L.ok /\ Fine(L, f, U)
  BY DEF Saved, Sure
<1>2. L.doc[f].n \in Int /\ n \in Int /\ L.doc[f].comp \in [Roles -> Nat]
  <2>1. L.doc[f].n \in Int
    BY <1>1, DocFields DEF Sane
  <2> QED BY <1>1, <2>1 DEF Fine, Ample
<1>3. /\ adds \in [Roles -> Int] /\ Total(adds) = take
      /\ all \in [Roles -> Int] /\ \A q \in Roles : all[q] = IF q = Line THEN n ELSE 0
  BY <1>0, <1>2, Finite, OnlyIs, OnlyTotal
<1>4. comp \in [Roles -> Int] /\ \A q \in Roles : comp[q] = IF q = Line THEN n ELSE L.doc[f].comp[q]
  BY <1>2
<1>5. r \in [n : Int, comp : [Roles -> Int]] /\ r.n = n /\ r.comp = all
  BY <1>2, <1>3
<1> HIDE DEF adds, all, r
<1>6. Sane(R) /\ R.doc[f] # None
  <2>1. R = Reinforce(L, f, adds)
    BY DEF adds
  <2>2. Sane(R) /\ Mustered(L, R, f)
    BY <1>1, <1>3, <2>1, ReinforceSane
  <2> QED BY <2>2 DEF Mustered
<1>7. d \in Docs /\ d.n = R.doc[f].n /\ d.comp = comp /\ d.slices = R.doc[f].slices
  OBVIOUS
<1>8. /\ Sane(Z) /\ SameForce(R, Z) /\ Z.ok = R.ok /\ Z.doc[f] = d /\ Z.doc[f] # None
      /\ \A g \in Formations \ {f} : Z.doc[g] = R.doc[g]
  BY ONLY <1>6, <1>7, f \in Formations, Z = Rewritten(R, f, d), RewriteSane
<1>9. Z \in Ledgers /\ Z.given \in [Formations -> [n : Int, comp : [Roles -> Int]]]
  BY <1>8, LedgerFields DEF Sane
<1>10. N = ToldOf(Z, f, r)
  BY DEF r, all
<1>11. Sane(N)
  BY <1>5, <1>8, <1>10, ToldSane
<1> DEFINE G == [Z.given EXCEPT ![f] = r]
<1>12. G[f] = r /\ \A g \in Formations \ {f} : G[g] = Z.given[g]
  BY <1>9
<1> HIDE DEF G
<1>13. /\ N.cohort = Z.cohort /\ N.person = Z.person /\ N.doc = Z.doc /\ N.ok = Z.ok
       /\ N.listed = Z.listed \cup {f} /\ N.given = G
  BY <1>9, <1>10 DEF ToldOf, Ledgers, G
<1>14. Check(N) = N /\ Saved(N)
  BY <1>11, CheckIs
<1>15. Valid(N) /\ N.ok
  BY <1>14 DEF Saved
<1>16. PICK h \in [Slots -> Nat] :
            /\ Filled(L, R, f, h) /\ Total(h) >= Total(adds)
            /\ Total(h) \in Nat /\ Total(adds) \in Int
            /\ R.doc[f].n = L.doc[f].n + Total(adds)
  <2>1. R = Reinforce(L, f, adds) /\ Reinforce(L, f, adds).ok
    BY <1>8, <1>13, <1>15 DEF adds
  <2> QED BY <1>1, <1>3, <2>1, ReinforceIs
<1>17. N.cohort = R.cohort /\ N.person = R.person /\ N.listed = L.listed \cup {f}
  BY <1>8, <1>13, <1>16 DEF SameForce, Filled
<1>18. /\ \A g \in Formations \ {f} : N.given[g] = L.given[g]
       /\ \A g \in Formations \ {f} : N.doc[g] = L.doc[g]
  <2>1. R.given = L.given /\ \A g \in Formations \ {f} : R.doc[g] = L.doc[g]
    BY <1>16 DEF Filled
  <2>2. Z.given = R.given
    BY <1>8 DEF SameForce
  <2>3. ASSUME NEW g \in Formations \ {f} PROVE N.given[g] = L.given[g]
    BY <1>12, <1>13, <2>1, <2>2
  <2>4. ASSUME NEW g \in Formations \ {f} PROVE N.doc[g] = L.doc[g]
    BY <1>8, <1>13, <2>1
  <2> QED BY <2>3, <2>4
<1>19. N.given[f].n = n /\ N.given[f].comp = all /\ N.doc[f] = d /\ N.doc[f].n = n
  BY <1>3, <1>5, <1>7, <1>8, <1>12, <1>13, <1>16
<1> DEFINE b == BodiesIn(N.cohort, N.person, f)
<1>20. n > 0 /\ n = Total(b) /\ b = all
  <2>1. /\ Total(b) \in Nat /\ Total(b) > 0 /\ N.given[f].n = Total(b)
        /\ N.given[f].comp # Zero(Roles) => N.given[f].comp = b
    <3>1. f \in N.listed
      BY <1>17
    <3> QED BY <1>11, <1>15, <3>1, ValidTells
  <2>2. n > 0
    BY <1>19, <2>1
  <2>3. all # Zero(Roles)
    <3>1. Zero(Roles)[Line] = 0 /\ all[Line] = n
      BY <1>0, <1>3 DEF Zero
    <3> QED BY <2>2, <3>1
  <2> QED BY <1>19, <2>1, <2>2, <2>3
<1> HIDE DEF b
<1>21. comp \in [Roles -> Nat] /\ n <= Total(comp)
  <2>1. n \in Nat
    BY <1>2, <1>20
  <2>2. \A q \in Roles : comp[q] \in Nat
    BY <1>2, <1>4, <2>1
  <2>3. comp \in [Roles -> Nat]
    BY <1>4, <2>2
  <2>4. comp[Line] <= Total(comp)
    BY <1>0, <2>3, Finite, TotalNat
  <2> QED BY <1>0, <1>4, <2>3, <2>4
<1>22. ASSUME f \notin U PROVE Told(N, f)
  <2>1. L.doc[f].comp = BodiesIn(L.cohort, L.person, f)
        /\ \A i \in Slots : L.doc[f].slices[i] = L.cohort[i].held[f]
    BY <1>1, <1>22 DEF Fine, Told
  <2>2. ASSUME NEW q \in Roles PROVE comp[q] = all[q]
    <3>1. CASE q = Line
      BY <1>3, <1>4, <3>1
    <3>2. CASE q # Line
      <4>1. L.doc[f].comp[q] <= b[q]
        BY <1>1, <1>11, <1>16, <1>17, <2>1, FilledGrows DEF b
      <4>2. b[q] = 0 /\ all[q] = 0
        BY <1>3, <1>20, <3>2
      <4>3. L.doc[f].comp[q] \in Nat
        BY <1>2
      <4> DEFINE x == L.doc[f].comp[q]
      <4>4. x \in Nat /\ x <= 0
        BY <4>1, <4>2, <4>3
      <4> HIDE DEF x
      <4>5. x = 0
        BY <4>4
      <4> QED BY <1>4, <3>2, <4>2, <4>5 DEF x
    <3> QED BY <3>1, <3>2
  <2>3. comp = all
    BY <1>3, <1>4, <2>2
  <2>4. \A i \in Slots : N.doc[f].slices[i] = N.cohort[i].held[f]
    <3>1. \A i \in Slots : /\ R.doc[f].slices[i] = L.doc[f].slices[i] + h[i]
                           /\ R.cohort[i].held[f] = L.cohort[i].held[f] + h[i]
      BY <1>16 DEF Filled
    <3>2. ASSUME NEW i \in Slots PROVE N.doc[f].slices[i] = N.cohort[i].held[f]
      <4>1. N.doc[f].slices = R.doc[f].slices /\ N.cohort = R.cohort
        BY <1>7, <1>17, <1>19
      <4>2. R.doc[f].slices[i] = R.cohort[i].held[f]
        BY <2>1, <3>1
      <4> QED BY <4>1, <4>2
    <3> QED BY <3>2
  <2>5. N.doc[f].comp = all /\ N.doc[f].n = n
    BY <1>7, <1>19, <2>3
  <2>6. N.doc[f].n = Total(N.doc[f].comp) /\ N.doc[f].comp = b
    BY <1>20, <2>5
  <2> QED BY Zenon, <2>4, <2>6 DEF Told, b
<1>23. Fine(N, f, U)
  <2>1. Ample(N.doc[f])
    BY Zenon, <1>7, <1>19, <1>21 DEF Ample
  <2>2. N.given[f].comp # Zero(Roles)
    <3>1. Zero(Roles)[Line] = 0 /\ all[Line] = n
      BY <1>0, <1>3 DEF Zero
    <3> QED BY <1>19, <1>20, <3>1
  <2> QED BY <1>22, <2>1, <2>2 DEF Fine
<1>24. N.given[f].n = L.doc[f].n + take /\ take <= Total(h) /\ f \in N.listed
  BY <1>3, <1>16, <1>17, <1>19
<1>25. Sure(N, U, W)
  <2>1. Reported(L, R, N, f)
    BY <1>17, <1>18 DEF Reported
  <2> QED BY <1>11, <1>15, <1>16, <1>23, <1>24, <2>1, FilledSure
<1>26. Kept(L, N)
  <2>1. d # None
    BY <1>8
  <2> QED BY <1>18, <1>19, <2>1 DEF Kept
<1> QED BY <1>14, <1>25, <1>26

LEMMA BlueprintSure ==
  ASSUME NEW L0, Saved(L0), NEW U, NEW W \in SUBSET Owed, Sure(L0, U, W), Blueprint(L0).ok
  PROVE  Saved(Blueprint(L0)) /\ Sure(Blueprint(L0), U, W) /\ Kept(L0, Blueprint(L0))
<1> DEFINE f == Standing
           L == IF Exists(L0, Standing) THEN Ensure(L0, Standing) ELSE L0
           take == AtMost(Minus(Target, L.doc[f].n), L.free[Line][L.doc[f].at])
           n == L.doc[f].n + take
           comp == [r \in Roles |-> IF r = Line THEN L.doc[f].n + take ELSE L.doc[f].comp[r]]
           R == Reinforce(L, f, Only(Roles, Line, take))
           d == [R.doc[f] EXCEPT !.comp = comp]
           filled == [R EXCEPT !.doc[Standing].comp = comp]
           r == [n |-> n, comp |-> Only(Roles, Line, n)]
           given == [filled EXCEPT !.listed = @ \union {f}, !.given[f] = r]
           all == Only(Roles, Line, Target)
           new == [L EXCEPT !.doc[f] = Doc(Home, all, Zero(Slots))]
           X == Rewritten(L, f, Doc(Home, all, Zero(Slots)))
           M == Muster(new, f, all, Home)
           B == Blueprint(L0)
<1>0. f \in Formations /\ Line \in Roles /\ Home \in Places /\ Target \in Int
  BY ForceAssumption
<1>1. \/ B = L
      \/ L.ok /\ Exists(L, f) /\ B = Check(given)
      \/ L.ok /\ ~Exists(L, f) /\ B = Check(Listed(M, f))
  BY Zenon DEF Blueprint
<1>2. Good(L0) /\ Good(B)
  BY BlueprintGood DEF Saved, Good
<1>3. L.ok => Sure(L, U, W) /\ Saved(L) /\ Kept(L0, L)
  <2>1. CASE Exists(L0, f)
    <3>1. L = Ensure(L0, f) /\ L0.doc[f] # None
      BY <2>1 DEF Exists
    <3> HIDE DEF L, f
    <3>2. ASSUME L.ok PROVE Sure(L, U, W) /\ Saved(L) /\ Kindred(L0, L, f)
      BY <1>0, <3>1, <3>2, EnsureSure
    <3> QED BY <3>2 DEF Kindred, Kept
  <2>2. CASE ~Exists(L0, f)
    BY <2>2 DEF Kept
  <2> QED BY <2>1, <2>2
<1> HIDE DEF L, B
<1>4. CASE B = L
  BY <1>3, <1>4 DEF B
<1>5. CASE L.ok /\ Exists(L, f) /\ B = Check(given)
  <2>1. Saved(L) /\ Sane(L) /\ L.doc[f] # None /\ Sure(L, U, W)
    BY Zenon, <1>3, <1>5 DEF Saved, Exists
  <2>2. L.doc[f].n \in Int /\ L.doc[f].comp \in [Roles -> Int] /\ L.free[Line][L.doc[f].at] \in Int
    <3>1. L \in Ledgers
      BY <2>1 DEF Sane
    <3>2. L.doc[f].n \in Int /\ L.doc[f].comp \in [Roles -> Int] /\ L.doc[f].at \in Places
      BY <1>0, <2>1, <3>1, DocFields
    <3>3. L.free \in [Roles -> [Places -> Int]]
      BY <3>1, LedgerFields
    <3> QED BY <1>0, <3>2, <3>3
  <2>3. take \in Int
    <3> DEFINE a == L.doc[f].n
               b == L.free[Line][L.doc[f].at]
    <3>1. a \in Int /\ b \in Int /\ take = AtMost(Minus(Target, a), b)
      BY <2>2
    <3> HIDE DEF a, b, take
    <3> QED BY <1>0, <3>1 DEF AtMost, Minus
  <2> HIDE DEF take
  <2>4. comp = [q \in Roles |-> IF q = Line THEN n ELSE L.doc[f].comp[q]] /\ comp \in [Roles -> Int]
    BY <2>2, <2>3
  <2>5. Only(Roles, Line, take) \in [Roles -> Int]
    BY <2>3, OnlyIs
  <2>6. Sane(R) /\ R.doc[f] # None
    <3>1. Sane(R) /\ Mustered(L, R, f)
      BY <1>0, <2>1, <2>5, ReinforceSane
    <3> QED BY <3>1 DEF Mustered
  <2>7. n = L.doc[f].n + take /\ R = Reinforce(L, f, Only(Roles, Line, take))
    OBVIOUS
  <2> HIDE DEF n, R, comp
  <2>8. R \in Ledgers /\ R.doc[f] \in Docs
    BY <1>0, <2>6, DocFields DEF Sane
  <2>9. d \in Docs /\ d.n = R.doc[f].n /\ d.comp = comp /\ d.slices = R.doc[f].slices
    BY <2>4, <2>8 DEF Docs
  <2>10. filled = Rewritten(R, f, d)
    BY <2>8 DEF Rewritten, Ledgers
  <2> HIDE DEF d, filled
  <2> DEFINE Z == Rewritten(R, f, d)
  <2>11. Sane(Z)
    BY <1>0, <2>6, <2>9, RewriteSane
  <2>12. given = ToldOf(Z, f, r)
    BY <2>10, <2>11 DEF ToldOf, Sane, Ledgers
  <2>13. Z = Rewritten(R, f, d)
    OBVIOUS
  <2> HIDE DEF given, Z
  <2>14. given = ToldOf(Z, f, [n |-> n, comp |-> Only(Roles, Line, n)])
    BY <2>12
  <2>15. Check(given).ok
    BY <1>5 DEF B
  <2> HIDE DEF f
  <2>16. Check(given) = given /\ Saved(given) /\ Sure(given, U, W) /\ Kept(L, given)
    BY ONLY <1>0, <2>1, <2>3, <2>4, <2>7, <2>9, <2>13, <2>14, <2>15, W \in SUBSET Owed, BroughtSure
  <2>17. Kept(L0, given)
    BY <1>3, <1>5, <2>16 DEF Kept
  <2> QED BY <1>5, <2>16, <2>17 DEF B
<1>6. CASE L.ok /\ ~Exists(L, f) /\ B = Check(Listed(M, f))
  <2>1. Saved(L) /\ Sane(L) /\ L.doc[f] = None /\ Sure(L, U, W)
    BY <1>3, <1>6 DEF Saved, Exists
  <2>2. all \in [Roles -> Int]
    BY <1>0, OnlyIs
  <2>3. new = X
    BY <2>1 DEF Rewritten, Sane, Ledgers
  <2>4. X = Rewritten(L, f, Doc(Home, all, Zero(Slots)))
    OBVIOUS
  <2> HIDE DEF new, X, all
  <2>5. M = Muster(X, f, all, Home)
    BY <2>3
  <2> HIDE DEF M
  <2> DEFINE N == Listed(M, f)
  <2>6. N = Listed(M, f) /\ B = Check(N) /\ Check(N).ok
    BY <1>6 DEF B
  <2> HIDE DEF N, f
  <2>7. Check(N) = N /\ Saved(N) /\ Sure(N, U, W) /\ Kept(L, N)
    BY ONLY <1>0, <2>1, <2>2, <2>4, <2>5, <2>6, W \in SUBSET Owed, CreatedSure
  <2>8. Kept(L0, N)
    BY <1>3, <1>6, <2>7 DEF Kept
  <2> QED BY <2>6, <2>7, <2>8 DEF B
<1> QED BY Zenon, <1>1, <1>4, <1>5, <1>6

-----------------------------------------------------------------------------
(* Training. *)

LEMMA IsolateSure ==
  ASSUME NEW L0, Saved(L0), NEW U, NEW W \in SUBSET Owed, Sure(L0, U, W),
         NEW f \in Formations, L0.doc[f] # None, Isolate(L0, f).ok
  PROVE  Saved(Isolate(L0, f)) /\ Sure(Isolate(L0, f), U, W) /\ Kept(L0, Isolate(L0, f))
<1> DEFINE L == Ensure(L0, f)
           slices == L.doc[f].slices
           Shared(i) == \/ Total(L.cohort[i].res) > 0
                        \/ \E g \in Formations \ {f} : L.cohort[i].held[g] > 0
           S == {i \in Slots : slices[i] > 0 /\ Shared(i)}
           branch == Ranked(S)
           fresh == Ranked(Blanks(L))
           Branches == 1..Len(branch)
           From(j) == branch[CHOOSE k \in Branches : fresh[k] = j]
           New(j) == \E k \in Branches : fresh[k] = j
           c(j) == IF New(j) THEN Cohort(L.cohort[From(j)].role, Zero(Places),
                                         Only(Formations, f, slices[From(j)]))
                   ELSE IF j \in ToSet(branch) THEN Spent(L.cohort[j], f, L.cohort[j].held[f])
                   ELSE L.cohort[j]
           s(j) == IF New(j) THEN slices[From(j)]
                   ELSE IF j \in ToSet(branch) THEN 0 ELSE slices[j]
           C == [j \in Slots |-> c(j)]
           s2 == [j \in Slots |-> s(j)]
           d == [L.doc[f] EXCEPT !.slices = s2]
           N == [L EXCEPT !.cohort = C, !.doc[f].slices = s2]
           K == Isolate(L0, f)
<1>1. Good(K) /\ Kept(L0, K)
  BY IsolateGood DEF Saved, Good
<1>2. \/ K = L \/ K = Refuse(L) \/ (L.ok /\ K = Overflow(L))
      \/ /\ L.ok /\ ~(Len(branch) > Len(fresh)) /\ K = Check(N)
         /\ ~(\E k \in Branches : L.cohort[branch[k]].held[f] # slices[branch[k]])
  BY Zenon DEF Isolate
<1>3. Good(L) /\ Kindred(L0, L, f)
  BY EnsureGood DEF Saved, Good
<1>4. L.ok => Saved(L) /\ Sure(L, U, W)
  <2> HIDE DEF K
  <2> QED BY EnsureSure
<1> HIDE DEF L, K
<1>5. /\ L \in Ledgers /\ L.cohort \in [Slots -> Cohorts]
      /\ L.doc \in [Formations -> Docs \cup {None}] /\ L.doc[f] # None
      /\ L.doc[f] \in Docs /\ slices \in [Slots -> Nat]
  BY <1>3, LedgerFields, DocFields DEF Good, Sane, Kindred
<1>6. CASE K = L
  BY <1>1, <1>4, <1>6 DEF K
<1>7. CASE K = Refuse(L)
  <2>1. Refuse(L).ok = FALSE
    BY <1>5 DEF Refuse, Ledgers
  <2> QED BY <1>7, <2>1 DEF K
<1>8. CASE L.ok /\ K = Overflow(L)
  <2>1. SameForce(L, Overflow(L)) /\ Overflow(L).doc = L.doc
    BY <1>5 DEF Overflow, Ledgers, SameForce
  <2>2. Sure(Overflow(L), U, W)
    BY <1>4, <1>8, <2>1, SameSure
  <2> QED BY <1>1, <1>8, <2>2 DEF K, Saved, Good
<1>9. CASE /\ L.ok /\ ~(Len(branch) > Len(fresh)) /\ K = Check(N)
           /\ ~(\E k \in Branches : L.cohort[branch[k]].held[f] # slices[branch[k]])
  <2>1. Saved(L) /\ Sure(L, U, W) /\ Sane(L) /\ Valid(L)
    BY Zenon, <1>4, <1>9 DEF Saved
  <2>2. ASSUME NEW j \in Slots, New(j) PROVE L.cohort[j] = Blank
    <3>1. Blanks(L) \in SUBSET Nat /\ IsFiniteSet(Blanks(L))
      BY Finite, FS_Subset, ForceAssumption DEF Blanks
    <3>2. /\ DOMAIN fresh = 1..Cardinality(Blanks(L)) /\ Len(fresh) = Cardinality(Blanks(L))
          /\ \A k \in DOMAIN fresh : fresh[k] \in Blanks(L)
      BY <3>1, RankedSeq
    <3>3. S \in SUBSET Nat /\ IsFiniteSet(S)
      BY Finite, FS_Subset, ForceAssumption
    <3> HIDE DEF S
    <3>4. Len(branch) = Cardinality(S) /\ Cardinality(S) \in Nat
      BY <3>3, RankedSeq, FS_CardinalityType
    <3>5. Cardinality(Blanks(L)) \in Nat
      BY <3>1, FS_CardinalityType
    <3> HIDE DEF branch, fresh
    <3>6. PICK k \in 1..Len(branch) : fresh[k] = j
      BY <2>2
    <3>7. k \in DOMAIN fresh
      <4> DEFINE a == Len(branch)
                 b == Cardinality(Blanks(L))
      <4>1. a \in Nat /\ b \in Nat /\ ~(a > b) /\ k \in 1..a
        BY Zenon, <1>9, <3>2, <3>4, <3>5, <3>6
      <4> HIDE DEF a, b
      <4>2. k \in 1..b
        BY <4>1
      <4> QED BY <3>2, <4>2 DEF b
    <3> QED BY <3>2, <3>6, <3>7 DEF Blanks
  <2>3. ASSUME NEW j \in Slots, j \in ToSet(branch) PROVE L.cohort[j].held[f] = slices[j]
    <3>1. S \in SUBSET Nat /\ IsFiniteSet(S)
      BY Finite, FS_Subset, ForceAssumption
    <3> HIDE DEF S
    <3>2. branch \in Seq(S)
      BY <3>1, RankedSeq
    <3> HIDE DEF branch
    <3>3. DOMAIN branch = Branches
      BY <3>2
    <3>4. PICK k \in DOMAIN branch : branch[k] = j
      BY <2>3 DEF ToSet
    <3> QED BY Zenon, <1>9, <3>3, <3>4
  <2>4. ASSUME NEW j \in Slots, New(j) PROVE From(j) \in Slots
    <3>1. S \in SUBSET Nat /\ IsFiniteSet(S)
      BY Finite, FS_Subset, ForceAssumption
    <3>y. S \in SUBSET Slots
      OBVIOUS
    <3> HIDE DEF S
    <3>2. DOMAIN branch = 1..Cardinality(S) /\ Len(branch) = Cardinality(S)
          /\ \A k \in DOMAIN branch : branch[k] \in S
      BY <3>1, RankedSeq
    <3> HIDE DEF branch, fresh
    <3> QED BY <2>4, <3>y, <3>2
  <2> HIDE DEF S, branch, fresh
  <2>5. ASSUME NEW j \in Slots
        PROVE  /\ \A g \in Formations \ {f} : c(j).held[g] = L.cohort[j].held[g]
               /\ \/ c(j).held[f] = L.cohort[j].held[f] /\ s(j) = slices[j]
                  \/ L.cohort[j] = Blank /\ c(j).held[f] = s(j)
                  \/ L.cohort[j].held[f] = slices[j] /\ c(j).held[f] = s(j)
    <3>1. CASE New(j)
      <4> DEFINE k == slices[From(j)]
                 o == Only(Formations, f, k)
      <4>1. k \in Int
        <5> DEFINE q == From(j)
        <5>1. q \in Slots
          BY <2>4, <3>1
        <5> HIDE DEF q
        <5>2. slices[q] \in Int
          BY <1>5, <5>1
        <5> QED BY <5>2 DEF q
      <4>2. c(j).held = o /\ s(j) = k
        BY <3>1 DEF Cohort
      <4> HIDE DEF k, c, s
      <4>3. \A g \in Formations : o[g] = IF g = f THEN k ELSE 0
        BY <4>1, OnlyIs
      <4> HIDE DEF o
      <4>4. L.cohort[j] = Blank /\ \A g \in Formations : Blank.held[g] = 0
        BY <2>2, <3>1 DEF Blank, Zero
      <4> QED BY <4>2, <4>3, <4>4
    <3>2. CASE ~New(j) /\ j \in ToSet(branch)
      <4> DEFINE x == L.cohort[j]
                 k == x.held[f]
      <4>1. x \in Cohorts /\ k \in Nat /\ k \in Int
        BY <1>5, CohortFields
      <4>2. c(j) = Spent(x, f, k) /\ s(j) = 0
        BY <3>2
      <4>3. x.held[f] = slices[j]
        BY <2>3, <3>2
      <4>4. x.held[f] = k /\ x = L.cohort[j]
        OBVIOUS
      <4> HIDE DEF x, k, c, s
      <4>5. \A g \in Formations : c(j).held[g] = IF g = f THEN x.held[g] - k ELSE x.held[g]
        BY <4>1, <4>2, MovesHeld
      <4>6. c(j).held[f] = 0
        BY <4>1, <4>4, <4>5
      <4> QED BY <4>2, <4>3, <4>4, <4>5, <4>6
    <3>3. CASE ~New(j) /\ j \notin ToSet(branch)
      BY <3>3
    <3> QED BY Zenon, <3>1, <3>2, <3>3
  <2>6. Refuse(N).ok = FALSE
    BY <1>5 DEF Refuse, Ledgers
  <2>7. N.doc = [L.doc EXCEPT ![f] = d] /\ N.cohort = C /\ N.given = L.given /\ N.listed = L.listed
    BY <1>5 DEF Ledgers
  <2>8. d.n = L.doc[f].n /\ d.comp = L.doc[f].comp /\ d.slices = s2
    BY <1>5 DEF Docs
  <2>9. N.doc[f] = d /\ \A g \in Formations \ {f} : N.doc[g] = L.doc[g]
    BY <1>5, <2>7
  <2>10. d # None
    <3>1. K.doc = N.doc
      BY Zenon, <1>5, <1>9 DEF Check, Refuse, Ledgers
    <3> QED BY Zenon, <1>1, <2>9, <3>1 DEF Kept
  <2> HIDE DEF N, d
  <2>11. K = N /\ Saved(N)
    BY <1>1, <1>9, <2>6, CheckOk DEF K
  <2>12. \A i \in Slots : N.cohort[i] = c(i) /\ N.doc[f].slices[i] = s(i)
    <3> HIDE DEF c, s
    <3> QED BY <2>7, <2>8, <2>9
  <2> HIDE DEF c, s
  <2>13. Framed(L, N, {f})
    BY <2>5, <2>7, <2>9, <2>12 DEF Framed
  <2>14. Fine(L, f, U) /\ Sane(N) /\ Valid(N)
    BY <2>1, <2>11 DEF Sure, Saved
  <2>15. BodiesIn(N.cohort, N.person, f) = BodiesIn(L.cohort, L.person, f)
    BY <2>1, <2>7, <2>14, SameBodies DEF Fine
  <2>16. ASSUME f \notin U PROVE Told(N, f)
    <3>1. Told(L, f)
      BY <1>5, <2>14, <2>16 DEF Fine
    <3>2. \A i \in Slots : N.doc[f].slices[i] = N.cohort[i].held[f]
      <4> SUFFICES ASSUME NEW i \in Slots PROVE s(i) = c(i).held[f]
        BY <2>12
      <4>1. slices[i] = L.cohort[i].held[f]
        BY <3>1 DEF Told
      <4> QED BY <2>5, <4>1
    <3> QED BY <2>8, <2>9, <2>15, <3>1, <3>2 DEF Told
  <2>17. Fine(N, f, U)
    BY <1>5, <2>7, <2>8, <2>9, <2>14, <2>16 DEF Fine, Ample
  <2>18. ASSUME NEW w \in W, w.f = f PROVE Awaits(N, w)
    <3>1. Awaits(L, w) /\ w \in Owed
      BY <2>1 DEF Sure
    <3>2. w.doc.slices \in [Slots -> Nat] /\ w.old.slices \in [Slots -> Nat]
      BY <3>1 DEF Owed, Docs
    <3>3. ASSUME NEW i \in Slots
          PROVE  N.cohort[i].held[f] = N.doc[f].slices[i] + (w.doc.slices[i] - w.old.slices[i])
      <4> DEFINE a == w.doc.slices[i]
                 b == w.old.slices[i]
                 x == L.cohort[i].held[f]
                 y == slices[i]
                 u == c(i).held[f]
                 v == s(i)
      <4>1. a \in Nat /\ b \in Nat /\ a >= b /\ x = y + (a - b) /\ y \in Nat
        BY <1>5, <2>18, <3>1, <3>2 DEF Awaits
      <4>2. (u = x /\ v = y) \/ (L.cohort[i] = Blank /\ u = v) \/ (x = y /\ u = v)
        BY <2>5
      <4>3. L.cohort[i] = Blank => x = 0
        BY DEF Blank, Zero
      <4>4. u \in Nat
        <5>1. N.cohort \in [Slots -> Cohorts]
          BY <2>14, LedgerFields DEF Sane
        <5>2. N.cohort[i] \in Cohorts
          BY <5>1
        <5>3. N.cohort[i].held[f] \in Nat
          BY <5>2, CohortFields
        <5> QED BY <2>12, <5>3
      <4>5. v \in Nat
        <5>1. N.doc[f].slices \in [Slots -> Nat]
          BY <2>9, <2>10, <2>14, DocFields DEF Sane
        <5> QED BY <2>12, <5>1
      <4> HIDE DEF a, b, x, y, u, v
      <4>6. u = v + (a - b)
        BY <4>1, <4>2, <4>3, <4>4, <4>5
      <4> QED BY <2>12, <4>6 DEF a, b, u, v
    <3>4. N.doc[f].n = L.doc[f].n /\ N.doc[f] # None
      BY <2>8, <2>9, <2>10
    <3> QED BY <2>15, <2>18, <3>1, <3>3, <3>4 DEF Awaits
  <2>19. Mends(N, {f}, U, W)
    BY <2>17, <2>18 DEF Mends
  <2>20. Sure(N, U, W)
    BY <2>1, <2>13, <2>14, <2>19, FrameSure
  <2> QED BY <1>1, <2>11, <2>20 DEF K
<1> QED BY Zenon, <1>2, <1>6, <1>7, <1>8, <1>9

LEMMA TrainSure ==
  ASSUME NEW L, Saved(L), NEW U, NEW W \in SUBSET Owed, Sure(L, U, W),
         NEW f \in Formations, Train(L, f).ok
  PROVE  Sure(Train(L, f), U, W) /\ Kept(L, Train(L, f))
<1>1. CASE L.ok /\ Exists(L, f) /\ Total(HeldBy(L, f)) > 0
  <2>1. Train(L, f) = Isolate(L, f) /\ L.doc[f] # None
    BY <1>1 DEF Train, Exists
  <2> QED BY <2>1, IsolateSure
<1>2. CASE ~(L.ok /\ Exists(L, f) /\ Total(HeldBy(L, f)) > 0)
  <2>1. Train(L, f) = L
    BY <1>2 DEF Train
  <2> QED BY <2>1 DEF Kept
<1> QED BY <1>1, <1>2

-----------------------------------------------------------------------------
(* The review. *)

\* What the steps of a review may have made of L.
SureOnes(L, U, W) == {M \in Ledgers : Good(M) /\ (M.ok => Sure(M, U, W) /\ Kept(L, M))}

LEMMA TrainStays ==
  ASSUME NEW L, NEW U, NEW W \in SUBSET Owed, NEW M \in SureOnes(L, U, W), NEW f \in Formations
  PROVE  Train(M, f) \in SureOnes(L, U, W)
<1> DEFINE N == Train(M, f)
<1>1. Good(M) /\ (M.ok => Sure(M, U, W) /\ Kept(L, M))
  BY DEF SureOnes
<1>2. Good(N)
  BY <1>1, TrainGood
<1>3. N.ok => M.ok
  <2>1. CASE M.ok
    BY <2>1
  <2>2. CASE ~M.ok
    BY <2>2 DEF Train
  <2> QED BY <2>1, <2>2
<1>4. ASSUME N.ok PROVE Sure(N, U, W) /\ Kept(L, N)
  <2>1. Saved(M) /\ Sure(M, U, W) /\ Kept(L, M) /\ Train(M, f).ok
    BY <1>1, <1>3, <1>4 DEF Saved, Good
  <2> HIDE DEF N
  <2>2. Sure(Train(M, f), U, W) /\ Kept(M, Train(M, f))
    BY ONLY <2>1, W \in SUBSET Owed, f \in Formations, TrainSure
  <2> QED BY <2>1, <2>2 DEF N, Kept
<1> HIDE DEF N
<1>5. N \in SureOnes(L, U, W)
  BY <1>2, <1>4 DEF SureOnes, Good, Sane
<1> QED BY <1>5 DEF N

LEMMA ReplaceStays ==
  ASSUME NEW L, NEW U, NEW W \in SUBSET Owed, NEW M \in SureOnes(L, U, W), NEW f \in Formations
  PROVE  Replace(M, f) \in SureOnes(L, U, W)
<1> DEFINE N == Replace(M, f)
<1>1. Good(M) /\ (M.ok => Sure(M, U, W) /\ Kept(L, M))
  BY DEF SureOnes
<1>2. Good(N)
  BY <1>1, ReplaceGood
<1>3. N.ok => M.ok
  <2>1. CASE M.ok
    BY <2>1
  <2>2. CASE ~M.ok
    BY <2>2 DEF Replace
  <2> QED BY <2>1, <2>2
<1>4. ASSUME N.ok PROVE Sure(N, U, W) /\ Kept(L, N)
  <2>1. Saved(M) /\ Sure(M, U, W) /\ Kept(L, M) /\ Replace(M, f).ok
    BY <1>1, <1>3, <1>4 DEF Saved, Good
  <2> HIDE DEF N
  <2>2. Sure(Replace(M, f), U, W) /\ Kept(M, Replace(M, f))
    BY ONLY <2>1, W \in SUBSET Owed, f \in Formations, ReplaceSure
  <2> QED BY <2>1, <2>2 DEF N, Kept
<1> HIDE DEF N
<1>5. N \in SureOnes(L, U, W)
  BY <1>2, <1>4 DEF SureOnes, Good, Sane
<1> QED BY <1>5 DEF N

LEMMA ReviewedSure ==
  ASSUME NEW L, Saved(L), NEW U, NEW W \in SUBSET Owed, Sure(L, U, W), NEW hired \in Nat,
         Reviewed(L, hired).ok
  PROVE  Sure(Reviewed(L, hired), U, W) /\ Kept(L, Reviewed(L, hired))
<1> DEFINE each == SetToSeq(Formations)
           E == Enlist(L, Line, hired)
           x == Blueprint(E)
           y == FoldLeft(Train, x, each)
           V == SureOnes(L, U, W)
<1>1. Listing(each)
  BY EachListing
<1>2. Reviewed(L, hired) = FoldLeft(Replace, y, each)
  BY DEF Reviewed
<1>3. Line \in Roles /\ Standing \in Formations
  BY ForceAssumption
<1>4. Good(E) /\ Good(x)
  BY <1>3, EnlistGood, BlueprintGood DEF Saved, Good
<1>5. E.ok => Sure(E, U, W) /\ Kept(L, E)
  <2> SUFFICES ASSUME E.ok PROVE Sure(E, U, W) /\ Kept(L, E)
    OBVIOUS
  <2>1. Sure(E, U, W) /\ E.doc = L.doc
    BY <1>3, EnlistSure
  <2> QED BY <2>1 DEF Kept
<1>6. x.ok => E.ok
  <2> SUFFICES ASSUME ~E.ok PROVE ~x.ok
    OBVIOUS
  <2> HIDE DEF E
  <2>1. ~Exists(E, Standing) => x = E
    BY Zenon DEF Blueprint
  <2>2. Exists(E, Standing) => (Ensure(E, Standing).ok => E.ok)
    BY <1>3, <1>4, EnsureGood DEF Exists, Kindred
  <2>3. Exists(E, Standing) /\ ~Ensure(E, Standing).ok => x = Ensure(E, Standing)
    BY Zenon DEF Blueprint
  <2> QED BY <2>1, <2>2, <2>3
<1>7. x.ok => Sure(x, U, W) /\ Kept(L, x)
  <2> SUFFICES ASSUME x.ok PROVE Sure(x, U, W) /\ Kept(L, x)
    OBVIOUS
  <2> HIDE DEF E
  <2>1. Saved(E) /\ Sure(E, U, W) /\ Kept(L, E) /\ Blueprint(E).ok
    BY <1>4, <1>5, <1>6 DEF Saved, Good
  <2>2. Sure(Blueprint(E), U, W) /\ Kept(E, Blueprint(E))
    BY ONLY <2>1, W \in SUBSET Owed, BlueprintSure
  <2> QED BY <2>1, <2>2 DEF Kept
<1> HIDE DEF each, E, x
<1>8. x \in V
  BY <1>4, <1>7 DEF SureOnes, Good, Sane
<1> HIDE DEF V
<1>9. y \in V
  <2>1. \A f \in Formations : \A z \in V : Train(z, f) \in V
    BY TrainStays DEF V
  <2> QED BY <1>1, <1>8, <2>1, TrainedAll
<1> HIDE DEF y
<1>10. FoldLeft(Replace, y, each) \in V
  <2>1. \A f \in Formations : \A z \in V : Replace(z, f) \in V
    BY ReplaceStays DEF V
  <2> QED BY <1>1, <1>9, <2>1, ReplacedAll
<1> QED BY <1>2, <1>10 DEF V, SureOnes

-----------------------------------------------------------------------------
(* Losses. *)

\* The cohorts hold h less for f.
Lost(L, N, f, h) == \A i \in Slots : N.cohort[i].held[f] = L.cohort[i].held[f] - h[i]

\* The bodies of f after it lost h of the cohorts and the killed.
LEMMA LostCount ==
  ASSUME NEW L, Sane(L), NEW N, Sane(N), NEW f \in Formations, NEW h \in [Slots -> Nat],
         NEW killed \in SUBSET Members(L.person, f),
         Members(N.person, f) = Members(L.person, f) \ killed,
         Lost(L, N, f, h)
  PROVE  /\ Total(BodiesIn(N.cohort, N.person, f))
              = (SumFunctionOnSet(HeldColumn(L.cohort, f), Slots) + Cardinality(Members(L.person, f)))
                  - (Total(h) + Cardinality(killed))
         /\ SumFunctionOnSet(HeldColumn(L.cohort, f), Slots) \in Nat
         /\ Cardinality(Members(L.person, f)) \in Nat
         /\ Total(h) \in Nat /\ Cardinality(killed) \in Nat
<1> DEFINE v == HeldColumn(L.cohort, f)
           w == HeldColumn(N.cohort, f)
           S == Members(L.person, f)
           T == Members(N.person, f)
           t == Total(BodiesIn(N.cohort, N.person, f))
<1>1. /\ L.cohort \in [Slots -> Cohorts] /\ Founded(L.cohort)
      /\ L.person \in [People -> Persons] /\ Enrolled(L.person)
      /\ N.cohort \in [Slots -> Cohorts] /\ Founded(N.cohort)
      /\ N.person \in [People -> Persons] /\ Enrolled(N.person)
  BY LedgerFields DEF Sane
<1>2. /\ IsFiniteSet(S) /\ Cardinality(S) \in Nat
      /\ \A i \in Slots : v[i] = L.cohort[i].held[f] /\ v[i] \in Nat
      /\ SumFunctionOnSet(v, Slots) \in Nat
  BY <1>1, BodiesCount
<1>3. /\ t = SumFunctionOnSet(w, Slots) + Cardinality(T)
      /\ \A i \in Slots : w[i] = N.cohort[i].held[f] /\ w[i] \in Nat
      /\ SumFunctionOnSet(w, Slots) \in Nat
  BY Zenon, <1>1, BodiesCount
<1> HIDE DEF v, w, t
<1>4. \A i \in Slots : w[i] \in Int /\ h[i] \in Int /\ v[i] = w[i] + h[i]
  BY <1>2, <1>3 DEF Lost
<1>5. SumFunctionOnSet(v, Slots) = SumFunctionOnSet(w, Slots) + SumFunctionOnSet(h, Slots)
  BY <1>4, Finite, SumPlus
<1>6. Total(h) = SumFunctionOnSet(h, Slots) /\ Total(h) \in Nat
  BY Finite, TotalOn, TotalNat
<1>7. Cardinality(killed) \in Nat /\ Cardinality(T) = Cardinality(S) - Cardinality(killed)
  <2>1. IsFiniteSet(killed) /\ S \cap killed = killed
    BY <1>2, FS_Subset
  <2>2. Cardinality(S \ killed) = Cardinality(S) - Cardinality(S \cap killed)
    BY <1>2, <2>1, FS_Difference
  <2> QED BY <2>1, <2>2, FS_CardinalityType
<1> DEFINE a == SumFunctionOnSet(v, Slots)
           b == SumFunctionOnSet(w, Slots)
           e == Total(h)
           x == Cardinality(S)
           y == Cardinality(T)
           z == Cardinality(killed)
<1>8. /\ a \in Nat /\ b \in Nat /\ e \in Nat /\ x \in Nat /\ z \in Nat
      /\ a = b + e /\ y = x - z /\ t = b + y
  BY <1>2, <1>3, <1>5, <1>6, <1>7
<1> HIDE DEF a, b, e, x, y, z
<1>9. t = (a + x) - (e + z)
  BY <1>8
<1> QED BY <1>2, <1>6, <1>7, <1>9 DEF t, a, e, x, z, v

LEMMA LostOwed ==
  ASSUME NEW L, Sane(L), NEW N, Sane(N), NEW f \in Formations, NEW h \in [Slots -> Nat],
         NEW killed \in SUBSET Members(L.person, f),
         Members(N.person, f) = Members(L.person, f) \ killed,
         Lost(L, N, f, h),
         NEW w \in Owed, Awaits(L, w), w.f = f
  PROVE  Total(BodiesIn(N.cohort, N.person, f)) > L.doc[f].n - (Total(h) + Cardinality(killed))
<1> DEFINE a == SumFunctionOnSet(HeldColumn(L.cohort, f), Slots)
           c == Cardinality(Members(L.person, f))
           n == L.doc[f].n
           l == Total(h) + Cardinality(killed)
           t == Total(BodiesIn(N.cohort, N.person, f))
<1>1. n < a + c /\ n \in Int
  BY OwedMore
<1>2. t = (a + c) - l /\ a \in Nat /\ c \in Nat /\ Total(h) \in Nat /\ Cardinality(killed) \in Nat
  <2>1. /\ Total(BodiesIn(N.cohort, N.person, f))
              = (SumFunctionOnSet(HeldColumn(L.cohort, f), Slots) + Cardinality(Members(L.person, f)))
                  - (Total(h) + Cardinality(killed))
        /\ SumFunctionOnSet(HeldColumn(L.cohort, f), Slots) \in Nat
        /\ Cardinality(Members(L.person, f)) \in Nat
        /\ Total(h) \in Nat /\ Cardinality(killed) \in Nat
    BY LostCount
  <2> HIDE DEF a, c, l, t
  <2> QED BY <2>1 DEF a, c, l, t
<1>3. l \in Nat
  BY <1>2
<1> HIDE DEF a, c, n, l, t
<1>4. t > n - l
  BY <1>1, <1>2, <1>3
<1> QED BY <1>4 DEF t, n, l

\* By its document, the anonymous members of f are numbers.
LEMMA SlicesNat ==
  ASSUME NEW L, NEW f, L.doc[f].slices \in [Slots -> Nat], NEW r \in Roles
  PROVE  SlicesBy(L, f)[r] \in Nat /\ EmbeddedBy(L, f)[r] \in Nat
<1> DEFINE s == L.doc[f].slices
           S == {i \in Slots : L.cohort[i].role = r}
           T == {p \in Embedded(L, f) : L.person[p].role = r}
<1>1. IsFiniteSet(S) /\ S \in SUBSET Slots /\ IsFiniteSet(T)
  BY Finite, FS_Subset DEF Embedded
<1>2. SlicesBy(L, f)[r] = SumFunctionOnSet(s, S) /\ EmbeddedBy(L, f)[r] = Cardinality(T)
  BY DEF SlicesBy, EmbeddedBy
<1> HIDE DEF S, T
<1>3. \A i \in S : s[i] \in Nat
  BY <1>1
<1> HIDE DEF s
<1>4. SumFunctionOnSet(s, S) \in Nat
  BY <1>1, <1>3, SumNat
<1> QED BY <1>1, <1>2, <1>4, FS_CardinalityType

\* What a loss makes of the persons.
LEMMA GoneMembers ==
  ASSUME NEW P \in [People -> Persons], NEW killed, NEW g \in Formations
  PROVE  Members(Moved(P, killed, "gone"), g) = Members(P, g) \ killed
<1>1. \A p \in People : Moved(P, killed, "gone")[p].at = IF p \in killed THEN "gone" ELSE P[p].at
  BY DEF Moved, Persons
<1>2. "gone" # g
  BY NoneIsNone
<1> QED BY <1>1, <1>2 DEF Members

LEMMA TrimSure ==
  ASSUME NEW L, Saved(L), NEW U, NEW W \in SUBSET Owed, Sure(L, U, W), NEW f \in Formations,
         L.doc[f] # None, NEW k \in Int, NEW h \in Falls(L, f, k),
         NEW killed \in SUBSET Embedded(L, f), Trim(L, f, h, killed).ok
  PROVE  /\ Sure(Trim(L, f, h, killed), U, W) /\ Saved(Trim(L, f, h, killed))
         /\ Kept(L, Trim(L, f, h, killed))
<1> DEFINE loss == Total(h) + Cardinality(killed)
           d == L.doc[f]
           e == [d EXCEPT !.n = d.n - loss, !.lost = (d.n = loss), !.slices = Less(d.slices, h)]
           P == Moved(L.person, killed, "gone")
           C == [i \in Slots |-> Spent(L.cohort[i], f, h[i])]
           D == [L.doc EXCEPT ![f] = e]
           left == [L EXCEPT
            !.head = L.head - loss, !.dead = L.dead + loss,
            !.person = Moved(L.person, killed, "gone"),
            !.cohort = [i \in Slots |-> Spent(L.cohort[i], f, h[i])],
            !.doc[f] = e]
           comp == Plus(SlicesBy(left, f), EmbeddedBy(left, f))
           u == [e EXCEPT !.comp = comp]
           E == [D EXCEPT ![f] = u]
           done == [left EXCEPT !.doc[f].comp = comp]
           K == Trim(L, f, h, killed)
<1>0. Sane(L) /\ Valid(L) /\ Good(L) /\ Fine(L, f, U)
  BY DEF Saved, Good, Sure
<1>1. /\ L \in Ledgers /\ L.cohort \in [Slots -> Cohorts] /\ d \in Docs
      /\ L.doc \in [Formations -> Docs \cup {None}]
      /\ d.n \in Int /\ d.slices \in [Slots -> Nat] /\ d.slices \in [Slots -> Int]
      /\ L.person \in [People -> Persons] /\ Enrolled(L.person)
      /\ L.given \in [Formations -> [n : Int, comp : [Roles -> Int]]]
  BY <1>0, LedgerFields, DocFields DEF Sane
<1>2. h \in [Slots -> Nat] /\ \A i \in Slots : h[i] <= d.slices[i]
  <2>1. \A i \in Slots : h[i] <= d.slices[i]
    BY DEF Falls
  <2>2. h = d.slices \/ h \in [DOMAIN d.slices -> 0..k]
    BY DEF Falls, Shares
  <2>3. DOMAIN d.slices = Slots
    BY <1>1
  <2>4. 0..k \subseteq Nat
    OBVIOUS
  <2> HIDE DEF d
  <2> QED BY <1>1, <2>1, <2>2, <2>3, <2>4
<1>3. killed \in SUBSET People /\ killed \in SUBSET Members(L.person, f)
  BY DEF Embedded, Members
<1>4. Good(K)
  BY <1>0, <1>3, TrimGood
<1>5. \/ K = Refuse(L)
      \/ /\ Total(done.doc[f].comp) = done.doc[f].n
         /\ \/ done.doc[f].n > 0 /\ K = Check(Listed(done, f))
            \/ ~(done.doc[f].n > 0) /\ K = Check(Unlisted(done, f))
  BY Zenon DEF Trim
<1>6. Refuse(L).ok = FALSE
  BY <1>1 DEF Refuse, Ledgers
<1>7. loss \in Int
  <2>1. IsFiniteSet(killed)
    BY <1>3, Finite, FS_Subset
  <2> QED BY <1>2, <2>1, Finite, TotalNat, FS_CardinalityType
<1> HIDE DEF loss, K
<1>8. Less(d.slices, h) \in [Slots -> Nat] /\ \A i \in Slots : Less(d.slices, h)[i] = d.slices[i] - h[i]
  <2>1. h \in [Slots -> Int]
    BY <1>2
  <2> HIDE DEF d
  <2> QED BY <1>1, <1>2, <2>1, LessIs
<1>9. e \in Docs /\ e.n = d.n - loss /\ e.slices = Less(d.slices, h)
  <2>1. d.n - loss \in Int /\ (d.n = loss) \in BOOLEAN
    BY <1>1, <1>7
  <2> HIDE DEF d
  <2> QED BY <1>1, <1>8, <2>1 DEF Docs
<1>10. /\ left.cohort = C /\ left.person = P /\ left.doc = D /\ left.given = L.given
       /\ left.listed = L.listed /\ left.ok = L.ok
  BY <1>1 DEF Ledgers
<1>11. D[f] = e /\ \A g \in Formations \ {f} : D[g] = L.doc[g]
  BY <1>1
<1>12. /\ done.doc = E /\ done.cohort = left.cohort /\ done.person = left.person
       /\ done.given = left.given /\ done.listed = left.listed
  BY <1>1 DEF Ledgers
<1>13. E[f] = u /\ \A g \in Formations \ {f} : E[g] = L.doc[g]
  BY <1>1, <1>11
<1>14. u.n = e.n /\ u.comp = comp /\ u.slices = e.slices
  <2> HIDE DEF e, comp
  <2> QED BY <1>9 DEF Docs
<1>15. comp \in [Roles -> Nat]
  <2>1. left.doc[f].slices \in [Slots -> Nat]
    <3> HIDE DEF d, e, D, left
    <3> QED BY <1>8, <1>9, <1>10, <1>11
  <2> DEFINE x == SlicesBy(left, f)
             y == EmbeddedBy(left, f)
  <2>2. \A r \in Roles : x[r] \in Nat /\ y[r] \in Nat
    <3> HIDE DEF left
    <3> QED BY <2>1, SlicesNat
  <2>3. x \in [Roles -> Nat] /\ y \in [Roles -> Nat]
    <3>1. x = [r \in Roles |-> x[r]] /\ y = [r \in Roles |-> y[r]]
      BY DEF SlicesBy, EmbeddedBy
    <3> HIDE DEF x, y
    <3> QED BY <2>2, <3>1
  <2> HIDE DEF x, y
  <2>4. x \in [Roles -> Int] /\ y \in [Roles -> Int]
    BY <2>3
  <2>5. Plus(x, y) \in [Roles -> Nat]
    BY <2>3, <2>4, PlusIs
  <2> QED BY Zenon, <2>5 DEF x, y
<1> HIDE DEF d, e, left, comp, u, D, E
<1>16. \A g \in Formations : Members(P, g) = Members(L.person, g) \ killed
  BY <1>1, GoneMembers
<1> HIDE DEF P
<1>17. \A i \in Slots : \A g \in Formations :
          C[i].held[g] = IF g = f THEN L.cohort[i].held[g] - h[i] ELSE L.cohort[i].held[g]
  <2> SUFFICES ASSUME NEW i \in Slots
               PROVE  \A g \in Formations : Spent(L.cohort[i], f, h[i]).held[g] =
                         IF g = f THEN L.cohort[i].held[g] - h[i] ELSE L.cohort[i].held[g]
    OBVIOUS
  <2> DEFINE c == L.cohort[i]
             m == h[i]
  <2>1. c \in Cohorts /\ m \in Int
    BY <1>1, <1>2
  <2> HIDE DEF c, m
  <2>2. \A g \in Formations : Spent(c, f, m).held[g] = IF g = f THEN c.held[g] - m ELSE c.held[g]
    BY <2>1, SpentHeld
  <2> QED BY <2>2 DEF c, m
<1> HIDE DEF C
<1> DEFINE Lossy(N) ==
        /\ K = N /\ Saved(N) /\ N.doc = E /\ N.cohort = C /\ N.person = P
        /\ \A g \in Formations \ {f} : N.given[g] = L.given[g] /\ (g \in N.listed <=> g \in L.listed)
<1>18. ASSUME NEW N, N = Listed(done, f) \/ N = Unlisted(done, f), K = Check(N)
       PROVE  /\ Lossy(N)
              /\ N = Listed(done, f) => f \in N.listed /\ N.given[f].n = u.n /\ N.given[f].comp = comp
              /\ N = Unlisted(done, f) => f \notin N.listed
  <2>0. done \in [pop : {L.pop}, dead : {done.dead}, head : {done.head}, auth : {L.auth},
                  free : {L.free}, listed : {L.listed}, given : {L.given}, person : {P},
                  cohort : {C}, doc : {E}, ok : {L.ok}, full : {L.full}]
    BY Zenon, <1>1 DEF left, comp, C, P, D, E, u, Ledgers
  <2> HIDE DEF done
  <2>1. N.doc = E /\ N.cohort = C /\ N.person = P /\ Refuse(N).ok = FALSE
    BY <1>18, <2>0 DEF Listed, Unlisted, Refuse
  <2>2. K = N /\ Saved(N)
    BY <1>4, <1>18, <2>1, CheckOk DEF K
  <2>3. done.given = L.given /\ done.listed = L.listed /\ done.doc[f] = u
    BY <1>13, <2>0
  <2> DEFINE r == [n |-> done.doc[f].n, comp |-> done.doc[f].comp]
             z == [n |-> 0, comp |-> Zero(Roles)]
             G == [done.given EXCEPT ![f] = r]
             H == [done.given EXCEPT ![f] = z]
  <2>4. /\ G[f] = r /\ \A g \in Formations \ {f} : G[g] = L.given[g]
        /\ \A g \in Formations \ {f} : H[g] = L.given[g]
    BY <1>1, <2>3
  <2>5. r.n = u.n /\ r.comp = comp
    BY <1>14, <2>3
  <2> HIDE DEF G, H, r
  <2>6. N = Listed(done, f) => N.given = G /\ N.listed = L.listed \cup {f}
    BY <2>0, <2>3 DEF Listed, G, r
  <2>7. N = Unlisted(done, f) => N.given = H /\ N.listed = L.listed \ {f}
    BY <2>0, <2>3 DEF Unlisted, H
  <2> QED BY <1>18, <2>1, <2>2, <2>4, <2>5, <2>6, <2>7
<1> HIDE DEF done
<1>19. ASSUME NEW N, Lossy(N),
              Fine(N, f, U), Total(BodiesIn(N.cohort, N.person, f)) <= u.n
       PROVE  Sure(K, U, W) /\ Saved(K) /\ Kept(L, K)
  <2>1. Framed(L, N, {f})
    BY <1>13, <1>17, <1>19 DEF Framed
  <2>2. ASSUME NEW w \in W, w.f = f PROVE FALSE
    <3>1. w \in Owed /\ Awaits(L, w) /\ Sane(N)
      BY <1>19 DEF Sure, Saved
    <3>2. Members(N.person, f) = Members(L.person, f) \ killed /\ Lost(L, N, f, h)
      BY <1>16, <1>17, <1>19 DEF Lost
    <3>3. Total(BodiesIn(N.cohort, N.person, f)) > L.doc[f].n - (Total(h) + Cardinality(killed))
      BY ONLY <1>0, <1>2, <1>3, <2>2, <3>1, <3>2, f \in Formations, LostOwed
    <3>4. u.n = L.doc[f].n - (Total(h) + Cardinality(killed))
      BY <1>9, <1>14 DEF d, loss
    <3>5. u.n \in Int /\ Total(BodiesIn(N.cohort, N.person, f)) \in Nat
      <4>1. u.n \in Int
        BY <1>1, <1>7, <1>9, <1>14
      <4>2. N.cohort \in [Slots -> Cohorts] /\ N.person \in [People -> Persons]
        BY <3>1, LedgerFields DEF Sane
      <4> QED BY <4>1, <4>2, BodiesNat
    <3> DEFINE a == u.n
               b == Total(BodiesIn(N.cohort, N.person, f))
    <3>6. a \in Int /\ b \in Nat /\ b > a /\ b <= a
      BY <1>19, <3>3, <3>4, <3>5
    <3> HIDE DEF a, b
    <3> QED BY <3>6
  <2>3. Mends(N, {f}, U, W)
    BY <1>19, <2>2 DEF Mends
  <2>4. Sure(N, U, W)
    BY <1>0, <1>19, <2>1, <2>3, FrameSure DEF Saved
  <2>5. Kept(L, N)
    <3>1. u # None
      <4>1. u \in Docs
        BY <1>9, <1>14, <1>15 DEF u, Docs
      <4> QED BY <4>1, NoneIsNone
    <3> QED BY <1>13, <1>19, <3>1 DEF Kept
  <2> QED BY <1>19, <2>4, <2>5
<1>20. f \notin U => \A i \in Slots : u.slices[i] = C[i].held[f]
  <2> SUFFICES ASSUME f \notin U, NEW i \in Slots PROVE u.slices[i] = C[i].held[f]
    OBVIOUS
  <2>1. d.slices[i] = L.cohort[i].held[f]
    BY <1>0 DEF Fine, Told, d
  <2>2. u.slices[i] = d.slices[i] - h[i]
    BY <1>8, <1>9, <1>14
  <2> QED BY <1>17, <2>1, <2>2
<1>21. u.n \in Int /\ u # None
  <2>1. u \in Docs
    BY <1>9, <1>14, <1>15 DEF u, Docs
  <2> QED BY <2>1, NoneIsNone DEF Docs
<1>22. CASE Total(done.doc[f].comp) = done.doc[f].n /\ done.doc[f].n > 0 /\ K = Check(Listed(done, f))
  <2> DEFINE N == Listed(done, f)
  <2>1. /\ K = N /\ Saved(N) /\ N.doc = E /\ N.cohort = C /\ N.person = P
        /\ Lossy(N) /\ f \in N.listed /\ N.given[f].n = u.n /\ N.given[f].comp = comp
    BY <1>18, <1>22
  <2> HIDE DEF N
  <2>2. Sane(N) /\ Valid(N)
    BY <2>1 DEF Saved
  <2>3. N.doc[f] = u /\ N.doc[f].n = Total(N.doc[f].comp) /\ N.doc[f].comp = comp /\ done.doc[f] = u
    BY <1>12, <1>13, <1>14, <1>22, <2>1
  <2>4. N.doc[f].n <= Total(N.doc[f].comp)
    BY <1>21, <2>3
  <2>5. Fine(N, f, U) /\ N.doc[f].comp = BodiesIn(N.cohort, N.person, f)
    <3>1. f \notin U => \A i \in Slots : N.doc[f].slices[i] = N.cohort[i].held[f]
      BY <1>20, <2>1, <2>3
    <3>2. N.doc[f] # None /\ N.given[f].n = N.doc[f].n /\ N.given[f].comp = N.doc[f].comp
      BY <1>21, <2>1, <2>3
    <3> QED BY <2>1, <2>2, <2>4, <3>1, <3>2, ListedFine
  <2>6. Total(BodiesIn(N.cohort, N.person, f)) <= u.n
    BY <1>21, <2>3, <2>5
  <2>7. Sure(K, U, W) /\ Saved(K) /\ Kept(L, K)
    <3> HIDE DEF Lossy
    <3> QED BY <1>19, <2>1, <2>5, <2>6
  <2> QED BY <2>7 DEF K
<1>23. CASE Total(done.doc[f].comp) = done.doc[f].n /\ ~(done.doc[f].n > 0) /\ K = Check(Unlisted(done, f))
  <2> DEFINE N == Unlisted(done, f)
             b == BodiesIn(N.cohort, N.person, f)
  <2>1. /\ K = N /\ Saved(N) /\ N.doc = E /\ N.cohort = C /\ N.person = P
        /\ Lossy(N) /\ f \notin N.listed
    BY <1>18, <1>23
  <2> HIDE DEF N
  <2>2. Sane(N) /\ Valid(N)
    BY <2>1 DEF Saved
  <2>3. N.doc[f] = u /\ Total(comp) = u.n /\ ~(u.n > 0)
    BY <1>12, <1>13, <1>14, <1>23, <2>1
  <2>4. Total(comp) \in Nat /\ \A r \in Roles : comp[r] <= Total(comp)
    BY <1>15, Finite, TotalNat
  <2>5. Total(comp) = 0 /\ u.n = 0 /\ \A r \in Roles : comp[r] = 0
    <3>1. Total(comp) = 0
      BY <1>21, <2>3, <2>4
    <3> QED BY <1>15, <2>3, <2>4, <3>1
  <2>6. /\ \A i \in Slots : N.cohort[i].held[f] = 0
        /\ \A r \in Roles : b[r] = 0
    BY <2>1, <2>2, Unheld
  <2>7. b \in [Roles -> Nat]
    <3>1. N.cohort \in [Slots -> Cohorts] /\ N.person \in [People -> Persons]
      BY <2>2, LedgerFields DEF Sane
    <3> QED BY <3>1, BodiesNat
  <2> HIDE DEF b
  <2>8. b = comp
    BY <1>15, <2>5, <2>6, <2>7
  <2>9. f \notin U => Told(N, f)
    <3>1. f \notin U => \A i \in Slots : N.doc[f].slices[i] = N.cohort[i].held[f]
      BY <1>20, <2>1, <2>3
    <3>2. N.doc[f].n = Total(N.doc[f].comp) /\ N.doc[f].comp = b
      BY <1>14, <2>3, <2>8
    <3> QED BY <3>1, <3>2 DEF Told, b
  <2>10. Ample(N.doc[f])
    BY <1>14, <1>15, <2>3, <2>5 DEF Ample
  <2>11. Fine(N, f, U)
    BY <2>1, <2>9, <2>10 DEF Fine
  <2>12. Total(BodiesIn(N.cohort, N.person, f)) <= u.n
    BY <2>3, <2>5, <2>8 DEF b
  <2>13. Sure(K, U, W) /\ Saved(K) /\ Kept(L, K)
    <3> HIDE DEF Lossy
    <3> QED BY <1>19, <2>1, <2>11, <2>12
  <2> QED BY <2>13 DEF K
<1> QED BY <1>5, <1>6, <1>22, <1>23 DEF K

-----------------------------------------------------------------------------
(* The death of a person. *)

LEMMA DownedIs ==
  ASSUME NEW comp \in [Roles -> Nat], NEW r \in Roles
  PROVE  /\ Downed(comp, r) \in [Roles -> Nat]
         /\ \A x \in Roles : Downed(comp, r)[x] = IF x = r THEN Minus(comp[r], 1) ELSE comp[x]
         /\ Total(comp) \in Nat /\ Total(Downed(comp, r)) \in Nat
         /\ Total(comp) - 1 <= Total(Downed(comp, r))
         /\ comp[r] > 0 => Total(Downed(comp, r)) = Total(comp) - 1
<1> DEFINE c == comp[r]
           m == Minus(c, 1)
           k == c - m
           e == Downed(comp, r)
           o == Only(Roles, r, k)
<1>1. c \in Nat
  OBVIOUS
<1> HIDE DEF c
<1>2. m \in Nat /\ k \in Int /\ 0 <= k /\ k <= 1 /\ (c > 0 => k = 1) /\ c = m + k
  BY <1>1 DEF Minus
<1>3. e = [comp EXCEPT ![r] = m]
  BY DEF Downed, c
<1> HIDE DEF m, k, e
<1>4. e \in [Roles -> Nat] /\ \A x \in Roles : e[x] = IF x = r THEN m ELSE comp[x]
  BY <1>2, <1>3
<1>5. o \in [Roles -> Int] /\ Total(o) = k /\ \A x \in Roles : o[x] = IF x = r THEN k ELSE 0
  BY <1>2, Finite, OnlyIs, OnlyTotal
<1> HIDE DEF o
<1>6. \A x \in Roles : e[x] \in Int /\ o[x] \in Int /\ comp[x] = e[x] + o[x]
  <2> SUFFICES ASSUME NEW x \in Roles PROVE e[x] \in Int /\ o[x] \in Int /\ comp[x] = e[x] + o[x]
    OBVIOUS
  <2>1. CASE x = r
    BY <1>2, <1>4, <1>5, <2>1 DEF c
  <2>2. CASE x # r
    BY <1>4, <1>5, <2>2
  <2> QED BY <2>1, <2>2
<1>7. SumFunctionOnSet(comp, Roles) = SumFunctionOnSet(e, Roles) + SumFunctionOnSet(o, Roles)
  BY <1>6, Finite, SumPlus
<1>8. Total(comp) = SumFunctionOnSet(comp, Roles) /\ Total(e) = SumFunctionOnSet(e, Roles)
      /\ Total(o) = SumFunctionOnSet(o, Roles)
  BY <1>4, <1>5, TotalOn
<1>9. Total(comp) \in Nat /\ Total(e) \in Nat
  BY <1>4, Finite, TotalNat
<1> DEFINE a == Total(comp)
           b == Total(e)
<1>10. a \in Nat /\ b \in Nat /\ a = b + k
  BY <1>5, <1>7, <1>8, <1>9
<1> HIDE DEF a, b
<1>11. a - 1 <= b /\ (c > 0 => b = a - 1)
  BY <1>1, <1>2, <1>10
<1> QED BY <1>4, <1>9, <1>11 DEF a, b, c, e, m

LEMMA DownBodies ==
  ASSUME NEW C \in [Slots -> Cohorts], NEW P \in [People -> Persons], NEW Q \in [People -> Persons],
         NEW p \in People, NEW f \in Formations, P[p].at = f, Q[p].at # f,
         \A q \in People \ {p} : Q[q] = P[q], NEW r \in Roles, P[p].role = r
  PROVE  BodiesIn(C, Q, f) = Downed(BodiesIn(C, P, f), r) /\ BodiesIn(C, P, f)[r] > 0
<1> DEFINE S(x) == {q \in {s \in People : P[s].at = f} : P[q].role = x}
           T(x) == {q \in {s \in People : Q[s].at = f} : Q[q].role = x}
           h == HeldIn(C, f)
           u == NamedIn(P, f)
           v == NamedIn(Q, f)
           a == BodiesIn(C, P, f)
           b == BodiesIn(C, Q, f)
<1>1. /\ h \in [Roles -> Nat] /\ u \in [Roles -> Nat] /\ a \in [Roles -> Nat]
      /\ \A x \in Roles : a[x] = h[x] + u[x]
  BY BodiesNat
<1>2. /\ v \in [Roles -> Nat] /\ b \in [Roles -> Nat]
      /\ \A x \in Roles : b[x] = h[x] + v[x]
  BY BodiesNat
<1>3. \A x \in Roles : u[x] = Cardinality(S(x)) /\ v[x] = Cardinality(T(x))
  BY DEF NamedIn
<1>4. \A x \in Roles : x # r => S(x) = T(x)
  OBVIOUS
<1>5. T(r) = S(r) \ {p} /\ p \in S(r) /\ IsFiniteSet(S(r))
  BY Finite, FS_Subset
<1> HIDE DEF S, T, h, u, v, a, b
<1>6. Cardinality(T(r)) = Cardinality(S(r)) - 1
  BY Zenon, <1>5, FS_RemoveElement
<1>7. ASSUME NEW x \in Roles PROVE b[x] = (IF x = r THEN Minus(a[r], 1) ELSE a[x]) /\ (x = r => a[r] > 0)
  <2> DEFINE hx == h[x]
             ux == u[x]
             vx == v[x]
  <2>1. hx \in Nat /\ ux \in Nat /\ vx \in Nat /\ a[x] = hx + ux /\ b[x] = hx + vx
    BY <1>1, <1>2
  <2>2. x # r => vx = ux
    BY <1>3, <1>4
  <2>3. x = r => vx = ux - 1
    BY <1>3, <1>6
  <2> HIDE DEF hx, ux, vx
  <2> QED BY <2>1, <2>2, <2>3 DEF Minus
<1>8. Downed(a, r) \in [Roles -> Nat]
      /\ \A x \in Roles : Downed(a, r)[x] = IF x = r THEN Minus(a[r], 1) ELSE a[x]
  BY <1>1, DownedIs
<1>9. b = Downed(a, r)
  BY <1>2, <1>7, <1>8
<1> QED BY <1>7, <1>9 DEF a, b

\* What says nothing anew of a formation leaves every document as it was.
LEMMA UntouchedSure ==
  ASSUME NEW L, Saved(L), NEW U, NEW W \in SUBSET Owed, Sure(L, U, W),
         NEW M, Sane(M), Valid(M), Untouched(L, M)
  PROVE  Sure(M, U, W) /\ Kept(L, M)
<1>1. Sane(L) /\ Valid(L)
  BY DEF Saved
<1>2. Framed(L, M, {}) /\ Mends(M, {}, U, W)
  BY DEF Framed, Mends, Untouched
<1>3. Sure(M, U, W)
  BY <1>1, <1>2, FrameSure
<1> QED BY <1>3 DEF Untouched, Kept

LEMMA MournedSure ==
  ASSUME NEW L, Saved(L), NEW U, NEW W \in SUBSET Owed, Sure(L, U, W),
         NEW p \in People, NEW f \in Formations, L.person[p].at = f,
         NEW N, N = Mourned(L, p, f), Check(N).ok
  PROVE  Check(N) = N /\ Saved(N) /\ Sure(N, U, W) /\ Kept(L, N)
<1> DEFINE r == L.person[p].role
           a == BodiesIn(L.cohort, L.person, f)
           b == BodiesIn(N.cohort, N.person, f)
           d == L.doc[f]
           e == N.doc[f]
           told == L.given[f].comp
<1>1. Sane(L) /\ Valid(L) /\ Fine(L, f, U)
  BY DEF Saved, Sure
<1>2. /\ Sane(N) /\ N.cohort = L.cohort /\ N.listed = L.listed
      /\ N.person[p].at = "gone" /\ \A q \in People \ {p} : N.person[q] = L.person[q]
      /\ \A g \in Formations \ {f} : N.doc[g] = L.doc[g] /\ N.given[g] = L.given[g]
      /\ e \in Docs /\ e.n = d.n - 1
      /\ e.comp = Downed(d.comp, r) /\ e.slices = d.slices
      /\ N.given[f].n = d.n - 1 /\ N.given[f].comp = Downed(told, r)
  BY <1>1, MournedSane
<1>3. Check(N) = N /\ Saved(N) /\ Valid(N)
  BY <1>2, CheckIs DEF Saved
<1>4. f \in L.listed /\ d # None /\ r \in Roles
  BY <1>1, EmbeddedListed
<1>5. /\ a \in [Roles -> Nat] /\ b = Downed(a, r) /\ a[r] > 0
      /\ Total(a) \in Nat /\ Total(b) = Total(a) - 1 /\ b \in [Roles -> Nat]
  <2>1. /\ L.cohort \in [Slots -> Cohorts] /\ L.person \in [People -> Persons]
        /\ N.person \in [People -> Persons]
    BY <1>1, <1>2, LedgerFields DEF Sane
  <2>2. N.person[p].at # f
    BY <1>2, NoneIsNone
  <2>3. b = Downed(a, r) /\ a[r] > 0
    BY <1>2, <1>4, <2>1, <2>2, DownBodies
  <2>4. a \in [Roles -> Nat]
    BY <2>1, BodiesNat
  <2> HIDE DEF a, b, r
  <2> QED BY <1>4, <2>3, <2>4, DownedIs
<1>6. told = a
  BY <1>1, <1>4, ValidTells DEF Fine
<1>7. Total(b) > 0 /\ N.given[f].n = Total(b) /\ f \in N.listed
  <2>1. f \in N.listed
    BY <1>2, <1>4
  <2> QED BY <1>2, <1>3, <2>1, ValidTells
<1> HIDE DEF a, b, d, e, r, told
<1>8. N.given[f].comp = b /\ b # Zero(Roles)
  <2>1. N.given[f].comp = b
    BY <1>2, <1>5, <1>6
  <2>2. Zero(Roles) \in [Roles -> Int] /\ \A x \in Roles : Zero(Roles)[x] = 0
    BY DEF Zero
  <2>3. Total(Zero(Roles)) = 0
    BY <2>2, Finite, TotalZero
  <2> QED BY <1>7, <2>1, <2>3
<1>9. d.n \in Int /\ d.n = Total(a)
  <2>1. d.n \in Int
    BY <1>1, <1>4, DocFields DEF Sane, d
  <2>2. d.n - 1 = Total(a) - 1
    BY <1>2, <1>5, <1>7
  <2> DEFINE x == d.n
             y == Total(a)
  <2>3. x \in Int /\ y \in Nat /\ x - 1 = y - 1
    BY <1>5, <2>1, <2>2
  <2> HIDE DEF x, y
  <2>4. x = y
    BY <2>3
  <2> QED BY <2>1, <2>4 DEF x, y
<1>10. Ample(e)
  <2>1. d.comp \in [Roles -> Nat] /\ d.n <= Total(d.comp)
    BY <1>1, <1>4 DEF Fine, Ample, d
  <2> DEFINE c == d.comp
             x == Total(c)
             y == Total(Downed(c, r))
             n == d.n
  <2>2. Downed(c, r) \in [Roles -> Nat] /\ x \in Nat /\ y \in Nat /\ x - 1 <= y
    BY <1>4, <2>1, DownedIs
  <2>3. n <= x /\ n \in Int
    BY <1>9, <2>1
  <2> HIDE DEF x, y, n
  <2>4. n - 1 <= y
    BY <2>2, <2>3
  <2> QED BY <1>2, <2>2, <2>4 DEF Ample, n, y
<1>11. ASSUME f \notin U PROVE Told(N, f)
  <2>1. d.comp = a /\ \A i \in Slots : d.slices[i] = L.cohort[i].held[f]
    BY <1>1, <1>4, <1>11 DEF Fine, Told, d, a
  <2>2. e.comp = b
    BY <1>2, <1>5, <2>1
  <2>3. e.n = Total(b)
    BY <1>2, <1>7
  <2>4. \A i \in Slots : e.slices[i] = N.cohort[i].held[f]
    BY <1>2, <2>1
  <2> QED BY <2>2, <2>3, <2>4 DEF Told, e, b
<1>12. Fine(N, f, U)
  BY <1>8, <1>10, <1>11 DEF Fine, e
<1>13. ASSUME NEW w \in W, w.f = f PROVE FALSE
  <2>1. w \in Owed /\ Awaits(L, w)
    BY DEF Sure
  <2>2. L.doc[w.f].n < w.doc.n /\ Total(BodiesIn(L.cohort, L.person, w.f)) = w.doc.n
    BY <1>1, <2>1, OwedMore DEF Awaits
  <2>3. d.n < Total(a)
    BY <1>13, <2>2 DEF d, a
  <2> QED BY <1>9, <2>3
<1>14. Framed(L, N, {f}) /\ Mends(N, {f}, U, W)
  BY <1>2, <1>12, <1>13 DEF Framed, Mends
<1>15. Sure(N, U, W)
  BY <1>1, <1>2, <1>3, <1>14, FrameSure
<1>16. Kept(L, N)
  <2>1. e # None
    BY <1>2, NoneIsNone
  <2> QED BY <1>2, <2>1 DEF Kept, e
<1> QED BY <1>3, <1>15, <1>16

-----------------------------------------------------------------------------
(* Commands: no reconstitution is open. *)

\* The bodies that are chosen by cohort are those that are chosen by role.
LEMMA HeldOfTotal ==
  ASSUME NEW L, Sane(L), NEW f \in Formations, NEW h \in [Slots -> Nat],
         \A i \in Slots : h[i] <= L.cohort[i].held[f], HeldOf(L.cohort, h) \in [Roles -> Int]
  PROVE  Total(HeldOf(L.cohort, h)) = Total(h) /\ Total(h) \in Nat
<1> DEFINE C == L.cohort
           m == HeldOf(C, h)
<1>1. C \in [Slots -> Cohorts] /\ Founded(C)
  BY LedgerFields DEF Sane
<1>2. \A r \in Roles : m[r] = SumFunctionOnSet(h, {i \in Slots : C[i].role = r})
  BY DEF HeldOf
<1>3. \A i \in Slots : h[i] \in Int /\ (C[i].role = None => h[i] = 0)
  <2> SUFFICES ASSUME NEW i \in Slots PROVE h[i] \in Int /\ (C[i].role = None => h[i] = 0)
    OBVIOUS
  <2>1. h[i] \in Nat /\ h[i] <= C[i].held[f]
    OBVIOUS
  <2>2. C[i].role = None => C[i].held[f] = 0
    BY <1>1 DEF Founded, Idle
  <2> HIDE DEF C
  <2> QED BY <2>1, <2>2
<1>4. Total(m) = SumFunctionOnSet(m, Roles)
  BY TotalOn
<1> HIDE DEF C, m
<1>5. SumFunctionOnSet(h, Slots) = SumFunctionOnSet(m, Roles)
  BY <1>1, <1>2, <1>3, RoleSum
<1>6. Total(h) = SumFunctionOnSet(h, Slots) /\ Total(h) \in Nat
  BY Finite, TotalOn, TotalNat
<1> QED BY <1>4, <1>5, <1>6 DEF m, C

LEMMA TotalPlus ==
  ASSUME NEW x \in [Roles -> Int], NEW y \in [Roles -> Int]
  PROVE  Total(Plus(x, y)) = Total(x) + Total(y) /\ Total(x) \in Int /\ Total(y) \in Int
<1> DEFINE z == Plus(x, y)
<1>1. z \in [Roles -> Int] /\ \A r \in Roles : z[r] = x[r] + y[r]
  BY PlusIs
<1> HIDE DEF z
<1>2. \A r \in Roles : x[r] \in Int /\ y[r] \in Int /\ z[r] = x[r] + y[r]
  BY <1>1
<1>3. SumFunctionOnSet(z, Roles) = SumFunctionOnSet(x, Roles) + SumFunctionOnSet(y, Roles)
  BY <1>2, Finite, SumPlus
<1>4. /\ Total(x) = SumFunctionOnSet(x, Roles) /\ Total(z) = SumFunctionOnSet(z, Roles)
      /\ Total(y) = SumFunctionOnSet(y, Roles)
  BY <1>1, TotalOn
<1> QED BY <1>3, <1>4, Finite, TotalInt DEF z

LEMMA PartitionSure ==
  ASSUME NEW L, Saved(L), NEW U, Sure(L, U, {}), NEW f \in Formations, NEW g \in Formations, f # g,
         L.doc[f] # None, L.doc[g] = None, NEW k \in Int, NEW h \in Partitions(L, f, k),
         NEW est \in Shares(L.doc[f].est, k), Partition(L, f, g, h, est).ok
  PROVE  Saved(Partition(L, f, g, h, est)) /\ Sure(Partition(L, f, g, h, est), U, {})
<1> DEFINE K == Partition(L, f, g, h, est)
           moved == HeldOf(L.cohort, h)
           stay == Stays(L, f, h)
<1>1. /\ Sane(L) /\ Valid(L) /\ Good(L) /\ L \in Ledgers /\ L.cohort \in [Slots -> Cohorts]
      /\ L.doc[f].n \in Int /\ Fine(L, f, U)
  BY LedgerFields, DocFields DEF Saved, Good, Sane, Sure
<1>2. h \in [Slots -> Nat] /\ h \in [Slots -> Int] /\ moved \in [Roles -> Int] /\ stay \in [Roles -> Int]
  BY <1>1, PartitionIs
<1>3. PICK M : K = Check(Listed(Listed(M, f), g)) /\ Sane(M) /\ PartedFrom(L, M, f, g, h)
  <2>1. Refuse(L).ok = FALSE
    BY <1>1 DEF Refuse, Ledgers
  <2>2. K = Refuse(L) \/ \E M : K = Check(Listed(Listed(M, f), g)) /\ Sane(M) /\ PartedFrom(L, M, f, g, h)
    BY <1>1, PartitionIs
  <2> QED BY <2>1, <2>2
<1> HIDE DEF K
<1> DEFINE X == Listed(M, f)
           Y == Listed(X, g)
<1>4. M.doc[f] # None /\ M.doc[g] # None
  BY <1>3, NoneIsNone DEF PartedFrom
<1>5. /\ Sane(X) /\ X.cohort = M.cohort /\ X.person = M.person /\ X.doc = M.doc
      /\ X.listed = M.listed \cup {f}
      /\ X.given[f].n = M.doc[f].n /\ X.given[f].comp = M.doc[f].comp
      /\ \A e \in Formations \ {f} : X.given[e] = M.given[e]
  BY <1>3, <1>4, ListedIs
<1> HIDE DEF X
<1>6. /\ Sane(Y) /\ Y.cohort = X.cohort /\ Y.person = X.person /\ Y.doc = X.doc
      /\ Y.listed = X.listed \cup {g}
      /\ Y.given[g].n = X.doc[g].n /\ Y.given[g].comp = X.doc[g].comp
      /\ \A e \in Formations \ {g} : Y.given[e] = X.given[e]
  BY <1>4, <1>5, ListedIs
<1> HIDE DEF Y
<1>7. K = Y /\ Saved(Y) /\ Valid(Y)
  BY <1>3, <1>6, CheckIs DEF X, Y, K, Saved
<1>8. /\ Y.cohort = M.cohort /\ Y.doc = M.doc /\ f \in Y.listed /\ g \in Y.listed
      /\ Y.given[f].n = M.doc[f].n /\ Y.given[f].comp = M.doc[f].comp
      /\ Y.given[g].n = M.doc[g].n /\ Y.given[g].comp = M.doc[g].comp
      /\ \A e \in Formations \ {f, g} : Y.given[e] = L.given[e] /\ (e \in Y.listed <=> e \in L.listed)
  BY <1>3, <1>5, <1>6 DEF PartedFrom
<1>9. ASSUME NEW i \in Slots
      PROVE  \A s \in Formations : Y.cohort[i].held[s] =
                IF s = f THEN L.cohort[i].held[s] - h[i]
                ELSE IF s = g THEN L.cohort[i].held[s] + h[i] ELSE L.cohort[i].held[s]
  <2> DEFINE c == L.cohort[i]
             m == h[i]
  <2>1. c \in Cohorts /\ m \in Int
    BY <1>1, <1>2
  <2>2. Y.cohort[i] = Passed(c, f, g, m)
    BY <1>3, <1>8 DEF PartedFrom
  <2> HIDE DEF c, m
  <2>3. \A s \in Formations : Passed(c, f, g, m).held[s] =
            IF s = f THEN c.held[s] - m ELSE IF s = g THEN c.held[s] + m ELSE c.held[s]
    BY <2>1, PassedHeld
  <2> QED BY <2>2, <2>3 DEF c, m
<1>10. \A i \in Slots : L.cohort[i].held[g] = 0
  <2>1. g \notin L.listed
    BY <1>1 DEF Sane, Allotted
  <2> QED BY <1>1, <2>1, Unheld
<1>11. Fine(Y, g, U)
  <2>1. \A i \in Slots : Y.doc[g].slices[i] = Y.cohort[i].held[g]
    <3> SUFFICES ASSUME NEW i \in Slots PROVE Y.doc[g].slices[i] = Y.cohort[i].held[g]
      OBVIOUS
    <3>1. Y.cohort[i].held[g] = L.cohort[i].held[g] + h[i]
      BY <1>9
    <3>2. Y.doc[g].slices[i] = h[i]
      BY <1>3, <1>8 DEF PartedFrom
    <3>3. h[i] \in Int
      BY <1>2
    <3> QED BY <1>10, <3>1, <3>2, <3>3
  <2>2. Total(moved) <= Total(moved)
    BY <1>2, Finite, TotalInt
  <2>3. Y.doc[g].n <= Total(Y.doc[g].comp)
    BY <1>3, <1>8, <2>2 DEF PartedFrom
  <2> QED BY <1>4, <1>6, <1>7, <1>8, <2>1, <2>3, ListedFine
<1>12. Total(moved) = Total(h) /\ Total(h) \in Nat
  <2>1. \A i \in Slots : h[i] <= L.cohort[i].held[f]
    BY <1>3 DEF PartedFrom
  <2> QED BY <1>1, <1>2, <2>1, HeldOfTotal
<1>13. Y.doc[f].n <= Total(Y.doc[f].comp)
  <2> DEFINE n == L.doc[f].n
             t == Total(h)
             x == Total(stay)
             y == Total(L.doc[f].comp)
  <2>1. n <= y
    BY <1>1 DEF Fine, Ample
  <2>2. y = x + t \/ y = x
    <3>1. L.doc[f].comp \in {Plus(stay, moved), stay}
      BY <1>3 DEF PartedFrom
    <3>2. Total(Plus(stay, moved)) = Total(stay) + Total(moved)
      BY <1>2, TotalPlus
    <3> QED BY <1>12, <3>1, <3>2
  <2>3. n \in Int /\ t \in Nat /\ x \in Int
    BY <1>1, <1>2, <1>12, Finite, TotalInt
  <2>4. Y.doc[f].n = n - t /\ Total(Y.doc[f].comp) = x
    BY <1>3, <1>8 DEF PartedFrom
  <2> HIDE DEF n, t, x, y
  <2>5. n - t <= x
    BY <2>1, <2>2, <2>3
  <2> QED BY <2>4, <2>5
<1>14. Fine(Y, f, U)
  <2>1. f \notin U => \A i \in Slots : Y.doc[f].slices[i] = Y.cohort[i].held[f]
    <3> SUFFICES ASSUME f \notin U, NEW i \in Slots PROVE Y.doc[f].slices[i] = Y.cohort[i].held[f]
      OBVIOUS
    <3>1. Y.cohort[i].held[f] = L.cohort[i].held[f] - h[i]
      BY <1>9
    <3>2. Y.doc[f].slices[i] = L.doc[f].slices[i] - h[i]
      BY <1>3, <1>8 DEF PartedFrom
    <3>3. L.doc[f].slices[i] = L.cohort[i].held[f]
      BY <1>1 DEF Fine, Told
    <3> QED BY <3>1, <3>2, <3>3
  <2> QED BY <1>4, <1>6, <1>7, <1>8, <1>13, <2>1, ListedFine
<1>15. Framed(L, Y, {f, g})
  <2>1. \A e \in Formations \ {f, g} : \A i \in Slots : Y.cohort[i].held[e] = L.cohort[i].held[e]
    BY <1>9
  <2>2. \A e \in Formations \ {f, g} : Y.doc[e] = L.doc[e]
    BY <1>3, <1>8 DEF PartedFrom
  <2> QED BY <1>8, <2>1, <2>2 DEF Framed
<1>16. Mends(Y, {f, g}, U, {})
  BY <1>11, <1>14 DEF Mends
<1>17. Sure(Y, U, {})
  BY <1>1, <1>6, <1>7, <1>15, <1>16, FrameSure
<1> QED BY <1>7, <1>17 DEF K

LEMMA AbsorbSure ==
  ASSUME NEW L, Saved(L), NEW U, Sure(L, U, {}), NEW f \in Formations, NEW g \in Formations, f # g,
         L.doc[f] # None, L.doc[g] # None, Absorb(L, f, g).ok
  PROVE  Saved(Absorb(L, f, g)) /\ Sure(Absorb(L, f, g), U, {})
<1> DEFINE K == Absorb(L, f, g)
           d == L.doc[f]
           e == L.doc[g]
<1>1. /\ Sane(L) /\ Valid(L) /\ Good(L) /\ L \in Ledgers /\ L.cohort \in [Slots -> Cohorts]
      /\ d.n \in Int /\ d.comp \in [Roles -> Int] /\ d.slices \in [Slots -> Int]
      /\ e.n \in Int /\ e.comp \in [Roles -> Int] /\ e.slices \in [Slots -> Int]
      /\ Fine(L, f, U) /\ Fine(L, g, U)
  BY LedgerFields, DocFields DEF Saved, Good, Sane, Sure
<1>2. PICK M : K = Check(Listed(M, f)) /\ Sane(M) /\ AbsorbedIn(L, M, f, g)
  <2>1. Refuse(L).ok = FALSE
    BY <1>1 DEF Refuse, Ledgers
  <2>2. K = Refuse(L) \/ \E M : K = Check(Listed(M, f)) /\ Sane(M) /\ AbsorbedIn(L, M, f, g)
    BY <1>1, AbsorbIs
  <2> QED BY <2>1, <2>2
<1> HIDE DEF K
<1> DEFINE Y == Listed(M, f)
<1>3. M.doc[f] # None
  BY <1>2, NoneIsNone DEF AbsorbedIn
<1>4. /\ Sane(Y) /\ Y.cohort = M.cohort /\ Y.person = M.person /\ Y.doc = M.doc
      /\ Y.listed = M.listed \cup {f}
      /\ Y.given[f].n = M.doc[f].n /\ Y.given[f].comp = M.doc[f].comp
      /\ \A x \in Formations \ {f} : Y.given[x] = M.given[x]
  BY <1>2, <1>3, ListedIs
<1> HIDE DEF Y
<1>5. K = Y /\ Saved(Y) /\ Valid(Y)
  BY <1>2, <1>4, CheckIs DEF Y, K, Saved
<1>6. /\ f \in Y.listed /\ g \notin Y.listed /\ Y.doc[g] = None
      /\ \A x \in Formations \ {f, g} :
            Y.doc[x] = L.doc[x] /\ Y.given[x] = L.given[x] /\ (x \in Y.listed <=> x \in L.listed)
  BY <1>2, <1>4 DEF AbsorbedIn
<1>7. ASSUME NEW i \in Slots
      PROVE  \A s \in Formations : Y.cohort[i].held[s] =
                IF s = g THEN L.cohort[i].held[s] - e.slices[i]
                ELSE IF s = f THEN L.cohort[i].held[s] + e.slices[i] ELSE L.cohort[i].held[s]
  <2> DEFINE c == L.cohort[i]
             m == e.slices[i]
  <2>1. c \in Cohorts /\ m \in Int
    BY <1>1
  <2>2. Y.cohort[i] = Passed(c, g, f, m)
    BY <1>2, <1>4 DEF AbsorbedIn
  <2> HIDE DEF c, m
  <2>3. \A s \in Formations : Passed(c, g, f, m).held[s] =
            IF s = g THEN c.held[s] - m ELSE IF s = f THEN c.held[s] + m ELSE c.held[s]
    BY <2>1, PassedHeld
  <2> QED BY <2>2, <2>3 DEF c, m
<1>8. Fine(Y, g, U)
  BY <1>6 DEF Fine
<1>9. Y.doc[f].n <= Total(Y.doc[f].comp)
  <2> DEFINE a == d.n
             b == e.n
             x == Total(d.comp)
             y == Total(e.comp)
  <2>1. a <= x /\ b <= y
    BY <1>1 DEF Fine, Ample
  <2>2. Total(Plus(d.comp, e.comp)) = x + y /\ x \in Int /\ y \in Int
    BY <1>1, TotalPlus
  <2>3. Y.doc[f].n = a + b /\ Total(Y.doc[f].comp) = x + y
    BY <1>2, <1>4, <2>2 DEF AbsorbedIn
  <2>4. a \in Int /\ b \in Int
    BY <1>1
  <2> HIDE DEF a, b, x, y
  <2>5. a + b <= x + y
    BY <2>1, <2>2, <2>4
  <2> QED BY <2>3, <2>5
<1>10. Fine(Y, f, U)
  <2>1. f \notin U => \A i \in Slots : Y.doc[f].slices[i] = Y.cohort[i].held[f]
    <3> SUFFICES ASSUME f \notin U, NEW i \in Slots PROVE Y.doc[f].slices[i] = Y.cohort[i].held[f]
      OBVIOUS
    <3>1. Y.cohort[i].held[f] = L.cohort[i].held[f] + e.slices[i]
      BY <1>7
    <3>2. Y.doc[f].slices[i] = d.slices[i] + e.slices[i]
      BY <1>2, <1>4 DEF AbsorbedIn
    <3>3. d.slices[i] = L.cohort[i].held[f]
      BY <1>1 DEF Fine, Told
    <3> QED BY <3>1, <3>2, <3>3
  <2> QED BY <1>3, <1>4, <1>5, <1>6, <1>9, <2>1, ListedFine
<1>11. Framed(L, Y, {f, g})
  <2>1. \A x \in Formations \ {f, g} : \A i \in Slots : Y.cohort[i].held[x] = L.cohort[i].held[x]
    BY <1>7
  <2> QED BY <1>6, <2>1 DEF Framed
<1>12. Mends(Y, {f, g}, U, {})
  BY <1>8, <1>10 DEF Mends
<1>13. Sure(Y, U, {})
  BY <1>1, <1>4, <1>5, <1>11, <1>12, FrameSure
<1> QED BY <1>5, <1>13 DEF K

LEMMA DisbandSure ==
  ASSUME NEW L, Saved(L), NEW U, Sure(L, U, {}), NEW f \in Formations, L.doc[f] # None,
         Disband(L, f).ok
  PROVE  Saved(Disband(L, f)) /\ Sure(Disband(L, f), U, {})
<1> DEFINE K == Disband(L, f)
           d == L.doc[f]
<1>1. /\ Sane(L) /\ Valid(L) /\ Good(L) /\ L \in Ledgers /\ L.cohort \in [Slots -> Cohorts]
      /\ d.slices \in [Slots -> Int]
  BY LedgerFields, DocFields DEF Saved, Good, Sane
<1>2. PICK M : K = Check(M) /\ Sane(M) /\ DisbandedIn(L, M, f)
  <2>1. Refuse(L).ok = FALSE
    BY <1>1 DEF Refuse, Ledgers
  <2> QED BY <1>1, <2>1, DisbandIs
<1>3. K = M /\ Saved(M) /\ Valid(M)
  BY <1>2, CheckIs DEF Saved
<1> HIDE DEF K
<1>4. ASSUME NEW i \in Slots
      PROVE  \A s \in Formations \ {f} : M.cohort[i].held[s] = L.cohort[i].held[s]
  <2> DEFINE c == L.cohort[i]
             m == d.slices[i]
             at == d.at
  <2>1. c \in Cohorts /\ m \in Int
    BY <1>1
  <2>2. M.cohort[i] = Freed(c, f, at, m)
    BY <1>2 DEF DisbandedIn
  <2> HIDE DEF c, m, at
  <2>3. \A s \in Formations : Freed(c, f, at, m).held[s] = IF s = f THEN c.held[s] - m ELSE c.held[s]
    BY <2>1, FreedHeld
  <2> QED BY <2>2, <2>3 DEF c
<1>5. Framed(L, M, {f}) /\ Mends(M, {f}, U, {})
  BY <1>2, <1>4 DEF DisbandedIn, Framed, Mends, Fine
<1>6. Sure(M, U, {})
  BY <1>1, <1>2, <1>3, <1>5, FrameSure
<1> QED BY <1>3, <1>6 DEF K

LEMMA ChristenedSure ==
  ASSUME NEW L, Saved(L), NEW U, Sure(L, U, {}), NEW f \in Formations, L.doc[f] # None,
         NEW M, Sane(M), Christened(L, M, f), Check(M).ok
  PROVE  Saved(Check(M)) /\ Sure(Check(M), U, {})
<1>1. Sane(L) /\ Valid(L) /\ Fine(L, f, U)
  BY DEF Saved, Sure
<1>2. Check(M) = M /\ Saved(M) /\ Valid(M)
  BY CheckIs DEF Saved
<1>3. /\ M.doc[f] # None /\ M.doc[f].n = L.doc[f].n /\ M.doc[f].comp = L.doc[f].comp
      /\ M.given = L.given /\ M.listed = L.listed
  BY NoneIsNone DEF Christened
<1>4. BodiesIn(M.cohort, M.person, f) = BodiesIn(L.cohort, L.person, f)
  <2>1. f \in L.listed => L.given[f].comp # Zero(Roles)
    BY <1>1 DEF Fine
  <2> QED BY <1>1, <1>2, <1>3, <2>1, SameBodies
<1>5. f \notin U => Told(M, f)
  <2> SUFFICES ASSUME f \notin U PROVE Told(M, f)
    OBVIOUS
  <2>1. Told(L, f)
    BY <1>1 DEF Fine
  <2>2. \A i \in Slots : M.doc[f].slices[i] = M.cohort[i].held[f]
    BY <2>1 DEF Told, Christened
  <2> QED BY <1>3, <1>4, <2>1, <2>2 DEF Told
<1>6. Fine(M, f, U)
  BY <1>1, <1>3, <1>5 DEF Fine, Ample
<1>7. Framed(L, M, {f}) /\ Mends(M, {f}, U, {})
  BY <1>6 DEF Christened, Framed, Mends
<1>8. Sure(M, U, {})
  BY <1>1, <1>2, <1>7, FrameSure
<1> QED BY <1>2, <1>8

-----------------------------------------------------------------------------
(* The invariant of the documents, and its steps. *)

\* Formations whose document need not tell what the cohorts tell: those that an old copy
\* replaced, and the one whose reconstitution has yet to be written.
Pending == order # None /\ order.kind = "reconstitute"
Doubtful == stale \cup {x \in Formations : Pending /\ x = order.f}
Debt == [f |-> order.f, doc |-> order.doc, old |-> order.saved.doc[order.f]]
Debts == {w \in {Debt} : Pending /\ order.f \notin stale}

\* What an open order holds: a document to put back, and the documents to fall back on.
Waiting ==
    /\ Ample(order.doc) /\ Sure(order.saved, stale, {})
    /\ \A x \in stale : order.saved.doc[x] # None
    /\ order.saved.doc[order.f] # None /\ ledger.doc[order.f] # None
    /\ order.kind # "reconstitute" => order.doc = order.saved.doc[order.f]

JInv ==
    /\ stale \subseteq Formations
    /\ \A x \in Doubtful : ledger.doc[x] # None
    /\ Sure(ledger, Doubtful, Debts)
    /\ order # None => Waiting

LEMMA DebtsAreOwed == ASSUME IInv, JInv PROVE Debts \in SUBSET Owed
<1> SUFFICES ASSUME Pending PROVE Debt \in Owed
  BY DEF Debts
<1>1. /\ order # None /\ order.f \in Formations /\ order.doc \in Docs
      /\ order.saved \in Ledgers /\ order.saved.doc[order.f] # None
  BY DEF Pending, IInv, JInv, Waiting, Saved, Sane
<1>2. order.saved.doc[order.f] \in Docs
  BY <1>1, DocFields
<1> QED BY <1>1, <1>2 DEF Debt, Owed

LEMMA NothingPending == ASSUME ~Pending PROVE Doubtful = stale /\ Debts = {}
BY DEF Doubtful, Debts

\* A formation that is gone is in no doubt.
LEMMA FewerDoubts ==
  ASSUME NEW L, NEW U, NEW W, Sure(L, U, W)
  PROVE  Sure(L, {x \in U : L.doc[x] # None}, W)
BY DEF Sure, Fine

LEMMA RefusedAgrees == ASSUME IInv, JInv, NEW excuse, Refused(excuse) PROVE JInv'
<1>1. order' = None /\ stale' = stale
  BY DEF Refused
<1>2. CASE order = None
  <2>1. ledger' = ledger
    BY <1>2 DEF Refused
  <2>2. ~Pending
    BY <1>2 DEF Pending
  <2>3. Doubtful = stale /\ Debts = {}
    BY <2>2, NothingPending
  <2>4. /\ stale \subseteq Formations /\ \A x \in stale : ledger.doc[x] # None
        /\ Sure(ledger, stale, {})
    BY <2>3 DEF JInv
  <2>5. Doubtful' = stale /\ Debts' = {}
    BY <1>1 DEF Doubtful, Debts, Pending
  <2> QED BY <1>1, <2>1, <2>4, <2>5 DEF JInv
<1>3. CASE order # None
  <2>1. ledger' = order.saved
    BY <1>3 DEF Refused
  <2>2. /\ stale \subseteq Formations /\ \A x \in stale : order.saved.doc[x] # None
        /\ Sure(order.saved, stale, {})
    BY <1>3 DEF JInv, Waiting
  <2>3. Doubtful' = stale /\ Debts' = {}
    BY <1>1 DEF Doubtful, Debts, Pending
  <2> QED BY <1>1, <2>1, <2>2, <2>3 DEF JInv
<1> QED BY <1>2, <1>3

LEMMA SettleAgrees ==
  ASSUME IInv, JInv, NEW L, Good(L), L.ok => Sure(L, Doubtful, Debts),
         L.ok /\ order # None => Kept(ledger, L), NEW excuse, Settle(L, excuse)
  PROVE  JInv'
<1>1. CASE ~L.ok
  <2>1. Refused(excuse)
    BY <1>1 DEF Settle
  <2> QED BY <2>1, RefusedAgrees
<1>2. CASE L.ok
  <2> DEFINE held == IF order = None THEN None ELSE order.doc
             M == Pruned(L, held)
             U == {x \in stale : L.doc[x] # None}
  <2>1. ledger' = M /\ order' = order /\ stale' = U
    BY <1>2 DEF Settle, Exists
  <2> HIDE DEF held
  <2>2. Saved(L) /\ Sure(L, Doubtful, Debts) /\ Debts \in SUBSET Owed
    BY <1>2, DebtsAreOwed DEF Good, Saved
  <2>3. Sure(M, Doubtful, Debts) /\ M.doc = L.doc
    BY <2>2, PrunedSure
  <2> HIDE DEF M
  <2>4. CASE order = None
    <3>1. Doubtful = stale /\ Debts = {}
      BY <2>4, NothingPending DEF Pending
    <3>2. Sure(M, U, {})
      BY <2>3, <3>1, FewerDoubts
    <3>3. U \subseteq Formations /\ \A x \in U : M.doc[x] # None
      BY <2>3 DEF JInv
    <3> HIDE DEF U
    <3>4. Doubtful' = U /\ Debts' = {}
      BY <2>1, <2>4 DEF Doubtful, Debts, Pending
    <3> QED BY <2>1, <2>4, <3>2, <3>3, <3>4 DEF JInv
  <2>5. CASE order # None
    <3>1. Kept(ledger, L)
      BY <1>2, <2>5
    <3>2. \A x \in Doubtful : x \in Formations /\ L.doc[x] # None
      BY <3>1 DEF Kept, JInv, Doubtful
    <3>3. U = stale
      BY <3>2 DEF Doubtful
    <3> HIDE DEF U
    <3>4. Doubtful' = Doubtful /\ Debts' = Debts
      BY <2>1, <3>3 DEF Doubtful, Debts, Pending, Debt
    <3>5. M.doc[order.f] # None
      BY <2>3, <2>5, <3>1 DEF Kept, JInv, Waiting, IInv
    <3>6. Waiting'
      BY <2>1, <2>5, <3>3, <3>5 DEF JInv, Waiting
    <3>7. \A x \in Doubtful : M.doc[x] # None
      BY <2>3, <3>2
    <3>8. stale \subseteq Formations
      BY DEF JInv
    <3> QED BY <2>1, <2>3, <3>3, <3>4, <3>6, <3>7, <3>8 DEF JInv
  <2> QED BY <2>4, <2>5
<1> QED BY <1>1, <1>2

LEMMA CommandAgrees ==
  ASSUME IInv, JInv, NEW L, Good(L), L.ok => Sure(L, stale, {}), NEW excuse, Command(L, excuse)
  PROVE  JInv'
<1>1. order = None /\ Settle(L, excuse)
  BY DEF Command
<1>2. Doubtful = stale /\ Debts = {}
  BY <1>1, NothingPending DEF Pending
<1> QED BY <1>1, <1>2, SettleAgrees

\* Between orders every document that no old copy replaced tells what the cohorts tell.
LEMMA Idling ==
  ASSUME IInv, JInv, order = None PROVE Saved(ledger) /\ Sure(ledger, stale, {})
<1>1. Doubtful = stale /\ Debts = {}
  BY NothingPending DEF Pending
<1> QED BY <1>1 DEF IInv, JInv

LEMMA RecruitAgrees ==
  ASSUME IInv, JInv, NEW r \in Roles, NEW k \in Bodies, Recruit(r, k) PROVE JInv'
<1> DEFINE L == Enlist(ledger, r, k)
<1>1. k \in Nat
  BY Numbers
<1>2. Good(L)
  BY <1>1, Now, EnlistGood
<1>3. Command(L, FALSE)
  BY DEF Recruit
<1>4. Saved(ledger) /\ Sure(ledger, stale, {})
  BY <1>3, Idling DEF Command
<1>5. ASSUME L.ok PROVE Sure(L, stale, {})
  BY <1>1, <1>4, <1>5, EnlistSure
<1> HIDE DEF L
<1> QED BY <1>2, <1>3, <1>5, CommandAgrees

LEMMA CreateAgrees ==
  ASSUME IInv, JInv, NEW f \in Formations, NEW comp \in Some, NEW place \in Places,
         Create(f, comp, place)
  PROVE  JInv'
<1> DEFINE d == Doc(place, comp, Zero(Slots))
           new == [ledger EXCEPT !.doc[f] = Doc(place, comp, Zero(Slots))]
           M == Muster(new, f, comp, place)
           N == Listed(M, f)
           L == Check(N)
<1>1. comp \in [Roles -> Int] /\ ledger.doc[f] = None
  BY Numbers DEF Create, Exists
<1>2. new = Rewritten(ledger, f, d)
  BY Now DEF Rewritten, Sane, Ledgers
<1>3. Command(L, FALSE)
  BY DEF Create
<1>4. d \in Docs
  <2>1. Zero(Slots) \in [Slots -> Nat]
    BY DEF Zero
  <2> QED BY <1>1, <2>1, DocIs
<1> HIDE DEF new, L
<1>5. Saved(ledger) /\ Sure(ledger, stale, {})
  BY <1>3, Idling DEF Command
<1>6. ASSUME L.ok PROVE Sure(L, stale, {})
  <2> HIDE DEF M, N
  <2>1. Check(N).ok
    BY <1>6 DEF L
  <2>2. Check(N) = N /\ Sure(N, stale, {})
    BY <1>1, <1>2, <1>5, <2>1, CreatedSure DEF M, N
  <2> QED BY <2>2 DEF L
<1>7. Good(L)
  <2> HIDE DEF d
  <2>1. Sane(new) /\ new.doc[f] # None
    BY <1>2, <1>4, Now, RewriteSane
  <2>2. Sane(M) /\ Mustered(new, M, f)
    BY <1>1, <2>1, MusterSane
  <2> HIDE DEF M
  <2>3. Sane(N)
    BY <2>2, ListedSane DEF Mustered
  <2> QED BY <2>3, CheckGood DEF L
<1> QED BY <1>3, <1>6, <1>7, CommandAgrees

LEMMA MaterializeFreeAgrees ==
  ASSUME IInv, JInv, NEW p \in People, NEW role \in Roles, NEW place \in Places,
         MaterializeFree(p, role, place)
  PROVE  JInv'
<1>1. PICK M : Command(Check(M), FALSE) /\ Sane(M) /\ Untouched(ledger, M)
  BY MaterializeFreeIs
<1> DEFINE L == Check(M)
<1>2. Good(L) /\ Command(L, FALSE)
  BY <1>1, CheckGood
<1>3. Saved(ledger) /\ Sure(ledger, stale, {})
  BY <1>1, Idling DEF Command
<1>4. ASSUME L.ok PROVE Sure(L, stale, {})
  <2>1. L = M /\ Saved(M)
    BY <1>1, <1>4, CheckIs
  <2> QED BY <1>1, <1>3, <2>1, UntouchedSure DEF Saved
<1> HIDE DEF L
<1> QED BY <1>2, <1>4, CommandAgrees

LEMMA MaterializeInAgrees ==
  ASSUME IInv, JInv, NEW p \in People, NEW role \in Roles, NEW f \in Formations,
         MaterializeIn(p, role, f)
  PROVE  JInv'
<1> DEFINE E == Ensure(ledger, f)
<1>1. /\ ledger.doc[f] # None
      /\ \/ Command(Refuse(E), FALSE)
         \/ \E M : Command(Check(M), FALSE) /\ Sane(M) /\ Christened(E, M, f)
  BY MaterializeInIs
<1>2. Saved(ledger) /\ Sure(ledger, stale, {})
  BY <1>1, Idling DEF Command
<1>3. Good(E) /\ Sane(E)
  BY <1>1, Now, EnsureGood DEF Good
<1>4. E.ok => Sure(E, stale, {}) /\ Saved(E) /\ E.doc[f] # None
  <2>1. ASSUME E.ok PROVE Sure(E, stale, {}) /\ Saved(E) /\ Kindred(ledger, E, f)
    BY <1>1, <1>2, <2>1, EnsureSure
  <2> QED BY <2>1 DEF Kindred
<1> HIDE DEF E
<1>5. CASE Command(Refuse(E), FALSE)
  BY <1>3, <1>5, RefuseGood, CommandAgrees
<1>6. ASSUME NEW M, Command(Check(M), FALSE), Sane(M), Christened(E, M, f) PROVE JInv'
  <2> DEFINE L == Check(M)
  <2>1. Good(L) /\ Command(L, FALSE)
    BY <1>6, CheckGood
  <2>2. ASSUME L.ok PROVE Sure(L, stale, {})
    <3>1. L = M /\ Saved(M)
      BY <1>6, <2>2, CheckIs
    <3>2. E.ok
      BY <1>6, <3>1 DEF Saved, Christened
    <3> QED BY <1>4, <1>6, <2>2, <3>2, ChristenedSure
  <2> HIDE DEF L
  <2> QED BY <2>1, <2>2, CommandAgrees
<1> QED BY <1>1, <1>5, <1>6

LEMMA SplitAgrees ==
  ASSUME IInv, JInv, NEW f \in Formations, NEW g \in Formations, NEW k \in Bodies, Split(f, g, k)
  PROVE  JInv'
<1> DEFINE N == Normal(ledger, f)
           E == Ensure(N, f)
<1>1. ledger.doc[f] # None /\ ledger.doc[g] = None /\ f # g /\ k \in Int
  BY Numbers DEF Split, Exists
<1>2. PICK h \in Partitions(E, f, k), est \in Shares(E.doc[f].est, k) :
         Command(IF E.ok THEN Partition(E, f, g, h, est) ELSE E, FALSE)
  BY DEF Split
<1>3. Saved(ledger) /\ Sure(ledger, stale, {})
  BY <1>2, Idling DEF Command
<1>4. Saved(N) /\ Sure(N, stale, {}) /\ N.doc[f] # None /\ N.doc[g] = None
  <2>1. Saved(N) /\ Sure(N, stale, {}) /\ Kindred(ledger, N, f)
    BY <1>1, <1>3, NormalSure
  <2> QED BY <1>1, <2>1 DEF Kindred
<1> HIDE DEF N
<1>5. Good(E) /\ E.doc[f] # None /\ E.doc[g] = None
  <2>1. Good(E) /\ Kindred(N, E, f)
    BY <1>4, EnsureGood DEF Good, Saved
  <2> QED BY <1>1, <1>4, <2>1 DEF Kindred
<1>6. E.ok => Sure(E, stale, {}) /\ Saved(E)
  BY <1>4, EnsureSure
<1> HIDE DEF E
<1> DEFINE K == Partition(E, f, g, h, est)
           L == IF E.ok THEN K ELSE E
<1>7. Good(K)
  BY <1>1, <1>5, PartitionGood
<1>8. ASSUME E.ok, K.ok PROVE Sure(K, stale, {})
  BY <1>1, <1>5, <1>6, <1>8, PartitionSure
<1> HIDE DEF K
<1>9. Good(L) /\ (L.ok => Sure(L, stale, {})) /\ Command(L, FALSE)
  BY <1>2, <1>5, <1>7, <1>8 DEF K
<1> HIDE DEF L
<1> QED BY <1>9, CommandAgrees

\* Normalizing and completing f leaves the documents as sound as they were.
LEMMA CompletedSure ==
  ASSUME NEW L, Good(L), L.ok => Sure(L, stale, {}), NEW f \in Formations, L.doc[f] # None,
         NEW M, M = Ensure(Normal(L, f), f)
  PROVE  /\ Good(M) /\ M.doc[f] # None /\ (M.ok => L.ok)
         /\ M.ok => Sure(M, stale, {})
         /\ \A g \in Formations : L.doc[g] # None => M.doc[g] # None
<1> DEFINE N == Normal(L, f)
<1>1. Good(N) /\ Kindred(L, N, f)
  BY NormalGood
<1>2. L.ok => Saved(N) /\ Sure(N, stale, {})
  BY NormalSure DEF Good, Saved
<1>3. N.doc[f] # None /\ (N.ok => L.ok)
  BY <1>1 DEF Kindred
<1> HIDE DEF N
<1>4. Good(M) /\ Kindred(N, M, f)
  BY <1>1, <1>3, EnsureGood DEF N
<1>5. M.ok => N.ok /\ L.ok
  BY <1>3, <1>4 DEF Kindred
<1>6. ASSUME M.ok PROVE Sure(M, stale, {})
  <2>1. Saved(N) /\ Sure(N, stale, {}) /\ Ensure(N, f).ok
    BY <1>2, <1>5, <1>6 DEF N
  <2>2. Sure(Ensure(N, f), stale, {})
    BY <1>3, <2>1, EnsureSure
  <2> QED BY <2>2 DEF N
<1>7. \A g \in Formations : L.doc[g] # None => M.doc[g] # None
  BY <1>1, <1>4 DEF Kindred
<1> QED BY <1>4, <1>5, <1>6, <1>7

LEMMA MergeAgrees ==
  ASSUME IInv, JInv, NEW f \in Formations, NEW g \in Formations, Merge(f, g) PROVE JInv'
<1> DEFINE B == Ensure(Normal(ledger, f), f)
           Y == Ensure(Normal(B, g), g)
           L == Absorb(Y, f, g)
           excuse == ledger.doc[f].n + ledger.doc[g].n = 0
<1>1. f # g /\ ledger.doc[f] # None /\ ledger.doc[g] # None /\ Command(L, excuse)
  BY DEF Merge, Exists
<1>2. Saved(ledger) /\ Sure(ledger, stale, {}) /\ Good(ledger)
  BY <1>1, Idling, Now DEF Command
<1>3. Good(B) /\ B.doc[f] # None /\ B.doc[g] # None /\ (B.ok => Sure(B, stale, {}))
  BY <1>1, <1>2, CompletedSure
<1> HIDE DEF B
<1>4. Good(Y) /\ Y.doc[f] # None /\ Y.doc[g] # None /\ (Y.ok => Sure(Y, stale, {}))
  BY <1>3, CompletedSure
<1> HIDE DEF Y
<1>5. Good(L)
  BY <1>1, <1>4, AbsorbGood
<1>6. ASSUME L.ok PROVE Sure(L, stale, {})
  <2>1. Y.ok
    <3>1. Refuse(Y).ok = FALSE
      BY <1>4, RefuseGood DEF Good
    <3> QED BY <1>6, <3>1 DEF Absorb
  <2>2. Saved(Y) /\ Sure(Y, stale, {})
    BY <1>4, <2>1 DEF Good, Saved
  <2> QED BY <1>1, <1>4, <1>6, <2>2, AbsorbSure
<1> HIDE DEF L, excuse
<1> QED BY <1>1, <1>5, <1>6, CommandAgrees

LEMMA DissolveAgrees == ASSUME IInv, JInv, NEW f \in Formations, Dissolve(f) PROVE JInv'
<1> DEFINE E == Ensure(ledger, f)
           L == Disband(E, f)
           excuse == Embedded(ledger, f) # {}
<1>1. ledger.doc[f] # None /\ Command(L, excuse)
  BY DEF Dissolve, Exists
<1>2. Saved(ledger) /\ Sure(ledger, stale, {}) /\ Good(ledger)
  BY <1>1, Idling, Now DEF Command
<1>3. Good(E) /\ E.doc[f] # None
  <2>1. Good(E) /\ Kindred(ledger, E, f)
    BY <1>1, Now, EnsureGood
  <2> QED BY <2>1 DEF Kindred
<1>4. E.ok => Sure(E, stale, {}) /\ Saved(E)
  BY <1>1, <1>2, EnsureSure
<1> HIDE DEF E, excuse
<1>5. Good(L)
  BY <1>3, DisbandGood
<1>6. ASSUME L.ok PROVE Sure(L, stale, {})
  <2>1. E.ok
    <3>1. Refuse(E).ok = FALSE
      BY <1>3, RefuseGood DEF Good
    <3> QED BY <1>6, <3>1 DEF Disband
  <2> QED BY <1>3, <1>4, <1>6, <2>1, DisbandSure
<1> HIDE DEF L
<1> QED BY <1>1, <1>5, <1>6, CommandAgrees

LEMMA ReviewAgrees ==
  ASSUME IInv, JInv, NEW hired \in {0} \cup Bodies, Review(hired) PROVE JInv'
<1> DEFINE L == Reviewed(ledger, hired)
<1>1. hired \in Nat
  BY Numbers
<1>2. Good(L)
  BY <1>1, Now, ReviewedGood
<1>3. Settle(L, MixedStanding)
  BY DEF Review
<1>4. Saved(ledger) /\ Sure(ledger, Doubtful, Debts) /\ Debts \in SUBSET Owed
  BY DebtsAreOwed DEF IInv, JInv
<1>5. ASSUME L.ok PROVE Sure(L, Doubtful, Debts) /\ Kept(ledger, L)
  BY <1>1, <1>4, <1>5, ReviewedSure
<1> HIDE DEF L
<1> QED BY <1>2, <1>3, <1>5, SettleAgrees

\* Isolating cohorts moves nobody, and does not mend what was refused.
LEMMA IsolateNames ==
  ASSUME NEW L0, Good(L0), NEW f \in Formations, L0.doc[f] # None
  PROVE  Isolate(L0, f).person = L0.person /\ (Isolate(L0, f).ok => L0.ok)
<1> DEFINE L == Ensure(L0, f)
           slices == L.doc[f].slices
           Shared(i) == \/ Total(L.cohort[i].res) > 0
                        \/ \E g \in Formations \ {f} : L.cohort[i].held[g] > 0
           S == {i \in Slots : slices[i] > 0 /\ Shared(i)}
           branch == Ranked(S)
           fresh == Ranked(Blanks(L))
           Branches == 1..Len(branch)
           From(j) == branch[CHOOSE k \in Branches : fresh[k] = j]
           New(j) == \E k \in Branches : fresh[k] = j
           c(j) == IF New(j) THEN Cohort(L.cohort[From(j)].role, Zero(Places),
                                         Only(Formations, f, slices[From(j)]))
                   ELSE IF j \in ToSet(branch) THEN Spent(L.cohort[j], f, L.cohort[j].held[f])
                   ELSE L.cohort[j]
           s(j) == IF New(j) THEN slices[From(j)]
                   ELSE IF j \in ToSet(branch) THEN 0 ELSE slices[j]
           C == [j \in Slots |-> c(j)]
           s2 == [j \in Slots |-> s(j)]
           N == [L EXCEPT !.cohort = C, !.doc[f].slices = s2]
           K == Isolate(L0, f)
<1>1. K = L \/ K = Refuse(L) \/ K = Overflow(L) \/ K = Check(N)
  BY Zenon DEF Isolate
<1>2. Good(L) /\ Kindred(L0, L, f)
  BY EnsureGood
<1>3. L \in Ledgers /\ L.person = L0.person /\ (L.ok => L0.ok)
  BY <1>2 DEF Good, Sane, Kindred, SameForce
<1> HIDE DEF L, K, C, s2
<1>4. /\ Refuse(L).person = L.person /\ Refuse(L).ok = FALSE
      /\ Overflow(L).person = L.person /\ Overflow(L).ok = L.ok
      /\ N.person = L.person /\ N.ok = L.ok
      /\ Refuse(N).person = L.person /\ Refuse(N).ok = FALSE
  BY <1>3 DEF Refuse, Overflow, Ledgers
<1> HIDE DEF N
<1>5. Check(N) = N \/ Check(N) = Refuse(N)
  BY DEF Check
<1> QED BY <1>1, <1>3, <1>4, <1>5 DEF K

LEMMA FightAgrees ==
  ASSUME IInv, JInv, NEW f \in Formations, NEW k \in {0} \cup Bodies, NEW killed \in SUBSET People,
         NEW isolates \in BOOLEAN, Fight(f, k, killed, isolates)
  PROVE  JInv'
<1> DEFINE I == Isolate(ledger, f)
           L == IF isolates THEN I ELSE ledger
           excuse == Total(ledger.doc[f].slices) = 0
<1>1. ledger.doc[f] # None /\ k \in Int /\ killed \in SUBSET Embedded(ledger, f)
  BY Numbers DEF Fight, Exists
<1>2. Saved(ledger) /\ Sure(ledger, Doubtful, Debts) /\ Debts \in SUBSET Owed /\ Good(ledger)
  BY DebtsAreOwed, Now DEF IInv, JInv
<1>3. PICK h \in Falls(L, f, k) : Settle(Trim(L, f, h, killed), excuse)
  BY DEF Fight
<1>4. Good(I) /\ Kept(ledger, I)
  BY <1>1, <1>2, IsolateGood
<1>5. I.ok => Saved(I) /\ Sure(I, Doubtful, Debts)
  BY <1>1, <1>2, IsolateSure
<1>6. killed \in SUBSET Embedded(I, f)
  <2>1. I.person = ledger.person
    BY <1>1, <1>2, IsolateNames
  <2> HIDE DEF I
  <2> QED BY <1>1, <2>1 DEF Embedded
<1> HIDE DEF I, excuse
<1>7. /\ Good(L) /\ Kept(ledger, L) /\ (L.ok => Saved(L) /\ Sure(L, Doubtful, Debts))
      /\ killed \in SUBSET Embedded(L, f)
  BY <1>1, <1>2, <1>4, <1>5, <1>6 DEF Kept
<1> HIDE DEF L
<1>8. L.doc[f] # None
  BY <1>1, <1>7 DEF Kept
<1> DEFINE K == Trim(L, f, h, killed)
<1>9. Good(K)
  BY <1>1, <1>7, <1>8, TrimGood
<1>10. ASSUME K.ok PROVE Sure(K, Doubtful, Debts) /\ Kept(ledger, K)
  <2>1. L.ok
    <3>1. Refuse(L).ok = FALSE
      BY <1>7, RefuseGood DEF Good
    <3> QED BY <1>10, <3>1 DEF Trim
  <2>2. Sure(K, Doubtful, Debts) /\ Kept(L, K)
    BY <1>1, <1>2, <1>7, <1>8, <1>10, <2>1, TrimSure
  <2> QED BY <1>7, <2>2 DEF Kept
<1>11. Settle(K, excuse)
  BY <1>3
<1> HIDE DEF K
<1> QED BY <1>9, <1>10, <1>11, SettleAgrees

LEMMA DieAgrees == ASSUME IInv, JInv, NEW p \in People, Die(p) PROVE JInv'
<1>1. Saved(ledger) /\ Sure(ledger, Doubtful, Debts) /\ Debts \in SUBSET Owed /\ Sane(ledger)
      /\ Valid(ledger)
  BY DebtsAreOwed, Now DEF IInv, JInv
<1>2. CASE Settle(Check(Gone(ledger, p)), FALSE)
  <2> DEFINE M == Gone(ledger, p)
             L == Check(M)
  <2>1. Sane(M) /\ Untouched(ledger, M)
    BY <1>1, GoneSane DEF Untouched
  <2> HIDE DEF M
  <2>2. Good(L)
    BY <2>1, CheckGood
  <2>3. ASSUME L.ok PROVE Sure(L, Doubtful, Debts) /\ Kept(ledger, L)
    <3>1. L = M /\ Saved(M)
      BY <2>1, <2>3, CheckIs
    <3> QED BY <1>1, <2>1, <3>1, UntouchedSure DEF Saved
  <2>4. Settle(L, FALSE)
    BY <1>2 DEF M
  <2> HIDE DEF L
  <2> QED BY <2>2, <2>3, <2>4, SettleAgrees
<1>3. CASE /\ ledger.person[p].at \in Formations
           /\ Settle(Check(Mourned(ledger, p, ledger.person[p].at)),
                     ledger.doc[ledger.person[p].at].n = 1)
  <2> DEFINE f == ledger.person[p].at
             N == Mourned(ledger, p, f)
             L == Check(N)
             excuse == ledger.doc[f].n = 1
  <2>1. f \in Formations /\ Settle(L, excuse)
    BY <1>3
  <2>2. Sane(N)
    BY <1>1, <2>1, MournedSane
  <2>3. ASSUME Check(N).ok PROVE Check(N) = N /\ Sure(N, Doubtful, Debts) /\ Kept(ledger, N)
    BY <1>1, <2>1, <2>3, MournedSure
  <2> HIDE DEF N, excuse
  <2>4. Good(L) /\ (L.ok => Sure(L, Doubtful, Debts) /\ Kept(ledger, L))
    BY <2>2, <2>3, CheckGood
  <2> HIDE DEF L
  <2> QED BY <2>1, <2>4, SettleAgrees
<1> QED BY <1>2, <1>3, DieIs

-----------------------------------------------------------------------------
(* Orders. *)

LEMMA OrderIsSome ==
  ASSUME NEW f \in Formations, NEW kind \in Kinds, NEW doc \in Docs, NEW L \in Ledgers
  PROVE  [f |-> f, kind |-> kind, doc |-> doc, saved |-> L] # None
BY NoneAssumption

LEMMA BeginAgrees ==
  ASSUME IInv, JInv, NEW f \in Formations, NEW kind \in Kinds \ {"reconstitute"},
         Begin(f, kind)
  PROVE  JInv'
<1> DEFINE d == ledger.doc[f]
<1>1. d # None /\ order = None
  BY DEF Begin, Exists, Open
<1>2. /\ order'.f = f /\ order'.kind = kind /\ order'.doc = d /\ order'.saved = ledger
      /\ ledger' = ledger /\ stale' = stale
  BY DEF Begin, Open
<1>3. Sure(ledger, stale, {})
  BY <1>1, Idling
<1>4. Doubtful' = stale /\ Debts' = {}
  BY <1>2 DEF Doubtful, Debts, Pending
<1>5. stale \subseteq Formations /\ \A x \in stale : ledger.doc[x] # None
  BY <1>1, NothingPending DEF JInv, Pending
<1>6. Ample(d)
  BY <1>1, <1>3 DEF Sure, Fine
<1>7. Waiting'
  BY <1>1, <1>2, <1>3, <1>5, <1>6 DEF Waiting
<1> QED BY <1>2, <1>3, <1>4, <1>5, <1>7 DEF JInv

\* The document of f is put in place of another one of the same cohorts.
LEMMA PutSure ==
  ASSUME NEW L, NEW M, SameForce(L, M), NEW f \in Formations,
         \A x \in Formations \ {f} : M.doc[x] = L.doc[x], Ample(M.doc[f]),
         NEW U, NEW V, NEW W, Sure(L, U, W), \A x \in U : x = f \/ x \in V,
         f \notin V => Told(M, f)
  PROVE  Sure(M, V, {})
<1>1. Fine(L, f, U)
  BY DEF Sure
<1>2. Fine(M, f, V)
  BY <1>1 DEF Fine, SameForce
<1>3. ASSUME NEW x \in Formations \ {f} PROVE Fine(M, x, V)
  <2>1. Fine(L, x, U) /\ M.doc[x] = L.doc[x]
    BY DEF Sure
  <2>2. x \notin V => x \notin U
    OBVIOUS
  <2>3. Told(L, x) => Told(M, x)
    BY <2>1 DEF Told, SameForce
  <2> QED BY <2>1, <2>2, <2>3 DEF Fine, SameForce
<1> QED BY <1>2, <1>3 DEF Sure

LEMMA ReconstituteAgrees ==
  ASSUME IInv, JInv, NEW f \in Formations, NEW adds \in Some, Reconstitute(f, adds) PROVE JInv'
<1> DEFINE d == ledger.doc[f]
           R == Reinforce(ledger, f, adds)
           N == Listed(R, f)
           L == Check(N)
           M == [L EXCEPT !.doc[f] = d]
<1>1. /\ d # None /\ Total(adds) \in 1..Minus(Total(d.est), d.n)
      /\ (L.ok /\ Open(f, "reconstitute", L.doc[f], M)) \/ Refused(FALSE)
  BY DEF Reconstitute, Exists
<1>2. d \in Docs /\ d.n \in Int /\ d.slices \in [Slots -> Nat] /\ adds \in [Roles -> Int]
      /\ d.est \in [Roles -> Int] /\ Saved(ledger) /\ Sane(ledger)
  BY <1>1, Now, Numbers, DocFields DEF Sane, IInv
<1>3. Sane(R) /\ R.doc[f] # None
  <2>1. Sane(R) /\ Mustered(ledger, R, f)
    BY <1>1, <1>2, Now, ReinforceSane
  <2> QED BY <2>1 DEF Mustered
<1>4. CASE Refused(FALSE)
  BY <1>4, RefusedAgrees
<1>5. CASE L.ok /\ Open(f, "reconstitute", L.doc[f], M)
  <2>1. order = None
    BY <1>5 DEF Open
  <2>2. Sure(ledger, stale, {})
    BY <2>1, Idling
  <2>3. stale \subseteq Formations /\ \A x \in stale : ledger.doc[x] # None
    BY <2>1, NothingPending DEF JInv, Pending
  <2>4. /\ L = N /\ Saved(N) /\ Sure(N, stale, {}) /\ Kept(ledger, N) /\ N.doc = R.doc
        /\ N.doc[f].n = Total(N.doc[f].comp)
        /\ N.doc[f].comp = BodiesIn(N.cohort, N.person, f)
    <3> HIDE DEF R, N, M, d
    <3>1. ledger.doc[f] # None /\ Check(N).ok /\ SameForce(R, R)
      BY <1>1, <1>5 DEF d, SameForce
    <3>2. N = Listed(R, f)
      BY DEF N
    <3>3. R = Reinforce(ledger, f, adds)
      BY DEF R
    <3>4. /\ Check(N) = N /\ Saved(N) /\ Sure(N, stale, {}) /\ Kept(ledger, N) /\ N.doc = R.doc
          /\ N.doc[f].n = Total(N.doc[f].comp)
          /\ N.doc[f].comp = BodiesIn(N.cohort, N.person, f)
      BY <1>2, <1>3, <2>2, <3>1, <3>2, <3>3, ReinforcedSure
    <3> QED BY <3>4
  <2>5. N.ok = R.ok
    BY <1>3 DEF Listed, Sane, Ledgers
  <2>6. PICK h \in [Slots -> Nat] :
           /\ Filled(ledger, R, f, h) /\ R.doc[f].n = d.n + Total(adds)
    <3>1. Reinforce(ledger, f, adds).ok
      BY <2>4, <2>5 DEF Saved
    <3>2. ledger.doc[f] # None
      BY <1>1
    <3> QED BY <1>2, <3>1, <3>2, ReinforceIs
  <2>7. R.doc[f].n > d.n
    <3> DEFINE a == Total(adds)
               b == Minus(Total(d.est), d.n)
               n == d.n
    <3>1. a \in 1..b /\ b \in Int /\ n \in Int
      <4>1. Total(d.est) \in Int
        BY <1>2, Finite, TotalInt
      <4> QED BY <1>1, <1>2, <4>1 DEF Minus
    <3> HIDE DEF a, b, n
    <3>2. n + a > n
      BY <3>1
    <3> QED BY <2>6, <3>2 DEF a, n
  <2>8. /\ order'.f = f /\ order'.kind = "reconstitute" /\ order'.doc = N.doc[f]
        /\ order'.saved = ledger /\ ledger' = M /\ stale' = stale /\ order' # None
    <3>1. order' = [f |-> f, kind |-> "reconstitute", doc |-> L.doc[f], saved |-> ledger]
          /\ ledger' = M /\ stale' = stale
      BY <1>5 DEF Open
    <3>2. order' # None
      <4>1. ledger \in Ledgers /\ N.doc[f] \in Docs /\ "reconstitute" \in Kinds
        BY <1>2, <1>3, <2>4, DocFields DEF Sane, Saved, Kinds
      <4> QED BY <2>4, <3>1, <4>1, OrderIsSome
    <3> QED BY <2>4, <3>1, <3>2
  <2>9. M = Rewritten(N, f, d)
    BY <2>4 DEF Rewritten, Saved, Sane, Ledgers
  <2> HIDE DEF M, R, N, L, d
  <2>10. /\ SameForce(N, M) /\ M.doc[f] = d /\ \A g \in Formations \ {f} : M.doc[g] = N.doc[g]
    <3>1. Good(N)
      BY <2>4, SavedGood
    <3> QED BY <1>2, <2>9, <3>1, RewriteGood
  <2> DEFINE V == stale \cup {f}
             w == [f |-> f, doc |-> N.doc[f], old |-> d]
  <2>11. Sure(M, V, {})
    <3>1. Ample(M.doc[f])
      BY <1>1, <2>2, <2>10 DEF Sure, Fine, d
    <3>2. \A x \in stale : x = f \/ x \in V
      OBVIOUS
    <3>3. f \in V
      OBVIOUS
    <3> HIDE DEF V
    <3> QED BY <2>4, <2>10, <3>1, <3>2, <3>3, PutSure
  <2>12. ASSUME f \notin stale PROVE Awaits(M, w)
    <3>1. N.doc[f] # None
      BY <1>3, <2>4
    <3>2. Told(N, f)
      BY <2>4, <2>12, <3>1 DEF Sure, Fine
    <3>3. ASSUME NEW i \in Slots
          PROVE  /\ N.doc[f].slices[i] >= d.slices[i]
                 /\ M.cohort[i].held[f] = d.slices[i] + (N.doc[f].slices[i] - d.slices[i])
      <4> DEFINE a == d.slices[i]
                 b == h[i]
      <4>1. N.doc[f].slices[i] = a + b
        BY <2>4, <2>6 DEF Filled, d
      <4>2. M.cohort[i].held[f] = a + b
        BY <2>10, <3>2, <4>1 DEF Told, SameForce
      <4>3. a \in Nat /\ b \in Nat
        BY <1>2, <2>6
      <4> HIDE DEF a, b
      <4>4. a + b >= a /\ a + b = a + ((a + b) - a)
        BY <4>3
      <4> QED BY <4>1, <4>2, <4>4 DEF a
    <3>4. M.doc[f].n < N.doc[f].n
      <4>1. d.n \in Int /\ R.doc[f].n \in Int
        BY <1>2, <1>3, DocFields DEF Sane
      <4> QED BY <2>4, <2>7, <2>10, <4>1
    <3>5. BodiesIn(M.cohort, M.person, f) = BodiesIn(N.cohort, N.person, f)
      BY <2>10 DEF SameForce
    <3> QED BY <1>1, <2>4, <2>10, <3>3, <3>4, <3>5 DEF Awaits
  <2>13. Doubtful' = V /\ Debts' \subseteq {w} /\ (Debts' # {} => f \notin stale)
    <3>1. Pending' /\ Debt' = w
      BY <2>8 DEF Pending, Debt, d
    <3>2. Doubtful' = V
      BY <2>3, <2>8, <3>1 DEF Doubtful
    <3>3. Debts' \subseteq {w} /\ (Debts' # {} => f \notin stale)
      BY <2>8, <3>1 DEF Debts
    <3> QED BY <3>2, <3>3
  <2>14. Sure(M, Doubtful', Debts')
    <3>1. \A x \in Formations : Fine(M, x, V)
      BY <2>11 DEF Sure
    <3>2. \A u \in Debts' : Awaits(M, u)
      BY <2>12, <2>13
    <3> HIDE DEF V, w
    <3> QED BY <2>13, <3>1, <3>2 DEF Sure
  <2>15. Waiting'
    <3>1. N.doc[f] # None /\ Fine(N, f, stale)
      BY <1>3, <2>4 DEF Sure
    <3>2. Ample(N.doc[f])
      BY <3>1 DEF Fine
    <3>3. ledger.doc[f] # None /\ M.doc[f] # None
      BY <1>1, <2>10 DEF d
    <3> QED BY <2>2, <2>3, <2>8, <3>2, <3>3 DEF Waiting
  <2>16. \A x \in V : M.doc[x] # None
    <3> SUFFICES ASSUME NEW x \in V PROVE M.doc[x] # None
      OBVIOUS
    <3>1. CASE x = f
      BY <1>1, <2>10, <3>1
    <3>2. CASE x # f
      <4>1. x \in stale /\ x \in Formations /\ ledger.doc[x] # None
        BY <2>3, <3>2
      <4> QED BY <2>4, <2>10, <3>2, <4>1 DEF Kept
    <3> QED BY <3>1, <3>2
  <2> HIDE DEF V, w
  <2> QED BY <2>3, <2>8, <2>13, <2>14, <2>15, <2>16 DEF JInv
<1> QED BY <1>1, <1>4, <1>5

LEMMA FinishAgrees ==
  ASSUME IInv, JInv, order # None, NEW L, Good(L),
         NEW V, V = (IF ledger.doc[order.f] = order.saved.doc[order.f] THEN stale
                     ELSE stale \cup {order.f}),
         L.ok => Sure(L, V, {}) /\ \A x \in V : L.doc[x] # None,
         Finish(L)
  PROVE  JInv'
<1>1. CASE Refused(ledger.doc[order.f] # order.saved.doc[order.f])
  <2> DEFINE excuse == ledger.doc[order.f] # order.saved.doc[order.f]
  <2>1. Refused(excuse)
    BY <1>1
  <2> HIDE DEF excuse
  <2> QED BY <2>1, RefusedAgrees
<1>2. CASE /\ L.ok /\ ledger' = Pruned(L, None) /\ order' = None
          /\ stale' = (IF ledger.doc[order.f] = order.saved.doc[order.f] THEN stale
                      ELSE stale \union {order.f})
  <2> DEFINE M == Pruned(L, None)
  <2>1. ledger' = M /\ order' = None /\ stale' = V
    BY <1>2
  <2>2. Saved(L) /\ Sure(L, V, {}) /\ {} \in SUBSET Owed
    BY <1>2 DEF Good, Saved
  <2>3. Sure(M, V, {}) /\ M.doc = L.doc
    BY <2>2, PrunedSure
  <2> HIDE DEF M
  <2>4. Doubtful' = V /\ Debts' = {}
    BY <2>1 DEF Doubtful, Debts, Pending
  <2>5. V \subseteq Formations /\ \A x \in V : M.doc[x] # None
    BY <1>2, <2>3 DEF IInv, JInv
  <2> QED BY <2>1, <2>3, <2>4, <2>5 DEF JInv
<1> QED BY <1>1, <1>2 DEF Finish

\* The copy of an order tells what the cohorts tell, unless the hours changed the document.
LEMMA CopyAgrees ==
  ASSUME IInv, JInv, order # None,
         NEW V, V = (IF ledger.doc[order.f] = order.saved.doc[order.f] THEN stale
                     ELSE stale \cup {order.f}),
         NEW M, M = Rewritten(ledger, order.f, order.doc)
  PROVE  /\ Saved(M) /\ Sure(M, V, {}) /\ order.f \in Formations /\ M.doc[order.f] = order.doc
         /\ M.doc[order.f] # None /\ \A x \in V : M.doc[x] # None
<1> DEFINE f == order.f
<1>1. /\ f \in Formations /\ order.doc \in Docs /\ Saved(ledger) /\ Good(ledger) /\ Waiting
      /\ stale \subseteq Formations /\ \A x \in Doubtful : ledger.doc[x] # None
      /\ Sure(ledger, Doubtful, Debts)
  BY Now DEF IInv, JInv
<1>2. /\ Good(M) /\ SameForce(ledger, M) /\ M.ok = ledger.ok /\ M.doc[f] = order.doc
      /\ M.doc[f] # None /\ \A g \in Formations \ {f} : M.doc[g] = ledger.doc[g]
  BY <1>1, RewriteGood
<1>3. Saved(M)
  BY <1>1, <1>2 DEF Good, Saved
<1>4. Ample(M.doc[f])
  BY <1>1, <1>2 DEF Waiting
<1>5. \A x \in Doubtful : x = f \/ x \in V
  BY DEF Doubtful
<1>6. ASSUME f \notin V PROVE Told(M, f)
  <2>1. f \notin stale /\ ledger.doc[f] = order.saved.doc[f] /\ ledger.doc[f] # None
    BY <1>1, <1>6 DEF Waiting
  <2>2. CASE Pending
    <3> DEFINE w == Debt
    <3>1. /\ w.f = f /\ w.doc = order.doc /\ w.old = ledger.doc[f]
      BY <2>1 DEF Debt
    <3>2. w \in Debts
      BY <2>1, <2>2 DEF Debts
    <3> HIDE DEF w
    <3>3. Awaits(ledger, w)
      BY <1>1, <3>2 DEF Sure
    <3>4. /\ order.doc.n = Total(order.doc.comp)
          /\ order.doc.comp = BodiesIn(ledger.cohort, ledger.person, f)
      BY <3>1, <3>3 DEF Awaits
    <3>5. ASSUME NEW i \in Slots PROVE order.doc.slices[i] = M.cohort[i].held[f]
      <4> DEFINE a == ledger.doc[f].slices[i]
                 b == order.doc.slices[i]
      <4>1. ledger.cohort[i].held[f] = a + (b - a)
        BY <3>1, <3>3 DEF Awaits
      <4>2. a \in Nat /\ b \in Nat
        <5>1. order.doc.slices \in [Slots -> Nat]
          BY <1>1 DEF Docs
        <5>2. ledger.doc[f].slices \in [Slots -> Nat]
          BY <1>1, <2>1, DocFields DEF Saved, Sane
        <5> QED BY <5>1, <5>2
      <4>3. M.cohort = ledger.cohort
        BY <1>2 DEF SameForce
      <4> HIDE DEF a, b
      <4>4. a + (b - a) = b
        BY <4>2
      <4> QED BY <4>1, <4>3, <4>4 DEF b
    <3>6. BodiesIn(M.cohort, M.person, f) = BodiesIn(ledger.cohort, ledger.person, f)
      BY <1>2 DEF SameForce
    <3> QED BY <1>2, <3>4, <3>5, <3>6 DEF Told
  <2>3. CASE ~Pending
    <3>1. order.doc = ledger.doc[f] /\ f \notin Doubtful
      BY <1>1, <2>1, <2>3 DEF Waiting, Pending, Doubtful
    <3>2. Told(ledger, f)
      BY <1>1, <2>1, <3>1 DEF Sure, Fine
    <3> QED BY <1>2, <3>1, <3>2 DEF Told, SameForce
  <2> QED BY <2>2, <2>3
<1>7. \A x \in V : M.doc[x] # None
  <2> SUFFICES ASSUME NEW x \in V PROVE M.doc[x] # None
    OBVIOUS
  <2>1. CASE x = f
    BY <1>2, <2>1
  <2>2. CASE x # f
    <3>1. x \in stale
      BY <2>2
    <3> QED BY <1>1, <1>2, <2>2, <3>1 DEF Doubtful
  <2> QED BY <2>1, <2>2
<1> HIDE DEF f
<1>8. Sure(M, V, {})
  BY <1>1, <1>2, <1>4, <1>5, <1>6, PutSure
<1> QED BY <1>1, <1>2, <1>3, <1>7, <1>8 DEF f

LEMMA EndAgrees == ASSUME IInv, JInv, NEW place \in Places, End(place) PROVE JInv'
<1> DEFINE f == order.f
           V == IF ledger.doc[order.f] = order.saved.doc[order.f] THEN stale
                ELSE stale \cup {order.f}
           copy == [ledger EXCEPT !.doc[f] = order.doc]
           E == Ensure(copy, f)
           K == Check(E)
           T == Isolate(K, f)
           S == [copy EXCEPT !.doc[f].at = place,
                             !.doc[f].lost = @ /\ order.kind \notin {"mobilize", "move"}]
           d == [order.doc EXCEPT !.at = place,
                                  !.lost = @ /\ order.kind \notin {"mobilize", "move"}]
           L == IF order.kind = "train" THEN T ELSE S
<1>1. order # None /\ Finish(L)
  BY DEF End
<1>2. f \in Formations /\ order.doc \in Docs
  BY <1>1 DEF IInv
<1>3. copy = Rewritten(ledger, f, order.doc)
  BY Now DEF Rewritten, Sane, Ledgers
<1>4. copy.doc[f] = order.doc
  BY <1>2, Now DEF Sane, Ledgers
<1>5. d \in Docs /\ d.n = order.doc.n /\ d.comp = order.doc.comp /\ d.slices = order.doc.slices
  BY <1>2 DEF Docs
<1>6. copy \in Ledgers => S = Rewritten(copy, f, d)
  BY Zenon, <1>2, <1>4 DEF Rewritten, Ledgers
<1>7. /\ Saved(copy) /\ Sure(copy, V, {}) /\ copy.doc[f] # None
      /\ \A x \in V : copy.doc[x] # None
  <2> HIDE DEF copy
  <2> QED BY <1>1, <1>3, CopyAgrees
<1>8. V \subseteq Formations
  BY <1>2 DEF JInv
<1>c. V = (IF ledger.doc[order.f] = order.saved.doc[order.f] THEN stale ELSE stale \cup {order.f})
  OBVIOUS
<1> HIDE DEF f, copy, d, V, S
<1>9. Good(copy) /\ copy \in Ledgers /\ {} \in SUBSET Owed
  BY <1>7, SavedGood DEF Saved, Sane
<1>10. Saved(S) /\ Sure(S, V, {}) /\ Kindred(copy, S, f)
  <2>1. f \notin V => \A i \in Slots : d.slices[i] = copy.cohort[i].held[f]
    BY <1>2, <1>4, <1>5, <1>7 DEF Sure, Fine, Told
  <2>2. \A w \in {} : w.f = f => d.slices = copy.doc[f].slices
    OBVIOUS
  <2>3. S = Rewritten(copy, f, d) /\ d.n = copy.doc[f].n /\ d.comp = copy.doc[f].comp
    BY <1>4, <1>5, <1>6, <1>9
  <2> QED BY <1>2, <1>5, <1>7, <1>9, <2>1, <2>2, <2>3, RewriteSure
<1>11. Good(E) /\ Kindred(copy, E, f)
  BY <1>2, <1>7, <1>9, EnsureGood
<1>12. E.ok => Saved(E) /\ Sure(E, V, {})
  BY <1>2, <1>7, <1>9, EnsureSure
<1> HIDE DEF E
<1>13. Good(K) /\ K.doc = E.doc
  BY <1>11, CheckGood DEF Check, Refuse, Good, Sane, Ledgers
<1>14. K.ok => K = E /\ E.ok
  BY <1>11, CheckIs DEF Good, Saved
<1> HIDE DEF K
<1>15. K.doc[f] # None /\ \A x \in V : K.doc[x] # None
  BY <1>2, <1>7, <1>8, <1>11, <1>13 DEF Kindred
<1>16. Good(T) /\ Kept(K, T)
  BY <1>2, <1>13, <1>15, IsolateGood
<1>17. T.ok => K.ok
  BY <1>2, <1>13, <1>15, IsolateNames
<1>18. T.ok => Sure(T, V, {})
  <2>1. K.ok => Saved(K) /\ Sure(K, V, {})
    BY <1>12, <1>14
  <2> QED BY <1>2, <1>9, <1>15, <1>17, <2>1, IsolateSure
<1> HIDE DEF T
<1>19. Good(L)
  BY <1>10, <1>16, SavedGood
<1>20. L.ok => Sure(L, V, {}) /\ \A x \in V : L.doc[x] # None
  <2>1. \A x \in V : S.doc[x] # None
    BY <1>7, <1>8, <1>10 DEF Kindred
  <2>2. \A x \in V : T.doc[x] # None
    BY <1>8, <1>15, <1>16 DEF Kept
  <2> QED BY <1>10, <1>18, <2>1, <2>2
<1> HIDE DEF L
<1> QED BY <1>1, <1>c, <1>19, <1>20, FinishAgrees

LEMMA InitAgrees == ASSUME Init PROVE JInv
<1>1. /\ ledger.doc = [x \in Formations |-> None] /\ ledger.listed = {} /\ order = None
      /\ stale = {}
  BY DEF Init
<1>2. Doubtful = {} /\ Debts = {}
  BY <1>1, NothingPending DEF Pending
<1>3. Sure(ledger, {}, {})
  BY <1>1 DEF Sure, Fine
<1> QED BY <1>1, <1>2, <1>3 DEF JInv

-----------------------------------------------------------------------------
(* The theorem. *)

LEMMA AgreesStep == ASSUME IInv, JInv, [Next]_vars PROVE JInv'
<1>1. ASSUME NEW r \in Roles, NEW k \in Bodies, Recruit(r, k) PROVE JInv'
  BY <1>1, RecruitAgrees
<1>2. ASSUME NEW f \in Formations, NEW comp \in Some, NEW place \in Places, Create(f, comp, place)
      PROVE  JInv'
  BY <1>2, CreateAgrees
<1>3. ASSUME NEW p \in People, NEW r \in Roles, NEW place \in Places, MaterializeFree(p, r, place)
      PROVE  JInv'
  BY <1>3, MaterializeFreeAgrees
<1>4. ASSUME NEW p \in People, NEW r \in Roles, NEW f \in Formations, MaterializeIn(p, r, f)
      PROVE  JInv'
  BY <1>4, MaterializeInAgrees
<1>5. ASSUME NEW f \in Formations, NEW g \in Formations, NEW k \in Bodies, Split(f, g, k)
      PROVE  JInv'
  BY <1>5, SplitAgrees
<1>6. ASSUME NEW f \in Formations, NEW g \in Formations, Merge(f, g) PROVE JInv'
  BY <1>6, MergeAgrees
<1>7. ASSUME NEW f \in Formations, Dissolve(f) PROVE JInv'
  BY <1>7, DissolveAgrees
<1>8. ASSUME NEW hired \in {0} \cup Bodies, Review(hired) PROVE JInv'
  BY <1>8, ReviewAgrees
<1>9. ASSUME NEW f \in Formations, NEW k \in {0} \cup Bodies, NEW killed \in SUBSET People,
             NEW b \in BOOLEAN, Fight(f, k, killed, b)
      PROVE  JInv'
  BY <1>9, FightAgrees
<1>10. ASSUME NEW p \in People, Die(p) PROVE JInv'
  BY <1>10, DieAgrees
<1>11. ASSUME NEW f \in Formations, NEW kind \in Kinds \ {"reconstitute"}, Begin(f, kind)
       PROVE  JInv'
  BY <1>11, BeginAgrees
<1>12. ASSUME NEW f \in Formations, NEW adds \in Some, Reconstitute(f, adds) PROVE JInv'
  BY <1>12, ReconstituteAgrees
<1>13. ASSUME NEW place \in Places, End(place) PROVE JInv'
  BY <1>13, EndAgrees
<1>14. ASSUME UNCHANGED vars PROVE JInv'
  BY <1>14 DEF vars, JInv, Doubtful, Debts, Pending, Debt, Waiting
<1> QED BY <1>1, <1>2, <1>3, <1>4, <1>5, <1>6, <1>7, <1>8, <1>9, <1>10, <1>11, <1>12, <1>13,
           <1>14 DEF Next

LEMMA Agreement == ASSUME IInv, JInv PROVE DocumentsAgree
<1> SUFFICES ASSUME NEW f \in Formations, f \notin stale, ~Reconstituting(f) PROVE Tells(f)
  BY DEF DocumentsAgree
<1> DEFINE d == ledger.doc[f]
           b == BodiesIn(ledger.cohort, ledger.person, f)
<1>1. f \notin Doubtful
  BY DEF Doubtful, Pending, Reconstituting
<1>2. Fine(ledger, f, Doubtful) /\ Sane(ledger) /\ Valid(ledger)
  BY Now DEF JInv, Sure
<1>3. CASE d = None
  <2>1. f \notin ledger.listed
    BY <1>2, <1>3 DEF Sane, Allotted
  <2> QED BY <1>3, <2>1 DEF Tells
<1>4. CASE d # None
  <2>1. Told(ledger, f)
    BY <1>1, <1>2, <1>4 DEF Fine
  <2>2. d.n = Total(d.comp) /\ d.comp = b
    BY <2>1 DEF Told
  <2>3. d.n = ledger.given[f].n
    <3> DEFINE t == Total(b)
               n == ledger.given[f].n
    <3>1. /\ t \in Nat
          /\ (f \in ledger.listed) <=> (t > 0)
          /\ f \in ledger.listed => n = t
          /\ f \notin ledger.listed => n = 0
      BY <1>2, ValidTells
    <3>2. d.n = t
      BY <2>2
    <3> HIDE DEF t, n
    <3>3. n = t
      BY <3>1
    <3> QED BY <3>2, <3>3 DEF n
  <2>4. b = Plus(HeldBy(ledger, f), EmbeddedBy(ledger, f))
    BY EmbeddedIs DEF BodiesIn
  <2>5. d.slices = [i \in Slots |-> ledger.cohort[i].held[f]]
    <3>1. d.slices \in [Slots -> Nat]
      BY <1>2, <1>4, DocFields DEF Sane
    <3> QED BY <2>1, <3>1 DEF Told
  <2> HIDE DEF b
  <2> QED BY <1>4, <2>2, <2>3, <2>4, <2>5 DEF Tells
<1> QED BY <1>3, <1>4

\* The document of a formation tells what the force and the cohorts tell of it, for any
\* roles, places, formations and persons and after every mix of commands, battles, deaths
\* and reviews, unless an old copy replaced it or its reconstitution is open (the hours of
\* an order, RepositoryCommandPlanner.preview).
THEOREM DocumentsStayAgreed == Spec => []DocumentsAgree
<1>1. Init => IInv /\ JInv
  BY InitKeeps, InitAgrees
<1>2. (IInv /\ JInv) /\ [Next]_vars => (IInv /\ JInv)'
  BY StepKeeps, AgreesStep
<1>3. IInv /\ JInv => DocumentsAgree
  BY Agreement
<1> QED BY <1>1, <1>2, <1>3, PTL DEF Spec

=============================================================================
