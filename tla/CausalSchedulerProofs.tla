------------------------ MODULE CausalSchedulerProofs ------------------------
(***************************************************************************)
(* Proofs about CausalScheduler for any finite set of routes of each kind,  *)
(* any recurrences, windows and bound of time.  Whatever callbacks do, the   *)
(* registry stays in shape and only what the player is asked about sleeps;   *)
(* as long as no callback gives a registered route another instant or puts   *)
(* one in the place of another, heap and positions stay in step with the     *)
(* registry, the clock passes nothing, and the scheduler is a CausalClock.   *)
(***************************************************************************)
EXTENDS CausalScheduler, CountingProofs

(* Assignments of instants to routes.                                          *)
Partial == UNION {[S -> Nat] : S \in SUBSET Routes}

LEMMA PartialIn ==
  ASSUME NEW f \in Partial
  PROVE  /\ DOMAIN f \in SUBSET Routes /\ f \in [DOMAIN f -> Nat]
         /\ \A x \in DOMAIN f : x \in Routes /\ f[x] \in Nat
<1>1. PICK S \in SUBSET Routes : f \in [S -> Nat]
  BY DEF Partial
<1> QED BY <1>1

LEMMA PartialOut ==
  ASSUME NEW S \in SUBSET Routes, NEW f \in [S -> Nat]
  PROVE  f \in Partial
BY DEF Partial

LEMMA OverPartial ==
  ASSUME NEW f \in Partial, NEW g \in Partial
  PROVE  /\ Over(f, g) \in Partial /\ DOMAIN Over(f, g) = DOMAIN f \cup DOMAIN g
         /\ \A x \in DOMAIN f : Over(f, g)[x] = f[x]
         /\ \A x \in DOMAIN g \ DOMAIN f : Over(f, g)[x] = g[x]
<1>1. DOMAIN f \cup DOMAIN g \in SUBSET Routes
  BY PartialIn
<1>2. Over(f, g) \in [DOMAIN f \cup DOMAIN g -> Nat]
  BY PartialIn DEF Over
<1>3. Over(f, g) \in Partial
  BY <1>1, <1>2, PartialOut
<1> QED BY <1>3 DEF Over

LEMMA RestrictPartial ==
  ASSUME NEW f \in Partial, NEW S \in SUBSET DOMAIN f
  PROVE  /\ Restrict(f, S) \in Partial /\ DOMAIN Restrict(f, S) = S
         /\ \A x \in S : Restrict(f, S)[x] = f[x]
<1>1. S \in SUBSET Routes /\ \A x \in S : f[x] \in Nat
  BY PartialIn
<1>2. Restrict(f, S) \in [S -> Nat]
  BY <1>1 DEF Restrict
<1>3. Restrict(f, S) \in Partial
  BY <1>1, <1>2, PartialOut
<1> QED BY <1>3 DEF Restrict

LEMMA OneMore ==
  ASSUME NEW f \in Partial, NEW x \in DOMAIN f, NEW t \in Nat
  PROVE  /\ [f EXCEPT ![x] = t] \in Partial /\ DOMAIN [f EXCEPT ![x] = t] = DOMAIN f
         /\ [f EXCEPT ![x] = t][x] = t
         /\ \A y \in DOMAIN f : y # x => [f EXCEPT ![x] = t][y] = f[y]
<1>1. DOMAIN f \in SUBSET Routes /\ f \in [DOMAIN f -> Nat]
  BY PartialIn
<1>2. [f EXCEPT ![x] = t] \in [DOMAIN f -> Nat]
  BY <1>1
<1>3. [f EXCEPT ![x] = t] \in Partial
  BY <1>1, <1>2, PartialOut
<1> QED BY <1>1, <1>3

-----------------------------------------------------------------------------
(* The order of the registry.                                                  *)

(* rows lists D, every member once.                                            *)
Listed(rows, D) ==
    /\ rows \in Seq(Routes)
    /\ \A i \in DOMAIN rows : rows[i] \in D
    /\ \A x \in D : \E i \in DOMAIN rows : rows[i] = x
    /\ \A i, j \in DOMAIN rows : rows[i] = rows[j] => i = j

LEMMA ListedFacts ==
  ASSUME NEW D \in SUBSET Routes, NEW rows, Listed(rows, D)
  PROVE  /\ ToSet(rows) = D /\ Len(rows) = Cardinality(D) /\ IsFiniteSet(D)
         /\ Len(rows) \in Nat /\ DOMAIN rows = 1 .. Len(rows)
<1>1. rows \in Seq(Routes) /\ Len(rows) \in Nat /\ DOMAIN rows = 1 .. Len(rows)
  BY DEF Listed
<1>2. ToSet(rows) = D
  BY DEF Listed, ToSet
<1>3. rows \in [1 .. Len(rows) -> D]
  BY <1>1 DEF Listed
<1>4. rows \in Bijection(1 .. Len(rows), D)
  BY <1>1, <1>3 DEF Listed, Bijection, Injection, IsInjective, Surjection
<1>5. IsFiniteSet(1 .. Len(rows)) /\ Cardinality(1 .. Len(rows)) = Len(rows)
  BY <1>1, FS_Interval
<1>6. IsFiniteSet(D) /\ Cardinality(D) = Cardinality(1 .. Len(rows))
  BY <1>4, <1>5, FS_Bijection DEF ExistsBijection
<1> QED BY <1>1, <1>2, <1>5, <1>6

LEMMA RoutesFinite ==
  ASSUME NEW S \in SUBSET Routes
  PROVE  S \in SUBSET Nat /\ IsFiniteSet(S) /\ Cardinality(S) \in Nat
<1>1. Routes \subseteq Nat /\ IsFiniteSet(Routes)
  BY RankAssumption
<1>2. IsFiniteSet(S)
  BY <1>1, FS_Subset
<1> QED BY <1>1, <1>2, FS_CardinalityType

LEMMA RankedListed ==
  ASSUME NEW S \in SUBSET Routes
  PROVE  Listed(Ranked(S), S)
<1>1. S \in SUBSET Nat /\ IsFiniteSet(S) /\ Cardinality(S) \in Nat
  BY RoutesFinite
<1>2. /\ Ranked(S) \in Seq(S) /\ DOMAIN Ranked(S) = 1 .. Cardinality(S)
      /\ \A k \in DOMAIN Ranked(S) : Ranked(S)[k] \in S
      /\ \A x \in S : \E k \in DOMAIN Ranked(S) : Ranked(S)[k] = x
      /\ \A k, m \in DOMAIN Ranked(S) : k < m => Ranked(S)[k] < Ranked(S)[m]
  BY <1>1, RankedSeq
<1>3. Ranked(S) \in Seq(Routes)
  BY <1>2
<1>4. ASSUME NEW k \in DOMAIN Ranked(S), NEW m \in DOMAIN Ranked(S),
             Ranked(S)[k] = Ranked(S)[m]
      PROVE  k = m
  <2>1. k \in Nat /\ m \in Nat
    BY <1>1, <1>2
  <2>2. Ranked(S)[k] \in Nat /\ Ranked(S)[m] \in Nat
    BY <1>1, <1>2
  <2>3. ~(k < m) /\ ~(m < k)
    BY <1>2, <1>4, <2>2
  <2> QED BY <2>1, <2>3
<1> QED BY <1>2, <1>3, <1>4 DEF Listed

(* New routes come behind the others.                                          *)
LEMMA ListedAppend ==
  ASSUME NEW D \in SUBSET Routes, NEW rows, Listed(rows, D),
         NEW S \in SUBSET Routes, S \cap D = {}
  PROVE  /\ Listed(rows \o Ranked(S), D \cup S)
         /\ Len(rows) <= Len(rows \o Ranked(S))
         /\ \A i \in DOMAIN rows : i \in DOMAIN (rows \o Ranked(S)) /\ (rows \o Ranked(S))[i] = rows[i]
<1> DEFINE new == Ranked(S)
<1>1. Listed(new, S)
  BY RankedListed
<1> HIDE DEF new
<1> DEFINE both == rows \o new
           n == Len(rows)
           m == Len(new)
<1>2. /\ rows \in Seq(Routes) /\ new \in Seq(Routes) /\ n \in Nat /\ m \in Nat
      /\ DOMAIN rows = 1 .. n /\ DOMAIN new = 1 .. m
  BY <1>1 DEF Listed
<1>3. /\ both \in Seq(Routes) /\ Len(both) = n + m /\ DOMAIN both = 1 .. n + m
      /\ \A i \in 1 .. n : both[i] = rows[i]
      /\ \A i \in n + 1 .. n + m : both[i] = new[i - n] /\ i - n \in 1 .. m
      /\ \A i \in 1 .. m : both[i + n] = new[i] /\ i + n \in n + 1 .. n + m
  <2>1. both \in Seq(Routes) /\ Len(both) = n + m
    BY <1>2
  <2>2. DOMAIN both = 1 .. n + m
    BY <2>1
  <2>3. \A i \in 1 .. n + m : both[i] = IF i <= n THEN rows[i] ELSE new[i - n]
    BY <1>2
  <2> QED BY <1>2, <2>1, <2>2, <2>3
<1> HIDE DEF both, n, m
<1>4. \A i \in 1 .. n + m : i \in 1 .. n \/ i \in n + 1 .. n + m
  BY <1>2
<1>5. \A i \in DOMAIN both : both[i] \in D \cup S
  BY <1>1, <1>2, <1>3, <1>4 DEF Listed
<1>6. \A x \in D \cup S : \E i \in DOMAIN both : both[i] = x
  <2>1. ASSUME NEW x \in D PROVE \E i \in DOMAIN both : both[i] = x
    <3>1. PICK i \in 1 .. n : rows[i] = x
      BY <1>2 DEF Listed
    <3>2. i \in DOMAIN both /\ both[i] = x
      BY <1>2, <1>3, <3>1
    <3> QED BY <3>2
  <2>2. ASSUME NEW x \in S PROVE \E i \in DOMAIN both : both[i] = x
    <3>1. PICK i \in 1 .. m : new[i] = x
      BY <1>1, <1>2 DEF Listed
    <3>2. i + n \in DOMAIN both /\ both[i + n] = x
      BY <1>2, <1>3, <3>1
    <3> QED BY <3>2
  <2> QED BY <2>1, <2>2
<1>7. ASSUME NEW i \in DOMAIN both, NEW j \in DOMAIN both, both[i] = both[j]
      PROVE  i = j
  <2>1. CASE i \in 1 .. n /\ j \in 1 .. n
    BY <1>2, <1>3, <1>7, <2>1 DEF Listed
  <2>2. CASE i \in n + 1 .. n + m /\ j \in n + 1 .. n + m
    <3>1. /\ both[i] = new[i - n] /\ both[j] = new[j - n]
          /\ i - n \in DOMAIN new /\ j - n \in DOMAIN new
      BY <1>2, <1>3, <2>2
    <3>2. i - n = j - n
      BY <1>1, <1>7, <3>1 DEF Listed
    <3> QED BY <1>2, <2>2, <3>2
  <2>3. CASE i \in 1 .. n /\ j \in n + 1 .. n + m
    <3>1. both[i] \in D /\ both[j] \in S
      BY <1>1, <1>2, <1>3, <2>3 DEF Listed
    <3> QED BY <1>7, <3>1
  <2>4. CASE j \in 1 .. n /\ i \in n + 1 .. n + m
    <3>1. both[j] \in D /\ both[i] \in S
      BY <1>1, <1>2, <1>3, <2>4 DEF Listed
    <3> QED BY <1>7, <3>1
  <2> QED BY <1>3, <1>4, <2>1, <2>2, <2>3, <2>4
<1>8. Listed(both, D \cup S)
  BY <1>3, <1>5, <1>6, <1>7 DEF Listed
<1>9. n <= Len(both) /\ \A i \in DOMAIN rows : i \in DOMAIN both /\ both[i] = rows[i]
  BY <1>2, <1>3
<1> QED BY <1>8, <1>9 DEF both, n, new

(* The rows that stay when some are dropped.                                    *)
LEMMA ListedDrop ==
  ASSUME NEW D \in SUBSET Routes, NEW rows, Listed(rows, D), NEW S
  PROVE  Listed(AtPlaces(rows, {i \in DOMAIN rows : rows[i] \notin S}), D \ S)
<1> DEFINE P == {i \in DOMAIN rows : rows[i] \notin S}
           left == AtPlaces(rows, P)
<1>1. rows \in Seq(Routes) /\ DOMAIN rows = 1 .. Len(rows) /\ Len(rows) \in Nat
  BY DEF Listed
<1>2. P \in SUBSET (DOMAIN rows) /\ P \in SUBSET Nat
  BY <1>1
<1>3. IsFiniteSet(P)
  <2>1. IsFiniteSet(1 .. Len(rows))
    BY <1>1, FS_Interval
  <2> QED BY <1>1, <1>2, <2>1, FS_Subset
<1>4. \A i \in P : rows[i] \in D \ S
  BY DEF Listed
<1>5. \A x \in D \ S : \E i \in P : rows[i] = x
  BY DEF Listed
<1>6. \A i, j \in P : rows[i] = rows[j] => i = j
  BY DEF Listed
<1> HIDE DEF P
<1>7. /\ left \in Seq(Routes)
      /\ \A k \in DOMAIN left : \E i \in P : left[k] = rows[i]
      /\ \A i \in P : \E k \in DOMAIN left : left[k] = rows[i]
  BY <1>1, <1>2, AtPlacesSeq
<1>8. ASSUME NEW k \in DOMAIN left, NEW m \in DOMAIN left, left[k] = left[m] PROVE k = m
  <2>1. DOMAIN left = 1 .. Cardinality(P) /\ left[k] = rows[Nth(P, k)] /\ left[m] = rows[Nth(P, m)]
    BY DEF AtPlaces
  <2>2. /\ Nth(P, k) \in P /\ Cardinality(Below(P, Nth(P, k))) = k - 1
        /\ Nth(P, m) \in P /\ Cardinality(Below(P, Nth(P, m))) = m - 1
    BY <1>2, <1>3, <2>1, NthPlace
  <2>3. Nth(P, k) = Nth(P, m)
    BY <1>6, <1>8, <2>1, <2>2
  <2>4. k \in Int /\ m \in Int
    BY <2>1
  <2> QED BY <2>2, <2>3, <2>4
<1>9. \A k \in DOMAIN left : left[k] \in D \ S
  BY <1>4, <1>7
<1>10. \A x \in D \ S : \E k \in DOMAIN left : left[k] = x
  BY <1>5, <1>7
<1>11. Listed(left, D \ S)
  BY <1>7, <1>8, <1>9, <1>10 DEF Listed
<1> QED BY <1>11 DEF P

(* Dropping nothing changes no row.                                             *)
LEMMA NothingDropped ==
  ASSUME NEW rows \in Seq(Routes), NEW S, \A i \in DOMAIN rows : rows[i] \notin S
  PROVE  AtPlaces(rows, {i \in DOMAIN rows : rows[i] \notin S}) = rows
<1> DEFINE n == Len(rows)
<1>1. DOMAIN rows = 1 .. n /\ n \in Nat /\ rows = [k \in 1 .. n |-> rows[k]]
  OBVIOUS
<1>2. {i \in DOMAIN rows : rows[i] \notin S} = 1 .. n
  BY <1>1
<1>3. IsFiniteSet(1 .. n) /\ Cardinality(1 .. n) = n
  BY <1>1, FS_Interval
<1>4. ASSUME NEW k \in 1 .. n PROVE Nth(1 .. n, k) = k
  <2>1. Below(1 .. n, k) = 1 .. k - 1
    BY <1>1 DEF Below
  <2>2. Cardinality(1 .. k - 1) = k - 1
    BY <1>1, FS_Interval
  <2>3. 1 .. n \in SUBSET Nat
    OBVIOUS
  <2> QED BY <1>3, <2>1, <2>2, <2>3, NthPlace
<1>5. AtPlaces(rows, 1 .. n) = [k \in 1 .. n |-> rows[k]]
  BY <1>3, <1>4 DEF AtPlaces
<1> QED BY <1>1, <1>2, <1>5

(* A row is overwritten by the last one, which goes.                            *)
LEMMA ListedSwap ==
  ASSUME NEW D \in SUBSET Routes, NEW rows, Listed(rows, D),
         NEW x \in D, NEW p \in DOMAIN rows, rows[p] = x
  PROVE  LET n == Len(rows)
             left == SubSeq([rows EXCEPT ![p] = rows[n]], 1, n - 1)
         IN  /\ Listed(left, D \ {x}) /\ n \in DOMAIN rows
             /\ DOMAIN left = 1 .. n - 1
             /\ \A i \in 1 .. n - 1 : left[i] = IF i = p THEN rows[n] ELSE rows[i]
<1> DEFINE n == Len(rows)
           moved == [rows EXCEPT ![p] = rows[n]]
           left == SubSeq(moved, 1, n - 1)
<1>1. /\ rows \in Seq(Routes) /\ DOMAIN rows = 1 .. n /\ n \in Nat /\ p \in 1 .. n /\ n \in 1 .. n
      /\ n >= 1
  BY DEF Listed
<1>2. moved \in Seq(Routes) /\ Len(moved) = n /\ \A i \in 1 .. n : moved[i] = IF i = p THEN rows[n] ELSE rows[i]
  BY <1>1
<1> HIDE DEF moved, n
<1>3. /\ left \in Seq(Routes) /\ DOMAIN left = 1 .. n - 1
      /\ \A i \in 1 .. n - 1 : left[i] = moved[i]
  <2>1. left = [i \in 1 .. n - 1 |-> moved[i]]
    BY <1>1, <1>2
  <2>2. \A i \in 1 .. n - 1 : i \in 1 .. n
    BY <1>1
  <2>3. \A i \in 1 .. n - 1 : moved[i] \in Routes
    BY <1>1, <1>2, <2>2
  <2> HIDE DEF left
  <2>4. left \in [1 .. n - 1 -> Routes] /\ n - 1 \in Nat
    BY <1>1, <2>1, <2>3
  <2>5. left \in Seq(Routes) /\ DOMAIN left = 1 .. n - 1
    BY <2>4
  <2>6. \A i \in 1 .. n - 1 : left[i] = moved[i]
    BY <2>1
  <2> QED BY <2>5, <2>6
<1> HIDE DEF left
<1>4. \A i \in 1 .. n - 1 : left[i] = (IF i = p THEN rows[n] ELSE rows[i]) /\ i \in 1 .. n /\ i # n
  BY <1>1, <1>2, <1>3
<1>5. /\ \A i \in 1 .. n : rows[i] \in D
      /\ \A i, j \in 1 .. n : rows[i] = rows[j] => i = j
      /\ \A y \in D : \E i \in 1 .. n : rows[i] = y
  BY <1>1 DEF Listed
<1>6. \A i \in 1 .. n - 1 : left[i] \in D /\ left[i] # x
  BY <1>1, <1>4, <1>5
<1>7. ASSUME NEW y \in D \ {x} PROVE \E i \in 1 .. n - 1 : left[i] = y
  <2>1. PICK i \in 1 .. n : rows[i] = y
    BY <1>5
  <2>2. i # p
    BY <2>1
  <2>3. CASE i = n
    <3>1. p \in 1 .. n - 1
      BY <1>1, <2>2, <2>3
    <3>2. left[p] = y
      BY <1>4, <2>1, <2>3, <3>1
    <3> QED BY <3>1, <3>2
  <2>4. CASE i # n
    <3>1. i \in 1 .. n - 1
      BY <1>1, <2>4
    <3>2. left[i] = y
      BY <1>4, <2>1, <2>2, <3>1
    <3> QED BY <3>1, <3>2
  <2> QED BY <2>3, <2>4
<1>8. ASSUME NEW i \in 1 .. n - 1, NEW j \in 1 .. n - 1, left[i] = left[j] PROVE i = j
  BY <1>1, <1>4, <1>5, <1>8
<1>9. Listed(left, D \ {x})
  BY <1>3, <1>6, <1>7, <1>8 DEF Listed
<1> QED BY <1>1, <1>3, <1>4, <1>9 DEF left, moved, n

(* Where the rows are.                                                         *)
LEMMA PositionsAre ==
  ASSUME NEW D \in SUBSET Routes, NEW rows, Listed(rows, D)
  PROVE  /\ DOMAIN Positions(rows) = D
         /\ Positions(rows) = [x \in D |-> Positions(rows)[x]]
         /\ \A x \in D : Positions(rows)[x] \in DOMAIN rows /\ rows[Positions(rows)[x]] = x
         /\ \A i \in DOMAIN rows : rows[i] \in D /\ Positions(rows)[rows[i]] = i
<1>1. ToSet(rows) = D
  BY ListedFacts
<1>2. Positions(rows) = [x \in D |-> CHOOSE i \in DOMAIN rows : rows[i] = x]
  BY <1>1 DEF Positions
<1>3. \A x \in D : Positions(rows)[x] \in DOMAIN rows /\ rows[Positions(rows)[x]] = x
  BY <1>2 DEF Listed
<1>4. \A i \in DOMAIN rows : rows[i] \in D /\ Positions(rows)[rows[i]] = i
  BY <1>3 DEF Listed
<1> QED BY <1>2, <1>3, <1>4

LEMMA PointedAt ==
  ASSUME NEW D \in SUBSET Routes, NEW rows, Listed(rows, D), NEW f, f = Positions(rows)
  PROVE  /\ DOMAIN f = D
         /\ \A x \in D : f[x] \in DOMAIN rows /\ rows[f[x]] = x
         /\ \A i \in DOMAIN rows : rows[i] \in D /\ f[rows[i]] = i
BY PositionsAre

(* f gives for every route of D the row it is in.                               *)
Points(f, rows, D) == DOMAIN f = D /\ \A y \in D : f[y] \in DOMAIN rows /\ rows[f[y]] = y

LEMMA PositionsPoint ==
  ASSUME NEW D \in SUBSET Routes, NEW rows, Listed(rows, D)
  PROVE  Points(Positions(rows), rows, D)
BY PositionsAre DEF Points

(* So positions are known by what they point at.                               *)
LEMMA PositionsKnown ==
  ASSUME NEW D \in SUBSET Routes, NEW rows, Listed(rows, D), NEW f,
         f = [x \in D |-> f[x]], \A x \in D : f[x] \in DOMAIN rows /\ rows[f[x]] = x
  PROVE  f = Positions(rows)
<1>1. /\ Positions(rows) = [x \in D |-> Positions(rows)[x]]
      /\ \A x \in D : Positions(rows)[x] \in DOMAIN rows /\ rows[Positions(rows)[x]] = x
  BY PositionsAre
<1>2. \A x \in D : f[x] = Positions(rows)[x]
  BY <1>1 DEF Listed
<1>3. [x \in D |-> f[x]] = [x \in D |-> Positions(rows)[x]]
  BY <1>2
<1> QED BY <1>1, <1>3

-----------------------------------------------------------------------------
(* The runtime document.                                                       *)

Wakes   == [kind : {"none", "contact", "ceremony", "report"}, route : Routes \cup {NoRoute}]
Runtime == [now : Nat, due : Partial, rows : Seq(Routes), held : SUBSET Routes, wake : Wakes,
            ack : {"none", "contact", "notice"}, theater : {"quiet", "engaged", "away"},
            dirty : BOOLEAN, owed : Partial]
Owners  == Ceremonies \cup Marches \cup Reviews

(* The registry is in shape: its order lists the routes it has instants for;   *)
(* only ceremonies and contacts sleep; nothing is owed that is registered.     *)
Doc(r) ==
    /\ r \in Runtime
    /\ Listed(r.rows, DOMAIN r.due)
    /\ r.held \subseteq DOMAIN r.due /\ r.held \subseteq Ceremonies \cup Contacts
    /\ r.wake.kind = "report" => r.wake.route = NoRoute
    /\ DOMAIN r.owed \subseteq Owners \ DOMAIN r.due
    /\ \A x \in DOMAIN r.owed : r.owed[x] <= r.now

(* Every live route falls due now or later.                                    *)
OnTime(r) == \A x \in Live(r) : r.due[x] >= r.now

(* The reconciliation comes before anything has been owed for its cadence; as  *)
(* long as it is not registered the clock stands.                              *)
Cadence(r) ==
    IF Recon \in DOMAIN r.due
    THEN /\ r.due[Recon] <= r.now + ReconcileEvery
         /\ \A x \in DOMAIN r.owed : r.due[Recon] <= r.owed[x] + ReconcileEvery
    ELSE \A x \in DOMAIN r.owed : r.owed[x] = r.now

(* s is r after the registry was worked on: neither clock nor wake moved.       *)
Follows(r, s) ==
    /\ Doc(s)
    /\ s.now = r.now /\ s.held = r.held /\ s.wake = r.wake
    /\ OnTime(r) => OnTime(s)
    /\ Cadence(r) => Cadence(s)
    /\ Recon \in DOMAIN r.due => Recon \in DOMAIN s.due

LEMMA FollowsTwice ==
  ASSUME NEW r, NEW s, NEW t, Follows(r, s), Follows(s, t)
  PROVE  Follows(r, t)
BY DEF Follows

LEMMA FollowsItself ==
  ASSUME NEW r, Doc(r)
  PROVE  Follows(r, r)
BY DEF Follows

LEMMA KindsApart ==
  /\ Recon \in Routes /\ NoRoute \notin Routes
  /\ Recon \notin Ceremonies /\ Recon \notin Marches /\ Recon \notin Companies
  /\ Recon \notin Arrivals /\ Recon \notin Reviews /\ Recon \notin Contacts
  /\ \A x \in Ceremonies : x \notin Marches /\ x \notin Companies /\ x \notin Arrivals
                             /\ x \notin Reviews /\ x \notin Contacts
  /\ \A x \in Contacts : x \notin Marches /\ x \notin Companies /\ x \notin Arrivals /\ x \notin Reviews
  /\ \A x \in Reviews : x \notin Marches /\ x \notin Companies /\ x \notin Arrivals
  /\ \A x \in Marches : x \notin Companies /\ x \notin Arrivals
  /\ \A x \in Companies : x \notin Arrivals
<1> DEFINE kinds == <<{Recon}, Ceremonies, Marches, Companies, Arrivals, Reviews, Contacts>>
<1>1. \A i, j \in 1 .. 7 : i # j => kinds[i] \cap kinds[j] = {}
  BY RankAssumption
<1>2. /\ kinds[1] = {Recon} /\ kinds[2] = Ceremonies /\ kinds[3] = Marches /\ kinds[4] = Companies
      /\ kinds[5] = Arrivals /\ kinds[6] = Reviews /\ kinds[7] = Contacts
  OBVIOUS
<1>3. /\ 1 \in 1 .. 7 /\ 2 \in 1 .. 7 /\ 3 \in 1 .. 7 /\ 4 \in 1 .. 7 /\ 5 \in 1 .. 7
      /\ 6 \in 1 .. 7 /\ 7 \in 1 .. 7
  OBVIOUS
<1> HIDE DEF kinds
<1>4. /\ {Recon} \cap Ceremonies = {} /\ {Recon} \cap Marches = {} /\ {Recon} \cap Companies = {}
      /\ {Recon} \cap Arrivals = {} /\ {Recon} \cap Reviews = {} /\ {Recon} \cap Contacts = {}
  BY <1>1, <1>2, <1>3
<1>5. /\ Ceremonies \cap Marches = {} /\ Ceremonies \cap Companies = {} /\ Ceremonies \cap Arrivals = {}
      /\ Ceremonies \cap Reviews = {} /\ Ceremonies \cap Contacts = {}
  BY <1>1, <1>2, <1>3
<1>6. /\ Contacts \cap Marches = {} /\ Contacts \cap Companies = {} /\ Contacts \cap Arrivals = {}
      /\ Contacts \cap Reviews = {}
  BY <1>1, <1>2, <1>3
<1>7. /\ Reviews \cap Marches = {} /\ Reviews \cap Companies = {} /\ Reviews \cap Arrivals = {}
      /\ Marches \cap Companies = {} /\ Marches \cap Arrivals = {} /\ Companies \cap Arrivals = {}
  BY <1>1, <1>2, <1>3
<1>8. Recon \in Routes /\ NoRoute \notin Routes
  <2>1. Routes \subseteq Nat
    BY RankAssumption
  <2> QED BY <2>1 DEF NoRoute, Routes
<1> QED BY <1>4, <1>5, <1>6, <1>7, <1>8

LEMMA KindsRoutes ==
  /\ Ceremonies \subseteq Routes /\ Marches \subseteq Routes /\ Companies \subseteq Routes
  /\ Arrivals \subseteq Routes /\ Reviews \subseteq Routes /\ Contacts \subseteq Routes
  /\ Owners \subseteq Routes /\ Recon \notin Owners
  /\ \A x \in Routes : \/ x = Recon \/ x \in Ceremonies \/ x \in Marches \/ x \in Companies
                       \/ x \in Arrivals \/ x \in Reviews \/ x \in Contacts
  /\ Longest \in Nat /\ Longest > 0 /\ ReconcileEvery \in Nat /\ ReconcileEvery > 0
  /\ Window \in Nat /\ Window > 0 /\ MaxTime \in Nat
  /\ \A x \in Companies \cup Reviews \cup Contacts : Every[x] \in Nat /\ Every[x] > 0
<1>1. Recon \notin Owners
  BY KindsApart DEF Owners
<1> QED BY <1>1, TimeAssumption DEF Routes, Owners

LEMMA DocFields ==
  ASSUME NEW r, Doc(r)
  PROVE  /\ r \in Runtime /\ r.now \in Nat /\ r.due \in Partial /\ r.owed \in Partial
         /\ DOMAIN r.due \in SUBSET Routes /\ DOMAIN r.owed \in SUBSET Routes
         /\ \A x \in DOMAIN r.due : x \in Routes /\ r.due[x] \in Nat
         /\ \A x \in DOMAIN r.owed : x \in Routes /\ r.owed[x] \in Nat /\ r.owed[x] <= r.now
         /\ r.rows \in Seq(Routes) /\ DOMAIN r.rows = 1 .. Len(r.rows) /\ Len(r.rows) \in Nat
         /\ r.held \in SUBSET Routes /\ Recon \notin r.held
         /\ Live(r) = DOMAIN r.due \ r.held
<1>1. r.now \in Nat /\ r.due \in Partial /\ r.owed \in Partial /\ r.rows \in Seq(Routes)
      /\ r.held \in SUBSET Routes /\ r \in Runtime
  BY DEF Doc, Runtime
<1>2. Recon \notin r.held
  BY KindsApart DEF Doc
<1> QED BY <1>1, <1>2, PartialIn DEF Doc, Live

(* A document with another registry.                                           *)
LEMMA Rewritten ==
  ASSUME NEW r \in Runtime, NEW due \in Partial, NEW rows \in Seq(Routes),
         NEW held \in SUBSET Routes, NEW owed \in Partial
  PROVE  /\ [r EXCEPT !.due = due, !.rows = rows, !.owed = owed] \in Runtime
         /\ [r EXCEPT !.due = due, !.rows = rows, !.held = held] \in Runtime
         /\ [r EXCEPT !.due = due, !.rows = rows] \in Runtime
         /\ [r EXCEPT !.due = due] \in Runtime
         /\ [r EXCEPT !.owed = owed] \in Runtime
BY DEF Runtime

LEMMA DueRewritten ==
  ASSUME NEW r \in Runtime, NEW due \in Partial
  PROVE  [r EXCEPT !.due = due] \in Runtime
BY DEF Runtime

-----------------------------------------------------------------------------
(* What the operators of the registry leave.                                   *)

LEMMA RegisterFollows ==
  ASSUME NEW r, Doc(r), NEW f \in Partial, DOMAIN f \cap DOMAIN r.due = {},
         \A x \in DOMAIN f : f[x] >= r.now,
         Recon \in DOMAIN f => f[Recon] = r.now + ReconcileEvery
  PROVE  LET s == Register(r, f)
         IN  /\ Follows(r, s)
             /\ s.rows = r.rows \o Ranked(DOMAIN f)
             /\ DOMAIN s.due = DOMAIN r.due \cup DOMAIN f
             /\ \A x \in DOMAIN r.due : s.due[x] = r.due[x]
             /\ \A x \in DOMAIN f : s.due[x] = f[x]
             /\ DOMAIN s.owed = DOMAIN r.owed \ DOMAIN f
<1> DEFINE due == Over(f, r.due)
           rows == r.rows \o Ranked(DOMAIN f)
           owed == Restrict(r.owed, DOMAIN r.owed \ DOMAIN f)
           s == [r EXCEPT !.due = due, !.rows = rows, !.owed = owed]
<1>1. Register(r, f) = s
  BY DEF Register
<1>2. /\ r \in Runtime /\ r.now \in Nat /\ r.due \in Partial /\ r.owed \in Partial
      /\ DOMAIN r.due \in SUBSET Routes /\ DOMAIN f \in SUBSET Routes /\ r.held \in SUBSET Routes
      /\ \A x \in DOMAIN r.owed : r.owed[x] \in Nat /\ r.owed[x] <= r.now
      /\ \A x \in DOMAIN r.due : r.due[x] \in Nat
      /\ ReconcileEvery \in Nat
  BY DocFields, PartialIn, KindsRoutes
<1>3. /\ due \in Partial /\ DOMAIN due = DOMAIN r.due \cup DOMAIN f
      /\ \A x \in DOMAIN f : due[x] = f[x]
      /\ \A x \in DOMAIN r.due : due[x] = r.due[x]
  <2>1. /\ due \in Partial /\ DOMAIN due = DOMAIN f \cup DOMAIN r.due
        /\ \A x \in DOMAIN f : due[x] = f[x]
        /\ \A x \in DOMAIN r.due \ DOMAIN f : due[x] = r.due[x]
    BY <1>2, OverPartial
  <2> QED BY <2>1
<1>4. Listed(rows, DOMAIN r.due \cup DOMAIN f)
  BY <1>2, ListedAppend DEF Doc
<1>5. /\ owed \in Partial /\ DOMAIN owed = DOMAIN r.owed \ DOMAIN f
      /\ \A x \in DOMAIN owed : owed[x] = r.owed[x]
  BY <1>2, RestrictPartial
<1> HIDE DEF due, rows, owed
<1>6. rows \in Seq(Routes)
  BY <1>4 DEF Listed
<1>7. s \in Runtime
  BY <1>2, <1>3, <1>5, <1>6, Rewritten
<1>8. /\ s.due = due /\ s.rows = rows /\ s.owed = owed /\ s.now = r.now /\ s.held = r.held
      /\ s.wake = r.wake
  BY <1>2 DEF Runtime
<1> HIDE DEF s
<1>9. Doc(s)
  BY <1>2, <1>3, <1>4, <1>5, <1>7, <1>8 DEF Doc
<1>10. OnTime(r) => OnTime(s)
  BY <1>3, <1>8 DEF OnTime, Live
<1>11. ASSUME Cadence(r) PROVE Cadence(s)
  <2>1. CASE Recon \in DOMAIN r.due
    BY <1>2, <1>3, <1>5, <1>8, <1>11, <2>1 DEF Cadence
  <2>2. CASE Recon \notin DOMAIN r.due /\ Recon \in DOMAIN f
    BY <1>2, <1>3, <1>5, <1>8, <1>11, <2>2 DEF Cadence
  <2>3. CASE Recon \notin DOMAIN r.due /\ Recon \notin DOMAIN f
    BY <1>2, <1>3, <1>5, <1>8, <1>11, <2>3 DEF Cadence
  <2> QED BY <2>1, <2>2, <2>3
<1>12. Follows(r, s)
  BY <1>3, <1>8, <1>9, <1>10, <1>11 DEF Follows
<1> QED BY <1>1, <1>3, <1>5, <1>8, <1>12 DEF rows

LEMMA Dropped ==
  ASSUME NEW r, Doc(r), NEW S, Recon \notin S
  PROVE  LET s == Drop(r, S)
         IN  /\ Doc(s) /\ s.now = r.now /\ s.wake = r.wake /\ s.held = r.held \ S
             /\ OnTime(r) => OnTime(s)
             /\ Cadence(r) => Cadence(s)
             /\ DOMAIN s.due = DOMAIN r.due \ S
             /\ \A x \in DOMAIN s.due : s.due[x] = r.due[x]
             /\ s.owed = r.owed
             /\ S \cap DOMAIN r.due = {} => s.rows = r.rows
<1> DEFINE due == Restrict(r.due, DOMAIN r.due \ S)
           rows == AtPlaces(r.rows, {i \in DOMAIN r.rows : r.rows[i] \notin S})
           held == r.held \ S
           s == [r EXCEPT !.due = due, !.rows = rows, !.held = held]
<1>1. Drop(r, S) = s
  BY DEF Drop
<1>2. /\ r \in Runtime /\ r.due \in Partial /\ DOMAIN r.due \in SUBSET Routes
      /\ r.held \in SUBSET Routes /\ r.owed \in Partial /\ Listed(r.rows, DOMAIN r.due)
      /\ held \in SUBSET r.held /\ r.rows \in Seq(Routes)
  BY DocFields DEF Doc
<1>3. /\ due \in Partial /\ DOMAIN due = DOMAIN r.due \ S
      /\ \A x \in DOMAIN due : due[x] = r.due[x]
  BY <1>2, RestrictPartial
<1>4. Listed(rows, DOMAIN r.due \ S)
  BY <1>2, ListedDrop
<1>5. ASSUME S \cap DOMAIN r.due = {} PROVE rows = r.rows
  <2>1. \A i \in DOMAIN r.rows : r.rows[i] \notin S
    BY <1>2, <1>5 DEF Listed
  <2> QED BY <1>2, <2>1, NothingDropped
<1> HIDE DEF due, rows
<1>6. rows \in Seq(Routes)
  BY <1>4 DEF Listed
<1>7. s \in Runtime
  BY <1>2, <1>3, <1>6, Rewritten
<1>8. /\ s.due = due /\ s.rows = rows /\ s.owed = r.owed /\ s.now = r.now /\ s.held = r.held \ S
      /\ s.wake = r.wake
  BY <1>2 DEF Runtime
<1> HIDE DEF s
<1>9. Doc(s)
  BY <1>2, <1>3, <1>4, <1>7, <1>8 DEF Doc
<1>10. OnTime(r) => OnTime(s)
  BY <1>3, <1>8 DEF OnTime, Live
<1>11. Cadence(r) => Cadence(s)
  BY <1>3, <1>8 DEF Cadence
<1> QED BY <1>1, <1>3, <1>5, <1>8, <1>9, <1>10, <1>11

LEMMA DropFollows ==
  ASSUME NEW r, Doc(r), NEW S, Recon \notin S, S \cap r.held = {}
  PROVE  LET s == Drop(r, S)
         IN  /\ Follows(r, s) /\ DOMAIN s.due = DOMAIN r.due \ S
             /\ \A x \in DOMAIN s.due : s.due[x] = r.due[x]
             /\ s.owed = r.owed
             /\ S \cap DOMAIN r.due = {} => s.rows = r.rows
<1> DEFINE s == Drop(r, S)
<1>1. /\ Doc(s) /\ s.now = r.now /\ s.wake = r.wake /\ s.held = r.held \ S
      /\ OnTime(r) => OnTime(s)
      /\ Cadence(r) => Cadence(s)
      /\ DOMAIN s.due = DOMAIN r.due \ S
      /\ \A x \in DOMAIN s.due : s.due[x] = r.due[x]
      /\ s.owed = r.owed
      /\ S \cap DOMAIN r.due = {} => s.rows = r.rows
  BY Dropped
<1> HIDE DEF s
<1>2. Follows(r, s)
  BY <1>1 DEF Follows
<1> QED BY <1>1, <1>2 DEF s

LEMMA OweFollows ==
  ASSUME NEW r, Doc(r), NEW S \in SUBSET (Owners \ DOMAIN r.due)
  PROVE  LET s == Owe(r, S)
         IN  Follows(r, s) /\ s.due = r.due /\ s.rows = r.rows /\ DOMAIN s.owed = DOMAIN r.owed \cup S
<1> DEFINE new == [x \in S |-> r.now]
           owed == Over(new, r.owed)
           s == [r EXCEPT !.owed = owed]
<1>1. Owe(r, S) = s
  BY DEF Owe
<1>2. /\ r \in Runtime /\ r.now \in Nat /\ r.owed \in Partial /\ ReconcileEvery \in Nat
      /\ \A x \in DOMAIN r.owed : r.owed[x] \in Nat /\ r.owed[x] <= r.now
      /\ S \in SUBSET Routes
  BY DocFields, KindsRoutes
<1>3. new \in Partial /\ DOMAIN new = S /\ \A x \in S : new[x] = r.now
  <2>1. new \in [S -> Nat]
    BY <1>2
  <2> QED BY <1>2, <2>1, PartialOut
<1> HIDE DEF new
<1>4. /\ owed \in Partial /\ DOMAIN owed = DOMAIN r.owed \cup S
      /\ \A x \in S : owed[x] = r.now
      /\ \A x \in DOMAIN r.owed \ S : owed[x] = r.owed[x]
  <2>1. /\ owed \in Partial /\ DOMAIN owed = DOMAIN new \cup DOMAIN r.owed
        /\ \A x \in DOMAIN new : owed[x] = new[x]
        /\ \A x \in DOMAIN r.owed \ DOMAIN new : owed[x] = r.owed[x]
    BY <1>2, <1>3, OverPartial
  <2> QED BY <1>3, <2>1
<1> HIDE DEF owed
<1>5. s \in Runtime
  BY <1>2, <1>4, Rewritten, DocFields
<1>6. /\ s.due = r.due /\ s.rows = r.rows /\ s.owed = owed /\ s.now = r.now /\ s.held = r.held
      /\ s.wake = r.wake
  BY <1>2 DEF Runtime
<1> HIDE DEF s
<1>7. \A x \in DOMAIN owed : owed[x] <= r.now /\ x \in Owners \ DOMAIN r.due
  BY <1>2, <1>4 DEF Doc
<1>8. Doc(s)
  BY <1>5, <1>6, <1>7 DEF Doc
<1>9. OnTime(r) => OnTime(s)
  BY <1>6 DEF OnTime, Live
<1>10. Cadence(r) => Cadence(s)
  BY <1>2, <1>4, <1>6 DEF Cadence
<1>11. Follows(r, s)
  BY <1>6, <1>8, <1>9, <1>10 DEF Follows
<1> QED BY <1>1, <1>4, <1>6, <1>11

LEMMA EnsureFollows ==
  ASSUME NEW r, Doc(r)
  PROVE  Follows(r, EnsureRecon(r)) /\ Recon \in DOMAIN EnsureRecon(r).due
<1>1. CASE Recon \in DOMAIN r.due
  BY <1>1, FollowsItself DEF EnsureRecon
<1>2. CASE Recon \notin DOMAIN r.due
  <2> DEFINE f == [x \in {Recon} |-> r.now + ReconcileEvery]
  <2>1. r.now \in Nat /\ ReconcileEvery \in Nat /\ {Recon} \in SUBSET Routes
    BY DocFields, KindsRoutes, KindsApart
  <2>2. DOMAIN f = {Recon} /\ f[Recon] = r.now + ReconcileEvery /\ f \in [{Recon} -> Nat]
    BY <2>1
  <2>3. f \in Partial
    BY <2>1, <2>2, PartialOut
  <2>4. EnsureRecon(r) = Register(r, f)
    BY <1>2 DEF EnsureRecon
  <2> HIDE DEF f
  <2>5. /\ DOMAIN f \cap DOMAIN r.due = {} /\ \A x \in DOMAIN f : f[x] >= r.now
        /\ Recon \in DOMAIN f => f[Recon] = r.now + ReconcileEvery
    BY <1>2, <2>1, <2>2
  <2>6. Follows(r, Register(r, f)) /\ DOMAIN Register(r, f).due = DOMAIN r.due \cup DOMAIN f
    BY <2>3, <2>5, RegisterFollows
  <2> QED BY <2>2, <2>4, <2>6
<1> QED BY <1>1, <1>2

LEMMA InstantsIn ==
  ASSUME NEW I, NEW f \in Instants(I)
  PROVE  DOMAIN f = DOMAIN I /\ f = [x \in DOMAIN f |-> f[x]] /\ \A x \in DOMAIN I : f[x] \in I[x]
BY DEF Instants

LEMMA FirstDueIn ==
  ASSUME NEW r, r.now \in Nat, NEW x \in Owners \cup Companies \cup Arrivals, NEW t \in FirstDue(r, x)
  PROVE  t \in Nat /\ t >= r.now /\ (x \notin Ceremonies => t > r.now)
<1>1. /\ Longest \in Nat /\ Longest > 0
      /\ x \in Companies \cup Reviews => Every[x] \in Nat /\ Every[x] > 0
  BY KindsRoutes
<1>2. CASE x \in Ceremonies
  <2>1. FirstDue(r, x) = r.now .. r.now + Longest
    BY <1>2, KindsApart DEF FirstDue
  <2> QED BY <1>1, <1>2, <2>1
<1>3. CASE x \in Marches \cup Arrivals
  <2>1. FirstDue(r, x) = r.now + 1 .. r.now + Longest
    BY <1>3, KindsApart DEF FirstDue
  <2> QED BY <1>1, <2>1
<1>4. CASE x \in Companies
  <2>1. FirstDue(r, x) = r.now + 1 .. r.now + Every[x]
    BY <1>4, KindsApart DEF FirstDue
  <2> QED BY <1>1, <1>4, <2>1
<1>5. CASE x \in Reviews
  <2>1. FirstDue(r, x) = {r.now + Every[x]}
    BY <1>5, KindsApart DEF FirstDue
  <2> QED BY <1>1, <1>5, <2>1
<1> QED BY <1>2, <1>3, <1>4, <1>5 DEF Owners

(* First instants of some owners, companies or arrivals.                        *)
LEMMA FirstDuesIn ==
  ASSUME NEW r, Doc(r), NEW S \in SUBSET (Owners \cup Companies \cup Arrivals),
         NEW f \in FirstDues(r, S)
  PROVE  /\ f \in Partial /\ DOMAIN f = S /\ Recon \notin S
         /\ \A x \in S : f[x] >= r.now /\ (x \notin Ceremonies => f[x] > r.now)
<1> DEFINE I == [x \in S |-> FirstDue(r, x)]
<1>1. f \in Instants(I) /\ DOMAIN I = S /\ \A x \in S : I[x] = FirstDue(r, x)
  BY DEF FirstDues
<1> HIDE DEF I
<1>2. DOMAIN f = S /\ f = [x \in S |-> f[x]] /\ \A x \in S : f[x] \in FirstDue(r, x)
  BY <1>1, InstantsIn
<1>3. r.now \in Nat /\ S \in SUBSET Routes /\ Recon \notin S
  BY DocFields, KindsRoutes, KindsApart
<1>4. \A x \in S : f[x] \in Nat /\ f[x] >= r.now /\ (x \notin Ceremonies => f[x] > r.now)
  BY <1>2, <1>3, FirstDueIn
<1>5. f \in [S -> Nat]
  BY <1>2, <1>4
<1> QED BY <1>2, <1>3, <1>4, <1>5, PartialOut

(* A registry that is brought up to date with its owners: gone are marches,     *)
(* new are owed ones among S.                                                   *)
LEMMA SyncedFollows ==
  ASSUME NEW r, Doc(r), NEW S, NEW s \in Synced(r, S)
  PROVE  /\ Follows(r, s)
         /\ DOMAIN s.owed = DOMAIN r.owed \ S
         /\ \E gone \in SUBSET (Marches \cap DOMAIN r.due) :
               LET new == DOMAIN r.owed \cap S
               IN  /\ DOMAIN s.due = (DOMAIN r.due \ gone) \cup new
                   /\ \A x \in DOMAIN r.due \ gone : s.due[x] = r.due[x]
                   /\ \A x \in new : x \notin Ceremonies => s.due[x] > s.now
                   /\ gone = {} => s.rows = r.rows \o Ranked(new)
<1>1. PICK gone \in SUBSET (Marches \cap DOMAIN r.due) :
        \E f \in FirstDues(r, DOMAIN r.owed \cap S) : s = Register(Drop(r, gone), f)
  BY DEF Synced
<1>2. PICK f \in FirstDues(r, DOMAIN r.owed \cap S) : s = Register(Drop(r, gone), f)
  BY <1>1
<1> DEFINE new == DOMAIN r.owed \cap S
           d == Drop(r, gone)
<1>3. new \in SUBSET Owners /\ new \cap DOMAIN r.due = {}
  BY DEF Doc
<1>4. /\ f \in Partial /\ DOMAIN f = new /\ Recon \notin new
      /\ \A x \in new : f[x] >= r.now /\ (x \notin Ceremonies => f[x] > r.now)
  BY <1>2, <1>3, FirstDuesIn
<1>5. Recon \notin gone /\ gone \cap r.held = {}
  BY <1>1, KindsApart DEF Doc
<1>6. /\ Follows(r, d) /\ DOMAIN d.due = DOMAIN r.due \ gone
      /\ \A x \in DOMAIN d.due : d.due[x] = r.due[x]
      /\ d.owed = r.owed
      /\ gone = {} => d.rows = r.rows
  BY <1>5, DropFollows
<1>7. s = Register(d, f)
  BY <1>2
<1> HIDE DEF d, new
<1>8. Doc(d) /\ d.now = r.now
  BY <1>6 DEF Follows
<1>9. /\ DOMAIN f \cap DOMAIN d.due = {} /\ \A x \in DOMAIN f : f[x] >= d.now
      /\ Recon \in DOMAIN f => f[Recon] = d.now + ReconcileEvery
  BY <1>3, <1>4, <1>6, <1>8
<1>10. /\ Follows(d, s) /\ s.rows = d.rows \o Ranked(new)
       /\ DOMAIN s.due = DOMAIN d.due \cup new
       /\ \A x \in DOMAIN d.due : s.due[x] = d.due[x]
       /\ \A x \in new : s.due[x] = f[x]
       /\ DOMAIN s.owed = DOMAIN d.owed \ new
  <2>1. /\ Follows(d, Register(d, f))
        /\ Register(d, f).rows = d.rows \o Ranked(DOMAIN f)
        /\ DOMAIN Register(d, f).due = DOMAIN d.due \cup DOMAIN f
        /\ \A x \in DOMAIN d.due : Register(d, f).due[x] = d.due[x]
        /\ \A x \in DOMAIN f : Register(d, f).due[x] = f[x]
        /\ DOMAIN Register(d, f).owed = DOMAIN d.owed \ DOMAIN f
    BY <1>4, <1>8, <1>9, RegisterFollows
  <2> QED BY <1>4, <1>7, <2>1
<1>11. Follows(r, s) /\ s.now = r.now
  BY <1>6, <1>8, <1>10, FollowsTwice DEF Follows
<1>12. DOMAIN s.owed = DOMAIN r.owed \ S
  BY <1>6, <1>10 DEF new
<1>13. /\ DOMAIN s.due = (DOMAIN r.due \ gone) \cup new
       /\ \A x \in DOMAIN r.due \ gone : s.due[x] = r.due[x]
       /\ \A x \in new : x \notin Ceremonies => s.due[x] > s.now
       /\ gone = {} => s.rows = r.rows \o Ranked(new)
  BY <1>4, <1>6, <1>10, <1>11
<1> QED BY <1>1, <1>11, <1>12, <1>13 DEF new

LEMMA RetimedFollows ==
  ASSUME NEW r, Doc(r), NEW f \in Partial, DOMAIN f \subseteq DOMAIN r.due, Recon \notin DOMAIN f,
         \A x \in DOMAIN f : f[x] >= r.now
  PROVE  LET s == [r EXCEPT !.due = Over(f, r.due)]
         IN  Follows(r, s) /\ s.owed = r.owed
<1> DEFINE due == Over(f, r.due)
           s == [r EXCEPT !.due = due]
<1>1. r \in Runtime /\ r.due \in Partial /\ r.rows \in Seq(Routes) /\ r.held \in SUBSET Routes
      /\ r.owed \in Partial
  BY DocFields
<1>2. /\ due \in Partial /\ DOMAIN due = DOMAIN f \cup DOMAIN r.due
      /\ \A x \in DOMAIN f : due[x] = f[x]
      /\ \A x \in DOMAIN r.due \ DOMAIN f : due[x] = r.due[x]
  BY <1>1, OverPartial
<1>3. DOMAIN due = DOMAIN r.due
  BY <1>2
<1> HIDE DEF due
<1>4. s \in Runtime
  BY <1>1, <1>2, Rewritten
<1>5. /\ s.due = due /\ s.rows = r.rows /\ s.owed = r.owed /\ s.now = r.now /\ s.held = r.held
      /\ s.wake = r.wake
  BY <1>1 DEF Runtime
<1> HIDE DEF s
<1>6. Doc(s)
  BY <1>3, <1>4, <1>5 DEF Doc
<1>7. OnTime(r) => OnTime(s)
  BY <1>2, <1>3, <1>5 DEF OnTime, Live
<1>8. Cadence(r) => Cadence(s)
  BY <1>2, <1>3, <1>5 DEF Cadence
<1>9. Follows(r, s) /\ s.owed = r.owed
  BY <1>3, <1>5, <1>6, <1>7, <1>8 DEF Follows
<1> QED BY <1>9 DEF s, due

LEMMA ContractedFollows ==
  ASSUME NEW r, Doc(r), NEW s \in Contracted(r)
  PROVE  Follows(r, s) /\ s.owed = r.owed
<1> DEFINE kept(d) == Companies \cap DOMAIN d.due
           until(d, x) == IF d.due[x] > d.now THEN d.due[x] ELSE d.now + Every[x]
           I(d) == [x \in kept(d) |-> d.now + 1 .. until(d, x)]
<1>1. PICK gone \in SUBSET (Companies \cap DOMAIN r.due) :
        \E f \in Instants(I(Drop(r, gone))) :
           s = [Drop(r, gone) EXCEPT !.due = Over(f, Drop(r, gone).due)]
  BY DEF Contracted
<1> DEFINE d == Drop(r, gone)
<1>2. Recon \notin gone /\ gone \cap r.held = {}
  BY <1>1, KindsApart DEF Doc
<1>3. Follows(r, d) /\ d.owed = r.owed
  BY <1>2, DropFollows
<1>4. PICK f \in Instants(I(d)) : s = [d EXCEPT !.due = Over(f, d.due)]
  BY <1>1
<1> HIDE DEF d
<1>5. Doc(d) /\ d.now \in Nat /\ \A x \in DOMAIN d.due : d.due[x] \in Nat
  BY <1>3, DocFields DEF Follows
<1>6. kept(d) \in SUBSET Routes /\ kept(d) \subseteq DOMAIN d.due /\ Recon \notin kept(d)
  BY KindsApart, KindsRoutes
<1>7. DOMAIN f = kept(d) /\ f = [x \in DOMAIN f |-> f[x]]
      /\ \A x \in kept(d) : f[x] \in d.now + 1 .. until(d, x)
  <2>1. DOMAIN I(d) = kept(d) /\ \A x \in kept(d) : I(d)[x] = d.now + 1 .. until(d, x)
    OBVIOUS
  <2> HIDE DEF I
  <2>2. DOMAIN f = DOMAIN I(d) /\ f = [x \in DOMAIN f |-> f[x]] /\ \A x \in DOMAIN I(d) : f[x] \in I(d)[x]
    BY <1>4, InstantsIn
  <2> QED BY <2>1, <2>2
<1>8. \A x \in kept(d) : until(d, x) \in Nat
  BY <1>5, <1>6, KindsRoutes
<1> HIDE DEF until
<1>9. \A x \in kept(d) : f[x] \in Nat /\ f[x] >= d.now
  BY <1>5, <1>7, <1>8
<1> HIDE DEF kept
<1>10. f \in Partial
  <2>1. f \in [kept(d) -> Nat]
    BY <1>7, <1>9
  <2> QED BY <1>6, <2>1, PartialOut
<1>11. Follows(d, s) /\ s.owed = d.owed
  <2>1. DOMAIN f \subseteq DOMAIN d.due /\ Recon \notin DOMAIN f /\ \A x \in DOMAIN f : f[x] >= d.now
    BY <1>6, <1>7, <1>9
  <2> QED BY <1>4, <1>5, <1>10, <2>1, RetimedFollows
<1> QED BY <1>3, <1>11, FollowsTwice

(* The flags of a document say nothing about its registry.                      *)
LEMMA FlagFollows ==
  ASSUME NEW r, Doc(r), NEW dirty \in BOOLEAN
  PROVE  LET s == [r EXCEPT !.dirty = dirty]
         IN  Follows(r, s) /\ s.due = r.due /\ s.rows = r.rows /\ s.owed = r.owed
<1> DEFINE s == [r EXCEPT !.dirty = dirty]
<1>1. r \in Runtime
  BY DEF Doc
<1>2. s \in Runtime
  BY <1>1 DEF Runtime
<1>3. /\ s.due = r.due /\ s.rows = r.rows /\ s.owed = r.owed /\ s.now = r.now /\ s.held = r.held
      /\ s.wake = r.wake
  BY <1>1 DEF Runtime
<1> HIDE DEF s
<1>4. Follows(r, s)
  BY <1>2, <1>3 DEF Follows, Doc, OnTime, Live, Cadence
<1> QED BY <1>3, <1>4 DEF s

LEMMA TheaterFollows ==
  ASSUME NEW r, Doc(r), NEW theater \in {"quiet", "engaged", "away"},
         NEW ack \in {"none", "contact", "notice"},
         NEW s, s = [r EXCEPT !.theater = theater, !.ack = ack]
  PROVE  Follows(r, s)
<1>1. r \in Runtime
  BY DEF Doc
<1>2. s \in Runtime
  BY <1>1 DEF Runtime
<1>3. /\ s.due = r.due /\ s.rows = r.rows /\ s.owed = r.owed /\ s.now = r.now /\ s.held = r.held
      /\ s.wake = r.wake
  BY <1>1 DEF Runtime
<1>4. Follows(r, s)
  BY <1>2, <1>3 DEF Follows, Doc, OnTime, Live, Cadence
<1> QED BY <1>4

LEMMA ReconciledFollows ==
  ASSUME NEW r, Doc(r), NEW s \in Reconciled(r)
  PROVE  Follows(r, s) /\ DOMAIN s.owed = {} /\ Recon \in DOMAIN s.due
<1>1. PICK c \in Contracted(EnsureRecon(r)) : \E t \in Synced(c, Routes) : s = [t EXCEPT !.dirty = FALSE]
  BY DEF Reconciled
<1>2. PICK t \in Synced(c, Routes) : s = [t EXCEPT !.dirty = FALSE]
  BY <1>1
<1>3. Follows(r, EnsureRecon(r)) /\ Recon \in DOMAIN EnsureRecon(r).due
  BY EnsureFollows
<1>4. Doc(EnsureRecon(r))
  BY <1>3 DEF Follows
<1>5. Follows(EnsureRecon(r), c)
  BY <1>1, <1>4, ContractedFollows
<1>6. Doc(c)
  BY <1>5 DEF Follows
<1>7. Follows(c, t) /\ DOMAIN t.owed = DOMAIN c.owed \ Routes /\ DOMAIN c.owed \in SUBSET Routes
  <2>1. Follows(c, t) /\ DOMAIN t.owed = DOMAIN c.owed \ Routes
    BY <1>2, <1>6, SyncedFollows, Zenon
  <2>2. DOMAIN c.owed \in SUBSET Routes
    BY <1>6, DocFields
  <2> QED BY <2>1, <2>2
<1>8. Follows(t, s) /\ s.owed = t.owed
  <2>1. Doc(t) /\ FALSE \in BOOLEAN
    BY <1>7 DEF Follows
  <2> QED BY <1>2, <2>1, FlagFollows
<1>9. Follows(r, s)
  <2>1. Follows(r, c)
    BY <1>3, <1>5, FollowsTwice
  <2>2. Follows(r, t)
    BY <1>7, <2>1, FollowsTwice
  <2> QED BY <1>8, <2>2, FollowsTwice
<1>10. Recon \in DOMAIN s.due
  BY <1>3, <1>5, <1>7, <1>8 DEF Follows
<1> QED BY <1>7, <1>8, <1>9, <1>10

LEMMA PreparedFollows ==
  ASSUME NEW r, Doc(r), NEW p \in Prepared(r)
  PROVE  Follows(r, p) /\ Recon \in DOMAIN p.due
<1>1. PICK s \in Synced(EnsureRecon(r), Marches \cup Ceremonies) :
        p \in (IF s.dirty THEN Reconciled(s) ELSE {s})
  BY DEF Prepared
<1>2. Follows(r, EnsureRecon(r)) /\ Recon \in DOMAIN EnsureRecon(r).due
  BY EnsureFollows
<1>3. Follows(EnsureRecon(r), s)
  <2>1. Doc(EnsureRecon(r))
    BY <1>2 DEF Follows
  <2> QED BY <1>1, <2>1, SyncedFollows
<1>4. Follows(r, s) /\ Recon \in DOMAIN s.due /\ Doc(s)
  <2>1. Follows(r, s)
    BY <1>2, <1>3, FollowsTwice
  <2> QED BY <1>2, <1>3, <2>1 DEF Follows
<1>5. CASE p \in Reconciled(s)
  <2>1. Follows(s, p) /\ Recon \in DOMAIN p.due
    BY <1>4, <1>5, ReconciledFollows
  <2> QED BY <1>4, <2>1, FollowsTwice
<1>6. CASE p = s
  BY <1>4, <1>6
<1> QED BY <1>1, <1>5, <1>6

-----------------------------------------------------------------------------
(* The wake.                                                                   *)

(* s is r after the player answered: nothing sleeps that was not asked about.   *)
Answers(r, s) ==
    /\ Doc(s) /\ s.held = Asked(s) /\ s.now = r.now
    /\ OnTime(r) => OnTime(s)
    /\ Cadence(r) => Cadence(s)
    /\ Recon \in DOMAIN r.due => Recon \in DOMAIN s.due

LEMMA AwakeRuntime ==
  ASSUME NEW r \in Runtime, NEW due \in Partial, NEW ack \in {"none", "contact", "notice"},
         NEW held \in SUBSET Routes
  PROVE  /\ [r EXCEPT !.due = due, !.held = held, !.wake = NoWake, !.ack = ack] \in Runtime
         /\ [r EXCEPT !.due = due, !.held = held, !.wake = NoWake, !.ack = ack, !.theater = "away"]
               \in Runtime
         /\ [r EXCEPT !.wake = NoWake, !.ack = ack] \in Runtime
<1>1. NoWake \in Wakes
  BY DEF NoWake, Wakes
<1> QED BY <1>1 DEF Runtime

(* A document in which the contact is released, whatever its flags are.         *)
LEMMA ReleasedAnswers ==
  ASSUME NEW r, Doc(r), r.held = Asked(r), r.wake.kind = "contact",
         NEW s \in Runtime, s.now = r.now, s.rows = r.rows, s.owed = r.owed, s.wake = NoWake,
         s.held = r.held \ {r.wake.route},
         s.due = [r.due EXCEPT ![r.wake.route] = r.now + 1]
  PROVE  Answers(r, s) /\ s.held = {}
<1> DEFINE w == r.wake.route
<1>1. r.held = {w} /\ w \in DOMAIN r.due /\ w # Recon /\ s.held = {}
  BY DocFields DEF Asked, Doc
<1>2. r.due \in Partial /\ r.now \in Nat /\ \A x \in DOMAIN r.due : r.due[x] \in Nat
  BY DocFields
<1>3. /\ DOMAIN s.due = DOMAIN r.due /\ s.due[w] = r.now + 1
      /\ \A x \in DOMAIN r.due : x # w => s.due[x] = r.due[x]
  BY <1>1, <1>2
<1> HIDE DEF w
<1>4. Asked(s) = {} /\ s.wake.kind # "report"
  BY DEF Asked, NoWake
<1>5. Doc(s)
  BY <1>1, <1>3, <1>4 DEF Doc
<1>6. OnTime(r) => OnTime(s)
  <2> SUFFICES ASSUME OnTime(r), NEW x \in DOMAIN s.due PROVE s.due[x] >= s.now
    BY DEF OnTime, Live
  <2>1. CASE x = w
    BY <1>2, <1>3, <2>1
  <2>2. CASE x # w
    <3>1. x \in DOMAIN r.due \ r.held
      BY <1>1, <1>3, <2>2
    <3> QED BY <1>3, <2>2, <3>1 DEF OnTime, Live
  <2> QED BY <2>1, <2>2
<1>7. Cadence(r) => Cadence(s)
  BY <1>1, <1>3 DEF Cadence
<1> QED BY <1>1, <1>3, <1>4, <1>5, <1>6, <1>7 DEF Answers

(* A ceremony that is over, or a report that was read.                          *)
LEMMA OverAnswers ==
  ASSUME NEW r, Doc(r), r.held = Asked(r), r.wake.kind \in {"ceremony", "report"},
         NEW ack \in {"none", "contact", "notice"}
  PROVE  LET s == [Drop(r, {r.wake.route}) EXCEPT !.wake = NoWake, !.ack = ack]
         IN  Answers(r, s) /\ s.held = {}
<1> DEFINE w == r.wake.route
           d == Drop(r, {w})
           s == [d EXCEPT !.wake = NoWake, !.ack = ack]
<1>1. w # Recon
  BY DocFields, KindsApart DEF Asked, Doc
<1>2. /\ Doc(d) /\ d.now = r.now /\ d.held = r.held \ {w}
      /\ OnTime(r) => OnTime(d)
      /\ Cadence(r) => Cadence(d)
      /\ DOMAIN d.due = DOMAIN r.due \ {w}
  BY <1>1, Dropped
<1>3. d.held = {}
  BY <1>2 DEF Asked
<1> HIDE DEF d, w
<1>4. d \in Runtime
  BY <1>2 DEF Doc
<1>5. s \in Runtime
  BY <1>4, AwakeRuntime DEF Runtime
<1>6. /\ s.due = d.due /\ s.rows = d.rows /\ s.owed = d.owed /\ s.now = d.now /\ s.held = d.held
      /\ s.wake = NoWake
  BY <1>4 DEF Runtime
<1> HIDE DEF s
<1>7. Asked(s) = {} /\ s.wake.kind # "report"
  BY <1>6 DEF Asked, NoWake
<1>8. Doc(s)
  BY <1>2, <1>5, <1>6, <1>7 DEF Doc
<1>9. (OnTime(d) => OnTime(s)) /\ (Cadence(d) => Cadence(s))
  BY <1>6 DEF OnTime, Live, Cadence
<1>10. Answers(r, s) /\ s.held = {}
  BY <1>1, <1>2, <1>3, <1>6, <1>7, <1>8, <1>9 DEF Answers
<1> QED BY <1>10 DEF s, d, w

LEMMA UnansweredAnswers ==
  ASSUME NEW r, Doc(r), r.held = Asked(r)
  PROVE  Answers(r, r)
BY DEF Answers

LEMMA ResumedAnswers ==
  ASSUME NEW r, Doc(r), r.held = Asked(r)
  PROVE  Answers(r, Resumed(r)) /\ Resumed(r).held = {} /\ Asked(Resumed(r)) = {}
<1> DEFINE s == Resumed(r)
<1>1. CASE r.wake.kind = "contact"
  <2> DEFINE w == r.wake.route
             due == [r.due EXCEPT ![w] = r.now + 1]
             held == r.held \ {w}
             t == [r EXCEPT !.due = due, !.held = held, !.wake = NoWake, !.ack = "contact"]
  <2>1. r \in Runtime /\ r.due \in Partial /\ r.held \in SUBSET Routes /\ r.now \in Nat
    BY DocFields
  <2>2. w \in DOMAIN r.due
    BY <1>1 DEF Asked, Doc
  <2>3. due \in Partial
    BY <2>1, <2>2, OneMore
  <2>4. Resumed(r) = t
    BY <1>1, <2>1 DEF Resumed, Runtime
  <2> HIDE DEF due, held
  <2>5. t \in Runtime
    BY <2>1, <2>3, AwakeRuntime DEF held
  <2>6. /\ t.due = due /\ t.rows = r.rows /\ t.owed = r.owed /\ t.now = r.now /\ t.held = held
        /\ t.wake = NoWake
    BY <2>1 DEF Runtime
  <2> HIDE DEF t
  <2>7. Answers(r, t) /\ t.held = {}
    BY <1>1, <2>5, <2>6, ReleasedAnswers DEF due, held
  <2> QED BY <2>4, <2>7 DEF Answers
<1>2. CASE r.wake.kind \in {"ceremony", "report"}
  <2>1. Resumed(r) = [Drop(r, {r.wake.route}) EXCEPT !.wake = NoWake, !.ack = "notice"]
    BY <1>2 DEF Resumed
  <2>2. Answers(r, Resumed(r)) /\ Resumed(r).held = {}
    BY <1>2, <2>1, OverAnswers
  <2> QED BY <2>2 DEF Answers
<1>3. CASE r.wake.kind \notin {"contact", "ceremony", "report"}
  <2>1. Resumed(r) = r /\ r.held = {}
    BY <1>3 DEF Resumed, Asked
  <2> QED BY <2>1, UnansweredAnswers
<1> QED BY <1>1, <1>2, <1>3

LEMMA ResponsesAnswer ==
  ASSUME NEW r, Doc(r), r.held = Asked(r), NEW s \in Responses(r)
  PROVE  Answers(r, s)
<1>1. CASE r.wake.kind = "contact" /\ s # r
  <2> DEFINE w == r.wake.route
             due == [r.due EXCEPT ![w] = r.now + 1]
             held == r.held \ {w}
             t == [r EXCEPT !.due = due, !.held = held, !.wake = NoWake, !.ack = "none",
                            !.theater = "away"]
  <2>1. r \in Runtime /\ r.due \in Partial /\ r.held \in SUBSET Routes /\ r.now \in Nat
    BY DocFields
  <2>2. w \in DOMAIN r.due
    BY <1>1 DEF Asked, Doc
  <2>3. due \in Partial
    BY <2>1, <2>2, OneMore
  <2>4. s = t
    BY <1>1, <2>1 DEF Responses, Runtime
  <2> HIDE DEF due, held
  <2>5. t \in Runtime
    BY <2>1, <2>3, AwakeRuntime DEF held
  <2>6. /\ t.due = due /\ t.rows = r.rows /\ t.owed = r.owed /\ t.now = r.now /\ t.held = held
        /\ t.wake = NoWake
    BY <2>1 DEF Runtime
  <2> HIDE DEF t
  <2>7. Answers(r, t)
    BY <1>1, <2>5, <2>6, ReleasedAnswers DEF due, held
  <2> QED BY <2>4, <2>7
<1>2. CASE r.wake.kind \in {"ceremony", "report"}
  <2>1. s = [Drop(r, {r.wake.route}) EXCEPT !.wake = NoWake, !.ack = "none"]
    BY <1>2 DEF Responses
  <2> QED BY <1>2, <2>1, OverAnswers
<1>3. CASE s = r
  BY <1>3, UnansweredAnswers
<1>4. CASE r.wake.kind \notin {"contact", "ceremony", "report"}
  <2>1. s = r
    BY <1>4 DEF Responses
  <2> QED BY <2>1, UnansweredAnswers
<1> QED BY <1>1, <1>2, <1>3, <1>4

-----------------------------------------------------------------------------
(* The callbacks.                                                              *)

(* No callback gives a registered route another instant, or puts one in the    *)
(* place of another.                                                           *)
Steady == ~RetimesRoutes /\ ~SupersedesRoutes

(* s has the routes of r where they were, and new ones behind that fall due    *)
(* later than the instant that is settled.                                     *)
Grown(r, s) ==
    /\ Len(r.rows) <= Len(s.rows)
    /\ \A i \in DOMAIN r.rows : i \in DOMAIN s.rows /\ s.rows[i] = r.rows[i]
    /\ \A x \in DOMAIN r.due : x \in DOMAIN s.due /\ s.due[x] = r.due[x]
    /\ \A x \in DOMAIN s.due \ DOMAIN r.due : s.due[x] > s.now

(* What the window can tell of a callback: fewer rows, or grown ones.           *)
Plain(r, s) == Len(s.rows) < Len(r.rows) \/ Grown(r, s)

LEMMA SamePlain ==
  ASSUME NEW r, Doc(r), NEW s, s.rows = r.rows, s.due = r.due
  PROVE  Plain(r, s)
<1>1. Len(r.rows) \in Nat
  BY DocFields
<1> QED BY <1>1 DEF Plain, Grown

LEMMA RegisteredPlain ==
  ASSUME NEW r, Doc(r), NEW s, NEW S \in SUBSET Routes, S \cap DOMAIN r.due = {},
         s.rows = r.rows \o Ranked(S), DOMAIN s.due = DOMAIN r.due \cup S,
         \A x \in DOMAIN r.due : s.due[x] = r.due[x],
         \A x \in S : s.due[x] > s.now
  PROVE  Plain(r, s)
<1>1. DOMAIN r.due \in SUBSET Routes /\ Listed(r.rows, DOMAIN r.due)
  BY DocFields DEF Doc
<1>2. /\ Len(r.rows) <= Len(s.rows)
      /\ \A i \in DOMAIN r.rows : i \in DOMAIN s.rows /\ s.rows[i] = r.rows[i]
  BY <1>1, ListedAppend
<1> QED BY <1>2 DEF Plain, Grown

LEMMA CardinalityReplaced ==
  ASSUME NEW D \in SUBSET Routes, NEW gone \in SUBSET D, NEW new \in SUBSET Routes, new \cap D = {},
         Cardinality(gone) > Cardinality(new)
  PROVE  Cardinality((D \ gone) \cup new) < Cardinality(D)
<1> DEFINE rest == D \ gone
<1>1. /\ IsFiniteSet(D) /\ IsFiniteSet(gone) /\ IsFiniteSet(new) /\ IsFiniteSet(rest)
      /\ Cardinality(D) \in Nat /\ Cardinality(gone) \in Nat /\ Cardinality(new) \in Nat
      /\ Cardinality(rest) \in Nat
  BY RoutesFinite
<1>2. rest \cap new = {} /\ rest \cap gone = {} /\ rest \cup gone = D
  OBVIOUS
<1> HIDE DEF rest
<1>3. ASSUME NEW S, IsFiniteSet(S), rest \cap S = {}
      PROVE  Cardinality(rest \cup S) = Cardinality(rest) + Cardinality(S)
  <2>1. Cardinality(rest \cap S) = 0
    BY <1>3, FS_EmptySet
  <2>2. Cardinality(rest \cup S) = Cardinality(rest) + Cardinality(S) - Cardinality(rest \cap S)
    BY <1>1, <1>3, FS_Union
  <2>3. Cardinality(S) \in Nat
    BY <1>3, FS_CardinalityType
  <2> QED BY <1>1, <2>1, <2>2, <2>3
<1>4. Cardinality(rest \cup new) = Cardinality(rest) + Cardinality(new)
  BY <1>1, <1>2, <1>3
<1>5. Cardinality(rest \cup gone) = Cardinality(rest) + Cardinality(gone)
  BY <1>1, <1>2, <1>3
<1>6. Cardinality(D) = Cardinality(rest) + Cardinality(gone)
  BY <1>2, <1>5
<1>7. Cardinality(rest \cup new) < Cardinality(D)
  BY <1>1, <1>4, <1>6
<1> QED BY <1>7 DEF rest

LEMMA OrderedFollows ==
  ASSUME NEW r, Doc(r), NEW s \in Ordered(r)
  PROVE  /\ Follows(r, s)
         /\ \A x \in DOMAIN r.due : x \notin Marches => x \in DOMAIN s.due
         /\ Steady => Plain(r, s)
<1>1. PICK S \in SUBSET (Marches \cap Unrouted(r)) : s \in Synced(Owe(r, S), Marches)
  BY DEF Ordered
<1>2. LET gone == DOMAIN r.due \ DOMAIN s.due
          added == DOMAIN s.due \ DOMAIN r.due
      IN  SupersedesRoutes \/ gone = {} \/ Cardinality(gone) > Cardinality(added)
  BY DEF Ordered
<1> DEFINE o == Owe(r, S)
<1>3. S \in SUBSET (Owners \ DOMAIN r.due)
  BY <1>1 DEF Unrouted, Owners
<1>4. Follows(r, o) /\ o.due = r.due /\ o.rows = r.rows
  BY <1>3, OweFollows
<1>5. s \in Synced(o, Marches)
  BY <1>1
<1> HIDE DEF o
<1>6. Doc(o)
  BY <1>4 DEF Follows
<1>7. Follows(o, s)
  BY <1>5, <1>6, SyncedFollows
<1> DEFINE new == DOMAIN o.owed \cap Marches
<1>8. PICK gone \in SUBSET (Marches \cap DOMAIN o.due) :
         /\ DOMAIN s.due = (DOMAIN o.due \ gone) \cup new
         /\ \A x \in DOMAIN o.due \ gone : s.due[x] = o.due[x]
         /\ \A x \in new : x \notin Ceremonies => s.due[x] > s.now
         /\ gone = {} => s.rows = o.rows \o Ranked(new)
  <2>1. \E gone \in SUBSET (Marches \cap DOMAIN o.due) :
               LET fresh == DOMAIN o.owed \cap Marches
               IN  /\ DOMAIN s.due = (DOMAIN o.due \ gone) \cup fresh
                   /\ \A x \in DOMAIN o.due \ gone : s.due[x] = o.due[x]
                   /\ \A x \in fresh : x \notin Ceremonies => s.due[x] > s.now
                   /\ gone = {} => s.rows = o.rows \o Ranked(fresh)
    BY <1>5, <1>6, SyncedFollows
  <2> QED BY <2>1
<1>9. /\ new \in SUBSET Routes /\ new \cap DOMAIN r.due = {} /\ \A x \in new : x \notin Ceremonies
      /\ DOMAIN r.due \in SUBSET Routes /\ gone \in SUBSET DOMAIN r.due
  <2>1. new \cap DOMAIN o.due = {}
    BY <1>6 DEF Doc
  <2> QED BY <1>4, <1>8, <2>1, KindsApart, KindsRoutes, DocFields
<1> HIDE DEF new
<1>10. DOMAIN r.due \ DOMAIN s.due = gone /\ DOMAIN s.due \ DOMAIN r.due = new
  BY <1>4, <1>8, <1>9
<1>11. ASSUME Steady PROVE Plain(r, s)
  <2>1. gone = {} \/ Cardinality(gone) > Cardinality(new)
    BY <1>2, <1>10, <1>11 DEF Steady
  <2>2. CASE gone = {}
    <3>1. /\ s.rows = r.rows \o Ranked(new) /\ DOMAIN s.due = DOMAIN r.due \cup new
          /\ \A x \in DOMAIN r.due : s.due[x] = r.due[x]
          /\ \A x \in new : s.due[x] > s.now
      BY <1>4, <1>8, <1>9, <2>2
    <3> QED BY <1>9, <3>1, RegisteredPlain
  <2>3. CASE Cardinality(gone) > Cardinality(new)
    <3>1. Cardinality(DOMAIN s.due) < Cardinality(DOMAIN r.due)
      BY <1>4, <1>8, <1>9, <2>3, CardinalityReplaced
    <3>2. Listed(s.rows, DOMAIN s.due) /\ DOMAIN s.due \in SUBSET Routes /\ Listed(r.rows, DOMAIN r.due)
      BY <1>7, DocFields DEF Follows, Doc
    <3>3. Len(s.rows) < Len(r.rows)
      BY <1>9, <3>1, <3>2, ListedFacts
    <3> QED BY <3>3 DEF Plain
  <2> QED BY <2>1, <2>2, <2>3
<1>12. Follows(r, s)
  BY <1>4, <1>7, FollowsTwice
<1> QED BY <1>4, <1>8, <1>11, <1>12

LEMMA ScheduledFollows ==
  ASSUME NEW r, Doc(r), NEW s \in Scheduled(r)
  PROVE  /\ Follows(r, s)
         /\ \A x \in DOMAIN r.due : x \in DOMAIN s.due
         /\ Steady => Plain(r, s)
<1>1. PICK x \in Arrivals \cup Companies :
        s \in (IF x \notin DOMAIN r.due
               THEN {Register(r, f) : f \in FirstDues(r, {x})}
               ELSE {[r EXCEPT !.due[x] = d] : d \in {t \in r.now + 1 .. r.due[x] - 1 : RetimesRoutes}})
  BY DEF Scheduled
<1>2. CASE x \notin DOMAIN r.due
  <2>1. PICK f \in FirstDues(r, {x}) : s = Register(r, f)
    BY <1>1, <1>2
  <2>2. {x} \in SUBSET (Owners \cup Companies \cup Arrivals) /\ {x} \in SUBSET Routes
        /\ x \notin Ceremonies /\ x # Recon
    BY KindsApart, KindsRoutes
  <2>3. f \in Partial /\ DOMAIN f = {x} /\ f[x] >= r.now /\ f[x] > r.now
    BY <2>1, <2>2, FirstDuesIn
  <2>4. /\ DOMAIN f \cap DOMAIN r.due = {} /\ \A y \in DOMAIN f : f[y] >= r.now
        /\ Recon \in DOMAIN f => f[Recon] = r.now + ReconcileEvery
    BY <1>2, <2>2, <2>3
  <2>5. /\ Follows(r, s)
        /\ s.rows = r.rows \o Ranked(DOMAIN f)
        /\ DOMAIN s.due = DOMAIN r.due \cup DOMAIN f
        /\ \A y \in DOMAIN r.due : s.due[y] = r.due[y]
        /\ \A y \in DOMAIN f : s.due[y] = f[y]
    <3>1. /\ Follows(r, Register(r, f))
          /\ Register(r, f).rows = r.rows \o Ranked(DOMAIN f)
          /\ DOMAIN Register(r, f).due = DOMAIN r.due \cup DOMAIN f
          /\ \A y \in DOMAIN r.due : Register(r, f).due[y] = r.due[y]
          /\ \A y \in DOMAIN f : Register(r, f).due[y] = f[y]
      BY <2>3, <2>4, RegisterFollows
    <3> QED BY <2>1, <3>1
  <2>6. s.now = r.now
    BY <2>5 DEF Follows
  <2>7. Plain(r, s)
    <3>1. \A y \in DOMAIN f : s.due[y] > s.now
      BY <2>3, <2>5, <2>6
    <3>2. DOMAIN f \in SUBSET Routes
      BY <2>2, <2>3
    <3> QED BY <2>4, <2>5, <3>1, <3>2, RegisteredPlain
  <2> QED BY <2>5, <2>7
<1>3. CASE x \in DOMAIN r.due
  <2>1. PICK d \in r.now + 1 .. r.due[x] - 1 : RetimesRoutes /\ s = [r EXCEPT !.due[x] = d]
    BY <1>1, <1>3
  <2> DEFINE f == [y \in {x} |-> d]
  <2>2. r.now \in Nat /\ r.due[x] \in Nat /\ x \in Routes /\ x # Recon /\ r \in Runtime
    BY <1>3, DocFields, KindsApart
  <2>3. d \in Nat /\ d >= r.now
    BY <2>1, <2>2
  <2>4. f \in Partial /\ DOMAIN f = {x} /\ f[x] = d
    <3>1. f \in [{x} -> Nat] /\ {x} \in SUBSET Routes
      BY <2>2, <2>3
    <3> QED BY <3>1, PartialOut
  <2>5. s = [r EXCEPT !.due = Over(f, r.due)]
    <3>1. r.due \in [DOMAIN r.due -> Nat]
      BY DocFields, PartialIn
    <3>2. [r.due EXCEPT ![x] = d] = Over(f, r.due)
      BY <1>3, <3>1 DEF Over
    <3>3. s = [r EXCEPT !.due = [r.due EXCEPT ![x] = d]]
      BY <2>1, <2>2 DEF Runtime
    <3> QED BY <3>2, <3>3
  <2> HIDE DEF f
  <2>6. DOMAIN f \subseteq DOMAIN r.due /\ Recon \notin DOMAIN f /\ \A y \in DOMAIN f : f[y] >= r.now
    BY <1>3, <2>2, <2>3, <2>4
  <2>7. Follows(r, s)
    BY <2>4, <2>5, <2>6, RetimedFollows
  <2>8. DOMAIN s.due = DOMAIN r.due
    BY <2>1, <2>2 DEF Runtime
  <2> QED BY <2>1, <2>7, <2>8 DEF Steady
<1> QED BY <1>2, <1>3

(* What settling x may leave: out.rt is the registry, with x still in it.       *)
Settled(r, x, out) ==
    /\ Follows(r, out.rt) /\ x \in DOMAIN out.rt.due
    /\ out.fate \in {"again", "retire", "wake"}
    /\ out.fate = "again" => out.after \in Nat /\ out.after > 0
    /\ out.fate = "wake" => x \in Ceremonies \cup Contacts
    /\ x = Recon => out.fate = "again" /\ out.after = ReconcileEvery /\ DOMAIN out.rt.owed = {}
    /\ Steady /\ x # Recon => Plain(r, out.rt)

LEMMA SettledAgain ==
  ASSUME NEW r, NEW x \in DOMAIN r.due, x # Recon, NEW s, Follows(r, s),
         x \in DOMAIN s.due, Steady => Plain(r, s), NEW k \in Nat, k > 0
  PROVE  Settled(r, x, Again(s, k))
BY DEF Settled, Again

LEMMA ReviewSettled ==
  ASSUME NEW r, Doc(r), NEW x \in DOMAIN r.due, x \in Reviews, NEW out \in ReviewOutcomes(r, x)
  PROVE  Settled(r, x, out)
<1>1. /\ Every[x] \in Nat /\ Every[x] > 0 /\ x # Recon /\ x \notin Marches
      /\ x \notin Ceremonies /\ x \notin Contacts
  BY KindsApart, KindsRoutes
<1>2. Follows(r, r) /\ Plain(r, r)
  BY FollowsItself, SamePlain
<1>3. CASE out = Retire(r)
  BY <1>1, <1>2, <1>3 DEF Settled, Retire
<1>4. ASSUME NEW s, Follows(r, s), x \in DOMAIN s.due, Steady => Plain(r, s), out = Again(s, Every[x])
      PROVE  Settled(r, x, out)
  BY <1>1, <1>4, SettledAgain
<1>5. CASE out = Again(r, Every[x])
  BY <1>2, <1>4, <1>5
<1>6. CASE \E y \in Unrouted(r) : out = Again(Owe(r, {y}), Every[x])
  <2>1. PICK y \in Unrouted(r) : out = Again(Owe(r, {y}), Every[x])
    BY <1>6
  <2>2. {y} \in SUBSET (Owners \ DOMAIN r.due)
    BY DEF Unrouted, Owners
  <2> DEFINE s == Owe(r, {y})
  <2>3. Follows(r, s) /\ s.due = r.due /\ s.rows = r.rows
    BY <2>2, OweFollows
  <2> HIDE DEF s
  <2>4. Plain(r, s)
    BY <2>3, SamePlain
  <2> QED BY <1>4, <2>1, <2>3, <2>4 DEF s
<1>7. CASE \E s \in Ordered(r) : out = Again(s, Every[x])
  <2>1. PICK s \in Ordered(r) : out = Again(s, Every[x])
    BY <1>7
  <2>2. Follows(r, s) /\ x \in DOMAIN s.due /\ (Steady => Plain(r, s))
    BY <1>1, OrderedFollows
  <2> QED BY <1>4, <2>1, <2>2
<1>8. CASE \E s \in Scheduled(r) : out = Again(s, Every[x])
  <2>1. PICK s \in Scheduled(r) : out = Again(s, Every[x])
    BY <1>8
  <2>2. Follows(r, s) /\ x \in DOMAIN s.due /\ (Steady => Plain(r, s))
    BY ScheduledFollows
  <2> QED BY <1>4, <2>1, <2>2
<1> QED BY <1>3, <1>5, <1>6, <1>7, <1>8 DEF ReviewOutcomes

LEMMA ContactSettled ==
  ASSUME NEW r, Doc(r), NEW x \in DOMAIN r.due, x \in Contacts, NEW out \in ContactOutcomes(r, x),
         out.fate # "fail"
  PROVE  Settled(r, x, out)
<1>1. Every[x] \in Nat /\ Every[x] > 0 /\ x # Recon
  BY KindsApart, KindsRoutes
<1>2. r \in Runtime /\ r.ack \in {"none", "contact", "notice"} /\ r.theater \in {"quiet", "engaged", "away"}
  BY DEF Doc, Runtime
<1>3. ASSUME NEW th \in {"quiet", "engaged", "away"}, NEW ack \in {"none", "contact", "notice"}
      PROVE  LET t == [r EXCEPT !.theater = th, !.ack = ack]
             IN  Follows(r, t) /\ Plain(r, t) /\ x \in DOMAIN t.due
  <2> DEFINE t == [r EXCEPT !.theater = th, !.ack = ack]
  <2>1. Follows(r, t) /\ t.due = r.due /\ t.rows = r.rows
    <3>1. ASSUME NEW s, s = [r EXCEPT !.theater = th, !.ack = ack] PROVE Follows(r, s)
      BY <1>3, <3>1, TheaterFollows
    <3>2. t.due = r.due /\ t.rows = r.rows
      BY <1>2 DEF Runtime
    <3> QED BY <3>1, <3>2
  <2> HIDE DEF t
  <2>2. Plain(r, t)
    BY <2>1, SamePlain, DocFields
  <2> QED BY <2>1, <2>2 DEF t
<1>4. CASE out = Again(r, Every[x])
  <2>1. Follows(r, r) /\ Plain(r, r)
    BY FollowsItself, SamePlain
  <2> QED BY <1>1, <1>4, <2>1, SettledAgain
<1>5. CASE out = Again([r EXCEPT !.theater = "away"], Every[x]) \/ out = Wake([r EXCEPT !.theater = "engaged"])
  <2>1. /\ [r EXCEPT !.theater = "away"] = [r EXCEPT !.theater = "away", !.ack = r.ack]
        /\ [r EXCEPT !.theater = "engaged"] = [r EXCEPT !.theater = "engaged", !.ack = r.ack]
    BY <1>2 DEF Runtime
  <2> DEFINE s == [r EXCEPT !.theater = "away"]
             t == [r EXCEPT !.theater = "engaged"]
  <2>2. /\ Follows(r, s) /\ Plain(r, s) /\ x \in DOMAIN s.due
        /\ Follows(r, t) /\ Plain(r, t) /\ x \in DOMAIN t.due
    BY <1>2, <1>3, <2>1
  <2> HIDE DEF s, t
  <2>3. out = Again(s, Every[x]) \/ out = Wake(t)
    BY <1>5 DEF s, t
  <2>4. CASE out = Again(s, Every[x])
    BY <1>1, <2>2, <2>4, SettledAgain
  <2>5. CASE out = Wake(t)
    BY <1>1, <2>2, <2>5 DEF Settled, Wake
  <2> QED BY <2>3, <2>4, <2>5
<1>6. CASE out = Again(Disengaged(r), Every[x])
  <2> DEFINE ack == IF r.ack = "contact" THEN "none" ELSE r.ack
             s == [r EXCEPT !.theater = "quiet", !.ack = ack]
  <2>1. Disengaged(r) = s
    BY DEF Disengaged
  <2>2. ack \in {"none", "contact", "notice"}
    BY <1>2
  <2> HIDE DEF ack
  <2>3. Follows(r, s) /\ Plain(r, s) /\ x \in DOMAIN s.due
    BY <1>3, <2>2
  <2> HIDE DEF s
  <2> QED BY <1>1, <1>6, <2>1, <2>3, SettledAgain
<1>7. \/ out = Again(r, Every[x])
      \/ out = Again([r EXCEPT !.theater = "away"], Every[x]) \/ out = Wake([r EXCEPT !.theater = "engaged"])
      \/ out = Again(Disengaged(r), Every[x])
      \/ out = Fail(r)
  <2>1. r.theater = "quiet" \/ r.theater = "engaged" \/ r.theater = "away"
    BY <1>2
  <2> QED BY <2>1 DEF ContactOutcomes
<1>8. out # Fail(r)
  BY DEF Fail
<1> QED BY <1>4, <1>5, <1>6, <1>7, <1>8

LEMMA OutcomesSettle ==
  ASSUME NEW r, Doc(r), NEW x \in DOMAIN r.due, NEW out \in Outcomes(r, x), out.fate # "fail"
  PROVE  Settled(r, x, out)
<1>1. x \in Routes
  BY DocFields
<1>2. Follows(r, r) /\ Plain(r, r)
  BY FollowsItself, SamePlain
<1>3. CASE x = Recon
  <2>1. Outcomes(r, x) = ReconOutcomes(r)
    BY <1>3, KindsApart DEF Outcomes
  <2>2. Fail(r).fate = "fail"
    BY DEF Fail
  <2>3. PICK s \in Reconciled(r) : out = Again(s, ReconcileEvery)
    BY <2>1, <2>2 DEF ReconOutcomes
  <2>4. Follows(r, s) /\ DOMAIN s.owed = {} /\ Recon \in DOMAIN s.due
    BY ReconciledFollows
  <2> QED BY <1>3, <2>3, <2>4, KindsRoutes DEF Settled, Again
<1>4. CASE x \in Ceremonies
  <2>1. x # Recon /\ (out = Retire(r) \/ out = Wake(r))
    BY <1>4, KindsApart DEF Outcomes
  <2> QED BY <1>2, <1>4, <2>1 DEF Settled, Retire, Wake
<1>5. CASE x \in Marches \cup Arrivals \cup Companies
  <2>1. /\ x # Recon
        /\ out = Retire(r) \/ \E k \in Nat : k > 0 /\ out = Again(r, k)
    <3>1. x # Recon /\ x \notin Ceremonies
      BY <1>5, KindsApart
    <3>2. CASE x \in Marches \cup Arrivals
      <4>1. Outcomes(r, x) = LegOutcomes(r, Longest)
        BY <3>2, KindsApart DEF Outcomes
      <4>2. out = Retire(r) \/ \E k \in 1 .. Longest : out = Again(r, k)
        BY <4>1 DEF LegOutcomes
      <4> QED BY <3>1, <4>2
    <3>3. CASE x \in Companies
      <4>1. Outcomes(r, x) = LegOutcomes(r, Every[x])
        BY <3>3, KindsApart DEF Outcomes
      <4>2. out = Retire(r) \/ \E k \in 1 .. Every[x] : out = Again(r, k)
        BY <4>1 DEF LegOutcomes
      <4> QED BY <3>1, <4>2
    <3> QED BY <1>5, <3>2, <3>3
  <2>2. CASE out = Retire(r)
    BY <1>2, <2>1, <2>2 DEF Settled, Retire
  <2>3. CASE \E k \in Nat : k > 0 /\ out = Again(r, k)
    BY <1>2, <2>1, <2>3, SettledAgain
  <2> QED BY <2>1, <2>2, <2>3
<1>6. CASE x \in Reviews
  <2>1. Outcomes(r, x) = ReviewOutcomes(r, x)
    BY <1>6, KindsApart DEF Outcomes
  <2> QED BY <1>6, <2>1, ReviewSettled
<1>7. CASE x \in Contacts
  <2>1. Outcomes(r, x) = ContactOutcomes(r, x)
    BY <1>7, KindsApart DEF Outcomes
  <2> QED BY <1>7, <2>1, ContactSettled
<1> QED BY <1>1, <1>3, <1>4, <1>5, <1>6, <1>7, KindsRoutes

-----------------------------------------------------------------------------
(* The settled route: due again, or retired.                                    *)

(* The clock moved, nothing else.                                               *)
LEMMA Later ==
  ASSUME NEW r, Doc(r), NEW t \in Nat, t >= r.now
  PROVE  LET s == [r EXCEPT !.now = t]
         IN  /\ Doc(s) /\ s.now = t /\ s.due = r.due /\ s.rows = r.rows /\ s.held = r.held
             /\ s.wake = r.wake /\ s.owed = r.owed
             /\ (\A x \in Live(r) : r.due[x] >= t) => OnTime(s)
             /\ Cadence(r) /\ Recon \in DOMAIN r.due => Cadence(s)
<1> DEFINE s == [r EXCEPT !.now = t]
<1>1. /\ r \in Runtime /\ r.now \in Nat /\ ReconcileEvery \in Nat
      /\ \A x \in DOMAIN r.owed : r.owed[x] \in Nat /\ r.owed[x] <= r.now
      /\ \A x \in DOMAIN r.due : r.due[x] \in Nat
  BY DocFields, KindsRoutes
<1>2. s \in Runtime
  BY <1>1 DEF Runtime
<1>3. /\ s.now = t /\ s.due = r.due /\ s.rows = r.rows /\ s.held = r.held
      /\ s.wake = r.wake /\ s.owed = r.owed
  BY <1>1 DEF Runtime
<1> HIDE DEF s
<1>4. Doc(s)
  BY <1>1, <1>2, <1>3 DEF Doc
<1>5. (\A x \in Live(r) : r.due[x] >= t) => OnTime(s)
  BY <1>3 DEF OnTime, Live
<1>6. Cadence(r) /\ Recon \in DOMAIN r.due => Cadence(s)
  BY <1>1, <1>3 DEF Cadence
<1> QED BY <1>3, <1>4, <1>5, <1>6 DEF s

Places(at) == DOMAIN at \subseteq Routes /\ \A x \in DOMAIN at : at[x] \in Nat /\ at[x] > 0

Left(x, out, at, t) ==
    IF out.fate = "retire" THEN SwapDelete(out.rt, x, at)
    ELSE [rt |-> [out.rt EXCEPT !.due[x] = t + out.after], pos |-> at]

(* What is the same whether the route is retired or falls due again.            *)
Carried(r, t, s) ==
    /\ Doc(s) /\ s.now = t /\ s.held = r.held /\ s.wake = r.wake
    /\ Recon \in DOMAIN r.due => Recon \in DOMAIN s.due
    /\ OnTime(r) => OnTime(s)
    /\ Cadence(r) /\ Recon \in DOMAIN r.due => Cadence(s)

LEMMA AgainLeft ==
  ASSUME NEW r, Doc(r), NEW x, x \in DOMAIN r.due, x \notin r.held, NEW out, Settled(r, x, out),
         NEW t \in Nat, r.now = t, NEW at, Places(at), out.fate = "again"
  PROVE  LET left == Left(x, out, at, t)
             s == left.rt
         IN  /\ Carried(r, t, s) /\ left.pos = at /\ s.rows = out.rt.rows
             /\ t + out.after \in Nat /\ t + out.after > t
             /\ DOMAIN s.due = DOMAIN out.rt.due /\ s.due[x] = t + out.after
             /\ \A y \in DOMAIN s.due : y # x => s.due[y] = out.rt.due[y]
<1> DEFINE q == out.rt
           n == t + out.after
           due == [q.due EXCEPT ![x] = n]
           s == [q EXCEPT !.due = due]
<1>1. Follows(r, q) /\ x \in DOMAIN q.due /\ out.after \in Nat /\ out.after > 0
  BY DEF Settled
<1>2. Doc(q) /\ q.now = t /\ q.held = r.held /\ q.wake = r.wake
  BY <1>1 DEF Follows
<1>3. n \in Nat /\ n > t
  BY <1>1
<1>4. /\ q \in Runtime /\ q.due \in Partial /\ q.rows \in Seq(Routes) /\ q.held \in SUBSET Routes
      /\ q.owed \in Partial /\ \A y \in DOMAIN q.due : q.due[y] \in Nat
  BY <1>2, DocFields
<1>5. Left(x, out, at, t).rt = s /\ Left(x, out, at, t).pos = at
  <2>1. [q EXCEPT !.due[x] = n] = s
    BY <1>4 DEF Runtime
  <2> QED BY <2>1 DEF Left
<1>6. x = Recon => n = t + ReconcileEvery /\ DOMAIN q.owed = {}
  BY DEF Settled
<1> HIDE DEF q, n
<1>7. /\ due \in Partial /\ DOMAIN due = DOMAIN q.due /\ due[x] = n
      /\ \A y \in DOMAIN q.due : y # x => due[y] = q.due[y]
  BY <1>1, <1>3, <1>4, OneMore
<1> HIDE DEF due
<1>8. s \in Runtime
  BY <1>4, <1>7, DueRewritten
<1>9. /\ s.now = q.now /\ s.due = due /\ s.rows = q.rows /\ s.held = q.held
      /\ s.wake = q.wake /\ s.owed = q.owed
  BY <1>4 DEF Runtime
<1> HIDE DEF s
<1>10. Doc(s)
  BY <1>2, <1>7, <1>8, <1>9 DEF Doc
<1>11. OnTime(r) => OnTime(s)
  <2>1. OnTime(r) => OnTime(q)
    BY <1>1 DEF Follows
  <2>2. OnTime(q) => OnTime(s)
    BY <1>2, <1>3, <1>7, <1>9 DEF OnTime, Live
  <2> QED BY <2>1, <2>2
<1>12. Cadence(r) /\ Recon \in DOMAIN r.due => Cadence(s)
  <2>1. Cadence(r) /\ Recon \in DOMAIN r.due => Cadence(q) /\ Recon \in DOMAIN q.due
    BY <1>1 DEF Follows
  <2>2. CASE x = Recon
    <3>1. ReconcileEvery \in Nat
      BY KindsRoutes
    <3> QED BY <1>2, <1>6, <1>7, <1>9, <2>1, <2>2, <3>1 DEF Cadence
  <2>3. CASE x # Recon
    BY <1>2, <1>7, <1>9, <2>1, <2>3 DEF Cadence
  <2> QED BY <2>2, <2>3
<1>13. Carried(r, t, s)
  BY <1>1, <1>2, <1>7, <1>9, <1>10, <1>11, <1>12 DEF Carried, Follows
<1> QED BY <1>3, <1>5, <1>7, <1>9, <1>13 DEF due, q, n

LEMMA RetireLeft ==
  ASSUME NEW r, Doc(r), NEW x, x \in DOMAIN r.due, x \notin r.held, NEW out, Settled(r, x, out),
         NEW t \in Nat, r.now = t, NEW at, Places(at), out.fate = "retire",
         x \in DOMAIN at, at[x] \in DOMAIN out.rt.rows, out.rt.rows[at[x]] = x
  PROVE  LET left == Left(x, out, at, t)
             s == left.rt
         IN  /\ Carried(r, t, s) /\ Places(left.pos)
             /\ at = Positions(out.rt.rows) => left.pos = Positions(s.rows)
             /\ DOMAIN s.due = DOMAIN out.rt.due \ {x}
             /\ \A y \in DOMAIN s.due : s.due[y] = out.rt.due[y]
<1> DEFINE q == out.rt
           n == Len(q.rows)
           p == at[x]
           due == Restrict(q.due, DOMAIN q.due \ {x})
           rows == SubSeq([q.rows EXCEPT ![p] = q.rows[n]], 1, n - 1)
           s == [q EXCEPT !.due = due, !.rows = rows]
           pp == [y \in DOMAIN at \ {x} |-> IF y = q.rows[n] THEN p ELSE at[y]]
<1>1. Follows(r, q) /\ x \in DOMAIN q.due /\ x # Recon
  BY DEF Settled
<1>2. Doc(q) /\ q.now = t /\ q.held = r.held /\ q.wake = r.wake
  BY <1>1 DEF Follows
<1>3. /\ q \in Runtime /\ q.due \in Partial /\ q.rows \in Seq(Routes) /\ q.held \in SUBSET Routes
      /\ q.owed \in Partial /\ \A y \in DOMAIN q.due : q.due[y] \in Nat
      /\ DOMAIN q.due \in SUBSET Routes /\ Listed(q.rows, DOMAIN q.due)
      /\ DOMAIN q.rows = 1 .. n /\ n \in Nat
  BY <1>2, DocFields DEF Doc
<1>4. Left(x, out, at, t).rt = s /\ Left(x, out, at, t).pos = pp
  BY DEF Left, SwapDelete
<1> HIDE DEF q
<1>5. p \in DOMAIN q.rows /\ q.rows[p] = x
  BY DEF q
<1>6. /\ Listed(rows, DOMAIN q.due \ {x}) /\ n \in DOMAIN q.rows
      /\ DOMAIN rows = 1 .. n - 1
      /\ \A i \in 1 .. n - 1 : rows[i] = IF i = p THEN q.rows[n] ELSE q.rows[i]
  <2> HIDE DEF p
  <2>1. DOMAIN q.due \in SUBSET Routes /\ Listed(q.rows, DOMAIN q.due) /\ x \in DOMAIN q.due
    BY <1>1, <1>3
  <2> QED BY <1>5, <2>1, ListedSwap
<1>7. /\ due \in Partial /\ DOMAIN due = DOMAIN q.due \ {x}
      /\ \A y \in DOMAIN due : due[y] = q.due[y]
  BY <1>3, RestrictPartial
<1> HIDE DEF due, rows, n
<1>8. rows \in Seq(Routes)
  BY <1>6 DEF Listed
<1>9. s \in Runtime
  BY <1>3, <1>7, <1>8, Rewritten
<1>10. /\ s.now = q.now /\ s.due = due /\ s.rows = rows /\ s.held = q.held
       /\ s.wake = q.wake /\ s.owed = q.owed
  BY <1>3 DEF Runtime
<1> HIDE DEF s
<1>11. Doc(s)
  BY <1>2, <1>6, <1>7, <1>9, <1>10 DEF Doc
<1>12. OnTime(r) => OnTime(s)
  <2>1. OnTime(r) => OnTime(q)
    BY <1>1 DEF Follows
  <2>2. OnTime(q) => OnTime(s)
    BY <1>7, <1>10 DEF OnTime, Live
  <2> QED BY <2>1, <2>2
<1>13. Cadence(r) /\ Recon \in DOMAIN r.due => Cadence(s)
  <2>1. Cadence(r) /\ Recon \in DOMAIN r.due => Cadence(q) /\ Recon \in DOMAIN q.due
    BY <1>1 DEF Follows
  <2> QED BY <1>1, <1>7, <1>10, <2>1 DEF Cadence
<1>14. Carried(r, t, s)
  BY <1>1, <1>2, <1>7, <1>10, <1>11, <1>12, <1>13 DEF Carried, Follows
<1>15. Places(pp)
  <2>1. p \in Nat /\ p > 0
    BY DEF Places
  <2> HIDE DEF p
  <2>2. DOMAIN pp = DOMAIN at \ {x} /\ \A y \in DOMAIN pp : pp[y] \in {p, at[y]}
    OBVIOUS
  <2> HIDE DEF pp
  <2> QED BY <2>1, <2>2 DEF Places
<1>16. ASSUME at = Positions(q.rows) PROVE pp = Positions(rows)
  <2> DEFINE D == DOMAIN q.due \ {x}
  <2>1. /\ DOMAIN at = DOMAIN q.due
        /\ \A y \in DOMAIN q.due : at[y] \in DOMAIN q.rows /\ q.rows[at[y]] = y
        /\ \A i \in DOMAIN q.rows : q.rows[i] \in DOMAIN q.due /\ at[q.rows[i]] = i
    <3>1. DOMAIN q.due \in SUBSET Routes /\ Listed(q.rows, DOMAIN q.due)
      BY <1>3
    <3> QED BY <1>16, <3>1, PointedAt
  <2>2. pp = [y \in D |-> IF y = q.rows[n] THEN p ELSE at[y]]
    BY <2>1
  <2>3. ASSUME NEW y \in D PROVE pp[y] \in DOMAIN rows /\ rows[pp[y]] = y
    <3>1. CASE y = q.rows[n]
      <4>1. pp[y] = p /\ p # n
        BY <1>5, <2>2, <3>1
      <4>2. p \in 1 .. n - 1
        BY <1>3, <1>5, <4>1
      <4> QED BY <1>6, <3>1, <4>1, <4>2
    <3>2. CASE y # q.rows[n]
      <4>1. pp[y] = at[y] /\ at[y] \in 1 .. n /\ q.rows[at[y]] = y
        BY <1>3, <2>1, <2>2, <3>2
      <4>2. at[y] # n /\ at[y] # p
        BY <1>5, <3>2, <4>1
      <4>3. at[y] \in 1 .. n - 1
        BY <1>3, <4>1, <4>2
      <4> QED BY <1>6, <4>1, <4>2, <4>3
    <3> QED BY <3>1, <3>2
  <2>4. D \in SUBSET Routes /\ pp = [y \in D |-> pp[y]]
    BY <1>3, <2>2
  <2> HIDE DEF pp, D
  <2>5. Listed(rows, D)
    BY <1>6 DEF D
  <2> QED BY <2>3, <2>4, <2>5, PositionsKnown
<1> QED BY <1>4, <1>7, <1>10, <1>14, <1>15, <1>16 DEF q

-----------------------------------------------------------------------------
(* The window.                                                                 *)

LEMMA Smallest ==
  ASSUME NEW S \in SUBSET Nat, IsFiniteSet(S), S # {}
  PROVE  \E m \in S : \A k \in S : m <= k
<1> DEFINE R == Ranked(S)
           n == Cardinality(S)
<1>1. /\ DOMAIN R = 1 .. n
      /\ \A k \in DOMAIN R : R[k] \in S
      /\ \A x \in S : \E k \in DOMAIN R : R[k] = x
      /\ \A k, m \in DOMAIN R : k < m => R[k] < R[m]
  BY RankedSeq
<1>2. n \in Nat
  BY FS_CardinalityType
<1> HIDE DEF R, n
<1>3. PICK x \in S : TRUE
  OBVIOUS
<1>4. 1 \in DOMAIN R
  <2>1. PICK k \in 1 .. n : R[k] = x
    BY <1>1
  <2> QED BY <1>1, <1>2, <2>1
<1>5. ASSUME NEW y \in S PROVE R[1] <= y
  <2>1. PICK k \in 1 .. n : R[k] = y
    BY <1>1
  <2>2. R[1] \in Nat /\ R[k] \in Nat
    BY <1>1, <1>4
  <2>3. k = 1 \/ 1 < k
    BY <2>1
  <2> QED BY <1>1, <1>4, <2>1, <2>2, <2>3
<1> QED BY <1>1, <1>4, <1>5

LEMMA DuesFinite ==
  ASSUME NEW f \in Partial, NEW S \in SUBSET DOMAIN f
  PROVE  {f[x] : x \in S} \in SUBSET Nat /\ IsFiniteSet({f[x] : x \in S})
<1>1. S \in SUBSET Routes /\ \A x \in S : f[x] \in Nat
  BY PartialIn
<1>2. IsFiniteSet(S)
  BY <1>1, RoutesFinite
<1> DEFINE T == {f[x] : x \in S}
           g == [x \in S |-> f[x]]
<1>3. IsFiniteSet(T)
  <2>1. g \in [S -> T] /\ \A y \in T : \E x \in S : g[x] = y
    OBVIOUS
  <2>2. g \in Surjection(S, T)
    BY <2>1 DEF Surjection
  <2> QED BY <1>2, <2>2, FS_Surjection
<1> QED BY <1>1, <1>3

(* The heap gives the first of the entries that are still answered.             *)
LEMMA TopFirst ==
  ASSUME Doc(rt), queue \subseteq Nat \X Routes, Answered # {}
  PROVE  /\ Top \in Answered /\ \A f \in Answered : Before(Top, f)
         /\ Top[2] \in Live(rt) /\ Top[1] = rt.due[Top[2]] /\ Top = <<Top[1], Top[2]>>
         /\ Top[1] \in Nat /\ Top[2] \in Routes
<1> DEFINE Y == {e[2] : e \in Answered}
           T == {rt.due[y] : y \in Y}
<1>1. \A e \in Answered : /\ e[1] \in Nat /\ e[2] \in Routes /\ e = <<e[1], e[2]>>
                          /\ e[2] \in Live(rt) /\ rt.due[e[2]] = e[1]
  BY DEF Answered, Stale
<1>2. Y \in SUBSET DOMAIN rt.due /\ Y # {} /\ Y \in SUBSET Routes
  BY <1>1, DocFields DEF Live
<1>3. rt.due \in Partial
  BY DocFields
<1>4. T \in SUBSET Nat /\ IsFiniteSet(T) /\ T # {}
  <2> HIDE DEF Y
  <2>1. T \in SUBSET Nat /\ IsFiniteSet(T)
    BY <1>2, <1>3, DuesFinite
  <2> QED BY <1>2, <2>1
<1>5. PICK m \in T : \A k \in T : m <= k
  <2> HIDE DEF T
  <2> QED BY <1>4, Smallest
<1> DEFINE Z == {y \in Y : rt.due[y] = m}
<1>6. Z \in SUBSET Nat /\ IsFiniteSet(Z) /\ Z # {}
  <2>1. Z \in SUBSET Routes /\ Z # {}
    BY <1>2
  <2> HIDE DEF Z
  <2> QED BY <2>1, RoutesFinite
<1>7. PICK z \in Z : \A y \in Z : z <= y
  <2> HIDE DEF Z
  <2> QED BY <1>6, Smallest
<1>8. PICK top \in Answered : top[2] = z
  OBVIOUS
<1>9. top[1] = m
  BY <1>1, <1>7, <1>8
<1>10. ASSUME NEW f \in Answered PROVE Before(top, f)
  <2>1. f[1] \in T /\ f[1] \in Nat /\ f[2] \in Nat /\ m \in Nat /\ z \in Nat
    <3>1. Routes \subseteq Nat
      BY RankAssumption
    <3>2. f[2] \in Y /\ f[1] = rt.due[f[2]]
      BY <1>1
    <3> QED BY <1>1, <1>4, <1>5, <1>6, <1>7, <3>1, <3>2
  <2>2. m <= f[1]
    BY <1>5, <2>1
  <2>3. f[1] = m => z <= f[2]
    BY <1>1, <1>7
  <2> QED BY <1>8, <1>9, <2>1, <2>2, <2>3 DEF Before
<1>11. Top \in Answered /\ \A f \in Answered : Before(Top, f)
  BY <1>10 DEF Top
<1> QED BY <1>1, <1>11

LEMMA BoundaryBetween ==
  ASSUME Doc(rt), cmd.target \in Nat, rt.now <= cmd.target
  PROVE  NextBoundary \in Nat /\ rt.now <= NextBoundary /\ NextBoundary <= cmd.target
<1> DEFINE Y == {y \in Live(rt) : rt.now <= rt.due[y] /\ rt.due[y] <= cmd.target}
           inside == {rt.due[x] : x \in Y}
<1>1. rt.due \in Partial /\ rt.now \in Nat /\ Y \in SUBSET DOMAIN rt.due
  BY DocFields
<1>2. \A t \in inside : rt.now <= t /\ t <= cmd.target
  OBVIOUS
<1>3. inside \in SUBSET Nat /\ IsFiniteSet(inside)
  <2> HIDE DEF Y
  <2> QED BY <1>1, DuesFinite
<1>4. NextBoundary = CHOOSE t \in inside \cup {cmd.target} : \A u \in inside : t <= u
  BY DEF NextBoundary
<1> HIDE DEF inside
<1>5. \E t \in inside \cup {cmd.target} : \A u \in inside : t <= u
  <2>1. CASE inside = {}
    BY <2>1
  <2>2. CASE inside # {}
    BY <1>3, <2>2, Smallest
  <2> QED BY <2>1, <2>2
<1>6. NextBoundary \in inside \cup {cmd.target}
  BY <1>4, <1>5
<1> QED BY <1>1, <1>2, <1>3, <1>6

-----------------------------------------------------------------------------
(* The invariants.                                                             *)

Commands == [kind : {"none", "advance", "downtime", "other"}, target : 0 .. MaxTime]
Stages   == {"idle", "begin", "loop", "between", "stopped"}

(* Whatever the callbacks do: both documents are in shape and hold asleep what *)
(* the player is asked about; nothing does while an advance goes on; a command *)
(* has a reconciliation to meet, and time left to its target.                  *)
Shape ==
    /\ Doc(saved) /\ saved.held = Asked(saved)
    /\ Doc(rt) /\ rt.held = Asked(rt)
    /\ cmd \in Commands /\ pc \in Stages /\ step \in 0 .. MaxTime
    /\ queue \subseteq Nat \X Routes /\ known \subseteq Nat \X Routes
    /\ Places(pos)
    /\ pc = "idle" => rt = saved
    /\ pc # "idle" => Recon \in DOMAIN rt.due
    /\ pc \in {"begin", "loop", "between"} => rt.now <= cmd.target
    /\ pc = "loop" => rt.now <= step /\ step <= cmd.target
    /\ pc \in {"loop", "between"} /\ cmd.kind # "other" => rt.held = {}

(* When callbacks are steady, too: the heap holds every live route, the         *)
(* positions are exact, and a generation the window has met is in the heap,    *)
(* asleep or past.                                                             *)
InStep ==
    pc = "loop" =>
        /\ Entries(rt) \subseteq queue
        /\ pos = Positions(rt.rows)
        /\ \A e \in known : e \in queue \/ e[2] \in rt.held \/ e[1] <= rt.now

Pace ==
    /\ OnTime(saved) /\ Cadence(saved)
    /\ OnTime(rt) /\ Cadence(rt)
    /\ InStep

LEMMA EntriesIn ==
  ASSUME NEW r, Doc(r)
  PROVE  /\ Entries(r) \subseteq Nat \X Routes /\ Generations(r) \subseteq Nat \X Routes
         /\ \A x \in Live(r) : <<r.due[x], x>> \in Entries(r)
         /\ Places(Positions(r.rows)) /\ Places(<<>>)
<1>1. /\ \A x \in DOMAIN r.due : x \in Routes /\ r.due[x] \in Nat
      /\ DOMAIN r.due \in SUBSET Routes /\ Listed(r.rows, DOMAIN r.due)
      /\ DOMAIN r.rows = 1 .. Len(r.rows) /\ Len(r.rows) \in Nat
      /\ Live(r) = DOMAIN r.due \ r.held
  BY DocFields DEF Doc
<1>2. Entries(r) \subseteq Nat \X Routes /\ Generations(r) \subseteq Nat \X Routes
  BY <1>1 DEF Entries, Generations
<1>3. \A x \in Live(r) : <<r.due[x], x>> \in Entries(r)
  BY DEF Entries
<1>4. /\ DOMAIN Positions(r.rows) = DOMAIN r.due
      /\ \A x \in DOMAIN r.due : Positions(r.rows)[x] \in DOMAIN r.rows
  BY <1>1, PositionsAre
<1>5. Places(Positions(r.rows))
  BY <1>1, <1>4 DEF Places
<1>6. Places(<<>>)
  BY DEF Places
<1> QED BY <1>2, <1>3, <1>5, <1>6

(* A registry the window has just read.                                         *)
LEMMA ReadInStep ==
  ASSUME NEW r, Doc(r), NEW e \in Generations(r)
  PROVE  e \in Entries(r) \/ e[2] \in r.held
BY DEF Generations, Entries, Live

LEMMA InitHolds == Init => Shape /\ Pace
<1> SUFFICES ASSUME Init PROVE Shape /\ Pace
  OBVIOUS
<1>1. PICK R \in {{}, {Recon}}, C \in SUBSET Ceremonies, from \in {0} :
        \E d \in [R \cup C \cup Reviews \cup Contacts -> 1 .. ReconcileEvery] :
            /\ Recon \in R => d[Recon] = ReconcileEvery
            /\ saved = [now |-> from, due |-> d, rows |-> Ranked(DOMAIN d), held |-> {},
                        wake |-> NoWake, ack |-> "none", theater |-> "quiet",
                        dirty |-> FALSE, owed |-> [x \in Ceremonies \ C |-> from]]
  BY DEF Init
<1> DEFINE D == R \cup C \cup Reviews \cup Contacts
           owed == [x \in Ceremonies \ C |-> from]
<1>2. PICK d \in [D -> 1 .. ReconcileEvery] :
            /\ Recon \in R => d[Recon] = ReconcileEvery
            /\ saved = [now |-> from, due |-> d, rows |-> Ranked(DOMAIN d), held |-> {},
                        wake |-> NoWake, ack |-> "none", theater |-> "quiet",
                        dirty |-> FALSE, owed |-> owed]
  BY <1>1
<1>3. D \in SUBSET Routes /\ ReconcileEvery \in Nat /\ (Recon \in D => Recon \in R)
  BY KindsApart, KindsRoutes
<1>4. \A x \in Ceremonies \ C : x \in Owners /\ x \in Routes /\ x \notin D
  BY KindsApart, KindsRoutes DEF Owners
<1>5. from = 0 /\ DOMAIN owed = Ceremonies \ C /\ \A x \in DOMAIN owed : owed[x] = 0
  OBVIOUS
<1>6. owed \in Partial
  <2>1. owed \in [Ceremonies \ C -> Nat] /\ Ceremonies \ C \in SUBSET Routes
    BY <1>4, <1>5
  <2> QED BY <2>1, PartialOut
<1>7. /\ saved.now = 0 /\ saved.due = d /\ saved.rows = Ranked(D) /\ saved.held = {}
      /\ saved.wake = NoWake /\ saved.owed = owed /\ DOMAIN d = D
      /\ saved.ack = "none" /\ saved.theater = "quiet" /\ saved.dirty = FALSE
  BY <1>2, <1>5
<1> HIDE DEF D, owed
<1>8. d \in Partial /\ \A x \in D : d[x] \in Nat /\ d[x] >= 1
  <2>1. d \in [D -> Nat] /\ \A x \in D : d[x] \in Nat /\ d[x] >= 1
    BY <1>2, <1>3
  <2> QED BY <1>3, <2>1, PartialOut
<1>9. Listed(Ranked(D), D) /\ Ranked(D) \in Seq(Routes)
  BY <1>3, RankedListed DEF Listed
<1>10. NoWake \in Wakes /\ NoWake.kind = "none"
  BY DEF NoWake, Wakes
<1>11. saved \in Runtime
  <2>1. saved = [now |-> from, due |-> d, rows |-> Ranked(D), held |-> {},
                 wake |-> NoWake, ack |-> "none", theater |-> "quiet", dirty |-> FALSE, owed |-> owed]
    BY <1>2, <1>7
  <2> QED BY <1>5, <1>6, <1>8, <1>9, <1>10, <2>1 DEF Runtime
<1>12. Doc(saved) /\ saved.held = Asked(saved)
  <2>1. DOMAIN owed \subseteq Owners \ D /\ \A x \in DOMAIN owed : owed[x] <= 0
    BY <1>4, <1>5 DEF owed
  <2>2. saved.wake.kind = "none"
    BY <1>7, <1>10
  <2> QED BY <1>7, <1>9, <1>11, <2>1, <2>2 DEF Doc, Asked
<1>13. OnTime(saved)
  BY <1>7, <1>8 DEF OnTime, Live
<1>14. Cadence(saved)
  BY <1>2, <1>3, <1>5, <1>7, <1>8 DEF Cadence, owed
<1>15. rt = saved /\ cmd = NoCommand /\ pc = "idle" /\ step = 0 /\ queue = {} /\ known = {} /\ pos = <<>>
  BY DEF Init
<1>16. cmd \in Commands /\ step \in 0 .. MaxTime
  BY <1>15, KindsRoutes DEF NoCommand, Commands
<1>17. Shape
  BY <1>12, <1>15, <1>16, EntriesIn DEF Shape, Stages
<1>18. Pace
  BY <1>13, <1>14, <1>15 DEF Pace, InStep
<1> QED BY <1>17, <1>18

-----------------------------------------------------------------------------
(* The steps that work on the registry and leave the clock.                     *)

LEMMA FollowsThenAnswers ==
  ASSUME NEW r, NEW s, NEW t, r.held = Asked(r), Follows(r, s), Answers(s, t)
  PROVE  s.held = Asked(s) /\ Answers(r, t)
BY DEF Follows, Answers, Asked

LEMMA FollowsAnswers ==
  ASSUME NEW r, NEW s, r.held = Asked(r), Follows(r, s)
  PROVE  Answers(r, s)
BY DEF Follows, Answers, Asked

LEMMA RespondWorks ==
  ASSUME Shape, Respond
  PROVE  Answers(rt, rt') /\ saved' = rt' /\ rt = saved
<1>1. PICK S \in {{}} \cup {{x} : x \in Unrouted(saved)} :
        \E r \in Responses([Owe(saved, S) EXCEPT !.dirty = @ \/ S # {}]) : saved' = r /\ rt' = r
  BY DEF Respond
<1> DEFINE a == Owe(saved, S)
           dirty == (a.dirty \/ S # {})
           b == [a EXCEPT !.dirty = dirty]
<1>2. PICK r \in Responses(b) : saved' = r /\ rt' = r
  BY <1>1
<1>3. Doc(saved) /\ saved.held = Asked(saved) /\ rt = saved
  BY DEF Shape, Respond
<1>4. S \in SUBSET (Owners \ DOMAIN saved.due)
  BY DEF Unrouted, Owners
<1>5. Follows(saved, a)
  BY <1>3, <1>4, OweFollows
<1>6. Doc(a)
  BY <1>5 DEF Follows
<1> HIDE DEF a
<1>7. dirty \in BOOLEAN
  OBVIOUS
<1> HIDE DEF dirty
<1>8. Follows(a, b)
  BY <1>6, <1>7, FlagFollows
<1> HIDE DEF b
<1>9. Follows(saved, b) /\ Doc(b)
  BY <1>5, <1>8, FollowsTwice DEF Follows
<1>10. b.held = Asked(b)
  BY <1>3, <1>9 DEF Follows, Asked
<1>11. Answers(b, r)
  BY <1>2, <1>9, <1>10, ResponsesAnswer
<1>12. Answers(saved, r)
  BY <1>3, <1>9, <1>11, FollowsThenAnswers
<1> QED BY <1>2, <1>3, <1>12

LEMMA BeginWorks ==
  ASSUME Shape, Begin
  PROVE  /\ Answers(rt, rt') /\ Recon \in DOMAIN rt'.due /\ saved' = saved /\ pc' = "begin"
         /\ cmd' \in Commands /\ rt'.now <= cmd'.target
<1>1. Doc(saved) /\ saved.held = Asked(saved) /\ rt = saved /\ rt' \in Prepared(saved) /\ saved.now \in Nat
  BY DocFields DEF Shape, Begin
<1>2. Follows(saved, rt') /\ Recon \in DOMAIN rt'.due
  BY <1>1, PreparedFollows
<1>3. PICK kind \in {"advance", "downtime", "other"}, target \in saved.now .. MaxTime :
        cmd' = [kind |-> kind, target |-> target]
  BY DEF Begin
<1>4. cmd' \in Commands /\ cmd'.target = target /\ saved.now <= target
  BY <1>1, <1>3, KindsRoutes DEF Commands
<1>5. rt'.now = saved.now
  BY <1>2 DEF Follows
<1> QED BY <1>1, <1>2, <1>4, <1>5, FollowsAnswers DEF Begin

LEMMA StartWindowWorks ==
  ASSUME Shape, StartWindow
  PROVE  /\ Answers(rt, rt') /\ (cmd.kind # "other" => rt'.held = {})
         /\ step' \in Nat /\ rt'.now <= step' /\ step' <= cmd.target
<1>1. Doc(rt) /\ rt.held = Asked(rt) /\ rt.now <= cmd.target /\ rt.now \in Nat
  BY DocFields DEF Shape, StartWindow
<1>2. Answers(rt, rt') /\ (cmd.kind # "other" => rt'.held = {})
  BY <1>1, ResumedAnswers, UnansweredAnswers DEF StartWindow
<1>3. rt'.now = rt.now
  BY <1>2 DEF Answers
<1>4. cmd.target \in Nat /\ Window \in Nat
  <2>1. MaxTime \in Nat /\ Window \in Nat
    BY KindsRoutes
  <2> QED BY <2>1 DEF Shape, Commands
<1>5. step' \in Nat /\ rt.now <= step' /\ step' <= cmd.target
  <2>1. CASE cmd.kind = "downtime"
    <3>1. step' = NextBoundary
      BY <2>1 DEF StartWindow
    <3> QED BY <1>1, <1>4, <3>1, BoundaryBetween
  <2>2. CASE cmd.kind # "downtime" /\ cmd.target <= rt.now + Window
    <3>1. step' = cmd.target
      BY <2>2 DEF StartWindow
    <3> QED BY <1>1, <1>4, <3>1
  <2>3. CASE cmd.kind # "downtime" /\ ~(cmd.target <= rt.now + Window)
    <3>1. step' = rt.now + Window
      BY <2>3 DEF StartWindow
    <3> QED BY <1>1, <1>4, <2>3, <3>1
  <2> QED BY <2>1, <2>2, <2>3
<1> QED BY <1>2, <1>3, <1>5

LEMMA CommitWorks ==
  ASSUME Shape, Commit
  PROVE  Answers(rt, rt') /\ saved' = rt'
<1>1. Doc(rt) /\ rt.held = Asked(rt)
  BY DEF Shape
<1>2. rt' \in Responses(rt) \/ rt' = rt
  BY DEF Commit
<1> QED BY <1>1, <1>2, ResponsesAnswer, UnansweredAnswers DEF Commit

-----------------------------------------------------------------------------
(* The steps that move the clock.                                               *)

LEMMA LoopTop ==
  ASSUME Shape, pc = "loop", Reaches
  PROVE  /\ Top[2] \in Live(rt) /\ Top[1] = rt.due[Top[2]] /\ Top = <<Top[1], Top[2]>>
         /\ Top[1] \in Nat /\ Top[2] \in Routes /\ Top[1] <= step
         /\ Top \in queue /\ \A f \in Answered : Before(Top, f)
<1>1. Doc(rt) /\ queue \subseteq Nat \X Routes /\ Answered # {}
  BY DEF Shape, Reaches
<1>2. Top \in Answered
  BY <1>1, TopFirst
<1>3. Top \in queue
  BY <1>2 DEF Answered
<1> QED BY <1>1, <1>3, TopFirst DEF Reaches

(* As long as heap and registry agree, nothing live falls due before the first  *)
(* entry, and nothing at all in a window that has none.                         *)
LEMMA NothingBefore ==
  ASSUME Shape, Pace, pc = "loop", NEW x \in Live(rt)
  PROVE  /\ <<rt.due[x], x>> \in Answered
         /\ Reaches => Before(Top, <<rt.due[x], x>>) /\ Top[1] <= rt.due[x]
         /\ ~Reaches => rt.due[x] > step
<1> DEFINE f == <<rt.due[x], x>>
<1>1. Doc(rt) /\ queue \subseteq Nat \X Routes /\ Entries(rt) \subseteq queue /\ step \in Nat
  BY KindsRoutes DEF Shape, Pace, InStep
<1>2. f \in queue
  BY <1>1, EntriesIn
<1>3. f \in Answered
  BY <1>2 DEF Answered, Stale
<1>4. Before(Top, f) /\ Top[1] \in Nat /\ rt.due[x] \in Nat
  <2>1. Answered # {}
    BY <1>3
  <2> HIDE DEF f
  <2>2. Before(Top, f) /\ Top[1] \in Nat
    BY <1>1, <1>3, <2>1, TopFirst
  <2>3. rt.due[x] \in Nat
    BY <1>1, DocFields DEF Live
  <2> QED BY <2>2, <2>3
<1>5. Top[1] <= rt.due[x]
  BY <1>4 DEF Before
<1>6. ~Reaches => Top[1] > step
  <2>1. Answered # {}
    BY <1>3
  <2> QED BY <1>1, <1>4, <2>1 DEF Reaches
<1> QED BY <1>1, <1>3, <1>4, <1>5, <1>6

(* The clock moved to t with nothing live due before, and the registry is as it *)
(* was.                                                                        *)
Moved(r, s) ==
    /\ Doc(s) /\ s.held = Asked(s) /\ s.due = r.due /\ s.held = r.held /\ s.rows = r.rows
    /\ s.now >= r.now
    /\ Recon \in DOMAIN s.due

LEMMA InterruptWorks ==
  ASSUME Shape, Interrupt
  PROVE  /\ Moved(rt, rt') /\ rt'.now > rt.now
         /\ Pace => OnTime(rt') /\ Cadence(rt')
<1>1. /\ Doc(rt) /\ rt.held = Asked(rt) /\ pc = "loop" /\ cmd.kind # "other" /\ rt.held = {}
      /\ Recon \in DOMAIN rt.due
  BY DEF Shape, Interrupt
<1>2. PICK t \in Interrupts :
        rt' = [rt EXCEPT !.now = t, !.wake = [kind |-> "report", route |-> NoRoute], !.ack = "none"]
  BY DEF Interrupt
<1>3. rt.now \in Nat /\ step \in Nat /\ rt.now <= step
  BY <1>1, DocFields, KindsRoutes DEF Shape
<1>4. t \in Nat /\ t > rt.now /\ (Reaches => t <= Top[1]) /\ (~Reaches => t <= step)
  <2>1. CASE Reaches
    <3>1. Top[1] \in Nat
      BY <1>1, <2>1, LoopTop
    <3> QED BY <1>3, <2>1, <3>1 DEF Interrupts
  <2>2. CASE ~Reaches
    BY <1>3, <2>2 DEF Interrupts
  <2> QED BY <2>1, <2>2
<1> DEFINE w == [kind |-> "report", route |-> NoRoute]
           m == [rt EXCEPT !.now = t]
<1>5. /\ Doc(m) /\ m.now = t /\ m.due = rt.due /\ m.rows = rt.rows /\ m.held = rt.held
      /\ m.owed = rt.owed
      /\ (\A x \in Live(rt) : rt.due[x] >= t) => OnTime(m)
      /\ Cadence(rt) /\ Recon \in DOMAIN rt.due => Cadence(m)
  BY <1>1, <1>3, <1>4, Later
<1>6. rt' = [m EXCEPT !.wake = w, !.ack = "none"]
  BY <1>2
<1>7. w \in Wakes /\ w.kind = "report" /\ w.route = NoRoute
  BY DEF Wakes
<1> HIDE DEF w, m
<1>8. m \in Runtime
  BY <1>5 DEF Doc
<1>9. rt' \in Runtime
  BY <1>6, <1>7, <1>8 DEF Runtime
<1>10. /\ rt'.now = t /\ rt'.due = rt.due /\ rt'.rows = rt.rows /\ rt'.held = rt.held
       /\ rt'.owed = m.owed /\ rt'.wake = w
  BY <1>5, <1>6, <1>8 DEF Runtime
<1>11. Doc(rt')
  BY <1>5, <1>7, <1>9, <1>10 DEF Doc
<1>12. rt'.held = Asked(rt')
  BY <1>1, <1>7, <1>10 DEF Asked
<1>13. ASSUME Pace PROVE OnTime(rt') /\ Cadence(rt')
  <2>1. \A x \in Live(rt) : rt.due[x] >= t
    <3> SUFFICES ASSUME NEW x \in Live(rt) PROVE rt.due[x] >= t
      OBVIOUS
    <3>1. rt.due[x] \in Nat
      BY <1>1, DocFields DEF Live
    <3>2. CASE Reaches
      <4>1. Top[1] <= rt.due[x] /\ Top[1] \in Nat
        BY <1>1, <1>13, <3>2, NothingBefore, LoopTop
      <4> QED BY <1>4, <3>1, <3>2, <4>1
    <3>3. CASE ~Reaches
      <4>1. rt.due[x] > step
        BY <1>1, <1>13, <3>3, NothingBefore
      <4> QED BY <1>3, <1>4, <3>1, <3>3, <4>1
    <3> QED BY <3>2, <3>3
  <2>2. OnTime(m) /\ Cadence(m)
    BY <1>1, <1>5, <1>13, <2>1 DEF Pace
  <2> QED BY <1>5, <1>10, <2>2 DEF OnTime, Live, Cadence
<1>14. rt'.now > rt.now /\ rt'.now >= rt.now
  BY <1>3, <1>4, <1>10
<1> QED BY <1>1, <1>10, <1>11, <1>12, <1>13, <1>14 DEF Moved

LEMMA CloseWorks ==
  ASSUME Shape, Close
  PROVE  /\ Moved(rt, rt') /\ rt'.now = step
         /\ Pace => OnTime(rt') /\ Cadence(rt')
<1>1. /\ Doc(rt) /\ rt.held = Asked(rt) /\ pc = "loop" /\ ~Reaches /\ Recon \in DOMAIN rt.due
      /\ rt' = [rt EXCEPT !.now = step]
  BY DEF Shape, Close
<1>2. rt.now \in Nat /\ step \in Nat /\ rt.now <= step
  BY <1>1, DocFields, KindsRoutes DEF Shape
<1>3. /\ Doc(rt') /\ rt'.now = step /\ rt'.due = rt.due /\ rt'.rows = rt.rows /\ rt'.held = rt.held
      /\ rt'.wake = rt.wake
      /\ (\A x \in Live(rt) : rt.due[x] >= step) => OnTime(rt')
      /\ Cadence(rt) /\ Recon \in DOMAIN rt.due => Cadence(rt')
  BY <1>1, <1>2, Later
<1>4. rt'.held = Asked(rt')
  BY <1>1, <1>3 DEF Asked
<1>5. ASSUME Pace PROVE OnTime(rt') /\ Cadence(rt')
  <2>1. \A x \in Live(rt) : rt.due[x] >= step
    <3> SUFFICES ASSUME NEW x \in Live(rt) PROVE rt.due[x] >= step
      OBVIOUS
    <3>1. rt.due[x] \in Nat
      BY <1>1, DocFields DEF Live
    <3>2. rt.due[x] > step
      BY <1>1, <1>5, NothingBefore
    <3> QED BY <1>2, <3>1, <3>2
  <2> QED BY <1>1, <1>3, <1>5, <2>1 DEF Pace
<1> QED BY <1>1, <1>2, <1>3, <1>4, <1>5 DEF Moved

-----------------------------------------------------------------------------
(* Settling the first route of the window.                                      *)

(* The document the callback of that route works on.                            *)
Reached == [rt EXCEPT !.now = Top[1]]

LEMMA ReachedDoc ==
  ASSUME Shape, pc = "loop", Reaches, Top[1] >= rt.now
  PROVE  /\ Doc(Reached) /\ Reached.now = Top[1] /\ Reached.due = rt.due /\ Reached.rows = rt.rows
         /\ Reached.held = rt.held /\ Reached.wake = rt.wake
         /\ Top[2] \in DOMAIN Reached.due /\ Top[2] \notin rt.held /\ Recon \in DOMAIN Reached.due
         /\ Top[1] \in Nat
         /\ Pace => OnTime(Reached) /\ Cadence(Reached)
<1>1. Doc(rt) /\ Recon \in DOMAIN rt.due /\ Top[1] \in Nat /\ Top[2] \in Live(rt)
  BY LoopTop DEF Shape
<1>2. /\ Doc(Reached) /\ Reached.now = Top[1] /\ Reached.due = rt.due /\ Reached.rows = rt.rows
      /\ Reached.held = rt.held /\ Reached.wake = rt.wake
      /\ (\A x \in Live(rt) : rt.due[x] >= Top[1]) => OnTime(Reached)
      /\ Cadence(rt) /\ Recon \in DOMAIN rt.due => Cadence(Reached)
  BY <1>1, Later DEF Reached
<1>3. ASSUME Pace PROVE OnTime(Reached) /\ Cadence(Reached)
  <2>1. \A x \in Live(rt) : rt.due[x] >= Top[1]
    <3> SUFFICES ASSUME NEW x \in Live(rt) PROVE rt.due[x] >= Top[1]
      OBVIOUS
    <3>1. rt.due[x] \in Nat
      BY <1>1, DocFields DEF Live
    <3>2. Top[1] <= rt.due[x]
      BY <1>3, NothingBefore
    <3> QED BY <1>1, <3>1, <3>2
  <2> QED BY <1>1, <1>2, <1>3, <2>1 DEF Pace
<1> QED BY <1>1, <1>2, <1>3 DEF Live

LEMMA SettleOutcome ==
  ASSUME Shape, Settle
  PROVE  /\ pc = "loop" /\ Reaches /\ Top[1] >= rt.now /\ saved' = saved /\ cmd' = cmd /\ step' = step
         /\ \E out : /\ Settled(Reached, Top[2], out)
                     /\ \/ out.fate = "wake" /\ Suspend(Top[2], out.rt)
                        \/ out.fate \in {"again", "retire"} /\ Proceed(Top[2], out)
<1>1. pc = "loop" /\ Reaches /\ Top[1] >= rt.now /\ saved' = saved /\ cmd' = cmd /\ step' = step
  BY DEF Settle
<1>2. PICK out \in Outcomes(Reached, Top[2]) :
        \/ out.fate = "wake" /\ Suspend(Top[2], out.rt)
        \/ out.fate \in {"again", "retire"} /\ Proceed(Top[2], out)
  BY DEF Settle, Reached
<1>3. Settled(Reached, Top[2], out)
  BY <1>1, <1>2, ReachedDoc, OutcomesSettle
<1> QED BY <1>1, <1>2, <1>3

LEMMA SuspendWorks ==
  ASSUME Shape, pc = "loop", Reaches, Top[1] >= rt.now,
         NEW out, Settled(Reached, Top[2], out), out.fate = "wake", Suspend(Top[2], out.rt)
  PROVE  /\ Doc(rt') /\ rt'.held = Asked(rt') /\ rt'.now = Top[1] /\ Recon \in DOMAIN rt'.due
         /\ Top[2] \notin Live(rt')
         /\ Pace => OnTime(rt') /\ Cadence(rt')
<1> DEFINE x == Top[2]
           r == out.rt
           kind == IF x \in Contacts THEN "contact" ELSE "ceremony"
           w == [kind |-> kind, route |-> x]
           held == r.held \cup {x}
<1>1. /\ Reached.now = Top[1] /\ Reached.held = rt.held /\ Recon \in DOMAIN Reached.due
      /\ Pace => OnTime(Reached) /\ Cadence(Reached)
  BY ReachedDoc
<1>2. Follows(Reached, r) /\ x \in DOMAIN r.due /\ x \in Ceremonies \cup Contacts
  BY DEF Settled
<1>3. cmd.kind # "other" /\ rt' = [r EXCEPT !.held = held, !.ack = "none", !.wake = w]
  BY DEF Suspend
<1>4. Doc(r) /\ r.held = {} /\ r.now = Top[1] /\ Recon \in DOMAIN r.due
  BY <1>1, <1>2, <1>3 DEF Shape, Follows
<1>5. w \in Wakes /\ w.kind \in {"contact", "ceremony"} /\ w.route = x /\ held = {x} /\ held \in SUBSET Routes
  BY <1>2, <1>4, KindsRoutes DEF Wakes
<1>6. Pace => OnTime(r) /\ Cadence(r)
  BY <1>1, <1>2 DEF Follows
<1> HIDE DEF r, w, held, x
<1>7. r \in Runtime
  BY <1>4 DEF Doc
<1>8. rt' \in Runtime
  BY <1>3, <1>5, <1>7 DEF Runtime
<1>9. /\ rt'.now = r.now /\ rt'.due = r.due /\ rt'.rows = r.rows /\ rt'.held = held
      /\ rt'.owed = r.owed /\ rt'.wake = w
  BY <1>3, <1>7 DEF Runtime
<1>10. Doc(rt')
  BY <1>2, <1>4, <1>5, <1>8, <1>9 DEF Doc
<1>11. rt'.held = Asked(rt')
  BY <1>5, <1>9 DEF Asked
<1>12. Pace => OnTime(rt') /\ Cadence(rt')
  BY <1>4, <1>6, <1>9 DEF OnTime, Live, Cadence
<1>13. x \notin Live(rt')
  BY <1>5, <1>9 DEF Live
<1> QED BY <1>4, <1>9, <1>10, <1>11, <1>12, <1>13 DEF x

(* Where the window believes the routes of r to be, once it has looked.         *)
At(r, x) == IF Rebuilds(r, x) THEN Positions(r.rows) ELSE Seen(r)

LEMMA AtExact ==
  ASSUME Shape, NEW r, Doc(r), NEW x, x \in DOMAIN r.due
  PROVE  Places(At(r, x)) /\ x \in DOMAIN At(r, x) /\ At(r, x)[x] \in DOMAIN r.rows /\ r.rows[At(r, x)[x]] = x
<1>1. /\ DOMAIN r.due \in SUBSET Routes /\ Listed(r.rows, DOMAIN r.due)
      /\ DOMAIN r.rows = 1 .. Len(r.rows) /\ Len(r.rows) \in Nat
  BY DocFields DEF Doc
<1>2. /\ DOMAIN Positions(r.rows) = DOMAIN r.due
      /\ \A y \in DOMAIN r.due : Positions(r.rows)[y] \in DOMAIN r.rows /\ r.rows[Positions(r.rows)[y]] = y
  <2>1. Points(Positions(r.rows), r.rows, DOMAIN r.due)
    BY <1>1, PositionsPoint
  <2> QED BY <2>1 DEF Points
<1>3. Places(Positions(r.rows))
  BY EntriesIn
<1>4. CASE Rebuilds(r, x)
  BY <1>2, <1>3, <1>4 DEF At
<1>5. CASE ~Rebuilds(r, x)
  <2> DEFINE p == Seen(r)
  <2>1. At(r, x) = p /\ x \in DOMAIN p /\ ~(p[x] > Len(r.rows)) /\ r.rows[p[x]] = x
    BY <1>5 DEF At, Rebuilds
  <2>2. Fresh(r) \subseteq DOMAIN r.due
    <3>1. Len(rt.rows) \in Nat
      BY DocFields DEF Shape
    <3>2. \A i \in Len(rt.rows) + 1 .. Len(r.rows) : i \in DOMAIN r.rows
      BY <1>1, <3>1
    <3> QED BY <1>1, <3>2 DEF Fresh, Listed
  <2>3. /\ DOMAIN p = Fresh(r) \cup DOMAIN pos
        /\ \A y \in DOMAIN p : p[y] = IF y \in Fresh(r) THEN Positions(r.rows)[y] ELSE pos[y]
    BY DEF Seen, Over, Restrict
  <2>4. Places(pos)
    BY DEF Shape
  <2> HIDE DEF p
  <2>5. Places(p)
    BY <1>2, <1>3, <2>2, <2>3, <2>4 DEF Places
  <2>6. p[x] \in DOMAIN r.rows
    BY <1>1, <2>1, <2>5 DEF Places
  <2> QED BY <2>1, <2>5, <2>6
<1> QED BY <1>4, <1>5

LEMMA ProceedLeft ==
  ASSUME NEW x, NEW out, out.fate \in {"again", "retire"}, Proceed(x, out)
  PROVE  LET r == out.rt
             left == Left(x, out, At(r, x), Top[1])
             again == IF out.fate = "retire" THEN {} ELSE {<<Top[1] + out.after, x>>}
         IN  /\ rt' = left.rt /\ pc' = "loop"
             /\ Rebuilds(r, x) => /\ queue' = Entries(rt')
                                  /\ known' = Generations(rt')
                                  /\ pos' = Positions(rt'.rows)
             /\ ~Rebuilds(r, x) =>
                   /\ queue' = {e \in queue : ~Before(e, Top)} \cup again
                                \cup {<<r.due[y], y>> : y \in Unseen(r) \cap Live(r)}
                   /\ known' = known \cup again \cup {<<r.due[y], y>> : y \in Unseen(r)}
                   /\ pos' = left.pos
BY DEF Proceed, Left, At

LEMMA FreshIn ==
  ASSUME Shape, NEW r, Doc(r)
  PROVE  /\ Fresh(r) \subseteq DOMAIN r.due /\ Unseen(r) \subseteq Fresh(r)
         /\ \A y \in Fresh(r) : y \in Routes /\ r.due[y] \in Nat
<1>1. /\ \A y \in DOMAIN r.due : y \in Routes /\ r.due[y] \in Nat
      /\ DOMAIN r.rows = 1 .. Len(r.rows) /\ Len(r.rows) \in Nat
  BY DocFields
<1>2. \A i \in Len(rt.rows) + 1 .. Len(r.rows) : i \in DOMAIN r.rows
  <2>1. Doc(rt)
    BY DEF Shape
  <2>2. Len(rt.rows) \in Nat
    BY <2>1, DocFields
  <2> QED BY <1>1, <2>2
<1>3. Listed(r.rows, DOMAIN r.due)
  BY DEF Doc
<1>4. Fresh(r) \subseteq DOMAIN r.due
  <2> SUFFICES ASSUME NEW y \in Fresh(r) PROVE y \in DOMAIN r.due
    OBVIOUS
  <2>1. PICK i \in Len(rt.rows) + 1 .. Len(r.rows) : y = r.rows[i]
    BY DEF Fresh
  <2>2. i \in DOMAIN r.rows
    BY <1>2
  <2> QED BY <1>3, <2>1, <2>2 DEF Listed
<1> QED BY <1>1, <1>4 DEF Unseen

(* The document that is left, and what the heap and the window's memory hold.   *)
LEMMA ProceedWorks ==
  ASSUME Shape, pc = "loop", Reaches, Top[1] >= rt.now,
         NEW out, Settled(Reached, Top[2], out), out.fate \in {"again", "retire"}, Proceed(Top[2], out)
  PROVE  /\ Carried(Reached, Top[1], rt')
         /\ out.fate = "again" => /\ rt'.rows = out.rt.rows /\ DOMAIN rt'.due = DOMAIN out.rt.due
                                  /\ rt'.due[Top[2]] = Top[1] + out.after
                                  /\ Top[1] + out.after \in Nat /\ Top[1] + out.after > Top[1]
         /\ out.fate = "retire" => DOMAIN rt'.due = DOMAIN out.rt.due \ {Top[2]}
         /\ \A y \in DOMAIN rt'.due : y # Top[2] => rt'.due[y] = out.rt.due[y]
         /\ Places(pos')
         /\ At(out.rt, Top[2]) = Positions(out.rt.rows) => pos' = Positions(rt'.rows)
<1> DEFINE x == Top[2]
           r == out.rt
           at == At(r, x)
           left == Left(x, out, at, Top[1])
<1>1. /\ Doc(Reached) /\ Reached.now = Top[1] /\ Reached.held = rt.held
      /\ x \in DOMAIN Reached.due /\ x \notin rt.held /\ Top[1] \in Nat
  BY ReachedDoc
<1>2. Doc(r) /\ x \in DOMAIN r.due
  BY DEF Settled, Follows
<1>3. Places(at) /\ x \in DOMAIN at /\ at[x] \in DOMAIN r.rows /\ r.rows[at[x]] = x
  BY <1>2, AtExact
<1>4. rt' = left.rt /\ (Rebuilds(r, x) => pos' = Positions(rt'.rows)) /\ (~Rebuilds(r, x) => pos' = left.pos)
  BY ProceedLeft
<1>5. CASE out.fate = "again"
  <2> DEFINE t == Top[1]
  <2> HIDE DEF at, t, x
  <2>0. /\ x \in DOMAIN Reached.due /\ x \notin Reached.held /\ Settled(Reached, x, out)
        /\ t \in Nat /\ Reached.now = t /\ left = Left(x, out, at, t)
    BY <1>1 DEF t, x
  <2> HIDE DEF left
  <2>1. /\ Carried(Reached, t, left.rt) /\ left.pos = at /\ left.rt.rows = r.rows
        /\ t + out.after \in Nat /\ t + out.after > t
        /\ DOMAIN left.rt.due = DOMAIN r.due /\ left.rt.due[x] = t + out.after
        /\ \A y \in DOMAIN left.rt.due : y # x => left.rt.due[y] = r.due[y]
    BY <1>1, <1>3, <1>5, <2>0, AgainLeft
  <2> USE DEF t, x
  <2>2. Carried(Reached, Top[1], rt') /\ rt'.rows = r.rows
    BY <1>4, <2>1
  <2>3. Places(Positions(rt'.rows))
    BY <2>2, EntriesIn DEF Carried
  <2>4. Places(pos')
    BY <1>3, <1>4, <2>1, <2>3
  <2>5. at = Positions(r.rows) => pos' = Positions(rt'.rows)
    BY <1>4, <2>1, <2>2
  <2> QED BY <1>4, <1>5, <2>1, <2>2, <2>4, <2>5 DEF at
<1>6. CASE out.fate = "retire"
  <2>1. /\ Carried(Reached, Top[1], left.rt) /\ Places(left.pos)
        /\ at = Positions(r.rows) => left.pos = Positions(left.rt.rows)
        /\ DOMAIN left.rt.due = DOMAIN r.due \ {x}
        /\ \A y \in DOMAIN left.rt.due : left.rt.due[y] = r.due[y]
    BY <1>1, <1>3, <1>6, RetireLeft
  <2> HIDE DEF left, at
  <2>2. Carried(Reached, Top[1], rt')
    BY <1>4, <2>1
  <2>3. Places(Positions(rt'.rows))
    BY <2>2, EntriesIn DEF Carried
  <2>4. Places(pos')
    BY <1>4, <2>1, <2>3
  <2>5. at = Positions(r.rows) => pos' = Positions(rt'.rows)
    BY <1>4, <2>1
  <2> QED BY <1>4, <1>6, <2>1, <2>2, <2>4, <2>5 DEF at
<1> QED BY <1>5, <1>6

(* What the step leaves in the heap and in the memory are instants of routes.   *)
LEMMA ProceedHeap ==
  ASSUME Shape, pc = "loop", Reaches, Top[1] >= rt.now,
         NEW out, Settled(Reached, Top[2], out), out.fate \in {"again", "retire"}, Proceed(Top[2], out)
  PROVE  queue' \subseteq Nat \X Routes /\ known' \subseteq Nat \X Routes
<1> DEFINE x == Top[2]
           r == out.rt
           again == IF out.fate = "retire" THEN {} ELSE {<<Top[1] + out.after, x>>}
<1>1. Doc(r) /\ Doc(rt') /\ x \in Routes /\ Top[1] \in Nat
  BY ProceedWorks, LoopTop DEF Settled, Follows, Carried
<1>2. again \subseteq Nat \X Routes
  BY <1>1 DEF Settled
<1>3. CASE Rebuilds(r, x)
  <2>1. queue' = Entries(rt') /\ known' = Generations(rt')
    BY <1>3, ProceedLeft
  <2> QED BY <1>1, <2>1, EntriesIn
<1>4. CASE ~Rebuilds(r, x)
  <2>1. /\ queue' = {e \in queue : ~Before(e, Top)} \cup again
                       \cup {<<r.due[y], y>> : y \in Unseen(r) \cap Live(r)}
        /\ known' = known \cup again \cup {<<r.due[y], y>> : y \in Unseen(r)}
    BY <1>4, ProceedLeft
  <2>2. \A y \in Unseen(r) : <<r.due[y], y>> \in Nat \X Routes
    BY <1>1, FreshIn
  <2> HIDE DEF again
  <2> QED BY <1>2, <2>1, <2>2 DEF Shape
<1> QED BY <1>3, <1>4

-----------------------------------------------------------------------------
(* The heap and the registry stay in step.                                      *)

(* What the window sees of a registry that has only grown is all there is.      *)
LEMMA GrownSeen ==
  ASSUME Doc(rt), pos = Positions(rt.rows), NEW r, Doc(r), Len(rt.rows) <= Len(r.rows),
         \A i \in DOMAIN rt.rows : i \in DOMAIN r.rows /\ r.rows[i] = rt.rows[i],
         \A y \in DOMAIN rt.due : y \in DOMAIN r.due
  PROVE  /\ Fresh(r) = DOMAIN r.due \ DOMAIN rt.due
         /\ Seen(r) = Positions(r.rows)
<1> DEFINE D == DOMAIN r.due
           E == DOMAIN rt.due
           rows == r.rows
           f == Seen(r)
           p == Positions(rows)
<1>1. /\ D \in SUBSET Routes /\ Listed(rows, D) /\ DOMAIN rows = 1 .. Len(rows) /\ Len(rows) \in Nat
  BY DocFields DEF Doc
<1>2. /\ E \in SUBSET Routes /\ Listed(rt.rows, E) /\ DOMAIN rt.rows = 1 .. Len(rt.rows)
      /\ Len(rt.rows) \in Nat
  BY DocFields DEF Doc
<1>3. Fresh(r) \subseteq D \ E
  <2> SUFFICES ASSUME NEW i \in Len(rt.rows) + 1 .. Len(rows) PROVE rows[i] \in D \ E
    BY DEF Fresh
  <2>1. i \in DOMAIN rows /\ i \notin DOMAIN rt.rows
    BY <1>1, <1>2
  <2>2. rows[i] \in D
    BY <1>1, <2>1 DEF Listed
  <2>3. ASSUME rows[i] \in E PROVE FALSE
    <3>1. PICK j \in DOMAIN rt.rows : rt.rows[j] = rows[i]
      BY <1>2, <2>3 DEF Listed
    <3>2. j \in DOMAIN rows /\ rows[j] = rows[i]
      BY <3>1
    <3>3. i = j
      BY <1>1, <2>1, <3>2 DEF Listed
    <3> QED BY <2>1, <3>1, <3>3
  <2> QED BY <2>2, <2>3
<1>4. D \ E \subseteq Fresh(r)
  <2> SUFFICES ASSUME NEW y \in D \ E PROVE y \in Fresh(r)
    OBVIOUS
  <2>1. PICK i \in DOMAIN rows : rows[i] = y
    BY <1>1 DEF Listed
  <2>2. i \notin DOMAIN rt.rows
    BY <1>2, <2>1 DEF Listed
  <2>3. i \in Len(rt.rows) + 1 .. Len(rows)
    BY <1>1, <1>2, <2>1, <2>2
  <2> QED BY <2>1, <2>3 DEF Fresh
<1>5. p = Positions(rows)
  OBVIOUS
<1>6. /\ DOMAIN pos = E
      /\ \A y \in E : pos[y] \in DOMAIN rt.rows /\ rt.rows[pos[y]] = y
  <2>1. Points(pos, rt.rows, E)
    BY <1>2, PositionsPoint
  <2> QED BY <2>1 DEF Points
<1>7. DOMAIN f = Fresh(r) \cup E /\ \A y \in DOMAIN f : f[y] = IF y \in Fresh(r) THEN p[y] ELSE pos[y]
  <2> DEFINE g == Restrict(p, Fresh(r))
  <2>1. DOMAIN g = Fresh(r) /\ \A y \in Fresh(r) : g[y] = p[y]
    BY DEF Restrict
  <2>2. f = [y \in DOMAIN g \cup DOMAIN pos |-> IF y \in DOMAIN g THEN g[y] ELSE pos[y]]
    BY DEF Seen, Over
  <2> HIDE DEF g, f, p, E
  <2>3. DOMAIN f = DOMAIN g \cup DOMAIN pos /\ \A y \in DOMAIN f : f[y] = IF y \in DOMAIN g THEN g[y] ELSE pos[y]
    BY <2>2
  <2> QED BY <1>6, <2>1, <2>3
<1>8. f = [y \in DOMAIN f |-> f[y]]
  BY DEF Seen, Over
<1> HIDE DEF f, p, rows, D, E
<1>9. DOMAIN p = D /\ \A y \in D : p[y] \in DOMAIN rows /\ rows[p[y]] = y
  <2>1. Points(p, rows, D)
    BY <1>1, <1>5, PositionsPoint
  <2> QED BY <2>1 DEF Points
<1>10. E \subseteq D
  BY DEF D, E
<1>11. DOMAIN f = D
  BY <1>3, <1>4, <1>7, <1>10
<1>12. f = [y \in D |-> f[y]]
  BY <1>8, <1>11
<1>13. \A y \in D : f[y] \in DOMAIN rows /\ rows[f[y]] = y
  <2> SUFFICES ASSUME NEW y \in D PROVE f[y] \in DOMAIN rows /\ rows[f[y]] = y
    OBVIOUS
  <2>1. CASE y \in Fresh(r)
    BY <1>7, <1>9, <1>11, <2>1
  <2>2. CASE y \notin Fresh(r)
    <3>1. y \in E /\ f[y] = pos[y]
      BY <1>4, <1>7, <1>11, <2>2
    <3>2. pos[y] \in DOMAIN rt.rows /\ rt.rows[pos[y]] = y
      BY <1>6, <3>1
    <3>3. pos[y] \in DOMAIN rows /\ rows[pos[y]] = y
      BY <3>2 DEF rows
    <3> QED BY <3>1, <3>3
  <2> QED BY <2>1, <2>2
<1>14. f = Positions(rows)
  BY <1>1, <1>12, <1>13, PositionsKnown
<1> QED BY <1>3, <1>4, <1>14 DEF f, rows, D, E

LEMMA StrictlyAfter ==
  ASSUME NEW n \in Nat, NEW x \in Nat, NEW m \in Nat, NEW y \in Nat, n < m \/ (n <= m /\ x # y),
         Before(<<n, x>>, <<m, y>>)
  PROVE  ~Before(<<m, y>>, <<n, x>>)
BY DEF Before

LEMMA ProceedInStep ==
  ASSUME Shape, Pace, Steady, pc = "loop", Reaches, Top[1] >= rt.now,
         NEW out, Settled(Reached, Top[2], out), out.fate \in {"again", "retire"}, Proceed(Top[2], out)
  PROVE  InStep'
<1> DEFINE x == Top[2]
           t == Top[1]
           r == out.rt
           again == IF out.fate = "retire" THEN {} ELSE {<<t + out.after, x>>}
<1>1. /\ t \in Nat /\ x \in Routes /\ x \in Live(rt) /\ Top = <<t, x>> /\ t >= rt.now
      /\ rt.now \in Nat /\ Doc(rt) /\ Routes \subseteq Nat
  <2>1. Doc(rt)
    BY DEF Shape
  <2>2. t \in Nat /\ x \in Routes /\ x \in Live(rt) /\ Top = <<t, x>>
    BY LoopTop
  <2>3. rt.now \in Nat
    BY <2>1, DocFields
  <2> QED BY <2>1, <2>2, <2>3, RankAssumption DEF RankAssumption
<1>2. /\ Doc(Reached) /\ Reached.now = t /\ Reached.due = rt.due /\ Reached.rows = rt.rows
      /\ Reached.held = rt.held
  BY ReachedDoc
<1>3. Doc(r) /\ r.now = t /\ r.held = rt.held
  BY <1>2 DEF Settled, Follows
<1>4. /\ Doc(rt') /\ rt'.now = t /\ rt'.held = rt.held
      /\ out.fate = "again" => rt'.due[x] = t + out.after /\ DOMAIN rt'.due = DOMAIN r.due
      /\ out.fate = "retire" => DOMAIN rt'.due = DOMAIN r.due \ {x}
      /\ \A y \in DOMAIN rt'.due : y # x => rt'.due[y] = r.due[y]
      /\ At(r, x) = Positions(r.rows) => pos' = Positions(rt'.rows)
  BY <1>2, ProceedWorks DEF Carried
<1>5. CASE Rebuilds(r, x)
  <2>1. queue' = Entries(rt') /\ known' = Generations(rt') /\ pos' = Positions(rt'.rows)
    BY <1>5, ProceedLeft
  <2>2. \A e \in known' : e \in queue' \/ e[2] \in rt'.held
    BY <1>4, <2>1, ReadInStep
  <2> QED BY <2>1, <2>2 DEF InStep
<1>6. CASE ~Rebuilds(r, x)
  <2>1. /\ queue' = {e \in queue : ~Before(e, Top)} \cup again
                       \cup {<<r.due[y], y>> : y \in Unseen(r) \cap Live(r)}
        /\ known' = known \cup again \cup {<<r.due[y], y>> : y \in Unseen(r)}
    BY <1>6, ProceedLeft
  <2>2. Grown(Reached, r)
    <3>1. x # Recon /\ ~(Len(r.rows) < Len(rt.rows))
      BY <1>6 DEF Rebuilds
    <3>2. Plain(Reached, r)
      BY <3>1 DEF Settled
    <3> QED BY <1>2, <3>1, <3>2 DEF Plain
  <2>3. /\ Len(rt.rows) <= Len(r.rows)
        /\ \A i \in DOMAIN rt.rows : i \in DOMAIN r.rows /\ r.rows[i] = rt.rows[i]
        /\ \A y \in DOMAIN rt.due : y \in DOMAIN r.due /\ r.due[y] = rt.due[y]
        /\ \A y \in DOMAIN r.due \ DOMAIN rt.due : r.due[y] > t
    BY <1>2, <1>3, <2>2 DEF Grown
  <2>4. Entries(rt) \subseteq queue /\ pos = Positions(rt.rows)
        /\ \A e \in known : e \in queue \/ e[2] \in rt.held \/ e[1] <= rt.now
    BY DEF Pace, InStep
  <2>5. Fresh(r) = DOMAIN r.due \ DOMAIN rt.due /\ Seen(r) = Positions(r.rows)
    BY <1>1, <1>3, <2>3, <2>4, GrownSeen
  <2>6. pos' = Positions(rt'.rows)
    BY <1>4, <1>6, <2>5 DEF At
  <2>7. Live(r) = DOMAIN r.due \ rt.held /\ Live(rt') = DOMAIN rt'.due \ rt.held
        /\ Live(rt) = DOMAIN rt.due \ rt.held
    BY <1>3, <1>4 DEF Live
  <2> HIDE DEF x, t, r, again
  <2>8. ASSUME NEW y \in Live(rt') PROVE <<rt'.due[y], y>> \in queue'
    <3>1. CASE y = x
      <4>1. out.fate = "again"
        BY <1>4, <2>7, <3>1
      <4> QED BY <1>4, <2>1, <3>1, <4>1 DEF again
    <3>2. CASE y # x /\ y \in DOMAIN rt.due
      <4>1. y \in DOMAIN r.due /\ rt'.due[y] = rt.due[y] /\ y \in Live(rt)
        BY <1>4, <2>3, <2>7, <3>2
      <4>2. Before(Top, <<rt.due[y], y>>) /\ t <= rt.due[y]
        BY <4>1, NothingBefore DEF t
      <4>3. rt.due[y] \in Nat /\ y \in Nat /\ x \in Nat
        BY <1>1, <4>1, DocFields DEF Live
      <4>4. ~Before(<<rt.due[y], y>>, Top)
        BY <1>1, <3>2, <4>2, <4>3, StrictlyAfter
      <4>5. <<rt.due[y], y>> \in queue
        BY <2>4, <4>1 DEF Entries
      <4> QED BY <2>1, <4>1, <4>4, <4>5
    <3>3. CASE y # x /\ y \notin DOMAIN rt.due
      <4>1. y \in DOMAIN r.due /\ rt'.due[y] = r.due[y] /\ y \in Live(r) /\ y \in Fresh(r)
            /\ y \notin rt.held
        BY <1>4, <2>5, <2>7, <3>3
      <4>2. r.due[y] > t /\ r.due[y] \in Nat /\ y \in Nat
        BY <1>1, <1>3, <2>3, <3>3, <4>1, DocFields
      <4>3. CASE <<r.due[y], y>> \notin known
        BY <2>1, <4>1, <4>3 DEF Unseen
      <4>4. CASE <<r.due[y], y>> \in known
        <5> DEFINE e == <<r.due[y], y>>
        <5>1. e[1] = r.due[y] /\ e[2] = y
          OBVIOUS
        <5>2. ~(e[1] <= rt.now)
          BY <1>1, <4>2, <5>1
        <5>3. e \in queue
          BY <2>4, <4>1, <4>4, <5>1, <5>2
        <5>4. ~Before(e, Top)
          BY <1>1, <4>2 DEF Before
        <5> QED BY <2>1, <4>1, <5>3, <5>4
      <4> QED BY <4>3, <4>4
    <3> QED BY <3>1, <3>2, <3>3
  <2>9. ASSUME NEW e \in known' PROVE e \in queue' \/ e[2] \in rt'.held \/ e[1] <= rt'.now
    <3>1. CASE e \in known
      <4>1. CASE e \in queue /\ ~Before(e, Top)
        BY <2>1, <4>1
      <4>2. CASE e \in queue /\ Before(e, Top)
        <5>1. e \in Nat \X Routes
          BY <4>2 DEF Shape
        <5>2. e[1] \in Nat /\ (e[1] < t \/ e[1] = t)
          BY <4>2, <5>1 DEF Before, t
        <5> QED BY <1>1, <1>4, <5>2
      <4>3. CASE e[2] \in rt.held
        BY <1>4, <4>3
      <4>4. CASE e[1] <= rt.now
        <5>1. e \in Nat \X Routes
          BY <3>1 DEF Shape
        <5>2. e[1] \in Nat
          BY <5>1
        <5> QED BY <1>1, <1>4, <4>4, <5>2
      <4> QED BY <2>4, <3>1, <4>1, <4>2, <4>3, <4>4
    <3>2. CASE e \in again
      BY <2>1, <3>2
    <3>3. ASSUME NEW y \in Unseen(r), e = <<r.due[y], y>>
          PROVE  e \in queue' \/ e[2] \in rt'.held
      <4>1. y \in DOMAIN r.due
        BY <2>5 DEF Unseen
      <4>2. CASE y \in Live(r)
        BY <2>1, <3>3, <4>2
      <4>3. CASE y \notin Live(r)
        <5>1. y \in rt'.held
          BY <1>4, <2>7, <4>1, <4>3
        <5> QED BY <3>3, <5>1
      <4> QED BY <4>2, <4>3
    <3> QED BY <2>1, <3>1, <3>2, <3>3
  <2>10. Entries(rt') \subseteq queue'
    BY <2>8 DEF Entries
  <2> QED BY <2>6, <2>9, <2>10 DEF InStep
<1> QED BY <1>5, <1>6

-----------------------------------------------------------------------------
(* The invariants hold.                                                         *)

LEMMA NoHeapIn == Places(<<>>) /\ 0 \in 0 .. MaxTime /\ NoCommand \in Commands
<1>1. MaxTime \in Nat
  BY TimeAssumption DEF TimeAssumption
<1> QED BY <1>1 DEF Places, NoCommand, Commands

LEMMA ProceedShape ==
  ASSUME Shape, pc = "loop", Reaches, Top[1] >= rt.now, UNCHANGED <<saved, cmd, step>>,
         NEW out, Settled(Reached, Top[2], out), out.fate \in {"again", "retire"}, Proceed(Top[2], out)
  PROVE  Shape'
<1>1. Carried(Reached, Top[1], rt') /\ Places(pos') /\ pc' = "loop"
  BY ProceedWorks, ProceedLeft
<1>2. Recon \in DOMAIN Reached.due /\ Reached.held = rt.held /\ Reached.wake = rt.wake /\ Top[1] \in Nat
  BY ReachedDoc
<1>3. /\ Doc(rt') /\ rt'.now = Top[1] /\ rt'.held = rt.held /\ rt'.wake = rt.wake
      /\ Recon \in DOMAIN rt'.due
  BY <1>1, <1>2 DEF Carried
<1>4. rt'.held = Asked(rt')
  BY <1>3 DEF Shape, Asked
<1>5. queue' \subseteq Nat \X Routes /\ known' \subseteq Nat \X Routes
  BY ProceedHeap
<1>6. Top[1] <= step /\ step <= cmd.target /\ step \in Nat /\ cmd.target \in Nat
  BY LoopTop, KindsRoutes DEF Shape, Commands
<1>7. rt'.now <= cmd'.target /\ rt'.now <= step' /\ step' <= cmd'.target
  BY <1>2, <1>3, <1>6
<1>8. cmd'.kind # "other" => rt'.held = {}
  BY <1>3 DEF Shape
<1> QED BY <1>1, <1>3, <1>4, <1>5, <1>7, <1>8 DEF Shape, Stages

LEMMA SuspendShape ==
  ASSUME Shape, pc = "loop", Reaches, Top[1] >= rt.now, UNCHANGED <<saved, cmd, step>>,
         NEW out, Settled(Reached, Top[2], out), out.fate = "wake", Suspend(Top[2], out.rt)
  PROVE  Shape'
<1>1. Doc(rt') /\ rt'.held = Asked(rt') /\ Recon \in DOMAIN rt'.due
  BY SuspendWorks
<1>2. NoHeap /\ pc' = "stopped"
  BY DEF Suspend
<1> QED BY <1>1, <1>2, NoHeapIn DEF Shape, NoHeap, Stages

LEMMA ShapeNext ==
  ASSUME Shape, [Next]_vars
  PROVE  Shape'
<1>1. CASE Respond
  <2>1. Answers(rt, rt') /\ saved' = rt'
    BY <1>1, RespondWorks
  <2>2. pc = "idle" /\ UNCHANGED <<cmd, pc, step, queue, known, pos>>
    BY <1>1 DEF Respond
  <2> QED BY <2>1, <2>2 DEF Shape, Answers
<1>2. CASE Begin
  <2>1. /\ Answers(rt, rt') /\ Recon \in DOMAIN rt'.due /\ saved' = saved /\ pc' = "begin"
        /\ cmd' \in Commands /\ rt'.now <= cmd'.target
    BY <1>2, BeginWorks
  <2>2. UNCHANGED <<step, queue, known, pos>>
    BY <1>2 DEF Begin
  <2> QED BY <2>1, <2>2 DEF Shape, Answers, Stages
<1>3. CASE StartWindow
  <2>1. /\ Answers(rt, rt') /\ (cmd.kind # "other" => rt'.held = {})
        /\ step' \in Nat /\ rt'.now <= step' /\ step' <= cmd.target
    BY <1>3, StartWindowWorks
  <2>2. /\ pc \in {"begin", "between"} /\ pc' = "loop" /\ queue' = Entries(rt')
        /\ known' = Generations(rt') /\ pos' = Positions(rt'.rows) /\ UNCHANGED <<saved, cmd>>
    BY <1>3 DEF StartWindow
  <2>3. Doc(rt') /\ rt'.held = Asked(rt') /\ rt'.now = rt.now /\ Recon \in DOMAIN rt'.due
    BY <2>1, <2>2 DEF Answers, Shape
  <2>4. queue' \subseteq Nat \X Routes /\ known' \subseteq Nat \X Routes /\ Places(pos')
    BY <2>2, <2>3, EntriesIn
  <2>5. rt'.now <= cmd'.target
    BY <2>2, <2>3 DEF Shape
  <2>6. step' \in 0 .. MaxTime
    BY <2>1, KindsRoutes DEF Shape, Commands
  <2> QED BY <2>1, <2>2, <2>3, <2>4, <2>5, <2>6 DEF Shape, Stages
<1>4. CASE Interrupt
  <2>1. Moved(rt, rt')
    BY <1>4, InterruptWorks
  <2>2. NoHeap /\ pc' = "stopped" /\ UNCHANGED <<saved, cmd, step>>
    BY <1>4 DEF Interrupt
  <2> QED BY <2>1, <2>2, NoHeapIn DEF Shape, Moved, NoHeap, Stages
<1>5. CASE Settle
  <2>1. /\ pc = "loop" /\ Reaches /\ Top[1] >= rt.now /\ UNCHANGED <<saved, cmd, step>>
        /\ \E out : /\ Settled(Reached, Top[2], out)
                    /\ \/ out.fate = "wake" /\ Suspend(Top[2], out.rt)
                       \/ out.fate \in {"again", "retire"} /\ Proceed(Top[2], out)
    BY <1>5, SettleOutcome
  <2> QED BY <2>1, SuspendShape, ProceedShape
<1>6. CASE Close
  <2>1. Moved(rt, rt') /\ rt'.now = step
    BY <1>6, CloseWorks
  <2>2. pc = "loop" /\ NoHeap /\ pc' = "between" /\ UNCHANGED <<saved, cmd, step>>
    BY <1>6 DEF Close
  <2>3. rt'.now <= cmd'.target
    BY <2>1, <2>2 DEF Shape
  <2>4. cmd'.kind # "other" => rt'.held = {}
    BY <2>1, <2>2 DEF Shape, Moved
  <2> QED BY <2>1, <2>2, <2>3, <2>4, NoHeapIn DEF Shape, Moved, NoHeap, Stages
<1>7. CASE Commit
  <2>1. Answers(rt, rt') /\ saved' = rt'
    BY <1>7, CommitWorks
  <2>2. Done /\ UNCHANGED <<queue, known, pos>>
    BY <1>7 DEF Commit
  <2> QED BY <2>1, <2>2, NoHeapIn DEF Shape, Answers, Done, Stages
<1>8. CASE Refuse
  <2>1. rt' = saved /\ NoHeap /\ Done /\ UNCHANGED saved
    BY <1>8 DEF Refuse
  <2> QED BY <2>1, NoHeapIn DEF Shape, NoHeap, Done, Stages
<1>9. CASE UNCHANGED vars
  BY <1>9 DEF Shape, vars
<1> QED BY <1>1, <1>2, <1>3, <1>4, <1>5, <1>6, <1>7, <1>8, <1>9 DEF Next

LEMMA PaceNext ==
  ASSUME Shape, Pace, Steady, [Next]_vars
  PROVE  Pace'
<1>0. OnTime(saved) /\ Cadence(saved) /\ OnTime(rt) /\ Cadence(rt) /\ InStep
  BY DEF Pace
<1>1. CASE Respond
  <2>1. Answers(rt, rt') /\ saved' = rt'
    BY <1>1, RespondWorks
  <2>2. pc' # "loop"
    BY <1>1 DEF Respond
  <2> QED BY <1>0, <2>1, <2>2 DEF Pace, InStep, Answers
<1>2. CASE Begin
  <2>1. Answers(rt, rt') /\ saved' = saved /\ pc' = "begin"
    BY <1>2, BeginWorks
  <2> QED BY <1>0, <2>1 DEF Pace, InStep, Answers
<1>3. CASE StartWindow
  <2>1. Answers(rt, rt')
    BY <1>3, StartWindowWorks
  <2>2. /\ queue' = Entries(rt') /\ known' = Generations(rt') /\ pos' = Positions(rt'.rows)
        /\ saved' = saved
    BY <1>3 DEF StartWindow
  <2>3. \A e \in known' : e \in queue' \/ e[2] \in rt'.held
    BY <2>1, <2>2, ReadInStep DEF Answers
  <2>4. InStep'
    BY <2>2, <2>3 DEF InStep
  <2> QED BY <1>0, <2>1, <2>2, <2>4 DEF Pace, Answers
<1>4. CASE Interrupt
  <2>1. OnTime(rt') /\ Cadence(rt')
    BY <1>4, InterruptWorks
  <2>2. pc' # "loop" /\ saved' = saved
    BY <1>4 DEF Interrupt
  <2> QED BY <1>0, <2>1, <2>2 DEF Pace, InStep
<1>5. CASE Settle
  <2>1. /\ pc = "loop" /\ Reaches /\ Top[1] >= rt.now /\ saved' = saved
        /\ \E out : /\ Settled(Reached, Top[2], out)
                    /\ \/ out.fate = "wake" /\ Suspend(Top[2], out.rt)
                       \/ out.fate \in {"again", "retire"} /\ Proceed(Top[2], out)
    BY <1>5, SettleOutcome
  <2>2. PICK out : /\ Settled(Reached, Top[2], out)
                   /\ \/ out.fate = "wake" /\ Suspend(Top[2], out.rt)
                      \/ out.fate \in {"again", "retire"} /\ Proceed(Top[2], out)
    BY <2>1
  <2>3. CASE out.fate = "wake" /\ Suspend(Top[2], out.rt)
    <3>1. OnTime(rt') /\ Cadence(rt')
      BY <2>1, <2>2, <2>3, SuspendWorks
    <3>2. pc' # "loop"
      BY <2>3 DEF Suspend
    <3> QED BY <1>0, <2>1, <3>1, <3>2 DEF Pace, InStep
  <2>4. CASE out.fate \in {"again", "retire"} /\ Proceed(Top[2], out)
    <3>1. Carried(Reached, Top[1], rt')
      BY <2>1, <2>2, <2>4, ProceedWorks
    <3>2. OnTime(Reached) /\ Cadence(Reached) /\ Recon \in DOMAIN Reached.due
      BY <2>1, ReachedDoc
    <3>3. InStep'
      BY <2>1, <2>2, <2>4, ProceedInStep
    <3> QED BY <1>0, <2>1, <3>1, <3>2, <3>3 DEF Pace, Carried
  <2> QED BY <2>2, <2>3, <2>4
<1>6. CASE Close
  <2>1. OnTime(rt') /\ Cadence(rt')
    BY <1>6, CloseWorks
  <2>2. pc' # "loop" /\ saved' = saved
    BY <1>6 DEF Close
  <2> QED BY <1>0, <2>1, <2>2 DEF Pace, InStep
<1>7. CASE Commit
  <2>1. Answers(rt, rt') /\ saved' = rt'
    BY <1>7, CommitWorks
  <2>2. pc' # "loop"
    BY <1>7 DEF Commit, Done
  <2> QED BY <1>0, <2>1, <2>2 DEF Pace, InStep, Answers
<1>8. CASE Refuse
  <2>1. rt' = saved /\ saved' = saved /\ pc' # "loop"
    BY <1>8 DEF Refuse, Done
  <2> QED BY <1>0, <2>1 DEF Pace, InStep
<1>9. CASE UNCHANGED vars
  <2>1. saved' = saved /\ rt' = rt /\ pc' = pc /\ queue' = queue /\ known' = known /\ pos' = pos
    BY <1>9 DEF vars
  <2> QED BY <1>0, <2>1 DEF Pace, InStep
<1> QED BY <1>1, <1>2, <1>3, <1>4, <1>5, <1>6, <1>7, <1>8, <1>9 DEF Next

-----------------------------------------------------------------------------
(* What holds whatever the callbacks do.                                        *)

THEOREM ShapeHolds == Spec => []Shape
<1>1. Init => Shape
  BY InitHolds
<1>2. Shape /\ [Next]_vars => Shape'
  BY ShapeNext
<1> QED BY <1>1, <1>2, PTL DEF Spec

LEMMA DocDocument ==
  ASSUME NEW r, Doc(r)
  PROVE  Document(r)
<1>1. /\ r \in Runtime /\ r.now \in Nat /\ DOMAIN r.due \in SUBSET Routes
      /\ \A x \in DOMAIN r.due : r.due[x] \in Nat
      /\ \A x \in DOMAIN r.owed : r.owed[x] \in Nat /\ r.owed[x] <= r.now
      /\ DOMAIN r.owed \in SUBSET Routes
  BY DocFields
<1>2. ToSet(r.rows) = DOMAIN r.due /\ Len(r.rows) = Cardinality(DOMAIN r.due)
  BY <1>1, ListedFacts DEF Doc
<1>3. r.wake \in Wakes /\ r.ack \in {"none", "contact", "notice"} /\ r.dirty \in BOOLEAN
      /\ r.theater \in {"quiet", "engaged", "away"}
  BY <1>1 DEF Runtime
<1>4. /\ r.wake.kind \in {"none", "contact", "ceremony", "report"}
      /\ r.wake.route \in Routes \cup {NoRoute}
  BY <1>3 DEF Wakes
<1>5. \A x \in DOMAIN r.owed : r.owed[x] \in 0 .. r.now
  BY <1>1
<1> QED BY <1>1, <1>2, <1>3, <1>4, <1>5 DEF Document, Doc

(* The registry and its order list the same routes, each once, and the heap     *)
(* and the position map name routes only, whatever the callbacks of the        *)
(* settled routes do to the document (_advance_causal_runtime).                 *)
THEOREM TypeCorrect == Spec => []TypeOK
<1>1. Shape => TypeOK
  <2> SUFFICES ASSUME Shape PROVE TypeOK
    OBVIOUS
  <2>1. Document(saved) /\ Document(rt)
    BY DocDocument DEF Shape
  <2>2. cmd \in [kind : {"none", "advance", "downtime", "other"}, target : 0 .. MaxTime]
    BY DEF Shape, Commands
  <2>3. DOMAIN pos \subseteq Routes
    BY DEF Shape, Places
  <2>4. \A e \in queue \cup known : e \in Nat \X Routes
    BY DEF Shape
  <2> QED BY <2>1, <2>2, <2>3, <2>4 DEF Shape, Stages, TypeOK
<1> QED BY <1>1, ShapeHolds, PTL

(* A route sleeps exactly as long as the player is asked about it: neither a    *)
(* response, nor a resumption, nor a reconciliation, nor a refused command     *)
(* leaves a suspended route without its wake or a wake without its route.      *)
THEOREM WakeHolds == Spec => []WakeHoldsRoute
<1>1. Shape => WakeHoldsRoute
  BY DEF Shape, WakeHoldsRoute
<1> QED BY <1>1, ShapeHolds, PTL

-----------------------------------------------------------------------------
(* What holds as long as callbacks are steady.                                  *)

THEOREM PaceHolds ==
  ASSUME Steady
  PROVE  Spec => []Pace
<1>1. Init => Pace
  BY InitHolds
<1>2. Shape /\ Pace /\ [Next]_vars => Pace'
  BY PaceNext
<1> QED BY <1>1, <1>2, ShapeHolds, PTL DEF Spec

(* The clock passes no live route before it is settled (set_causal_frontier).   *)
THEOREM NothingIsOverdue ==
  ASSUME Steady
  PROVE  Spec => []NothingOverdue
<1>1. Shape /\ Pace => NothingOverdue
  <2> SUFFICES ASSUME Shape, Pace PROVE NothingOverdue
    OBVIOUS
  <2>1. ASSUME NEW r, Doc(r), OnTime(r) PROVE ~Overdue(r)
    <3>1. \A x \in Live(r) : r.due[x] \in Nat /\ r.now \in Nat
      BY <2>1, DocFields DEF Live
    <3> QED BY <2>1, <3>1 DEF OnTime, Overdue
  <2>2. Doc(saved) /\ Doc(rt) /\ OnTime(saved) /\ OnTime(rt)
    BY DEF Shape, Pace
  <2>3. ~Overdue(saved)
    BY <2>1, <2>2
  <2>4. ~Overdue(rt)
    BY <2>1, <2>2
  <2> QED BY <2>3, <2>4 DEF NothingOverdue
<1> QED BY <1>1, ShapeHolds, PaceHolds, PTL

(* Every live route that falls due in the window is in its heap, although the   *)
(* window only looks at the rows a callback has appended.                      *)
THEOREM HeapIsCovering ==
  ASSUME Steady
  PROVE  Spec => []HeapCovers
<1>1. Pace => HeapCovers
  BY DEF Pace, InStep, HeapCovers, Entries
<1> QED BY <1>1, PaceHolds, PTL

(* The position map is the order of the registry, so that the swap-delete of a  *)
(* retired route removes its own row.                                          *)
THEOREM PositionsAreExact ==
  ASSUME Steady
  PROVE  Spec => []PositionsExact
<1>1. Pace => PositionsExact
  BY DEF Pace, InStep, PositionsExact
<1> QED BY <1>1, PaceHolds, PTL

(* The reconciliation finds every owner without a route within its cadence.     *)
THEOREM OwedIsWithinCadence ==
  ASSUME Steady
  PROVE  Spec => []OwedWithinCadence
<1>1. Shape /\ Pace => OwedWithinCadence
  <2> SUFFICES ASSUME Shape, Pace PROVE OwedWithinCadence
    OBVIOUS
  <2>1. ASSUME NEW r, Doc(r), OnTime(r), Cadence(r), NEW x \in DOMAIN r.owed
        PROVE  r.now - r.owed[x] <= ReconcileEvery
    <3>1. r.now \in Nat /\ r.owed[x] \in Nat /\ ReconcileEvery \in Nat /\ Recon \notin r.held
      BY <2>1, DocFields, KindsRoutes
    <3>2. CASE Recon \in DOMAIN r.due
      <4>1. r.due[Recon] \in Nat
        BY <2>1, <3>2, DocFields
      <4>2. r.due[Recon] >= r.now
        BY <2>1, <3>1, <3>2 DEF OnTime, Live
      <4>3. r.due[Recon] <= r.owed[x] + ReconcileEvery
        BY <2>1, <3>2 DEF Cadence
      <4> QED BY <3>1, <4>1, <4>2, <4>3
    <3>3. CASE Recon \notin DOMAIN r.due
      <4>1. r.owed[x] = r.now
        BY <2>1, <3>3 DEF Cadence
      <4> QED BY <3>1, <4>1
    <3> QED BY <3>2, <3>3
  <2>2. \A r \in {saved, rt} : Doc(r) /\ OnTime(r) /\ Cadence(r)
    BY DEF Shape, Pace
  <2> QED BY <2>1, <2>2 DEF OwedWithinCadence
<1> QED BY <1>1, ShapeHolds, PaceHolds, PTL

-----------------------------------------------------------------------------
(* The scheduler implements the clock.                                          *)

LEMMA NonePassedOpen ==
  ASSUME NEW r, Doc(r), OnTime(r)
  PROVE  Clock!NonePassed(r.now, Open(r))
<1>1. \A x \in Live(r) : x \in Routes /\ r.due[x] \in Nat /\ r.due[x] >= r.now
  BY DocFields DEF Live, OnTime
<1> QED BY <1>1 DEF Clock!NonePassed, Open

LEMMA ClockBegins ==
  ASSUME Init
  PROVE  Clock!ClockInit
<1>1. Doc(rt) /\ OnTime(rt) /\ rt = saved
  BY InitHolds DEF Shape, Pace, Init
<1>2. rt.now \in Nat /\ Clock!NonePassed(rt.now, Open(rt))
  BY <1>1, DocFields, NonePassedOpen
<1> QED BY <1>1, <1>2 DEF Clock!ClockInit

(* The first entry of the heap is the first open obligation of the clock.       *)
LEMMA TopIsFirst ==
  ASSUME Shape, Pace, pc = "loop", Reaches
  PROVE  Clock!First(Top[2]) /\ Open(rt)[Top[2]] = Top[1]
<1> DEFINE x == Top[2]
<1>1. x \in Live(rt) /\ Top[1] = rt.due[x] /\ Top = <<rt.due[x], x>> /\ Top[1] \in Nat
  BY LoopTop
<1>2. \A y \in Live(rt) : rt.due[x] < rt.due[y] \/ (rt.due[x] = rt.due[y] /\ x <= y)
  <2> SUFFICES ASSUME NEW y \in Live(rt)
               PROVE  rt.due[x] < rt.due[y] \/ (rt.due[x] = rt.due[y] /\ x <= y)
    OBVIOUS
  <2>1. Before(Top, <<rt.due[y], y>>)
    BY NothingBefore
  <2> QED BY <1>1, <2>1 DEF Before
<1> HIDE DEF x
<1>3. DOMAIN Open(rt) = Live(rt) /\ \A y \in Live(rt) : Open(rt)[y] = rt.due[y]
  BY DEF Open
<1>4. Clock!First(x)
  BY <1>1, <1>2, <1>3 DEF Clock!First
<1> QED BY <1>1, <1>3, <1>4 DEF x

LEMMA SettleClock ==
  ASSUME Shape, Pace, Steady, Settle
  PROVE  \E x \in Routes : Clock!Settle(x)
<1> DEFINE x == Top[2]
<1>1. /\ pc = "loop" /\ Reaches /\ Top[1] >= rt.now /\ saved' = saved
      /\ \E out : /\ Settled(Reached, x, out)
                  /\ \/ out.fate = "wake" /\ Suspend(x, out.rt)
                     \/ out.fate \in {"again", "retire"} /\ Proceed(x, out)
  BY SettleOutcome
<1>2. Clock!First(x) /\ Open(rt)[x] = Top[1] /\ x \in Routes /\ Top[1] \in Nat
  BY <1>1, TopIsFirst, LoopTop
<1>3. PICK out : /\ Settled(Reached, x, out)
                 /\ \/ out.fate = "wake" /\ Suspend(x, out.rt)
                    \/ out.fate \in {"again", "retire"} /\ Proceed(x, out)
  BY <1>1
<1>4. Doc(rt') /\ OnTime(rt') /\ rt'.now = Top[1] /\ (x \in Live(rt') => rt'.due[x] > Top[1])
  <2>1. CASE out.fate = "wake" /\ Suspend(x, out.rt)
    BY <1>1, <1>3, <2>1, SuspendWorks
  <2>2. CASE out.fate \in {"again", "retire"} /\ Proceed(x, out)
    <3>1. /\ Carried(Reached, Top[1], rt')
          /\ out.fate = "again" => /\ rt'.due[x] = Top[1] + out.after
                                   /\ Top[1] + out.after \in Nat /\ Top[1] + out.after > Top[1]
          /\ out.fate = "retire" => DOMAIN rt'.due = DOMAIN out.rt.due \ {x}
      BY <1>1, <1>3, <2>2, ProceedWorks
    <3>2. OnTime(Reached)
      BY <1>1, ReachedDoc
    <3>3. x \in Live(rt') => rt'.due[x] > Top[1]
      BY <2>2, <3>1 DEF Live
    <3> QED BY <3>1, <3>2, <3>3 DEF Carried
  <2> QED BY <1>3, <2>1, <2>2
<1>5. Clock!NonePassed(rt'.now, Open(rt'))
  BY <1>4, NonePassedOpen
<1>6. x \in DOMAIN Open(rt') => Open(rt')[x] > Open(rt)[x]
  BY <1>2, <1>4 DEF Open
<1> HIDE DEF x
<1>7. Clock!Settle(x)
  BY <1>1, <1>2, <1>4, <1>5, <1>6 DEF Clock!Settle
<1> QED BY <1>2, <1>7

(* Every step of the scheduler is a step of the clock, or changes none of its   *)
(* variables.                                                                  *)
LEMMA ClockStep ==
  ASSUME Shape, Pace, Steady, [Next]_vars
  PROVE  [Clock!ClockNext]_<<rt.now, Open(rt), [now |-> saved.now, due |-> Open(saved)]>>
<1>1. Doc(rt') /\ OnTime(rt') /\ Doc(saved') /\ OnTime(saved')
  BY ShapeNext, PaceNext DEF Shape, Pace
<1>2. Clock!NonePassed(rt'.now, Open(rt'))
  BY <1>1, NonePassedOpen
<1>3. CASE Respond
  <2>1. rt'.now = rt.now /\ saved' = rt'
    BY <1>3, RespondWorks DEF Answers
  <2> QED BY <1>2, <2>1 DEF Clock!ClockNext, Clock!Commit
<1>4. CASE Begin
  <2>1. rt'.now = rt.now /\ saved' = saved
    BY <1>4, BeginWorks DEF Answers
  <2> QED BY <1>2, <2>1 DEF Clock!ClockNext, Clock!Arrange
<1>5. CASE StartWindow
  <2>1. rt'.now = rt.now /\ saved' = saved
    BY <1>5, StartWindowWorks DEF Answers, StartWindow
  <2> QED BY <1>2, <2>1 DEF Clock!ClockNext, Clock!Arrange
<1>6. ASSUME Moved(rt, rt'), saved' = saved PROVE Clock!ClockNext
  <2>1. Open(rt') = Open(rt)
    BY <1>6 DEF Moved, Open, Live
  <2>2. rt'.now \in Nat /\ rt.now \in Nat /\ rt'.now >= rt.now
    BY <1>1, <1>6, DocFields DEF Shape, Moved
  <2>3. CASE rt'.now > rt.now
    BY <1>2, <1>6, <2>1, <2>3 DEF Clock!ClockNext, Clock!Pass
  <2>4. CASE rt'.now = rt.now
    BY <1>2, <1>6, <2>4 DEF Clock!ClockNext, Clock!Arrange
  <2> QED BY <2>2, <2>3, <2>4
<1>7. CASE Interrupt
  <2>1. Moved(rt, rt')
    BY <1>7, InterruptWorks
  <2>2. saved' = saved
    BY <1>7 DEF Interrupt
  <2> QED BY <1>6, <2>1, <2>2
<1>8. CASE Settle
  BY <1>8, SettleClock DEF Clock!ClockNext
<1>9. CASE Close
  <2>1. Moved(rt, rt')
    BY <1>9, CloseWorks
  <2>2. saved' = saved
    BY <1>9 DEF Close
  <2> QED BY <1>6, <2>1, <2>2
<1>10. CASE Commit
  <2>1. rt'.now = rt.now /\ saved' = rt'
    BY <1>10, CommitWorks DEF Answers
  <2> QED BY <1>2, <2>1 DEF Clock!ClockNext, Clock!Commit
<1>11. CASE Refuse
  <2>1. rt' = saved /\ saved' = saved
    BY <1>11 DEF Refuse
  <2> QED BY <2>1 DEF Clock!ClockNext, Clock!Abandon
<1>12. CASE UNCHANGED vars
  BY <1>12 DEF vars
<1> QED BY <1>3, <1>4, <1>5, <1>7, <1>8, <1>9, <1>10, <1>11, <1>12 DEF Next

(* The advance settles the obligations of the world each at its instant, the    *)
(* earliest first and by rank at one instant, and the clock passes none; a     *)
(* refused command leaves what was committed (_advance_causal_runtime).         *)
THEOREM ClockRefinement ==
  ASSUME Steady
  PROVE  Spec => ClockSpec
<1>1. Shape /\ Pace /\ [Next]_vars
      => [Clock!ClockNext]_<<rt.now, Open(rt), [now |-> saved.now, due |-> Open(saved)]>>
  BY ClockStep
<1> QED BY ClockBegins, <1>1, ShapeHolds, PaceHolds, PTL DEF Spec, ClockSpec, Clock!ClockSpec, Clock!cvars

=============================================================================
