------------------------ MODULE PrisonerCustodyProofs ------------------------
(***************************************************************************)
(* Proofs about PrisonerCustody: no command, review or commit loses or     *)
(* invents a captive.  The documents of prisoners agree with one another    *)
(* (Sound); one lemma per operator says what it keeps of that, also where    *)
(* a later check refuses its result, and that nobody then guards and no      *)
(* place holds more prisoners, or no more than is allowed (Within); what a   *)
(* commit accepts satisfies the rest (Fine).                                *)
(***************************************************************************)
EXTENDS PrisonerCustody, CountingProofs

Worlds ==
    [group : [Refs -> Groups \cup {None}], lent : [Refs -> Int], host : SUBSET Refs,
     ptr : [Persons -> Refs \cup {None}], at : [Persons -> Places],
     alive : [Persons -> BOOLEAN], leads : SUBSET Persons,
     foe : [n : Nat, at : Places, to : Captors \cup {None}, offered : Nat],
     siege : Offers \cup {None}, fought : SUBSET Battles,
     unit : [Captors -> Units \cup {None}], free : [Sides -> Int],
     head : [Sides -> Int], levy : [Sides -> Int], dead : Int,
     wrote : SUBSET Refs, ok : BOOLEAN]

\* The active groups among the documents G.
Live(G) == {g \in Refs : G[g] # None /\ G[g].held /\ G[g].n + Cardinality(G[g].named) > 0}

\* Whoever a group lists points to it, and whoever points to a group is listed by it.
Pointed(G, P, T) == \A g \in Refs : G[g] # None => \A p \in G[g].named \ T : P[p] = g
Known(G, P, X) == \A p \in Persons \ X : P[p] # None => G[P[p]] # None /\ p \in G[P[p]].named

\* The host routes every active group, and groups only.
Routed(G, h) == Live(G) \subseteq h /\ \A g \in h : G[g] # None

\* What is lent to a group is counted in it, and what a force has is free, in units or lent.
Lent(G, L) == \A g \in Refs : L[g] = IF G[g] # None THEN G[g].n ELSE 0
BodiesOf(u) == IF u # None THEN u.n ELSE 0
Balanced(x) ==
    /\ x.head["enemy"] = x.free["enemy"] + x.foe.n + SumFunctionOnSet(x.lent, Refs)
    /\ x.head["captor"] = x.free["captor"]
                            + SumFunctionOnSet([c \in Captors |-> BodiesOf(x.unit[c])], Captors)
    /\ x.levy = x.head
    /\ x.head["enemy"] + x.head["captor"] + x.dead
         = Garrison + SumFunctionOnSet(Strength, Captors)

\* What the commands keep, and what the validation of a commit adds.
Sound(x, T, X) ==
    /\ x \in Worlds
    /\ Pointed(x.group, x.ptr, T)
    /\ Known(x.group, x.ptr, X)
    /\ Routed(x.group, x.host)
    /\ Lent(x.group, x.lent)
    /\ Balanced(x)
Fine(G, A, T) == \A g \in Refs : G[g] # None =>
    /\ ~G[g].held => G[g].named = {}
    /\ \A p \in G[g].named \ T : A[p] = G[g].at

IInv ==
    /\ Sound(w, twice, twice \cup executed)
    /\ Fine(w.group, w.at, twice)
    /\ twice \in SUBSET Persons /\ executed \in SUBSET Persons

-----------------------------------------------------------------------------
LEMMA NoneIsNone ==
  /\ None \notin Groups /\ None \notin Units /\ None \notin Offers /\ None \notin Refs
BY NoneAssumption

LEMMA WorldFields ==
  ASSUME NEW x \in Worlds
  PROVE  /\ x.group \in [Refs -> Groups \cup {None}] /\ x.lent \in [Refs -> Int]
         /\ x.host \in SUBSET Refs /\ x.ptr \in [Persons -> Refs \cup {None}]
         /\ x.at \in [Persons -> Places] /\ x.alive \in [Persons -> BOOLEAN]
         /\ x.leads \in SUBSET Persons
         /\ x.foe \in [n : Nat, at : Places, to : Captors \cup {None}, offered : Nat]
         /\ x.siege \in Offers \cup {None} /\ x.fought \in SUBSET Battles
         /\ x.unit \in [Captors -> Units \cup {None}] /\ x.free \in [Sides -> Int]
         /\ x.head \in [Sides -> Int] /\ x.levy \in [Sides -> Int] /\ x.dead \in Int
         /\ x.wrote \in SUBSET Refs /\ x.ok \in BOOLEAN
BY DEF Worlds

LEMMA GroupFields ==
  ASSUME NEW x \in Worlds, NEW g \in Refs, x.group[g] # None
  PROVE  /\ x.group[g] \in Groups
         /\ x.group[g].held \in BOOLEAN /\ x.group[g].cust \in Captors
         /\ x.group[g].at \in Places /\ x.group[g].source \in BOOLEAN
         /\ x.group[g].n \in Nat /\ x.group[g].slices \in Nat
         /\ x.group[g].named \in SUBSET Persons /\ IsFiniteSet(x.group[g].named)
         /\ Cardinality(x.group[g].named) \in Nat
<1>1. x.group[g] \in Groups
  BY WorldFields
<1>2. /\ x.group[g].held \in BOOLEAN /\ x.group[g].cust \in Captors
      /\ x.group[g].at \in Places /\ x.group[g].source \in BOOLEAN
      /\ x.group[g].n \in Nat /\ x.group[g].slices \in Nat
      /\ x.group[g].named \in SUBSET Persons
  BY <1>1 DEF Groups
<1>3. IsFiniteSet(x.group[g].named)
  BY <1>2, CustodyAssumption, FS_Subset
<1> QED BY <1>1, <1>2, <1>3, FS_CardinalityType

LEMMA LiveIsActives ==
  ASSUME NEW x PROVE Live(x.group) = Actives(x)
BY DEF Live, Actives, Active, Exists, People

\* All that the bodies are counted in, but for the groups and what is lent to them.
SameElse(x, y) ==
    /\ y.free = x.free /\ y.foe = x.foe /\ y.unit = x.unit
    /\ y.head = x.head /\ y.levy = x.levy /\ y.dead = x.dead
SameBodies(x, y) == y.group = x.group /\ y.lent = x.lent /\ SameElse(x, y)

\* Groups may lose bodies and be closed; nobody is listed anew, and nobody left out.
Shrunk(G, H) == \A g \in Refs :
    /\ (H[g] = None) <=> (G[g] = None)
    /\ G[g] # None => /\ H[g].named = G[g].named
                      /\ H[g].held => G[g].held
                      /\ H[g].n <= G[g].n

LEMMA ShrunkSound ==
  ASSUME NEW T, NEW X, NEW x, NEW y \in Worlds, Sound(x, T, X),
         Shrunk(x.group, y.group), y.ptr = x.ptr, y.host = x.host,
         Lent(y.group, y.lent), Balanced(y)
  PROVE  Sound(y, T, X)
<1>1. Pointed(y.group, y.ptr, T)
  BY DEF Sound, Shrunk, Pointed
<1>2. Known(y.group, y.ptr, X)
  <2> SUFFICES ASSUME NEW p \in Persons \ X, y.ptr[p] # None
               PROVE  y.group[y.ptr[p]] # None /\ p \in y.group[y.ptr[p]].named
    BY DEF Known
  <2>1. y.ptr[p] \in Refs
    BY WorldFields
  <2>2. x.group[y.ptr[p]] # None /\ p \in x.group[y.ptr[p]].named
    BY DEF Sound, Known
  <2> QED BY <2>1, <2>2 DEF Shrunk
<1>3. Live(y.group) \subseteq Live(x.group)
  <2> SUFFICES ASSUME NEW g \in Live(y.group) PROVE g \in Live(x.group)
    OBVIOUS
  <2>1. g \in Refs /\ y.group[g] # None /\ y.group[g].held
        /\ y.group[g].n + Cardinality(y.group[g].named) > 0
    BY DEF Live
  <2>2. x.group[g] # None /\ y.group[g].named = x.group[g].named
        /\ x.group[g].held /\ y.group[g].n <= x.group[g].n
    BY <2>1 DEF Shrunk
  <2>3. x \in Worlds
    BY DEF Sound
  <2>4. x.group[g].n \in Nat /\ y.group[g].n \in Nat /\ Cardinality(x.group[g].named) \in Nat
    BY <2>1, <2>2, <2>3, GroupFields
  <2>5. x.group[g].n + Cardinality(x.group[g].named) > 0
    BY <2>1, <2>2, <2>4
  <2> QED BY <2>1, <2>2, <2>5 DEF Live
<1>4. \A g \in y.host : y.group[g] # None
  <2>1. y.host \in SUBSET Refs /\ \A g \in y.host : x.group[g] # None
    BY WorldFields DEF Sound, Routed
  <2> QED BY <2>1 DEF Shrunk
<1> QED BY <1>1, <1>2, <1>3, <1>4 DEF Sound, Routed

\* Nothing changes that Sound is about.
LEMMA AlikeSound ==
  ASSUME NEW T, NEW X, NEW x, NEW y \in Worlds, Sound(x, T, X),
         SameBodies(x, y), y.ptr = x.ptr, Routed(x.group, y.host)
  PROVE  Sound(y, T, X)
BY DEF Sound, SameBodies, SameElse, Balanced

LEMMA WiderSound ==
  ASSUME NEW T, NEW X, NEW U, NEW Y, NEW x, Sound(x, T, X), T \subseteq U, X \subseteq Y
  PROVE  Sound(x, U, Y)
BY DEF Sound, Pointed, Known

LEMMA LentNat ==
  ASSUME NEW T, NEW X, NEW x, Sound(x, T, X), NEW g \in Refs
  PROVE  x.lent[g] \in Nat /\ (x.group[g] # None => x.lent[g] = x.group[g].n)
<1>1. x \in Worlds /\ x.lent[g] = IF x.group[g] # None THEN x.group[g].n ELSE 0
  BY DEF Sound, Lent
<1> QED BY <1>1, GroupFields

LEMMA RefsFinite == IsFiniteSet(Refs)
BY CustodyAssumption, FS_Product, FS_Union DEF Refs

-----------------------------------------------------------------------------
(* How many prisoners a custodian guards and a place holds. *)

LEMMA UnitIs ==
  ASSUME NEW x \in Worlds, NEW c \in Captors, Stands(x, c)
  PROVE  x.unit[c] \in Units /\ x.unit[c].n \in Nat /\ x.unit[c].at \in Places
<1>1. x.unit[c] \in Units
  BY WorldFields DEF Stands
<1> QED BY <1>1 DEF Units

\* The people of a group, the groups of a custodian and at a place, and how many people
\* the groups of Q are.
Size(d) == d.n + Cardinality(d.named)
Under(G, c) == {g \in Live(G) : G[g].cust = c}
Inside(G, l) == {g \in Live(G) : G[g].at = l}
Weight(G, Q) == SumFunctionOnSet([g \in Refs |-> IF g \in Q THEN Size(G[g]) ELSE 0], Refs)

\* Nobody guards and no place holds more in y than in x, or else what is allowed in y.
Within(x, y) ==
    /\ \A c \in Captors :
         \/ Weight(y.group, Under(y.group, c)) <= Weight(x.group, Under(x.group, c))
         \/ /\ y.unit[c] # None
            /\ Weight(y.group, Under(y.group, c)) <= Ratio * y.unit[c].n
    /\ \A l \in Places :
         \/ Weight(y.group, Inside(y.group, l)) <= Weight(x.group, Inside(x.group, l))
         \/ Weight(y.group, Inside(y.group, l)) <= Room[l]

\* No group is new, larger or elsewhere.
Lighter(G, H) == \A g \in Live(H) :
    /\ g \in Live(G) /\ Size(H[g]) <= Size(G[g])
    /\ H[g].cust = G[g].cust /\ H[g].at = G[g].at

LEMMA SizeNat ==
  ASSUME NEW x \in Worlds, NEW g \in Refs, x.group[g] # None
  PROVE  Size(x.group[g]) \in Nat
BY GroupFields DEF Size

LEMMA TermNat ==
  ASSUME NEW x \in Worlds, NEW Q, Q \subseteq Live(x.group), NEW g \in Refs
  PROVE  (IF g \in Q THEN Size(x.group[g]) ELSE 0) \in Nat
BY SizeNat DEF Live

LEMMA WeightNat ==
  ASSUME NEW x \in Worlds, NEW Q, Q \subseteq Live(x.group)
  PROVE  Weight(x.group, Q) \in Nat
<1> DEFINE f == [g \in Refs |-> IF g \in Q THEN Size(x.group[g]) ELSE 0]
<1>1. \A g \in Refs : f[g] \in Nat
  BY TermNat
<1> HIDE DEF f
<1>2. SumFunctionOnSet(f, Refs) \in Nat
  BY <1>1, RefsFinite, SumNat
<1> QED BY <1>2 DEF Weight, f

LEMMA WeightLess ==
  ASSUME NEW x \in Worlds, NEW y \in Worlds, NEW Q, NEW R,
         Q \subseteq Live(x.group), R \subseteq Live(y.group),
         \A g \in R : g \in Q /\ Size(y.group[g]) <= Size(x.group[g])
  PROVE  Weight(y.group, R) <= Weight(x.group, Q)
<1> DEFINE a == [g \in Refs |-> IF g \in Q THEN Size(x.group[g]) ELSE 0]
           b == [g \in Refs |-> IF g \in R THEN Size(y.group[g]) ELSE 0]
<1>1. ASSUME NEW g \in Refs PROVE a[g] \in Nat /\ b[g] \in Nat /\ b[g] <= a[g]
  BY TermNat
<1> HIDE DEF a, b
<1>2. SumFunctionOnSet(b, Refs) <= SumFunctionOnSet(a, Refs)
  BY <1>1, RefsFinite, SumLess
<1> QED BY <1>2 DEF Weight, a, b

LEMMA WeightPlus ==
  ASSUME NEW x \in Worlds, NEW Q, Q \subseteq Live(x.group), NEW g \in Q
  PROVE  Weight(x.group, Q) = Weight(x.group, Q \ {g}) + Size(x.group[g])
<1> DEFINE R == Q \ {g}
           a == [h \in Refs |-> IF h \in R THEN Size(x.group[h]) ELSE 0]
           b == [h \in Refs |-> IF h \in Q THEN Size(x.group[h]) ELSE 0]
<1>1. g \in Refs /\ R \subseteq Live(x.group)
  BY DEF Live
<1>2. \A h \in Refs : a[h] \in Nat /\ b[h] \in Nat /\ (h # g => b[h] = a[h])
  <2>1. \A h \in Refs : a[h] \in Nat /\ b[h] \in Nat
    <3> HIDE DEF R
    <3> QED BY <1>1, TermNat
  <2> QED BY <2>1
<1>3. a[g] = 0 /\ b[g] = Size(x.group[g])
  BY <1>1
<1> HIDE DEF a, b
<1> DEFINE s == SumFunctionOnSet(a, Refs)
           t == SumFunctionOnSet(b, Refs)
<1>4. t = s - a[g] + b[g]
  BY <1>1, <1>2, RefsFinite, SumOne
<1>5. s \in Nat
  BY <1>2, RefsFinite, SumNat
<1>6. t = s + b[g]
  <2> HIDE DEF s, t
  <2> QED BY <1>1, <1>2, <1>3, <1>4, <1>5
<1>7. s = Weight(x.group, R) /\ t = Weight(x.group, Q)
  BY DEF Weight, a, b
<1> QED BY <1>3, <1>6, <1>7

LEMMA SumIsOnDomain ==
  ASSUME NEW f PROVE SumFunction(f) = SumFunctionOnSet(f, DOMAIN f)
BY DEF SumFunction, SumFunctionOnSet, FoldFunction, FoldFunctionOnSet

LEMMA TotalIs ==
  ASSUME NEW x \in Worlds, NEW Q, Q \subseteq Live(x.group)
  PROVE  Total(x, Q) = Weight(x.group, Q)
<1> DEFINE a == [g \in Q |-> People(x, g)]
           b == [g \in Refs |-> IF g \in Q THEN Size(x.group[g]) ELSE 0]
<1>1. Q \in SUBSET Refs
  BY DEF Live
<1>2. \A g \in Q : a[g] \in Int /\ b[g] = a[g]
  <2> SUFFICES ASSUME NEW g \in Q PROVE a[g] \in Int /\ b[g] = a[g]
    OBVIOUS
  <2>1. g \in Refs /\ x.group[g] # None
    BY DEF Live
  <2>2. a[g] = Size(x.group[g])
    BY <2>1 DEF People, Exists, Size
  <2> QED BY <2>1, <2>2, SizeNat
<1>3. \A g \in Refs \ Q : b[g] = 0
  OBVIOUS
<1>4. DOMAIN a = Q
  OBVIOUS
<1>5. Total(x, Q) = SumFunctionOnSet(a, Q)
  <2>1. SumFunction(a) = SumFunctionOnSet(a, DOMAIN a)
    BY SumIsOnDomain
  <2> QED BY <1>4, <2>1 DEF Total
<1> HIDE DEF a, b
<1>6. SumFunctionOnSet(b, Refs) = SumFunctionOnSet(a, Q)
  BY <1>1, <1>2, <1>3, RefsFinite, SumPart
<1> QED BY <1>5, <1>6 DEF Weight, b

LEMMA LighterWithin ==
  ASSUME NEW x \in Worlds, NEW y \in Worlds, Lighter(x.group, y.group)
  PROVE  Within(x, y)
<1>1. ASSUME NEW c \in Captors
      PROVE  Weight(y.group, Under(y.group, c)) <= Weight(x.group, Under(x.group, c))
  <2> DEFINE Q == Under(x.group, c)
             R == Under(y.group, c)
  <2>1. Q \subseteq Live(x.group) /\ R \subseteq Live(y.group)
        /\ \A g \in R : g \in Q /\ Size(y.group[g]) <= Size(x.group[g])
    BY DEF Lighter, Under
  <2> HIDE DEF Q, R
  <2>2. Weight(y.group, R) <= Weight(x.group, Q)
    BY <2>1, WeightLess
  <2> QED BY <2>2 DEF Q, R
<1>2. ASSUME NEW l \in Places
      PROVE  Weight(y.group, Inside(y.group, l)) <= Weight(x.group, Inside(x.group, l))
  <2> DEFINE Q == Inside(x.group, l)
             R == Inside(y.group, l)
  <2>1. Q \subseteq Live(x.group) /\ R \subseteq Live(y.group)
        /\ \A g \in R : g \in Q /\ Size(y.group[g]) <= Size(x.group[g])
    BY DEF Lighter, Inside
  <2> HIDE DEF Q, R
  <2>2. Weight(y.group, R) <= Weight(x.group, Q)
    BY <2>1, WeightLess
  <2> QED BY <2>2 DEF Q, R
<1> QED BY <1>1, <1>2 DEF Within

LEMMA WithinTwice ==
  ASSUME NEW x \in Worlds, NEW y \in Worlds, NEW z \in Worlds,
         Within(x, y), Within(y, z), z.unit = y.unit
  PROVE  Within(x, z)
<1>1. ASSUME NEW c \in Captors
      PROVE  \/ Weight(z.group, Under(z.group, c)) <= Weight(x.group, Under(x.group, c))
             \/ /\ z.unit[c] # None
                /\ Weight(z.group, Under(z.group, c)) <= Ratio * z.unit[c].n
  <2> DEFINE a == Weight(x.group, Under(x.group, c))
             b == Weight(y.group, Under(y.group, c))
             d == Weight(z.group, Under(z.group, c))
             m == Ratio * z.unit[c].n
  <2>1. a \in Nat /\ b \in Nat /\ d \in Nat
    <3>1. \A G : Under(G, c) \subseteq Live(G)
      BY DEF Under
    <3> QED BY <3>1, WeightNat
  <2>2. z.unit[c] # None => m \in Int
    <3> SUFFICES ASSUME z.unit[c] # None PROVE Ratio * z.unit[c].n \in Int
      OBVIOUS
    <3>1. Ratio \in Nat /\ z.unit[c].n \in Nat
      BY UnitIs, CustodyAssumption DEF Stands
    <3> QED BY <3>1
  <2>3. b <= a \/ (z.unit[c] # None /\ b <= m)
    BY DEF Within
  <2>4. d <= b \/ (z.unit[c] # None /\ d <= m)
    BY DEF Within
  <2> HIDE DEF a, b, d, m
  <2>5. d <= a \/ (z.unit[c] # None /\ d <= m)
    BY <2>1, <2>2, <2>3, <2>4
  <2> QED BY <2>5 DEF a, d, m
<1>2. ASSUME NEW l \in Places
      PROVE  \/ Weight(z.group, Inside(z.group, l)) <= Weight(x.group, Inside(x.group, l))
             \/ Weight(z.group, Inside(z.group, l)) <= Room[l]
  <2> DEFINE a == Weight(x.group, Inside(x.group, l))
             b == Weight(y.group, Inside(y.group, l))
             d == Weight(z.group, Inside(z.group, l))
             m == Room[l]
  <2>1. a \in Nat /\ b \in Nat /\ d \in Nat
    <3>1. \A G : Inside(G, l) \subseteq Live(G)
      BY DEF Inside
    <3> QED BY <3>1, WeightNat
  <2>2. m \in Nat
    BY CustodyAssumption
  <2>3. b <= a \/ b <= m
    BY DEF Within
  <2>4. d <= b \/ d <= m
    BY DEF Within
  <2> HIDE DEF a, b, d, m
  <2>5. d <= a \/ d <= m
    BY <2>1, <2>2, <2>3, <2>4
  <2> QED BY <2>5 DEF a, d, m
<1> QED BY <1>1, <1>2 DEF Within

LEMMA WithinLighter ==
  ASSUME NEW x \in Worlds, NEW y \in Worlds, NEW z \in Worlds,
         Within(x, y), Lighter(y.group, z.group), z.unit = y.unit
  PROVE  Within(x, z)
<1>1. Within(y, z)
  BY LighterWithin
<1> QED BY <1>1, WithinTwice

\* What fits may be taken.
LEMMA AtMostLess ==
  ASSUME NEW k \in Nat, NEW a \in Nat, NEW b \in Nat, NEW m \in Nat, NEW n \in Nat, k > 0,
         k <= AtMost(Minus(m, a), Minus(n, b))
  PROVE  a + k <= m /\ b + k <= n
<1>1. k <= Minus(m, a) /\ k <= Minus(n, b)
  <2>1. Minus(m, a) \in Int /\ Minus(n, b) \in Int
    BY DEF Minus
  <2> DEFINE i == Minus(m, a)
             j == Minus(n, b)
  <2>2. i \in Int /\ j \in Int /\ k <= AtMost(i, j)
    BY <2>1
  <2> HIDE DEF i, j
  <2>3. k <= i /\ k <= j
    BY <2>2 DEF AtMost
  <2> QED BY <2>3 DEF i, j
<1> QED BY <1>1 DEF Minus

LEMMA FitsWithin ==
  ASSUME NEW x \in Worlds, NEW y \in Worlds, NEW g \in Refs, y.group[g] # None,
         \A h \in Refs \ {g} : y.group[h] = x.group[h], Fits(y, g)
  PROVE  Within(x, y)
<1> DEFINE H == y.group
           e == H[g].cust
           m == H[g].at
           k == Size(H[g])
           A == Under(H, e) \ {g}
           B == Inside(H, m) \ {g}
           n == Ratio * y.unit[e].n
<1>1. e \in Captors /\ m \in Places /\ k \in Nat
  BY GroupFields, SizeNat
<1>2. A \subseteq Live(H) /\ B \subseteq Live(H)
  BY DEF Under, Inside
<1>3. y.unit[e] # None /\ n \in Nat /\ Room[m] \in Nat
  <2>1. Stands(y, e) /\ Ratio \in Nat /\ Room[m] \in Nat
    BY <1>1, CustodyAssumption DEF Fits
  <2>2. y.unit[e].n \in Nat
    BY <1>1, <2>1, UnitIs
  <2> QED BY <2>1, <2>2 DEF Stands
<1>4. k <= AtMost(Minus(n, Weight(H, A)), Minus(Room[m], Weight(H, B)))
  <2>1. People(y, g) = k
    BY DEF People, Exists, Size
  <2>2. People(y, g) <= Capacity(y, e, m, g)
    BY DEF Fits
  <2> DEFINE others == {h \in Actives(y) : h # g}
  <2>3. {h \in others : H[h].cust = e} = A /\ {h \in others : H[h].at = m} = B
    BY LiveIsActives DEF Under, Inside
  <2>4. Capacity(y, e, m, g) = AtMost(Minus(n, Total(y, A)), Minus(Room[m], Total(y, B)))
    <3> HIDE DEF A, B
    <3> QED BY <2>3 DEF Capacity
  <2> HIDE DEF A, B
  <2>5. Total(y, A) = Weight(H, A) /\ Total(y, B) = Weight(H, B)
    BY <1>2, TotalIs
  <2> QED BY <2>1, <2>2, <2>4, <2>5
<1>5. g \in Live(H) => Weight(H, A) + k <= n /\ Weight(H, B) + k <= Room[m]
  <2> SUFFICES ASSUME g \in Live(H)
               PROVE  Weight(H, A) + k <= n /\ Weight(H, B) + k <= Room[m]
    OBVIOUS
  <2>1. k > 0
    BY DEF Live, Size
  <2> DEFINE a == Weight(H, A)
             b == Weight(H, B)
             r == Room[m]
  <2>2. a \in Nat /\ b \in Nat
    <3> HIDE DEF A, B
    <3> QED BY <1>2, WeightNat
  <2>3. k <= AtMost(Minus(n, a), Minus(r, b)) /\ r \in Nat
    BY <1>3, <1>4
  <2> HIDE DEF a, b, k, n, r
  <2>4. a + k <= n /\ b + k <= r
    BY <1>1, <1>3, <2>1, <2>2, <2>3, AtMostLess
  <2> QED BY <2>4 DEF a, b, r
<1>6. ASSUME NEW c \in Captors
      PROVE  \/ Weight(H, Under(H, c)) <= Weight(x.group, Under(x.group, c))
             \/ y.unit[c] # None /\ Weight(H, Under(H, c)) <= Ratio * y.unit[c].n
  <2> DEFINE Q == Under(x.group, c)
             R == Under(H, c)
  <2>1. Q \subseteq Live(x.group) /\ R \subseteq Live(H)
    BY DEF Under
  <2>2. CASE g \in R
    <3>1. c = e /\ g \in Live(H)
      BY <2>2 DEF Under
    <3>2. R \ {g} = A
      BY <3>1
    <3>3. Weight(H, R) = Weight(H, R \ {g}) + k
      <4> HIDE DEF R
      <4> QED BY <2>1, <2>2, WeightPlus
    <3>4. Weight(H, R) <= n
      BY <1>5, <3>1, <3>2, <3>3
    <3> QED BY <1>3, <3>1, <3>4
  <2>3. CASE g \notin R
    <3>1. \A h \in R : h \in Q /\ Size(H[h]) <= Size(x.group[h])
      <4> SUFFICES ASSUME NEW h \in R PROVE h \in Q /\ Size(H[h]) <= Size(x.group[h])
        OBVIOUS
      <4>1. h \in Refs /\ h # g /\ H[h] # None
        BY <2>3 DEF Under, Live
      <4>2. H[h] = x.group[h] /\ Size(H[h]) \in Nat
        BY <4>1, SizeNat
      <4>3. h \in Q
        BY <4>1, <4>2 DEF Under, Live
      <4> QED BY <4>2, <4>3
    <3> HIDE DEF Q, R
    <3>2. Weight(H, R) <= Weight(x.group, Q)
      BY <2>1, <3>1, WeightLess
    <3> QED BY <3>2 DEF Q, R
  <2> QED BY <2>2, <2>3
<1>7. ASSUME NEW l \in Places
      PROVE  \/ Weight(H, Inside(H, l)) <= Weight(x.group, Inside(x.group, l))
             \/ Weight(H, Inside(H, l)) <= Room[l]
  <2> DEFINE Q == Inside(x.group, l)
             R == Inside(H, l)
  <2>1. Q \subseteq Live(x.group) /\ R \subseteq Live(H)
    BY DEF Inside
  <2>2. CASE g \in R
    <3>1. l = m /\ g \in Live(H)
      BY <2>2 DEF Inside
    <3>2. R \ {g} = B
      BY <3>1
    <3>3. Weight(H, R) = Weight(H, R \ {g}) + k
      <4> HIDE DEF R
      <4> QED BY <2>1, <2>2, WeightPlus
    <3>4. Weight(H, R) <= Room[m]
      BY <1>5, <3>1, <3>2, <3>3
    <3> QED BY <3>1, <3>4
  <2>3. CASE g \notin R
    <3>1. \A h \in R : h \in Q /\ Size(H[h]) <= Size(x.group[h])
      <4> SUFFICES ASSUME NEW h \in R PROVE h \in Q /\ Size(H[h]) <= Size(x.group[h])
        OBVIOUS
      <4>1. h \in Refs /\ h # g /\ H[h] # None
        BY <2>3 DEF Inside, Live
      <4>2. H[h] = x.group[h] /\ Size(H[h]) \in Nat
        BY <4>1, SizeNat
      <4>3. h \in Q
        BY <4>1, <4>2 DEF Inside, Live
      <4> QED BY <4>2, <4>3
    <3> HIDE DEF Q, R
    <3>2. Weight(H, R) <= Weight(x.group, Q)
      BY <2>1, <3>1, WeightLess
    <3> QED BY <3>2 DEF Q, R
  <2> QED BY <2>2, <2>3
<1> QED BY <1>6, <1>7 DEF Within

\* The same of the model's own operators: whoever guards more, or where more are held,
\* does so within capacity.
Respects(x, y) ==
    /\ \A c \in Captors : GuardedBy(y, c) > GuardedBy(x, c) =>
          Stands(y, c) /\ GuardedBy(y, c) <= Ratio * y.unit[c].n
    /\ \A l \in Places : HeldAt(y, l) > HeldAt(x, l) => HeldAt(y, l) <= Room[l]

LEMMA WithinRespects ==
  ASSUME NEW x \in Worlds, NEW y \in Worlds, Within(x, y)
  PROVE  Respects(x, y)
<1>1. ASSUME NEW z \in Worlds, NEW c
      PROVE  /\ GuardedBy(z, c) = Weight(z.group, Under(z.group, c))
             /\ HeldAt(z, c) = Weight(z.group, Inside(z.group, c))
             /\ GuardedBy(z, c) \in Nat /\ HeldAt(z, c) \in Nat
  <2> DEFINE Q == Under(z.group, c)
             R == Inside(z.group, c)
  <2>1. GuardedBy(z, c) = Total(z, Q) /\ HeldAt(z, c) = Total(z, R)
    BY LiveIsActives DEF GuardedBy, HeldAt, Under, Inside
  <2>2. Q \subseteq Live(z.group) /\ R \subseteq Live(z.group)
    BY DEF Under, Inside
  <2> HIDE DEF Q, R
  <2>3. /\ Total(z, Q) = Weight(z.group, Q) /\ Total(z, R) = Weight(z.group, R)
        /\ Weight(z.group, Q) \in Nat /\ Weight(z.group, R) \in Nat
    BY <2>2, TotalIs, WeightNat
  <2> QED BY <2>1, <2>3 DEF Q, R
<1>2. ASSUME NEW c \in Captors, GuardedBy(y, c) > GuardedBy(x, c)
      PROVE  Stands(y, c) /\ GuardedBy(y, c) <= Ratio * y.unit[c].n
  <2>1. \/ GuardedBy(y, c) <= GuardedBy(x, c)
        \/ Stands(y, c) /\ GuardedBy(y, c) <= Ratio * y.unit[c].n
    BY <1>1 DEF Within, Stands
  <2>2. GuardedBy(y, c) \in Nat /\ GuardedBy(x, c) \in Nat
    BY <1>1
  <2> QED BY <1>2, <2>1, <2>2
<1>3. ASSUME NEW l \in Places, HeldAt(y, l) > HeldAt(x, l)
      PROVE  HeldAt(y, l) <= Room[l]
  <2>1. HeldAt(y, l) <= HeldAt(x, l) \/ HeldAt(y, l) <= Room[l]
    BY <1>1 DEF Within
  <2>2. HeldAt(y, l) \in Nat /\ HeldAt(x, l) \in Nat
    BY <1>1
  <2> QED BY <1>3, <2>1, <2>2
<1> QED BY <1>2, <1>3 DEF Respects

LEMMA WithinAlike ==
  ASSUME NEW x, NEW y, NEW z, Within(x, y), z.group = y.group, z.unit = y.unit
  PROVE  Within(x, z)
BY DEF Within

LEMMA SameLighter ==
  ASSUME NEW x \in Worlds PROVE Lighter(x.group, x.group)
BY SizeNat DEF Lighter, Live

\* Only g may be another one.
LEMMA OneLighter ==
  ASSUME NEW x \in Worlds, NEW g \in Refs, NEW H, \A h \in Refs \ {g} : H[h] = x.group[h],
         g \in Live(H) => /\ g \in Live(x.group) /\ Size(H[g]) <= Size(x.group[g])
                         /\ H[g].cust = x.group[g].cust /\ H[g].at = x.group[g].at
  PROVE  Lighter(x.group, H)
<1> SUFFICES ASSUME NEW h \in Live(H)
             PROVE  /\ h \in Live(x.group) /\ Size(H[h]) <= Size(x.group[h])
                    /\ H[h].cust = x.group[h].cust /\ H[h].at = x.group[h].at
  BY DEF Lighter
<1>1. CASE h = g
  BY <1>1
<1>2. CASE h # g
  <2>1. h \in Refs /\ H[h] = x.group[h]
    BY <1>2 DEF Live
  <2>2. h \in Live(x.group)
    BY <2>1 DEF Live
  <2>3. Size(x.group[h]) \in Nat
    BY <2>1, <2>2, SizeNat DEF Live
  <2> QED BY <2>1, <2>2, <2>3
<1> QED BY <1>1, <1>2

LEMMA LighterTwice ==
  ASSUME NEW x \in Worlds, NEW y \in Worlds, NEW z \in Worlds,
         Lighter(x.group, y.group), Lighter(y.group, z.group)
  PROVE  Lighter(x.group, z.group)
<1> SUFFICES ASSUME NEW h \in Live(z.group)
             PROVE  /\ h \in Live(x.group) /\ Size(z.group[h]) <= Size(x.group[h])
                    /\ z.group[h].cust = x.group[h].cust /\ z.group[h].at = x.group[h].at
  BY DEF Lighter
<1>1. h \in Live(y.group) /\ h \in Live(x.group) /\ h \in Refs
  BY DEF Lighter, Live
<1>2. Size(x.group[h]) \in Nat /\ Size(y.group[h]) \in Nat /\ Size(z.group[h]) \in Nat
  BY <1>1, SizeNat DEF Live
<1>3. /\ Size(z.group[h]) <= Size(y.group[h]) /\ Size(y.group[h]) <= Size(x.group[h])
      /\ z.group[h].cust = x.group[h].cust /\ z.group[h].at = x.group[h].at
  BY <1>1 DEF Lighter
<1> QED BY <1>1, <1>2, <1>3

\* Groups that shrink where they are.
LEMMA ShrunkLighter ==
  ASSUME NEW x \in Worlds, NEW y \in Worlds, Shrunk(x.group, y.group),
         \A g \in Refs : x.group[g] # None =>
            y.group[g].cust = x.group[g].cust /\ y.group[g].at = x.group[g].at
  PROVE  Lighter(x.group, y.group)
<1> SUFFICES ASSUME NEW g \in Live(y.group)
             PROVE  /\ g \in Live(x.group) /\ Size(y.group[g]) <= Size(x.group[g])
                    /\ y.group[g].cust = x.group[g].cust /\ y.group[g].at = x.group[g].at
  BY DEF Lighter
<1>1. g \in Refs /\ y.group[g] # None /\ y.group[g].held /\ Size(y.group[g]) > 0
  BY DEF Live, Size
<1>2. /\ x.group[g] # None /\ x.group[g].held
      /\ y.group[g].named = x.group[g].named /\ y.group[g].n <= x.group[g].n
  BY <1>1 DEF Shrunk
<1>3. /\ x.group[g].n \in Nat /\ y.group[g].n \in Nat
      /\ Cardinality(x.group[g].named) \in Nat
  BY <1>1, <1>2, GroupFields
<1> DEFINE k == Cardinality(x.group[g].named)
           m == x.group[g].n
           n == y.group[g].n
<1>4. Size(x.group[g]) = m + k /\ Size(y.group[g]) = n + k
  BY <1>2 DEF Size
<1>5. k \in Nat /\ m \in Nat /\ n \in Nat /\ n <= m
  BY <1>2, <1>3
<1> HIDE DEF k, m, n
<1>6. Size(y.group[g]) <= Size(x.group[g]) /\ Size(x.group[g]) > 0
  BY <1>1, <1>4, <1>5
<1>7. g \in Live(x.group)
  BY <1>1, <1>2, <1>6 DEF Live, Size
<1> QED BY <1>1, <1>2, <1>6, <1>7

\* One person less in a group.
LEMMA FewerLighter ==
  ASSUME NEW x \in Worlds, NEW y \in Worlds, NEW g \in Refs, x.group[g] # None, NEW p,
         y.group[g].named = x.group[g].named \ {p}, y.group[g].n = x.group[g].n,
         y.group[g].held = x.group[g].held,
         y.group[g].cust = x.group[g].cust, y.group[g].at = x.group[g].at,
         \A h \in Refs \ {g} : y.group[h] = x.group[h]
  PROVE  Lighter(x.group, y.group)
<1>1. /\ x.group[g].n \in Nat /\ IsFiniteSet(x.group[g].named)
      /\ Cardinality(x.group[g].named) \in Nat
  BY GroupFields
<1>2. /\ Cardinality(x.group[g].named \ {p}) \in Nat
      /\ Cardinality(x.group[g].named \ {p}) <= Cardinality(x.group[g].named)
  BY <1>1, FS_Subset, FS_CardinalityType
<1> DEFINE k == Cardinality(x.group[g].named)
           j == Cardinality(x.group[g].named \ {p})
           n == x.group[g].n
<1>3. /\ Size(x.group[g]) = n + k /\ Size(y.group[g]) = n + j
      /\ k \in Nat /\ j \in Nat /\ n \in Nat /\ j <= k
  BY <1>1, <1>2 DEF Size
<1> HIDE DEF k, j, n
<1>4. /\ Size(y.group[g]) <= Size(x.group[g])
      /\ Size(y.group[g]) > 0 => Size(x.group[g]) > 0
  BY <1>3
<1>5. g \in Live(y.group) => g \in Live(x.group)
  BY <1>4 DEF Live, Size
<1> QED BY <1>4, <1>5, OneLighter

-----------------------------------------------------------------------------
(* Records with new fields. *)

LEMMA WithCustody ==
  ASSUME NEW x \in Worlds, NEW G \in [Refs -> Groups \cup {None}],
         NEW P \in [Persons -> Refs \cup {None}], NEW A \in [Persons -> Places]
  PROVE  [x EXCEPT !.group = G, !.ptr = P, !.at = A] \in Worlds
BY DEF Worlds

LEMMA WithBodies ==
  ASSUME NEW x \in Worlds, NEW G \in [Refs -> Groups \cup {None}],
         NEW L \in [Refs -> Int], NEW F \in [Sides -> Int]
  PROVE  [x EXCEPT !.group = G, !.lent = L, !.free = F] \in Worlds
BY DEF Worlds

LEMMA WithDead ==
  ASSUME NEW x \in Worlds, NEW G \in [Refs -> Groups \cup {None}],
         NEW L \in [Refs -> Int], NEW H \in [Sides -> Int], NEW V \in [Sides -> Int],
         NEW d \in Int, NEW W \in SUBSET Refs
  PROVE  [x EXCEPT !.group = G, !.lent = L, !.head = H, !.levy = V, !.dead = d,
                   !.wrote = W] \in Worlds
BY DEF Worlds

LEMMA WithFoe ==
  ASSUME NEW x \in Worlds, NEW G \in [Refs -> Groups \cup {None}],
         NEW L \in [Refs -> Int],
         NEW f \in [n : Nat, at : Places, to : Captors \cup {None}, offered : Nat],
         NEW s \in Offers \cup {None}
  PROVE  [x EXCEPT !.group = G, !.lent = L, !.foe = f, !.siege = s] \in Worlds
BY DEF Worlds

LEMMA WithUnits ==
  ASSUME NEW x \in Worlds, NEW U \in [Captors -> Units \cup {None}], NEW F \in [Sides -> Int]
  PROVE  [x EXCEPT !.unit = U, !.free = F] \in Worlds
BY DEF Worlds

LEMMA WithGroup ==
  ASSUME NEW x \in Worlds, NEW G \in [Refs -> Groups \cup {None}]
  PROVE  [x EXCEPT !.group = G] \in Worlds
BY DEF Worlds

LEMMA WithMarks ==
  ASSUME NEW x \in Worlds, NEW h \in SUBSET Refs, NEW W \in SUBSET Refs, NEW o \in BOOLEAN
  PROVE  [x EXCEPT !.host = h, !.wrote = W, !.ok = o] \in Worlds
BY DEF Worlds

-----------------------------------------------------------------------------
(* What the operators write. *)

LEMMA RefuseIs ==
  ASSUME NEW x \in Worlds
  PROVE  /\ Refuse(x) \in Worlds /\ SameBodies(x, Refuse(x)) /\ ~Refuse(x).ok
         /\ Refuse(x).ptr = x.ptr /\ Refuse(x).host = x.host /\ Refuse(x).at = x.at
<1>1. [x EXCEPT !.host = x.host, !.wrote = x.wrote, !.ok = FALSE] \in Worlds
  BY WorldFields, WithMarks
<1>2. Refuse(x) = [x EXCEPT !.host = x.host, !.wrote = x.wrote, !.ok = FALSE]
  BY DEF Worlds, Refuse
<1>3. Refuse(x) \in Worlds
  BY <1>1, <1>2
<1> QED BY <1>3 DEF Worlds, Refuse, SameBodies, SameElse

LEMMA ListedIs ==
  ASSUME NEW x \in Worlds
  PROVE  /\ Listed(x) \in Worlds /\ SameBodies(x, Listed(x)) /\ Listed(x).ok = x.ok
         /\ Listed(x).ptr = x.ptr /\ Listed(x).host = Actives(x) /\ Listed(x).at = x.at
<1>0. Actives(x) \in SUBSET Refs
  BY DEF Actives
<1>1. [x EXCEPT !.host = Actives(x), !.wrote = x.wrote, !.ok = x.ok] \in Worlds
  BY <1>0, WorldFields, WithMarks
<1>2. Listed(x) = [x EXCEPT !.host = Actives(x), !.wrote = x.wrote, !.ok = x.ok]
  BY DEF Worlds, Listed
<1>3. Listed(x) \in Worlds
  BY <1>1, <1>2
<1> QED BY <1>3 DEF Worlds, Listed, SameBodies, SameElse

LEMMA WroteIs ==
  ASSUME NEW x \in Worlds, NEW g \in Refs
  PROVE  /\ Wrote(x, g) \in Worlds /\ SameBodies(x, Wrote(x, g)) /\ Wrote(x, g).ok = x.ok
         /\ Wrote(x, g).ptr = x.ptr /\ Wrote(x, g).host = x.host /\ Wrote(x, g).at = x.at
<1>0. x.wrote \cup {g} \in SUBSET Refs
  BY WorldFields
<1>1. [x EXCEPT !.host = x.host, !.wrote = x.wrote \cup {g}, !.ok = x.ok] \in Worlds
  BY <1>0, WorldFields, WithMarks
<1>2. Wrote(x, g) = [x EXCEPT !.host = x.host, !.wrote = x.wrote \cup {g}, !.ok = x.ok]
  BY DEF Worlds, Wrote
<1>3. Wrote(x, g) \in Worlds
  BY <1>1, <1>2
<1> QED BY <1>3 DEF Worlds, Wrote, SameBodies, SameElse

LEMMA GivenType ==
  ASSUME NEW x \in Worlds, NEW g \in Refs, x.group[g] # None
  PROVE  /\ StillHeld(x, g) \in Int /\ StillHeld(x, g) <= x.lent[g]
         /\ \A k \in Int : Minus(x.group[g].n, k) \in Int /\ Minus(x.lent[g], k) \in Int
         /\ Minus(x.group[g].n, 0) = x.group[g].n
<1>1. x.group[g].n \in Nat /\ x.group[g].slices \in Nat
  BY GroupFields
<1>2. x.lent[g] \in Int
  BY WorldFields
<1> QED BY <1>1, <1>2 DEF StillHeld, AtMost, Minus

\* The bodies that a release of g sets free.
Given(x, g) == IF x.group[g].n > 0 THEN StillHeld(x, g) ELSE 0

LEMMA FreeBodiesIs ==
  ASSUME NEW x \in Worlds, NEW g \in Refs, x.group[g] # None, x.lent[g] \in Nat
  PROVE  LET y == FreeBodies(x, g) IN
         /\ y \in Worlds /\ y.ok = x.ok
         /\ y.group[g] \in Groups /\ ~y.group[g].held
         /\ y.group[g].n = Minus(x.group[g].n, Given(x, g))
         /\ y.group[g].named = x.group[g].named /\ y.group[g].at = x.group[g].at
         /\ y.group[g].cust = x.group[g].cust
         /\ \A h \in Refs \ {g} : y.group[h] = x.group[h] /\ y.lent[h] = x.lent[h]
         /\ y.lent[g] = Minus(x.lent[g], Given(x, g))
         /\ y.free["enemy"] = x.free["enemy"] + Given(x, g)
         /\ y.free["captor"] = x.free["captor"]
         /\ y.ptr = x.ptr /\ y.host = x.host /\ y.at = x.at
         /\ y.foe = x.foe /\ y.unit = x.unit
         /\ y.head = x.head /\ y.levy = x.levy /\ y.dead = x.dead
<1> DEFINE given == Given(x, g)
           r == [x.group[g] EXCEPT !.n = Minus(x.group[g].n, given), !.held = FALSE]
           G == [x.group EXCEPT ![g] = r]
           L == [x.lent EXCEPT ![g] = Minus(x.lent[g], given)]
           F == [x.free EXCEPT !["enemy"] = x.free["enemy"] + given]
           y == FreeBodies(x, g)
<1>1. given \in Nat
  BY GroupFields DEF Given, StillHeld, AtMost
<1>2. Minus(x.group[g].n, given) \in Nat /\ Minus(x.lent[g], given) \in Int
  <2>1. x.group[g].n \in Nat
    BY GroupFields
  <2> HIDE DEF given
  <2> QED BY <1>1, <2>1 DEF Minus
<1>a. y = [x EXCEPT !.free["enemy"] = @ + given, !.lent[g] = Minus(@, given),
                    !.group[g].n = Minus(@, given), !.group[g].held = FALSE]
  BY DEF FreeBodies, Given
<1> HIDE DEF given
<1>3. y = [x EXCEPT !.group = G, !.lent = L, !.free = F]
  <2> HIDE DEF y
  <2> QED BY <1>a, <1>1 DEF Worlds, Groups
<1>4. r \in Groups
  BY <1>2, GroupFields DEF Groups
<1>9. /\ r.n = Minus(x.group[g].n, given) /\ ~r.held
      /\ r.named = x.group[g].named /\ r.at = x.group[g].at
      /\ r.cust = x.group[g].cust
  BY GroupFields DEF Groups
<1> HIDE DEF r
<1>5. G \in [Refs -> Groups \cup {None}] /\ L \in [Refs -> Int] /\ F \in [Sides -> Int]
  BY <1>1, <1>2, <1>4, WorldFields DEF Sides
<1>6. y \in Worlds
  <2> HIDE DEF G, L, F, y
  <2> QED BY <1>3, <1>5, WithBodies
<1>7. /\ y.group = G /\ y.lent = L /\ y.free = F
      /\ y.ok = x.ok /\ y.ptr = x.ptr /\ y.host = x.host /\ y.at = x.at
      /\ y.foe = x.foe /\ y.unit = x.unit
      /\ y.head = x.head /\ y.levy = x.levy /\ y.dead = x.dead
  <2> HIDE DEF G, L, F, y
  <2> QED BY <1>3 DEF Worlds
<1>8. /\ G[g] = r
      /\ \A h \in Refs \ {g} : G[h] = x.group[h] /\ L[h] = x.lent[h]
      /\ L[g] = Minus(x.lent[g], given)
      /\ F["enemy"] = x.free["enemy"] + given /\ F["captor"] = x.free["captor"]
  BY WorldFields DEF Sides
<1> HIDE DEF G, L, F, y
<1> QED BY <1>4, <1>6, <1>7, <1>8, <1>9 DEF given, y

LEMMA FreePeopleIs ==
  ASSUME NEW x \in Worlds, NEW g \in Refs, x.group[g] # None
  PROVE  LET y == FreePeople(x, g) IN
         /\ y \in Worlds /\ y.ok = x.ok
         /\ y.group[g] \in Groups /\ y.group[g].named = {}
         /\ y.group[g].n = x.group[g].n /\ y.group[g].held = x.group[g].held
         /\ y.group[g].at = x.group[g].at /\ y.group[g].cust = x.group[g].cust
         /\ \A h \in Refs \ {g} : y.group[h] = x.group[h]
         /\ \A p \in Persons :
              y.ptr[p] = IF p \in x.group[g].named THEN None ELSE x.ptr[p]
         /\ y.lent = x.lent /\ SameElse(x, y) /\ y.host = x.host
<1> DEFINE named == x.group[g].named
           r == [x.group[g] EXCEPT !.named = {}]
           G == [x.group EXCEPT ![g] = r]
           P == [p \in Persons |-> IF p \in named THEN None ELSE x.ptr[p]]
           A == [p \in Persons |-> IF p \in named THEN x.group[g].at ELSE x.at[p]]
           y == FreePeople(x, g)
<1>1. y = [x EXCEPT !.group = G, !.ptr = P, !.at = A]
  BY DEF FreePeople, Worlds, Groups
<1>2. /\ r \in Groups /\ r.named = {} /\ r.n = x.group[g].n /\ r.held = x.group[g].held
      /\ r.at = x.group[g].at /\ r.cust = x.group[g].cust
  BY GroupFields DEF Groups
<1> HIDE DEF r, named
<1>3. /\ G \in [Refs -> Groups \cup {None}]
      /\ P \in [Persons -> Refs \cup {None}] /\ A \in [Persons -> Places]
  BY <1>2, WorldFields, GroupFields
<1>4. G[g] = r /\ \A h \in Refs \ {g} : G[h] = x.group[h]
  BY WorldFields
<1>5. \A p \in Persons : P[p] = IF p \in named THEN None ELSE x.ptr[p]
  OBVIOUS
<1> HIDE DEF G, P, A, y
<1>6. y \in Worlds
  BY <1>1, <1>3, WithCustody
<1>7. /\ y.group = G /\ y.ptr = P /\ y.ok = x.ok /\ y.lent = x.lent /\ y.host = x.host
      /\ y.free = x.free /\ y.foe = x.foe /\ y.unit = x.unit
      /\ y.head = x.head /\ y.levy = x.levy /\ y.dead = x.dead
  BY <1>1 DEF Worlds
<1> QED BY <1>2, <1>4, <1>5, <1>6, <1>7 DEF y, named, SameElse

LEMMA FreePeopleSound ==
  ASSUME NEW T, NEW X, NEW x, Sound(x, T, X), NEW g \in Refs, x.group[g] # None
  PROVE  Sound(FreePeople(x, g), T, X)
<1> DEFINE y == FreePeople(x, g)
<1>0. x \in Worlds
  BY DEF Sound
<1>1. /\ y \in Worlds /\ y.ok = x.ok
      /\ y.group[g] \in Groups /\ y.group[g].named = {}
      /\ y.group[g].n = x.group[g].n /\ y.group[g].held = x.group[g].held
      /\ \A h \in Refs \ {g} : y.group[h] = x.group[h]
      /\ \A p \in Persons : y.ptr[p] = IF p \in x.group[g].named THEN None ELSE x.ptr[p]
      /\ y.lent = x.lent /\ SameElse(x, y) /\ y.host = x.host
  BY <1>0, FreePeopleIs
<1> HIDE DEF y
<1>2. y.group[g] # None
  BY <1>1, NoneIsNone
<1>3. Pointed(y.group, y.ptr, T)
  <2> SUFFICES ASSUME NEW h \in Refs, y.group[h] # None, NEW p \in y.group[h].named \ T
               PROVE  y.ptr[p] = h
    BY DEF Pointed
  <2>1. h # g
    BY <1>1
  <2>2. x.group[h] # None /\ p \in x.group[h].named \ T
    BY <1>1, <2>1
  <2>3. x.ptr[p] = h /\ p \in Persons
    BY <1>0, <2>2, GroupFields DEF Sound, Pointed
  <2>4. p \notin x.group[g].named
    BY <2>1, <2>2, <2>3 DEF Sound, Pointed
  <2> QED BY <1>1, <2>3, <2>4
<1>4. Known(y.group, y.ptr, X)
  <2> SUFFICES ASSUME NEW p \in Persons \ X, y.ptr[p] # None
               PROVE  y.group[y.ptr[p]] # None /\ p \in y.group[y.ptr[p]].named
    BY DEF Known
  <2>1. p \notin x.group[g].named /\ y.ptr[p] = x.ptr[p]
    BY <1>1
  <2>2. x.group[x.ptr[p]] # None /\ p \in x.group[x.ptr[p]].named /\ x.ptr[p] \in Refs
    BY <1>0, <2>1, WorldFields DEF Sound, Known
  <2>3. x.ptr[p] # g
    BY <2>1, <2>2
  <2> QED BY <1>1, <2>1, <2>2, <2>3
<1>5. Routed(y.group, y.host)
  <2>0. y.host \in SUBSET Refs /\ \A h \in y.host : y.group[h] # None
    BY <1>1, <1>2, WorldFields DEF Sound, Routed
  <2> SUFFICES ASSUME NEW h \in Live(y.group) PROVE h \in Live(x.group)
    BY <1>1, <2>0 DEF Sound, Routed
  <2>1. h \in Refs /\ y.group[h] # None /\ y.group[h].held
        /\ y.group[h].n + Cardinality(y.group[h].named) > 0
    BY DEF Live
  <2>2. CASE h # g
    BY <1>1, <2>1, <2>2 DEF Live
  <2>3. CASE h = g
    <3>1. y.group[g].n > 0
      BY <1>0, <1>1, <2>1, <2>3, FS_EmptySet, GroupFields
    <3>2. x.group[g].n + Cardinality(x.group[g].named) > 0
      BY <1>0, <1>1, <3>1, GroupFields
    <3> QED BY <1>1, <2>1, <2>3, <3>2 DEF Live
  <2> QED BY <2>2, <2>3
<1>6. Lent(y.group, y.lent)
  BY <1>1, <1>2 DEF Sound, Lent
<1>7. Balanced(y)
  BY <1>1 DEF Sound, Balanced, SameElse
<1> QED BY <1>1, <1>3, <1>4, <1>5, <1>6, <1>7 DEF Sound, y

\* What is lent changes at one group.
LEMMA LentSum ==
  ASSUME NEW L \in [Refs -> Int], NEW M \in [Refs -> Int], NEW g \in Refs,
         \A h \in Refs \ {g} : M[h] = L[h]
  PROVE  /\ SumFunctionOnSet(M, Refs) = SumFunctionOnSet(L, Refs) - L[g] + M[g]
         /\ SumFunctionOnSet(L, Refs) \in Int /\ SumFunctionOnSet(M, Refs) \in Int
<1>1. \A x \in Refs : L[x] \in Int /\ M[x] \in Int /\ (x # g => M[x] = L[x])
  OBVIOUS
<1> QED BY <1>1, RefsFinite, SumOne, SumInt

LEMMA HalvesOf ==
  ASSUME NEW x \in Worlds
  PROVE  /\ x.free["enemy"] \in Int /\ x.free["captor"] \in Int
         /\ x.head["enemy"] \in Int /\ x.head["captor"] \in Int
         /\ x.levy["enemy"] \in Int /\ x.levy["captor"] \in Int
         /\ x.foe.n \in Nat /\ x.foe.at \in Places /\ x.foe.offered \in Nat
         /\ x.foe.to \in Captors \cup {None} /\ x.dead \in Int
<1>1. /\ x.free \in [Sides -> Int] /\ x.head \in [Sides -> Int] /\ x.levy \in [Sides -> Int]
      /\ x.foe \in [n : Nat, at : Places, to : Captors \cup {None}, offered : Nat]
      /\ x.dead \in Int
  BY WorldFields
<1> QED BY <1>1 DEF Sides

LEMMA FreeBodiesSound ==
  ASSUME NEW T, NEW X, NEW x, Sound(x, T, X), NEW g \in Refs, x.group[g] # None
  PROVE  /\ Sound(FreeBodies(x, g), T, X) /\ Lighter(x.group, FreeBodies(x, g).group)
         /\ FreeBodies(x, g).unit = x.unit
<1> DEFINE y == FreeBodies(x, g)
           k == Given(x, g)
<1>0. x \in Worlds /\ x.lent[g] \in Nat /\ x.lent[g] = x.group[g].n
  BY LentNat DEF Sound
<1>1. /\ y \in Worlds
      /\ y.group[g] \in Groups /\ ~y.group[g].held
      /\ y.group[g].n = Minus(x.group[g].n, k)
      /\ y.group[g].named = x.group[g].named
      /\ \A h \in Refs \ {g} : y.group[h] = x.group[h] /\ y.lent[h] = x.lent[h]
      /\ y.lent[g] = Minus(x.lent[g], k)
      /\ y.free["enemy"] = x.free["enemy"] + k
      /\ y.free["captor"] = x.free["captor"]
      /\ y.ptr = x.ptr /\ y.host = x.host
      /\ y.foe = x.foe /\ y.unit = x.unit
      /\ y.head = x.head /\ y.levy = x.levy /\ y.dead = x.dead
  BY <1>0, FreeBodiesIs
<1>2. k \in Nat /\ k <= x.lent[g]
  BY <1>0, GroupFields DEF Given, StillHeld, AtMost
<1> HIDE DEF y, k
<1>3. Minus(x.lent[g], k) = x.lent[g] - k /\ x.lent[g] - k \in Nat /\ x.lent[g] - k <= x.lent[g]
  BY <1>0, <1>2 DEF Minus
<1>4. y.group[g] # None
  BY <1>1, NoneIsNone
<1>5. Shrunk(x.group, y.group)
  BY <1>0, <1>1, <1>3, <1>4, GroupFields DEF Shrunk
<1>6. Lent(y.group, y.lent)
  BY <1>0, <1>1, <1>3, <1>4 DEF Sound, Lent
<1>7. Balanced(y)
  <2>1. x.lent \in [Refs -> Int] /\ y.lent \in [Refs -> Int]
    BY <1>0, <1>1, WorldFields
  <2>2. /\ SumFunctionOnSet(y.lent, Refs) = SumFunctionOnSet(x.lent, Refs) - x.lent[g] + y.lent[g]
        /\ SumFunctionOnSet(x.lent, Refs) \in Int
    BY <1>1, <2>1, LentSum
  <2>3. Balanced(x)
    BY DEF Sound
  <2>4. /\ x.free["enemy"] \in Int /\ x.foe.n \in Int /\ x.head["enemy"] \in Int
    BY <1>0, HalvesOf
  <2>5. y.head["enemy"] = y.free["enemy"] + y.foe.n + SumFunctionOnSet(y.lent, Refs)
    <3> DEFINE s == SumFunctionOnSet(x.lent, Refs)
               t == SumFunctionOnSet(y.lent, Refs)
    <3>1. t = s - x.lent[g] + (x.lent[g] - k) /\ s \in Int
      BY <1>1, <1>3, <2>2
    <3>2. x.head["enemy"] = x.free["enemy"] + x.foe.n + s
      BY <2>3 DEF Balanced
    <3> HIDE DEF s, t
    <3>3. y.head["enemy"] = y.free["enemy"] + y.foe.n + t
      BY <1>0, <1>1, <1>2, <2>4, <3>1, <3>2
    <3> QED BY <3>3 DEF t
  <2> QED BY <1>1, <2>3, <2>5 DEF Balanced
<1>8. Lighter(x.group, y.group)
  <2>1. g \notin Live(y.group)
    BY <1>1 DEF Live
  <2> QED BY <1>0, <1>1, <2>1, OneLighter
<1>9. Sound(y, T, X)
  BY <1>1, <1>5, <1>6, <1>7, ShrunkSound
<1> QED BY <1>1, <1>8, <1>9 DEF y

LEMMA FreeSound ==
  ASSUME NEW T, NEW X, NEW x, Sound(x, T, X), NEW g \in Refs, x.group[g] # None
  PROVE  /\ Sound(Free(x, g), T, X) /\ Lighter(x.group, Free(x, g).group)
         /\ \A h \in Refs : x.group[h] # None => Free(x, g).group[h] # None
<1> DEFINE y == FreeBodies(x, g)
<1>0. x \in Worlds /\ x.lent[g] \in Nat
  BY LentNat DEF Sound
<1>1. /\ y.group[g] \in Groups /\ ~y.group[g].held
      /\ \A h \in Refs \ {g} : y.group[h] = x.group[h]
  BY <1>0, FreeBodiesIs
<1>2. Sound(y, T, X)
  BY FreeBodiesSound
<1> HIDE DEF y
<1>3. y.group[g] # None /\ y \in Worlds
  BY <1>1, <1>2, NoneIsNone DEF Sound
<1>4. Sound(FreePeople(y, g), T, X)
  BY <1>2, <1>3, FreePeopleSound
<1>5. /\ FreePeople(y, g).group[g] \in Groups /\ ~FreePeople(y, g).group[g].held
      /\ \A h \in Refs \ {g} : FreePeople(y, g).group[h] = y.group[h]
  BY <1>1, <1>3, FreePeopleIs
<1>6. \A h \in Refs : x.group[h] # None => FreePeople(y, g).group[h] # None
  BY <1>1, <1>5, NoneIsNone
<1>7. Lighter(x.group, FreePeople(y, g).group)
  <2> DEFINE z == FreePeople(y, g)
  <2>1. g \notin Live(z.group)
    BY <1>5 DEF Live
  <2>2. \A h \in Refs \ {g} : z.group[h] = x.group[h]
    BY <1>1, <1>5
  <2> HIDE DEF z
  <2>3. Lighter(x.group, z.group)
    BY <1>0, <2>1, <2>2, OneLighter
  <2> QED BY <2>3 DEF z
<1> QED BY <1>4, <1>6, <1>7 DEF Free, y

\* The document of a group is changed in what nobody counts.
Edited(x, y, g, r) ==
    /\ y.group[g] = r /\ y.unit = x.unit
    /\ \A h \in Refs \ {g} : y.group[h] = x.group[h]

LEMMA EditSound ==
  ASSUME NEW T, NEW X, NEW x, Sound(x, T, X), NEW g \in Refs, x.group[g] # None,
         NEW r \in Groups, r.named = x.group[g].named, r.n = x.group[g].n,
         r.held => x.group[g].held,
         NEW y, y = [x EXCEPT !.group = [x.group EXCEPT ![g] = r]]
  PROVE  /\ Sound(y, T, X) /\ Edited(x, y, g, r)
         /\ r.cust = x.group[g].cust /\ r.at = x.group[g].at => Lighter(x.group, y.group)
<1> DEFINE G == [x.group EXCEPT ![g] = r]
<1>0. x \in Worlds
  BY DEF Sound
<1>1. G \in [Refs -> Groups \cup {None}] /\ G[g] = r /\ \A h \in Refs \ {g} : G[h] = x.group[h]
  BY <1>0, WorldFields
<1>2. y = [x EXCEPT !.group = G]
  OBVIOUS
<1> HIDE DEF G
<1>3. y \in Worlds
  BY <1>0, <1>1, <1>2, WithGroup
<1>4. y.group = G /\ y.lent = x.lent /\ SameElse(x, y) /\ y.ptr = x.ptr /\ y.host = x.host
  BY <1>0, <1>2 DEF Worlds, SameElse
<1>5. r # None
  BY NoneIsNone
<1>6. Shrunk(x.group, y.group)
  BY <1>0, <1>1, <1>4, <1>5, GroupFields DEF Shrunk
<1>7. Lent(y.group, y.lent)
  BY <1>1, <1>4, <1>5 DEF Sound, Lent
<1>8. Balanced(y)
  BY <1>4 DEF Sound, Balanced, SameElse
<1>9. r.cust = x.group[g].cust /\ r.at = x.group[g].at => Lighter(x.group, y.group)
  BY <1>0, <1>1, <1>3, <1>4, <1>6, ShrunkLighter
<1>10. Sound(y, T, X)
  BY <1>3, <1>4, <1>6, <1>7, <1>8, ShrunkSound
<1> QED BY <1>1, <1>4, <1>9, <1>10 DEF SameElse, Edited

LEMMA RansomSound ==
  ASSUME NEW T, NEW X, NEW x, Sound(x, T, X), NEW g \in Refs, x.group[g] # None, NEW b \in BOOLEAN
  PROVE  LET y == [x EXCEPT !.group[g].ransom = b] IN
         /\ Sound(y, T, X) /\ Lighter(x.group, y.group) /\ y.unit = x.unit
         /\ \A h \in Refs : x.group[h] # None => y.group[h] # None
<1> DEFINE r == [x.group[g] EXCEPT !.ransom = b]
<1>0. x \in Worlds /\ x.group[g] \in Groups
  BY GroupFields DEF Sound
<1>1. [x EXCEPT !.group[g].ransom = b] = [x EXCEPT !.group = [x.group EXCEPT ![g] = r]]
  BY <1>0 DEF Worlds, Groups
<1>2. r \in Groups /\ r.named = x.group[g].named /\ r.n = x.group[g].n /\ r.held = x.group[g].held
      /\ r.cust = x.group[g].cust /\ r.at = x.group[g].at
  BY <1>0 DEF Groups
<1> HIDE DEF r
<1> DEFINE y == [x EXCEPT !.group[g].ransom = b]
<1>3. y = [x EXCEPT !.group = [x.group EXCEPT ![g] = r]]
  BY <1>1
<1> HIDE DEF y
<1>4. Sound(y, T, X) /\ Edited(x, y, g, r) /\ Lighter(x.group, y.group)
  BY <1>2, <1>3, EditSound
<1>5. \A h \in Refs : x.group[h] # None => y.group[h] # None
  BY <1>2, <1>4, NoneIsNone DEF Edited
<1> QED BY <1>4, <1>5 DEF y, Edited

LEMMA SwapSound ==
  ASSUME NEW T, NEW X, NEW x, Sound(x, T, X), NEW g \in Refs, x.group[g] # None,
         NEW s \in Refs \cup {None}
  PROVE  LET y == [x EXCEPT !.group[g].swap = s] IN
         /\ Sound(y, T, X) /\ Lighter(x.group, y.group) /\ y.unit = x.unit
         /\ \A h \in Refs : x.group[h] # None => y.group[h] # None
<1> DEFINE r == [x.group[g] EXCEPT !.swap = s]
<1>0. x \in Worlds /\ x.group[g] \in Groups
  BY GroupFields DEF Sound
<1>1. [x EXCEPT !.group[g].swap = s] = [x EXCEPT !.group = [x.group EXCEPT ![g] = r]]
  BY <1>0 DEF Worlds, Groups
<1>2. r \in Groups /\ r.named = x.group[g].named /\ r.n = x.group[g].n /\ r.held = x.group[g].held
      /\ r.cust = x.group[g].cust /\ r.at = x.group[g].at
  BY <1>0 DEF Groups
<1> HIDE DEF r
<1> DEFINE y == [x EXCEPT !.group[g].swap = s]
<1>3. y = [x EXCEPT !.group = [x.group EXCEPT ![g] = r]]
  BY <1>1
<1> HIDE DEF y
<1>4. Sound(y, T, X) /\ Edited(x, y, g, r) /\ Lighter(x.group, y.group)
  BY <1>2, <1>3, EditSound
<1>5. \A h \in Refs : x.group[h] # None => y.group[h] # None
  BY <1>2, <1>4, NoneIsNone DEF Edited
<1> QED BY <1>4, <1>5 DEF y, Edited

LEMMA OfferSound ==
  ASSUME NEW T, NEW X, NEW x, Sound(x, T, X), NEW g \in Refs, x.group[g] # None
  PROVE  LET y == [x EXCEPT !.group[g].service = "offered"] IN
         /\ Sound(y, T, X) /\ Lighter(x.group, y.group) /\ y.unit = x.unit
         /\ \A h \in Refs : x.group[h] # None => y.group[h] # None
<1> DEFINE r == [x.group[g] EXCEPT !.service = "offered"]
<1>0. x \in Worlds /\ x.group[g] \in Groups
  BY GroupFields DEF Sound
<1>1. [x EXCEPT !.group[g].service = "offered"] = [x EXCEPT !.group = [x.group EXCEPT ![g] = r]]
  BY <1>0 DEF Worlds, Groups
<1>2. r \in Groups /\ r.named = x.group[g].named /\ r.n = x.group[g].n /\ r.held = x.group[g].held
      /\ r.cust = x.group[g].cust /\ r.at = x.group[g].at
  BY <1>0 DEF Groups, Services
<1> HIDE DEF r
<1> DEFINE y == [x EXCEPT !.group[g].service = "offered"]
<1>3. y = [x EXCEPT !.group = [x.group EXCEPT ![g] = r]]
  BY <1>1
<1> HIDE DEF y
<1>4. Sound(y, T, X) /\ Edited(x, y, g, r) /\ Lighter(x.group, y.group)
  BY <1>2, <1>3, EditSound
<1>5. \A h \in Refs : x.group[h] # None => y.group[h] # None
  BY <1>2, <1>4, NoneIsNone DEF Edited
<1> QED BY <1>4, <1>5 DEF y, Edited

LEMMA CustodianSound ==
  ASSUME NEW T, NEW X, NEW x, Sound(x, T, X), NEW g \in Refs, x.group[g] # None, NEW c \in Captors
  PROVE  LET y == [x EXCEPT !.group[g].cust = c] IN
         /\ Sound(y, T, X) /\ y.unit = x.unit /\ y.group[g] # None
         /\ y.group[g].cust = c /\ y.group[g].at = x.group[g].at
         /\ y.group[g].n = x.group[g].n /\ y.group[g].named = x.group[g].named
         /\ y.group[g].held = x.group[g].held
         /\ \A h \in Refs \ {g} : y.group[h] = x.group[h]
<1> DEFINE r == [x.group[g] EXCEPT !.cust = c]
<1>0. x \in Worlds /\ x.group[g] \in Groups
  BY GroupFields DEF Sound
<1>1. [x EXCEPT !.group[g].cust = c] = [x EXCEPT !.group = [x.group EXCEPT ![g] = r]]
  BY <1>0 DEF Worlds, Groups
<1>2. r \in Groups /\ r.named = x.group[g].named /\ r.n = x.group[g].n /\ r.held = x.group[g].held
      /\ r.cust = c /\ r.at = x.group[g].at
  BY <1>0 DEF Groups
<1> HIDE DEF r
<1> DEFINE y == [x EXCEPT !.group[g].cust = c]
<1>3. y = [x EXCEPT !.group = [x.group EXCEPT ![g] = r]]
  BY <1>1
<1> HIDE DEF y
<1>4. Sound(y, T, X) /\ Edited(x, y, g, r)
  BY <1>2, <1>3, EditSound
<1> QED BY <1>2, <1>4, NoneIsNone DEF y, Edited

LEMMA SlicesSound ==
  ASSUME NEW T, NEW X, NEW x, Sound(x, T, X), NEW g \in Refs, x.group[g] # None
  PROVE  LET y == [x EXCEPT !.group[g].slices = 0] IN
         /\ Sound(y, T, X) /\ Lighter(x.group, y.group) /\ y.unit = x.unit
         /\ \A h \in Refs : x.group[h] # None => y.group[h] # None
<1> DEFINE r == [x.group[g] EXCEPT !.slices = 0]
<1>0. x \in Worlds /\ x.group[g] \in Groups
  BY GroupFields DEF Sound
<1>1. [x EXCEPT !.group[g].slices = 0] = [x EXCEPT !.group = [x.group EXCEPT ![g] = r]]
  BY <1>0 DEF Worlds, Groups
<1>2. r \in Groups /\ r.named = x.group[g].named /\ r.n = x.group[g].n /\ r.held = x.group[g].held
      /\ r.cust = x.group[g].cust /\ r.at = x.group[g].at
  BY <1>0 DEF Groups
<1> HIDE DEF r
<1> DEFINE y == [x EXCEPT !.group[g].slices = 0]
<1>3. y = [x EXCEPT !.group = [x.group EXCEPT ![g] = r]]
  BY <1>1
<1> HIDE DEF y
<1>4. Sound(y, T, X) /\ Edited(x, y, g, r) /\ Lighter(x.group, y.group)
  BY <1>2, <1>3, EditSound
<1>5. \A h \in Refs : x.group[h] # None => y.group[h] # None
  BY <1>2, <1>4, NoneIsNone DEF Edited
<1> QED BY <1>4, <1>5 DEF y, Edited

LEMMA ClosedSound ==
  ASSUME NEW T, NEW X, NEW x, Sound(x, T, X), NEW g \in Refs, x.group[g] # None
  PROVE  Sound(Closed(x, g), T, X) /\ Lighter(x.group, Closed(x, g).group)
<1> DEFINE r == [x.group[g] EXCEPT !.held = FALSE]
<1>0. x \in Worlds /\ x.group[g] \in Groups
  BY GroupFields DEF Sound
<1>1. [x EXCEPT !.group[g].held = FALSE] = [x EXCEPT !.group = [x.group EXCEPT ![g] = r]]
  BY <1>0 DEF Worlds, Groups
<1>2. r \in Groups /\ r.named = x.group[g].named /\ r.n = x.group[g].n /\ ~r.held
      /\ r.cust = x.group[g].cust /\ r.at = x.group[g].at
  BY <1>0 DEF Groups
<1> HIDE DEF r
<1> DEFINE y == [x EXCEPT !.group[g].held = FALSE]
<1>3. y = [x EXCEPT !.group = [x.group EXCEPT ![g] = r]]
  BY <1>1
<1>4. Closed(x, g) \in {x, y}
  BY DEF Closed
<1> HIDE DEF y
<1>5. Sound(y, T, X) /\ Lighter(x.group, y.group)
  BY <1>2, <1>3, EditSound
<1>6. Lighter(x.group, x.group)
  BY <1>0, SameLighter
<1> QED BY <1>4, <1>5, <1>6

LEMMA Shift ==
  ASSUME NEW a \in Int, NEW b \in Int, NEW c \in Int, NEW k \in Int
  PROVE  (a - k) + b + (c + k) = a + b + c
OBVIOUS

\* From x to y, D of each group died.
Died(x, y, D) ==
    /\ \A g \in Refs : D[g] > 0 => x.group[g] # None
    /\ \A g \in Refs : /\ (y.group[g] = None) <=> (x.group[g] = None)
                       /\ y.lent[g] = x.lent[g] - D[g]
    /\ \A g \in Refs : x.group[g] # None =>
          /\ y.group[g].named = x.group[g].named
          /\ y.group[g].held => x.group[g].held
          /\ y.group[g].n = x.group[g].n - D[g]
    /\ y.head["enemy"] = x.head["enemy"] - SumFunctionOnSet(D, Refs)
    /\ y.levy["enemy"] = x.levy["enemy"] - SumFunctionOnSet(D, Refs)
    /\ y.head["captor"] = x.head["captor"] /\ y.levy["captor"] = x.levy["captor"]
    /\ y.dead = x.dead + SumFunctionOnSet(D, Refs)
    /\ y.free = x.free /\ y.foe = x.foe /\ y.unit = x.unit /\ y.ptr = x.ptr /\ y.host = x.host

LEMMA DiedSound ==
  ASSUME NEW T, NEW X, NEW x, Sound(x, T, X), NEW y \in Worlds,
         NEW D \in [Refs -> Nat], Died(x, y, D)
  PROVE  Sound(y, T, X)
<1>0. x \in Worlds /\ Balanced(x)
  BY DEF Sound
<1> DEFINE k == SumFunctionOnSet(D, Refs)
           s == SumFunctionOnSet(x.lent, Refs)
           t == SumFunctionOnSet(y.lent, Refs)
<1>1. /\ \A g \in Refs : D[g] \in Nat
      /\ \A g \in Refs : x.lent[g] \in Int /\ y.lent[g] \in Int
      /\ \A g \in Refs : x.lent[g] = y.lent[g] + D[g]
  BY <1>0, WorldFields DEF Died
<1>2. k \in Nat /\ s \in Int /\ t \in Int
  BY <1>1, RefsFinite, SumNat, SumInt
<1>3. s = t + k
  <2>1. \A g \in Refs : y.lent[g] \in Int /\ D[g] \in Int /\ x.lent[g] = y.lent[g] + D[g]
    BY <1>1
  <2> QED BY <2>1, RefsFinite, SumPlus
<1>4. /\ y.head["enemy"] = x.head["enemy"] - k /\ y.levy["enemy"] = x.levy["enemy"] - k
      /\ y.head["captor"] = x.head["captor"] /\ y.levy["captor"] = x.levy["captor"]
      /\ y.dead = x.dead + k
      /\ y.free = x.free /\ y.foe = x.foe /\ y.unit = x.unit /\ y.ptr = x.ptr /\ y.host = x.host
  BY DEF Died
<1>5. x.head["enemy"] = x.free["enemy"] + x.foe.n + s /\ x.levy = x.head
  BY <1>0 DEF Balanced
<1> HIDE DEF k, s, t
<1>6. Shrunk(x.group, y.group)
  <2> SUFFICES ASSUME NEW g \in Refs
               PROVE  /\ (y.group[g] = None) <=> (x.group[g] = None)
                      /\ x.group[g] # None => /\ y.group[g].named = x.group[g].named
                                              /\ y.group[g].held => x.group[g].held
                                              /\ y.group[g].n <= x.group[g].n
    BY DEF Shrunk
  <2>1. x.group[g] # None => x.group[g].n \in Nat
    BY <1>0, GroupFields
  <2> QED BY <1>1, <2>1 DEF Died
<1>7. Lent(y.group, y.lent)
  <2> SUFFICES ASSUME NEW g \in Refs
               PROVE  y.lent[g] = IF y.group[g] # None THEN y.group[g].n ELSE 0
    BY DEF Lent
  <2>1. x.lent[g] = IF x.group[g] # None THEN x.group[g].n ELSE 0
    BY DEF Sound, Lent
  <2>2. x.group[g] = None => D[g] = 0
    BY <1>1 DEF Died
  <2> QED BY <2>1, <2>2 DEF Died
<1>8. Balanced(y)
  <2>1. y.head["enemy"] = y.free["enemy"] + y.foe.n + t
    BY <1>0, <1>2, <1>3, <1>4, <1>5, HalvesOf
  <2>2. y.head["enemy"] + y.head["captor"] + y.dead
         = x.head["enemy"] + x.head["captor"] + x.dead
    <3>1. x.head["enemy"] \in Int /\ x.head["captor"] \in Int /\ x.dead \in Int
      BY <1>0, HalvesOf
    <3>2. (x.head["enemy"] - k) + x.head["captor"] + (x.dead + k)
           = x.head["enemy"] + x.head["captor"] + x.dead
      BY <1>2, <3>1, Shift
    <3> QED BY <1>4, <3>2
  <2>3. y.levy = y.head
    <3>1. \A i \in Sides : y.levy[i] = y.head[i]
      BY <1>4, <1>5 DEF Sides
    <3>2. y.levy \in [Sides -> Int] /\ y.head \in [Sides -> Int]
      BY WorldFields
    <3> QED BY <3>1, <3>2
  <2> QED BY <1>0, <1>4, <2>1, <2>2, <2>3 DEF Balanced, t
<1> QED BY <1>4, <1>6, <1>7, <1>8, ShrunkSound

LEMMA KillSound ==
  ASSUME NEW T, NEW X, NEW x, Sound(x, T, X), NEW g \in Refs, x.group[g] # None,
         NEW k \in 1..x.group[g].n
  PROVE  /\ Sound(Kill(x, g, k), T, X) /\ Kill(x, g, k).group[g] # None
         /\ Lighter(x.group, Kill(x, g, k).group)
<1> DEFINE D == [h \in Refs |-> IF h = g THEN k ELSE 0]
           r == [x.group[g] EXCEPT !.n = x.group[g].n - k]
           G == [x.group EXCEPT ![g] = r]
           L == [x.lent EXCEPT ![g] = x.lent[g] - k]
           H == [x.head EXCEPT !["enemy"] = x.head["enemy"] - k]
           V == [x.levy EXCEPT !["enemy"] = x.levy["enemy"] - k]
           d == x.dead + k
           y == Kill(x, g, k)
<1>0. x \in Worlds /\ x.group[g] \in Groups /\ x.group[g].n \in Nat /\ k \in Nat /\ x.lent \in [Refs -> Int]
  BY GroupFields, WorldFields DEF Sound
<1>1. y = [x EXCEPT !.group = G, !.lent = L, !.head = H, !.levy = V, !.dead = d,
                    !.wrote = x.wrote]
  BY <1>0 DEF Kill, Worlds, Groups
<1>2. r \in Groups /\ r.named = x.group[g].named /\ r.held = x.group[g].held /\ r.n = x.group[g].n - k
      /\ r.cust = x.group[g].cust /\ r.at = x.group[g].at
  BY <1>0 DEF Groups
<1>3. r # None
  BY <1>2, NoneIsNone
<1> HIDE DEF r
<1>4. /\ G \in [Refs -> Groups \cup {None}] /\ G[g] = r
      /\ \A h \in Refs \ {g} : G[h] = x.group[h]
  BY <1>0, <1>2, WorldFields
<1>5. /\ L \in [Refs -> Int] /\ \A h \in Refs : L[h] = x.lent[h] - D[h]
  BY <1>0
<1>6. /\ D \in [Refs -> Nat]
      /\ \A h \in Refs : D[h] > 0 => x.group[h] # None
      /\ D[g] = k /\ \A h \in Refs \ {g} : D[h] = 0
  BY <1>0
<1>7. SumFunctionOnSet(D, Refs) = k
  <2> DEFINE Z == [h \in Refs |-> 0]
  <2>1. \A h \in Refs : Z[h] \in Int /\ D[h] \in Int /\ (h # g => D[h] = Z[h]) /\ Z[h] = 0
    BY <1>0
  <2> HIDE DEF Z, D
  <2>2. SumFunctionOnSet(D, Refs) = SumFunctionOnSet(Z, Refs) - Z[g] + D[g]
    BY <2>1, RefsFinite, SumOne
  <2>3. SumFunctionOnSet(Z, Refs) = 0
    BY <2>1, RefsFinite, SumZero
  <2> QED BY <1>0, <1>6, <2>1, <2>2, <2>3
<1>b. /\ H \in [Sides -> Int] /\ H["enemy"] = x.head["enemy"] - k /\ H["captor"] = x.head["captor"]
      /\ V \in [Sides -> Int] /\ V["enemy"] = x.levy["enemy"] - k /\ V["captor"] = x.levy["captor"]
      /\ d \in Int /\ d = x.dead + k
  BY <1>0, HalvesOf, WorldFields DEF Sides
<1> HIDE DEF D, G, L, H, V, d, y
<1>8. \A h \in Refs : (G[h] = None) <=> (x.group[h] = None)
  BY <1>3, <1>4
<1>9. \A h \in Refs : x.group[h] # None =>
             /\ G[h].named = x.group[h].named
             /\ G[h].held => x.group[h].held
             /\ G[h].n = x.group[h].n - D[h]
  BY <1>0, <1>2, <1>4, <1>6, GroupFields
<1>10. x.wrote \in SUBSET Refs
  BY <1>0, WorldFields
<1>11. y \in Worlds
  BY <1>0, <1>1, <1>4, <1>5, <1>b, <1>10, WithDead
<1>12. /\ y.group = G /\ y.lent = L /\ y.head = H /\ y.levy = V /\ y.dead = d
       /\ y.free = x.free /\ y.foe = x.foe /\ y.unit = x.unit /\ y.ptr = x.ptr /\ y.host = x.host
  BY <1>0, <1>1 DEF Worlds
<1>13. Died(x, y, D)
  BY <1>5, <1>6, <1>7, <1>8, <1>9, <1>12, <1>b DEF Died
<1>14. Sound(y, T, X)
  BY <1>6, <1>11, <1>13, DiedSound
<1>15. Lighter(x.group, y.group)
  <2>1. ASSUME NEW h \in Refs, x.group[h] # None
        PROVE  /\ G[h].cust = x.group[h].cust /\ G[h].at = x.group[h].at
               /\ G[h].n <= x.group[h].n
    <3>1. x.group[h].n \in Nat /\ D[h] \in Nat
      BY <1>0, <1>6, <2>1, GroupFields
    <3>2. G[h].n = x.group[h].n - D[h]
      BY <1>9, <2>1
    <3> QED BY <1>2, <1>4, <3>1, <3>2
  <2>2. Shrunk(x.group, y.group)
    BY <1>8, <1>9, <1>12, <2>1 DEF Shrunk
  <2> QED BY <1>0, <1>11, <1>12, <2>1, <2>2, ShrunkLighter
<1> QED BY <1>3, <1>4, <1>12, <1>14, <1>15 DEF y

-----------------------------------------------------------------------------
(* The daily review. *)

LEMMA ReviewedSound ==
  ASSUME NEW T, NEW X, NEW x, Sound(x, T, X), NEW dead \in Deaths(x),
         NEW service \in [Kept(x) -> Services]
  PROVE  LET y == Reviewed(x, dead, service) IN
         Sound(y, T, X) /\ Lighter(x.group, y.group) /\ y.unit = x.unit
<1> DEFINE D == [g \in Refs |-> IF g \in Kept(x) THEN dead[g] ELSE 0]
           G == [g \in Refs |->
                   IF g \notin Due(x) THEN x.group[g]
                   ELSE IF g \notin Kept(x) THEN [x.group[g] EXCEPT !.held = FALSE]
                   ELSE [x.group[g] EXCEPT !.n = x.group[g].n - dead[g], !.service = service[g]]]
           L == [g \in Refs |-> IF g \in Kept(x) THEN x.lent[g] - dead[g] ELSE x.lent[g]]
           lost == SumFunctionOnSet(dead, Kept(x))
           H == [x.head EXCEPT !["enemy"] = x.head["enemy"] - lost]
           V == [x.levy EXCEPT !["enemy"] = x.levy["enemy"] - lost]
           d == x.dead + lost
           W == x.wrote \cup Due(x)
           y == Reviewed(x, dead, service)
<1>0. x \in Worlds
  BY DEF Sound
<1>1. /\ Due(x) \in SUBSET Refs /\ Kept(x) \in SUBSET Due(x)
      /\ \A g \in Due(x) : x.group[g] # None
  BY <1>0, WorldFields DEF Due, Kept, Sound, Routed
<1>2. \A g \in Kept(x) : dead[g] \in Nat /\ (dead[g] > 0 => x.group[g].n > 1) /\ dead[g] <= 1
  <2> SUFFICES ASSUME NEW g \in Kept(x)
               PROVE  dead[g] \in Nat /\ (dead[g] > 0 => x.group[g].n > 1) /\ dead[g] <= 1
    OBVIOUS
  <2>1. dead \in [Kept(x) -> 0..1] /\ (dead[g] > 0 => x.group[g].n > 1)
    BY DEF Deaths
  <2> QED BY <2>1
<1>3. y = [x EXCEPT !.group = G, !.lent = L, !.head = H, !.levy = V, !.dead = d, !.wrote = W]
  BY <1>0 DEF Reviewed, Worlds
<1> HIDE DEF y
<1>4. ASSUME NEW g \in Refs
      PROVE  /\ G[g] \in Groups \cup {None}
             /\ (G[g] = None) <=> (x.group[g] = None)
             /\ x.group[g] # None => /\ G[g].named = x.group[g].named
                                     /\ G[g].held => x.group[g].held
                                     /\ G[g].n = x.group[g].n - D[g]
                                     /\ G[g].cust = x.group[g].cust
                                     /\ G[g].at = x.group[g].at
  <2>1. CASE g \notin Due(x)
    <3>1. G[g] = x.group[g] /\ D[g] = 0
      BY <1>1, <2>1
    <3>2. x.group[g] \in Groups \cup {None} /\ (x.group[g] # None => x.group[g].n \in Nat)
      BY <1>0, WorldFields, GroupFields
    <3> HIDE DEF G, D
    <3>3. x.group[g] # None => x.group[g].n = x.group[g].n - D[g]
      BY <3>1, <3>2
    <3> QED BY <3>1, <3>2, <3>3
  <2>2. CASE g \in Due(x) \ Kept(x)
    <3> DEFINE r == [x.group[g] EXCEPT !.held = FALSE]
    <3>1. G[g] = r /\ D[g] = 0
      BY <2>2
    <3>2. x.group[g] \in Groups /\ x.group[g].n \in Nat /\ x.group[g] # None
      BY <1>0, <1>1, <2>2, GroupFields
    <3>3. r \in Groups /\ r.named = x.group[g].named /\ ~r.held /\ r.n = x.group[g].n
          /\ r.cust = x.group[g].cust /\ r.at = x.group[g].at
      BY <3>2 DEF Groups
    <3> HIDE DEF r, G, D
    <3> QED BY <3>1, <3>2, <3>3, NoneIsNone
  <2>3. CASE g \in Kept(x)
    <3> DEFINE r == [x.group[g] EXCEPT !.n = x.group[g].n - dead[g], !.service = service[g]]
    <3>1. G[g] = r /\ D[g] = dead[g]
      BY <1>1, <2>3
    <3>2. x.group[g] \in Groups /\ x.group[g].n \in Nat /\ x.group[g] # None
      BY <1>0, <1>1, <2>3, GroupFields
    <3>3. x.group[g].n - dead[g] \in Nat /\ service[g] \in Services
      BY <1>2, <2>3, <3>2
    <3>4. r \in Groups /\ r.named = x.group[g].named /\ r.held = x.group[g].held
          /\ r.n = x.group[g].n - dead[g]
          /\ r.cust = x.group[g].cust /\ r.at = x.group[g].at
      BY <3>2, <3>3 DEF Groups
    <3> HIDE DEF r, G, D
    <3> QED BY <3>1, <3>2, <3>4, NoneIsNone
  <2> QED BY <1>1, <2>1, <2>2, <2>3
<1>5. \A g \in Refs : /\ D[g] \in Nat /\ (D[g] > 0 => x.group[g] # None)
                      /\ x.lent[g] \in Int /\ L[g] = x.lent[g] - D[g]
  BY <1>0, <1>1, <1>2, WorldFields
<1>6. SumFunctionOnSet(D, Refs) = lost
  <2>1. /\ Kept(x) \in SUBSET Refs
        /\ \A g \in Kept(x) : dead[g] \in Int /\ D[g] = dead[g]
        /\ \A g \in Refs \ Kept(x) : D[g] = 0
    BY <1>1, <1>2
  <2> HIDE DEF D
  <2> QED BY <2>1, RefsFinite, SumPart
<1>7. lost \in Nat
  <2>1. \A g \in Refs : D[g] \in Nat
    BY <1>5
  <2> HIDE DEF D
  <2>2. SumFunctionOnSet(D, Refs) \in Nat
    BY <2>1, RefsFinite, SumNat
  <2> QED BY <1>6, <2>2
<1>8. D \in [Refs -> Nat] /\ L \in [Refs -> Int]
  BY <1>5
<1>9. G \in [Refs -> Groups \cup {None}]
  <2>1. G = [g \in Refs |-> G[g]]
    OBVIOUS
  <2> HIDE DEF G
  <2> QED BY <1>4, <2>1
<1> HIDE DEF D, G, L, lost
<1>10. /\ H \in [Sides -> Int] /\ H["enemy"] = x.head["enemy"] - lost /\ H["captor"] = x.head["captor"]
       /\ V \in [Sides -> Int] /\ V["enemy"] = x.levy["enemy"] - lost /\ V["captor"] = x.levy["captor"]
       /\ d \in Int /\ d = x.dead + lost /\ W \in SUBSET Refs
  BY <1>0, <1>1, <1>7, HalvesOf, WorldFields DEF Sides
<1> HIDE DEF H, V, d, W
<1>11. y \in Worlds
  BY <1>0, <1>3, <1>8, <1>9, <1>10, WithDead
<1>12. /\ y.group = G /\ y.lent = L /\ y.head = H /\ y.levy = V /\ y.dead = d
       /\ y.free = x.free /\ y.foe = x.foe /\ y.unit = x.unit /\ y.ptr = x.ptr /\ y.host = x.host
  BY <1>0, <1>3 DEF Worlds
<1>13. Died(x, y, D)
  BY <1>4, <1>5, <1>6, <1>10, <1>12 DEF Died
<1>14. Sound(y, T, X)
  BY <1>8, <1>11, <1>13, DiedSound
<1>15. Lighter(x.group, y.group)
  <2>1. ASSUME NEW h \in Refs, x.group[h] # None
        PROVE  G[h].n <= x.group[h].n
    <3>1. x.group[h].n \in Nat /\ D[h] \in Nat
      BY <1>0, <1>5, <2>1, GroupFields
    <3>2. G[h].n = x.group[h].n - D[h]
      BY <1>4, <2>1
    <3> QED BY <3>1, <3>2
  <2>2. Shrunk(x.group, y.group)
    BY <1>4, <1>12, <2>1 DEF Shrunk
  <2> QED BY <1>0, <1>4, <1>11, <1>12, <2>2, ShrunkLighter
<1> QED BY <1>12, <1>14, <1>15 DEF y

LEMMA HoursSound ==
  ASSUME NEW T, NEW X, NEW x, Sound(x, T, X), NEW y \in Hours(x)
  PROVE  Sound(y, T, X) /\ Lighter(x.group, y.group) /\ y.unit = x.unit
<1>1. CASE y = x
  <2>1. x \in Worlds
    BY DEF Sound
  <2> QED BY <1>1, <2>1, SameLighter
<1>2. CASE y # x
  <2>1. PICK d \in Deaths(x), s \in [Kept(x) -> {"none", "offered", "accepted"}] :
          y = Reviewed(x, d, s)
    BY <1>2 DEF Hours
  <2>2. s \in [Kept(x) -> Services]
    BY DEF Services
  <2> QED BY <2>1, <2>2, ReviewedSound
<1> QED BY <1>1, <1>2

-----------------------------------------------------------------------------
(* Other steps of a command. *)

LEMMA EnrolSound ==
  ASSUME NEW T, NEW X, NEW x, Sound(x, T, X), NEW k \in Int
  PROVE  Sound(Enrol(x, k), T, X) /\ Enrol(x, k).group = x.group
<1> DEFINE F == [enemy |-> x.free["enemy"] - k, captor |-> x.free["captor"] + k]
           H == [enemy |-> x.head["enemy"] - k, captor |-> x.head["captor"] + k]
           V == [enemy |-> x.levy["enemy"] - k, captor |-> x.levy["captor"] + k]
           y == Enrol(x, k)
<1>0. x \in Worlds /\ Balanced(x)
  BY DEF Sound
<1>1. /\ x.free["enemy"] \in Int /\ x.free["captor"] \in Int
      /\ x.head["enemy"] \in Int /\ x.head["captor"] \in Int
      /\ x.levy["enemy"] \in Int /\ x.levy["captor"] \in Int
      /\ x.foe.n \in Int /\ x.dead \in Int
  BY <1>0, HalvesOf
<1>2. F \in [Sides -> Int] /\ H \in [Sides -> Int] /\ V \in [Sides -> Int]
  BY <1>1 DEF Sides
<1>3. y = [x EXCEPT !.free = F, !.head = H, !.levy = V]
  BY DEF Enrol, Worlds
<1>4. /\ F["enemy"] = x.free["enemy"] - k /\ F["captor"] = x.free["captor"] + k
      /\ H["enemy"] = x.head["enemy"] - k /\ H["captor"] = x.head["captor"] + k
      /\ (x.levy = x.head => V = H)
  OBVIOUS
<1> HIDE DEF F, H, V, y
<1>5. y \in Worlds
  BY <1>0, <1>2, <1>3 DEF Worlds
<1>6. /\ y.free = F /\ y.head = H /\ y.levy = V /\ y.group = x.group /\ y.lent = x.lent
      /\ y.foe = x.foe /\ y.unit = x.unit /\ y.dead = x.dead /\ y.ptr = x.ptr /\ y.host = x.host
  BY <1>0, <1>3 DEF Worlds
<1>7. Balanced(y)
  <2> DEFINE s == SumFunctionOnSet(x.lent, Refs)
             u == SumFunctionOnSet([c \in Captors |-> BodiesOf(x.unit[c])], Captors)
  <2>1. s \in Int /\ u \in Int
    <3>1. \A g \in Refs : x.lent[g] \in Int
      BY <1>0, WorldFields
    <3>2. \A c \in Captors : [d \in Captors |-> BodiesOf(x.unit[d])][c] \in Int
      <4>1. \A c \in Captors : x.unit[c] \in Units \cup {None}
        BY <1>0, WorldFields
      <4> QED BY <4>1 DEF BodiesOf, Units
    <3> QED BY <3>1, <3>2, RefsFinite, CustodyAssumption, SumInt
  <2>2. /\ x.head["enemy"] = x.free["enemy"] + x.foe.n + s
        /\ x.head["captor"] = x.free["captor"] + u
        /\ x.levy = x.head
        /\ x.head["enemy"] + x.head["captor"] + x.dead = Garrison + SumFunctionOnSet(Strength, Captors)
    BY <1>0 DEF Balanced
  <2> HIDE DEF s, u
  <2>3. H["enemy"] = F["enemy"] + x.foe.n + s /\ H["captor"] = F["captor"] + u
    BY <1>1, <1>4, <2>1, <2>2
  <2>4. H["enemy"] + H["captor"] + x.dead = x.head["enemy"] + x.head["captor"] + x.dead
    BY <1>1, <1>4
  <2> QED BY <1>4, <1>6, <2>2, <2>3, <2>4 DEF Balanced, s, u
<1>8. Sound(y, T, X)
  BY <1>5, <1>6, <1>7 DEF Sound
<1> QED BY <1>6, <1>8 DEF y

\* One person leaves a group, and is free, or is of those excepted.
LEMMA LeaveSound ==
  ASSUME NEW T, NEW X, NEW x, Sound(x, T, X), NEW g \in Refs, x.group[g] # None, NEW p,
         NEW y \in Worlds,
         y.group[g] \in Groups, y.group[g].named = x.group[g].named \ {p},
         y.group[g].n = x.group[g].n, y.group[g].held = x.group[g].held,
         \A h \in Refs \ {g} : y.group[h] = x.group[h],
         p \in Persons => y.ptr[p] = None \/ p \in X,
         \A q \in Persons \ {p} : y.ptr[q] = x.ptr[q],
         \/ y.ptr = x.ptr
         \/ p \in x.group[g].named,
         y.lent = x.lent, SameElse(x, y), y.host = x.host
  PROVE  Sound(y, T, X)
<1>0. x \in Worlds
  BY DEF Sound
<1>2. y.group[g] # None
  BY NoneIsNone
<1>3. Pointed(y.group, y.ptr, T)
  <2> SUFFICES ASSUME NEW h \in Refs, y.group[h] # None, NEW q \in y.group[h].named \ T
               PROVE  y.ptr[q] = h
    BY DEF Pointed
  <2>1. x.group[h] # None /\ q \in x.group[h].named \ T /\ (h = g => q # p)
    OBVIOUS
  <2>2. x.ptr[q] = h /\ q \in Persons
    BY <1>0, <2>1, GroupFields DEF Sound, Pointed
  <2>3. CASE q # p
    BY <2>2, <2>3
  <2>4. CASE q = p /\ y.ptr = x.ptr
    BY <2>2, <2>4
  <2>5. CASE q = p /\ p \in x.group[g].named
    <3>1. x.ptr[p] = g
      BY <2>1, <2>5 DEF Sound, Pointed
    <3> QED BY <2>1, <2>2, <2>5, <3>1
  <2> QED BY <2>3, <2>4, <2>5
<1>4. Known(y.group, y.ptr, X)
  <2> SUFFICES ASSUME NEW q \in Persons \ X, y.ptr[q] # None
               PROVE  y.group[y.ptr[q]] # None /\ q \in y.group[y.ptr[q]].named
    BY DEF Known
  <2>1. q # p /\ y.ptr[q] = x.ptr[q]
    OBVIOUS
  <2>2. x.group[x.ptr[q]] # None /\ q \in x.group[x.ptr[q]].named /\ x.ptr[q] \in Refs
    BY <1>0, <2>1, WorldFields DEF Sound, Known
  <2> QED BY <1>2, <2>1, <2>2
<1>5. Routed(y.group, y.host)
  <2>0. y.host \in SUBSET Refs /\ \A h \in y.host : y.group[h] # None
    BY <1>2, WorldFields DEF Sound, Routed
  <2> SUFFICES ASSUME NEW h \in Live(y.group) PROVE h \in Live(x.group)
    BY <2>0 DEF Sound, Routed
  <2>1. h \in Refs /\ y.group[h] # None /\ y.group[h].held
        /\ y.group[h].n + Cardinality(y.group[h].named) > 0
    BY DEF Live
  <2>2. CASE h # g
    BY <2>1, <2>2 DEF Live
  <2>3. CASE h = g
    <3>1. IsFiniteSet(x.group[g].named) /\ x.group[g].n \in Nat /\ Cardinality(x.group[g].named) \in Nat
      BY <1>0, GroupFields
    <3>2. Cardinality(x.group[g].named \ {p}) <= Cardinality(x.group[g].named)
          /\ Cardinality(x.group[g].named \ {p}) \in Nat
      <4>1. x.group[g].named \ {p} \in SUBSET x.group[g].named
        OBVIOUS
      <4> QED BY <3>1, <4>1, FS_Subset, FS_CardinalityType
    <3>3. x.group[g].n + Cardinality(x.group[g].named) > 0
      <4> DEFINE a == Cardinality(x.group[g].named)
                 b == Cardinality(x.group[g].named \ {p})
      <4>1. x.group[g].n + b > 0
        BY <2>1, <2>3
      <4>2. a \in Nat /\ b \in Nat /\ b <= a
        BY <3>1, <3>2
      <4> HIDE DEF a, b
      <4>3. x.group[g].n + a > 0
        BY <3>1, <4>1, <4>2
      <4> QED BY <4>3 DEF a
    <3> QED BY <2>1, <2>3, <3>3 DEF Live
  <2> QED BY <2>2, <2>3
<1>6. Lent(y.group, y.lent)
  BY <1>2 DEF Sound, Lent
<1>7. Balanced(y)
  BY DEF Sound, Balanced, SameElse
<1> QED BY <1>3, <1>4, <1>5, <1>6, <1>7 DEF Sound

LEMMA CourtReleaseSound ==
  ASSUME NEW T, NEW X, NEW x, Sound(x, T, X), NEW g \in Refs, x.group[g] # None,
         NEW p \in x.group[g].named
  PROVE  LET y == [x EXCEPT !.group[g].named = @ \ {p}, !.ptr[p] = None] IN
         Sound(y, T, X) /\ Lighter(x.group, y.group)
<1> DEFINE r == [x.group[g] EXCEPT !.named = x.group[g].named \ {p}]
           G == [x.group EXCEPT ![g] = r]
           P == [x.ptr EXCEPT ![p] = None]
           y == [x EXCEPT !.group[g].named = @ \ {p}, !.ptr[p] = None]
<1>0. x \in Worlds /\ x.group[g] \in Groups /\ p \in Persons
  BY GroupFields DEF Sound
<1>1. y = [x EXCEPT !.group = G, !.ptr = P, !.at = x.at]
  BY <1>0 DEF Worlds, Groups
<1>2. r \in Groups /\ r.named = x.group[g].named \ {p} /\ r.n = x.group[g].n /\ r.held = x.group[g].held
      /\ r.cust = x.group[g].cust /\ r.at = x.group[g].at
  BY <1>0 DEF Groups
<1> HIDE DEF r
<1>3. G \in [Refs -> Groups \cup {None}] /\ P \in [Persons -> Refs \cup {None}]
  BY <1>0, <1>2, WorldFields
<1>4. /\ G[g] = r /\ \A h \in Refs \ {g} : G[h] = x.group[h]
      /\ P[p] = None /\ \A q \in Persons \ {p} : P[q] = x.ptr[q]
  BY <1>0, WorldFields
<1>5. x.at \in [Persons -> Places]
  BY <1>0, WorldFields
<1> HIDE DEF G, P, y
<1>6. y \in Worlds
  BY <1>0, <1>1, <1>3, <1>5, WithCustody
<1>7. y.group = G /\ y.ptr = P /\ y.lent = x.lent /\ y.host = x.host /\ SameElse(x, y)
  BY <1>0, <1>1 DEF Worlds, SameElse
<1>8. Sound(y, T, X)
  BY <1>2, <1>4, <1>6, <1>7, LeaveSound
<1>9. Lighter(x.group, y.group)
  BY <1>0, <1>2, <1>4, <1>6, <1>7, FewerLighter
<1> QED BY <1>8, <1>9 DEF y

Beheaded(x, g, p) == [x EXCEPT !.group[g].named = @ \ {p}, !.alive[p] = FALSE]

LEMMA ExecuteSound ==
  ASSUME NEW T, NEW X, NEW x, Sound(x, T, X), NEW g \in Refs, x.group[g] # None,
         NEW p \in x.group[g].named
  PROVE  Sound(Beheaded(x, g, p), T, X \cup {p}) /\ Beheaded(x, g, p).group[g] # None
         /\ Lighter(x.group, Beheaded(x, g, p).group)
<1> DEFINE r == [x.group[g] EXCEPT !.named = x.group[g].named \ {p}]
           G == [x.group EXCEPT ![g] = r]
           B == [x.alive EXCEPT ![p] = FALSE]
           y == Beheaded(x, g, p)
<1>0. x \in Worlds /\ x.group[g] \in Groups /\ p \in Persons
  BY GroupFields DEF Sound
<1>1. y = [x EXCEPT !.group = G, !.alive = B]
  BY <1>0 DEF Beheaded, Worlds, Groups
<1>2. r \in Groups /\ r.named = x.group[g].named \ {p} /\ r.n = x.group[g].n /\ r.held = x.group[g].held
      /\ r.cust = x.group[g].cust /\ r.at = x.group[g].at
  BY <1>0 DEF Groups
<1> HIDE DEF r
<1>3. G \in [Refs -> Groups \cup {None}] /\ B \in [Persons -> BOOLEAN]
  BY <1>0, <1>2, WorldFields
<1>4. G[g] = r /\ \A h \in Refs \ {g} : G[h] = x.group[h]
  BY <1>0, WorldFields
<1> HIDE DEF G, B, y
<1>6. y \in Worlds
  BY <1>0, <1>1, <1>3 DEF Worlds
<1>7. y.group = G /\ y.ptr = x.ptr /\ y.lent = x.lent /\ y.host = x.host /\ SameElse(x, y)
  BY <1>0, <1>1 DEF Worlds, SameElse
<1>8. Sound(x, T, X \cup {p})
  BY WiderSound
<1>9. Sound(y, T, X \cup {p})
  <2>1. /\ y.group[g] \in Groups /\ y.group[g].named = x.group[g].named \ {p}
        /\ y.group[g].n = x.group[g].n /\ y.group[g].held = x.group[g].held
        /\ \A h \in Refs \ {g} : y.group[h] = x.group[h]
    BY <1>2, <1>4, <1>7
  <2>2. /\ p \in Persons => y.ptr[p] = None \/ p \in X \cup {p}
        /\ \A q \in Persons \ {p} : y.ptr[q] = x.ptr[q]
    BY <1>7
  <2>3. /\ y.ptr = x.ptr \/ p \in x.group[g].named
        /\ y.lent = x.lent /\ SameElse(x, y) /\ y.host = x.host
    BY <1>7
  <2> DEFINE Y == X \cup {p}
  <2>4. Sound(x, T, Y) /\ (p \in Persons => y.ptr[p] = None \/ p \in Y)
    BY <1>8, <2>2
  <2> HIDE DEF Y
  <2>5. Sound(y, T, Y)
    BY <1>6, <2>1, <2>2, <2>3, <2>4, LeaveSound
  <2> QED BY <2>5 DEF Y
<1>10. y.group[g] # None
  BY <1>2, <1>4, <1>7, NoneIsNone
<1>11. Lighter(x.group, y.group)
  BY <1>0, <1>2, <1>4, <1>6, <1>7, FewerLighter
<1> QED BY <1>9, <1>10, <1>11 DEF y

\* A new document of a group that lists nobody.
LEMMA GroupIs ==
  ASSUME NEW c \in Captors, NEW l \in Places, NEW source \in BOOLEAN, NEW n \in Nat
  PROVE  /\ Group(c, l, source, n) \in Groups /\ Group(c, l, source, n).n = n
         /\ Group(c, l, source, n).named = {} /\ Group(c, l, source, n).at = l
         /\ Group(c, l, source, n).cust = c /\ Group(c, l, source, n).held
BY DEF Group, Groups, Services

LEMMA ListedSound ==
  ASSUME NEW T, NEW X, NEW x \in Worlds,
         Pointed(x.group, x.ptr, T), Known(x.group, x.ptr, X), Lent(x.group, x.lent), Balanced(x)
  PROVE  Sound(Listed(x), T, X)
<1>1. /\ Listed(x) \in Worlds /\ SameBodies(x, Listed(x)) /\ Listed(x).ptr = x.ptr
      /\ Listed(x).host = Live(x.group)
  BY ListedIs, LiveIsActives
<1>2. Routed(x.group, Live(x.group))
  BY DEF Routed, Live
<1> QED BY <1>1, <1>2 DEF Sound, SameBodies, SameElse, Balanced

LEMMA RefuseSound ==
  ASSUME NEW T, NEW X, NEW x, Sound(x, T, X)
  PROVE  Sound(Refuse(x), T, X)
<1>1. x \in Worlds /\ Routed(x.group, x.host)
  BY DEF Sound
<1> QED BY <1>1, RefuseIs, AlikeSound

LEMMA RefuseWithin ==
  ASSUME NEW x \in Worlds PROVE Within(x, Refuse(x))
<1>1. Refuse(x) \in Worlds /\ Refuse(x).group = x.group
  BY RefuseIs DEF SameBodies
<1> QED BY <1>1, SameLighter, LighterWithin

\* p is listed by g, which may be new, and points to it.
LEMMA TakenSound ==
  ASSUME NEW T, NEW X, NEW x, Sound(x, T, X), NEW g \in Refs, NEW p \in Persons,
         p \in T \/ x.ptr[p] \in {None, g},
         NEW y \in Worlds, y.group[g] \in Groups,
         x.group[g] # None => /\ y.group[g].named = x.group[g].named \cup {p}
                              /\ y.group[g].n = x.group[g].n,
         x.group[g] = None => y.group[g].named = {p} /\ y.group[g].n = 0,
         \A h \in Refs \ {g} : y.group[h] = x.group[h],
         y.ptr[p] = g, \A q \in Persons \ {p} : y.ptr[q] = x.ptr[q],
         y.lent = x.lent, SameElse(x, y)
  PROVE  Sound(Listed(y), T, X)
<1>0. x \in Worlds
  BY DEF Sound
<1>2. y.group[g] # None
  BY NoneIsNone
<1>3. Pointed(y.group, y.ptr, T)
  <2> SUFFICES ASSUME NEW h \in Refs, y.group[h] # None, NEW q \in y.group[h].named \ T
               PROVE  y.ptr[q] = h
    BY DEF Pointed
  <2>1. CASE q = p /\ h = g
    BY <2>1
  <2>2. CASE q # p
    <3>1. x.group[h] # None /\ q \in x.group[h].named \ T
      BY <2>2
    <3>2. x.ptr[q] = h /\ q \in Persons
      BY <1>0, <3>1, GroupFields DEF Sound, Pointed
    <3> QED BY <2>2, <3>2
  <2>3. CASE q = p /\ h # g
    <3>1. x.group[h] # None /\ p \in x.group[h].named \ T
      BY <2>3
    <3>2. x.ptr[p] = h
      BY <3>1 DEF Sound, Pointed
    <3> QED BY <2>3, <3>1, <3>2, NoneIsNone
  <2> QED BY <2>1, <2>2, <2>3
<1>4. Known(y.group, y.ptr, X)
  <2> SUFFICES ASSUME NEW q \in Persons \ X, y.ptr[q] # None
               PROVE  y.group[y.ptr[q]] # None /\ q \in y.group[y.ptr[q]].named
    BY DEF Known
  <2>1. CASE q = p
    BY <1>2, <2>1
  <2>2. CASE q # p
    <3>1. y.ptr[q] = x.ptr[q]
      BY <2>2
    <3>2. x.group[x.ptr[q]] # None /\ q \in x.group[x.ptr[q]].named /\ x.ptr[q] \in Refs
      BY <1>0, <3>1, WorldFields DEF Sound, Known
    <3> QED BY <1>2, <3>1, <3>2
  <2> QED BY <2>1, <2>2
<1>6. Lent(y.group, y.lent)
  <2>1. Lent(x.group, x.lent)
    BY DEF Sound
  <2> SUFFICES ASSUME NEW h \in Refs
               PROVE  y.lent[h] = IF y.group[h] # None THEN y.group[h].n ELSE 0
    BY DEF Lent
  <2>2. x.lent[h] = IF x.group[h] # None THEN x.group[h].n ELSE 0
    BY <2>1 DEF Lent
  <2> QED BY <1>2, <2>2
<1>7. Balanced(y)
  BY DEF Sound, Balanced, SameElse
<1> QED BY <1>3, <1>4, <1>6, <1>7, ListedSound

LEMMA CaptureSound ==
  ASSUME NEW T, NEW X, NEW x, Sound(x, T, X), NEW g \in Refs, NEW p \in Persons,
         NEW c \in Captors, NEW source \in BOOLEAN, Stands(x, c),
         p \in T \/ x.ptr[p] \in {None, g}
  PROVE  LET y == Capture(x, p, c, g, source) IN
         /\ Sound(y, T, X) /\ y.unit = x.unit /\ Within(x, y)
         /\ \A q \in Persons : y.ptr[q] \in {x.ptr[q], g}
<1> DEFINE base == IF Exists(x, g) THEN x
                   ELSE [x EXCEPT !.group[g] = Group(c, x.unit[c].at, source, 0)]
           held == [base EXCEPT !.group[g].named = @ \cup {p},
                                !.ptr[p] = g, !.at[p] = x.unit[c].at]
           old == IF Exists(x, g) THEN x.group[g] ELSE Group(c, x.unit[c].at, source, 0)
           r == [old EXCEPT !.named = old.named \cup {p}]
           G == [x.group EXCEPT ![g] = r]
           P == [x.ptr EXCEPT ![p] = g]
           A == [x.at EXCEPT ![p] = x.unit[c].at]
<1>0. x \in Worlds
  BY DEF Sound
<1>1. /\ old \in Groups
      /\ x.group[g] # None => old = x.group[g]
      /\ x.group[g] = None => old.named = {} /\ old.n = 0
  BY <1>0, UnitIs, GroupIs, GroupFields DEF Exists
<1>2. held = [x EXCEPT !.group = G, !.ptr = P, !.at = A]
  <2>1. CASE Exists(x, g)
    <3>1. held = [x EXCEPT !.group[g].named = @ \cup {p}, !.ptr[p] = g, !.at[p] = x.unit[c].at]
          /\ old = x.group[g]
      BY <2>1
    <3> HIDE DEF held, old
    <3> QED BY <1>0, <3>1 DEF Worlds, Groups
  <2>2. CASE ~Exists(x, g)
    <3> DEFINE new == Group(c, x.unit[c].at, source, 0)
    <3>1. old = new /\ base = [x EXCEPT !.group[g] = new]
      BY <2>2
    <3> DEFINE B == [x.group EXCEPT ![g] = new]
    <3>2. new \in Groups
      BY <1>1, <3>1
    <3> HIDE DEF new, base, old
    <3>3. B \in [Refs -> Groups \cup {None}] /\ B[g] = new
      BY <1>0, <3>2, WorldFields
    <3>4. base = [x EXCEPT !.group = B]
      BY <1>0, <3>1 DEF Worlds
    <3>5. [B EXCEPT ![g] = r] = G
      BY <1>0, WorldFields
    <3> HIDE DEF B
    <3>6. base \in Worlds /\ base.group = B /\ base.ptr = x.ptr /\ base.at = x.at
      BY <1>0, <3>3, <3>4, WithGroup DEF Worlds
    <3>7. held = [base EXCEPT !.group = [B EXCEPT ![g] = r], !.ptr = P, !.at = A]
      <4>1. r = [new EXCEPT !.named = new.named \cup {p}]
        BY <3>1
      <4> HIDE DEF r
      <4>2. [new EXCEPT !.named = @ \cup {p}] = r
        BY <3>2, <4>1 DEF Groups
      <4> HIDE DEF P, A
      <4>3. P = [x.ptr EXCEPT ![p] = g] /\ A = [x.at EXCEPT ![p] = x.unit[c].at]
        BY DEF P, A
      <4> QED BY <3>3, <3>6, <4>2, <4>3 DEF Worlds, held
    <3> HIDE DEF G, P, A, r
    <3> QED BY <1>0, <3>4, <3>5, <3>7 DEF Worlds
  <2> QED BY <2>1, <2>2
<1> HIDE DEF held, old
<1>3. r \in Groups /\ r.named = old.named \cup {p} /\ r.n = old.n
  BY <1>1 DEF Groups
<1> HIDE DEF r
<1>4. /\ G \in [Refs -> Groups \cup {None}] /\ P \in [Persons -> Refs \cup {None}]
      /\ A \in [Persons -> Places]
  BY <1>0, <1>3, WorldFields, UnitIs
<1>5. /\ G[g] = r /\ \A h \in Refs \ {g} : G[h] = x.group[h]
      /\ P[p] = g /\ \A q \in Persons \ {p} : P[q] = x.ptr[q]
  BY <1>0, WorldFields
<1> HIDE DEF G, P, A
<1>6. held \in Worlds
  BY <1>0, <1>2, <1>4, WithCustody
<1>7. held.group = G /\ held.ptr = P /\ held.lent = x.lent /\ held.host = x.host
      /\ SameElse(x, held)
  BY <1>0, <1>2 DEF Worlds, SameElse
<1>8. /\ held.group[g] \in Groups
      /\ x.group[g] # None => /\ held.group[g].named = x.group[g].named \cup {p}
                              /\ held.group[g].n = x.group[g].n
      /\ x.group[g] = None => held.group[g].named = {p} /\ held.group[g].n = 0
      /\ \A h \in Refs \ {g} : held.group[h] = x.group[h]
      /\ held.ptr[p] = g /\ \A q \in Persons \ {p} : held.ptr[q] = x.ptr[q]
  BY <1>1, <1>3, <1>5, <1>7
<1>9. Sound(Listed(held), T, X)
  BY <1>6, <1>7, <1>8, TakenSound
<1>10. Capture(x, p, c, g, source) = IF Fits(held, g) THEN Listed(held) ELSE Refuse(x)
  BY DEF Capture, held
<1>11. Listed(held).unit = x.unit /\ Listed(held).ptr = P
  BY <1>6, <1>7, ListedIs DEF SameBodies, SameElse
<1>12. Sound(Refuse(x), T, X) /\ Refuse(x).unit = x.unit /\ Refuse(x).ptr = x.ptr
  BY <1>0, RefuseIs, RefuseSound DEF SameBodies, SameElse
<1>13. \A q \in Persons : P[q] \in {x.ptr[q], g}
  BY <1>5
<1>14. Fits(held, g) => Within(x, Listed(held))
  <2> SUFFICES ASSUME Fits(held, g) PROVE Within(x, Listed(held))
    OBVIOUS
  <2>1. held.group[g] # None
    BY <1>8, NoneIsNone
  <2>2. Within(x, held)
    BY <1>0, <1>6, <1>8, <2>1, FitsWithin
  <2>3. Listed(held).group = held.group /\ Listed(held).unit = held.unit
    BY <1>6, ListedIs DEF SameBodies, SameElse
  <2> QED BY <2>2, <2>3, WithinAlike
<1>15. Within(x, Refuse(x))
  BY <1>0, RefuseWithin
<1> QED BY <1>9, <1>10, <1>11, <1>12, <1>13, <1>14, <1>15

\* Bodies that surrender are lent to a new group.
LEMMA SurrenderSound ==
  ASSUME NEW T, NEW X, NEW x, Sound(x, T, X), NEW g \in Refs, NEW c \in Captors, NEW k \in Nat
  PROVE  LET y == Surrender(x, c, k, g) IN
         Sound(y, T, X) /\ (y.ok => y.group[g] # None) /\ Within(x, y)
<1> DEFINE take == AtMost(k, x.foe.n)
           held == [Detached(x, take, g) EXCEPT
                      !.foe.to = None, !.group[g] = Group(c, x.foe.at, TRUE, take)]
           y == Surrender(x, c, k, g)
<1>0. x \in Worlds /\ x.foe.n \in Nat /\ x.foe.at \in Places /\ x.foe.offered \in Nat
  BY HalvesOf DEF Sound
<1>1. take \in Nat /\ take <= x.foe.n
  BY <1>0 DEF AtMost
<1>2. \/ y = Refuse(x)
      \/ y = Listed(held) /\ ~Exists(x, g) /\ Fits(held, g)
  BY DEF Surrender
<1>3. CASE y = Refuse(x)
  BY <1>0, <1>3, RefuseIs, RefuseSound, RefuseWithin
<1>4. CASE y = Listed(held) /\ ~Exists(x, g) /\ Fits(held, g)
  <2> DEFINE new == Group(c, x.foe.at, TRUE, take)
             G == [x.group EXCEPT ![g] = new]
             L == [x.lent EXCEPT ![g] = take]
             f == [x.foe EXCEPT !.n = x.foe.n - take, !.to = None]
  <2> HIDE DEF take, y
  <2>1. held = [x EXCEPT !.group = G, !.lent = L, !.foe = f, !.siege = x.siege]
    <3> HIDE DEF new
    <3>1. held = [Detached(x, take, g) EXCEPT !.foe.to = None, !.group[g] = new]
      BY DEF new
    <3>2. x.foe \in [n : Nat, at : Places, to : Captors \cup {None}, offered : Nat]
      BY <1>0, WorldFields
    <3> HIDE DEF held
    <3> QED BY <1>0, <3>1, <3>2 DEF Detached, Worlds
  <2>2. new \in Groups /\ new.n = take /\ new.named = {}
    BY <1>0, <1>1 DEF Group, Groups, Services
  <2>3. /\ f \in [n : Nat, at : Places, to : Captors \cup {None}, offered : Nat]
        /\ f.n = x.foe.n - take
    <3>1. x.foe \in [n : Nat, at : Places, to : Captors \cup {None}, offered : Nat]
      BY <1>0, WorldFields
    <3>2. x.foe.n - take \in Nat
      BY <1>0, <1>1
    <3> QED BY <3>1, <3>2
  <2> HIDE DEF new, f, held
  <2>4. /\ G \in [Refs -> Groups \cup {None}] /\ G[g] = new
        /\ \A h \in Refs \ {g} : G[h] = x.group[h]
        /\ L \in [Refs -> Int] /\ L[g] = take /\ \A h \in Refs \ {g} : L[h] = x.lent[h]
        /\ x.lent \in [Refs -> Int]
    BY <1>0, <1>1, <2>2, WorldFields
  <2>5. x.group[g] = None /\ x.lent[g] = 0
    BY <1>4 DEF Exists, Sound, Lent
  <2> HIDE DEF G, L
  <2>6. held \in Worlds
    <3>1. x.siege \in Offers \cup {None}
      BY <1>0, WorldFields
    <3> QED BY <1>0, <2>1, <2>3, <2>4, <3>1, WithFoe
  <2>7. /\ held.group = G /\ held.lent = L /\ held.foe = f /\ held.ptr = x.ptr
        /\ held.free = x.free /\ held.unit = x.unit
        /\ held.head = x.head /\ held.levy = x.levy /\ held.dead = x.dead
    BY <1>0, <2>1 DEF Worlds
  <2>8. Pointed(held.group, held.ptr, T)
    <3>1. Pointed(x.group, x.ptr, T)
      BY DEF Sound
    <3> QED BY <2>2, <2>4, <2>7, <3>1 DEF Pointed
  <2>9. Known(held.group, held.ptr, X)
    <3> SUFFICES ASSUME NEW q \in Persons \ X, x.ptr[q] # None
                 PROVE  G[x.ptr[q]] # None /\ q \in G[x.ptr[q]].named
      BY <2>7 DEF Known
    <3>1. x.group[x.ptr[q]] # None /\ q \in x.group[x.ptr[q]].named /\ x.ptr[q] \in Refs
      BY <1>0, WorldFields DEF Sound, Known
    <3> QED BY <2>4, <2>5, <3>1
  <2>10. Lent(held.group, held.lent)
    <3>1. Lent(x.group, x.lent) /\ new # None
      BY <2>2, NoneIsNone DEF Sound
    <3> QED BY <2>2, <2>4, <2>7, <3>1 DEF Lent
  <2>11. Balanced(held)
    <3> DEFINE s == SumFunctionOnSet(x.lent, Refs)
               t == SumFunctionOnSet(L, Refs)
    <3>1. t = s - x.lent[g] + L[g] /\ s \in Int /\ t \in Int
      BY <2>4, LentSum
    <3>2. x.head["enemy"] = x.free["enemy"] + x.foe.n + s
      BY DEF Sound, Balanced
    <3>3. x.free["enemy"] \in Int
      BY <1>0, HalvesOf
    <3> HIDE DEF s, t
    <3>4. x.head["enemy"] = x.free["enemy"] + f.n + t
      BY <1>0, <1>1, <2>3, <2>4, <2>5, <3>1, <3>2, <3>3
    <3> QED BY <2>7, <3>4 DEF Sound, Balanced, t
  <2>12. Sound(Listed(held), T, X)
    BY <2>6, <2>8, <2>9, <2>10, <2>11, ListedSound
  <2>13. Listed(held).group = G /\ G[g] # None
    BY <2>2, <2>4, <2>6, <2>7, ListedIs, NoneIsNone DEF SameBodies
  <2>14. Within(x, Listed(held))
    <3>1. held.group[g] # None /\ \A h \in Refs \ {g} : held.group[h] = x.group[h]
      BY <2>2, <2>4, <2>7, NoneIsNone
    <3>2. Within(x, held)
      BY <1>0, <1>4, <2>6, <3>1, FitsWithin
    <3>3. Listed(held).group = held.group /\ Listed(held).unit = held.unit
      BY <2>6, ListedIs DEF SameBodies, SameElse
    <3> QED BY <3>2, <3>3, WithinAlike
  <2> QED BY <1>4, <2>12, <2>13, <2>14 DEF y
<1> QED BY <1>2, <1>3, <1>4

-----------------------------------------------------------------------------
(* Groups that follow their custodians. *)

\* A group is taken elsewhere with those it lists, who are its captives from now on.
Relocated(x, g, l) ==
    [x EXCEPT !.group[g].at = l,
              !.ptr = [p \in Persons |-> IF p \in x.group[g].named THEN g ELSE @[p]],
              !.at  = [p \in Persons |-> IF p \in x.group[g].named THEN l ELSE @[p]]]

LEMMA MovedSound ==
  ASSUME NEW T, NEW X, NEW x, Sound(x, T, X), NEW g \in Refs, x.group[g] # None,
         NEW l \in Places
  PROVE  LET y == Relocated(x, g, l) IN
         /\ Sound(y, T, X) /\ y.unit = x.unit
         /\ \A h \in Refs \ {g} : y.group[h] = x.group[h]
         /\ \A h \in Refs : x.group[h] # None =>
              y.group[h] # None /\ y.group[h].cust = x.group[h].cust
<1> DEFINE named == x.group[g].named
           r == [x.group[g] EXCEPT !.at = l]
           G == [x.group EXCEPT ![g] = r]
           P == [p \in Persons |-> IF p \in named THEN g ELSE x.ptr[p]]
           A == [p \in Persons |-> IF p \in named THEN l ELSE x.at[p]]
           y == Relocated(x, g, l)
<1>0. x \in Worlds /\ x.group[g] \in Groups
  BY GroupFields DEF Sound
<1>1. y = [x EXCEPT !.group = G, !.ptr = P, !.at = A]
  BY <1>0 DEF Relocated, Worlds, Groups
<1>2. /\ r \in Groups /\ r.named = named /\ r.n = x.group[g].n /\ r.held = x.group[g].held
      /\ r.cust = x.group[g].cust
  BY <1>0 DEF Groups
<1> HIDE DEF r
<1>3. /\ G \in [Refs -> Groups \cup {None}] /\ P \in [Persons -> Refs \cup {None}]
      /\ A \in [Persons -> Places]
  <2> HIDE DEF named
  <2> QED BY <1>0, <1>2, WorldFields
<1>4. /\ G[g] = r /\ r # None /\ \A h \in Refs \ {g} : G[h] = x.group[h]
      /\ \A p \in Persons : P[p] = IF p \in named THEN g ELSE x.ptr[p]
  <2>1. r # None
    BY <1>2, NoneIsNone
  <2> HIDE DEF named
  <2> QED BY <1>0, <2>1, WorldFields
<1> HIDE DEF G, P, A, y
<1>5. y \in Worlds
  BY <1>0, <1>1, <1>3, WithCustody
<1>6. /\ y.group = G /\ y.ptr = P /\ y.lent = x.lent /\ y.host = x.host
      /\ SameElse(x, y) /\ y.unit = x.unit
  BY <1>0, <1>1 DEF Worlds, SameElse
<1>7. ASSUME NEW h \in Refs
      PROVE  /\ (G[h] = None) <=> (x.group[h] = None)
             /\ x.group[h] # None => /\ G[h].named = x.group[h].named
                                     /\ G[h].n = x.group[h].n /\ G[h].held = x.group[h].held
                                     /\ G[h].cust = x.group[h].cust
  BY <1>2, <1>4 DEF named
<1>8. Pointed(y.group, y.ptr, T)
  <2> SUFFICES ASSUME NEW h \in Refs, G[h] # None, NEW q \in G[h].named \ T
               PROVE  P[q] = h
    BY <1>6 DEF Pointed
  <2>1. x.group[h] # None /\ q \in x.group[h].named \ T
    BY <1>7
  <2>2. x.ptr[q] = h /\ q \in Persons
    BY <1>0, <2>1, GroupFields DEF Sound, Pointed
  <2>3. q \in named => x.ptr[q] = g
    BY <2>1 DEF Sound, Pointed, named
  <2> QED BY <1>4, <2>2, <2>3
<1>9. Known(y.group, y.ptr, X)
  <2> SUFFICES ASSUME NEW q \in Persons \ X, P[q] # None
               PROVE  G[P[q]] # None /\ q \in G[P[q]].named
    BY <1>6 DEF Known
  <2>1. CASE q \in named
    BY <1>4, <1>7, <2>1 DEF named
  <2>2. CASE q \notin named
    <3>1. P[q] = x.ptr[q]
      BY <1>4, <2>2
    <3>2. x.group[x.ptr[q]] # None /\ q \in x.group[x.ptr[q]].named /\ x.ptr[q] \in Refs
      BY <1>0, <3>1, WorldFields DEF Sound, Known
    <3> QED BY <1>7, <3>1, <3>2
  <2> QED BY <2>1, <2>2
<1>10. Routed(y.group, y.host)
  <2>1. Live(G) = Live(x.group)
    BY <1>7 DEF Live
  <2>2. x.host \in SUBSET Refs /\ Routed(x.group, x.host)
    BY <1>0, WorldFields DEF Sound
  <2> QED BY <1>6, <1>7, <2>1, <2>2 DEF Routed
<1>11. Lent(y.group, y.lent)
  <2>1. Lent(x.group, x.lent)
    BY DEF Sound
  <2> QED BY <1>6, <1>7, <2>1 DEF Lent
<1>12. Balanced(y)
  BY <1>6 DEF Sound, Balanced, SameElse
<1> QED BY <1>4, <1>5, <1>6, <1>7, <1>8, <1>9, <1>10, <1>11, <1>12 DEF Sound, y

\* What the sync after a movement keeps.
Carried(x, T, X) ==
    {y \in Worlds : /\ Sound(y, T, X) /\ y.unit = x.unit /\ Within(x, y)
                    /\ \A h \in Refs : x.group[h] # None =>
                         y.group[h] # None /\ y.group[h].cust = x.group[h].cust}

LEMMA FollowSound ==
  ASSUME NEW T, NEW X, NEW x \in Worlds, NEW y \in Carried(x, T, X), NEW g \in Refs, x.group[g] # None,
         Stands(x, x.group[g].cust)
  PROVE  Follow(y, g) \in Carried(x, T, X)
<1> DEFINE l == y.unit[y.group[g].cust].at
           moved == Relocated(y, g, l)
<1>1. /\ y \in Worlds /\ Sound(y, T, X) /\ y.unit = x.unit /\ Within(x, y)
      /\ y.group[g] # None /\ y.group[g].cust = x.group[g].cust
      /\ \A h \in Refs : x.group[h] # None =>
           y.group[h] # None /\ y.group[h].cust = x.group[h].cust
  BY DEF Carried
<1>2. l \in Places
  <2>1. Stands(y, y.group[g].cust) /\ y.group[g].cust \in Captors
    BY <1>1, GroupFields DEF Stands
  <2> QED BY <1>1, <2>1, UnitIs
<1>3. \/ Follow(y, g) \in {y, Refuse(y)}
      \/ Follow(y, g) = moved /\ Fits(moved, g)
  BY DEF Follow, Relocated
<1> HIDE DEF l
<1>4. /\ Sound(moved, T, X) /\ moved.unit = y.unit
      /\ \A h \in Refs \ {g} : moved.group[h] = y.group[h]
      /\ \A h \in Refs : y.group[h] # None =>
           moved.group[h] # None /\ moved.group[h].cust = y.group[h].cust
  BY <1>1, <1>2, MovedSound
<1> HIDE DEF moved, l
<1>5. Fits(moved, g) => moved \in Carried(x, T, X)
  <2> SUFFICES ASSUME Fits(moved, g) PROVE moved \in Carried(x, T, X)
    OBVIOUS
  <2>1. moved \in Worlds
    BY <1>4 DEF Sound
  <2>2. Within(y, moved)
    BY <1>1, <1>4, <2>1, FitsWithin
  <2>3. Within(x, moved)
    BY <1>1, <1>4, <2>1, <2>2, WithinTwice
  <2> QED BY <1>1, <1>4, <2>1, <2>3 DEF Carried
<1>6. Refuse(y) \in Carried(x, T, X)
  <2>1. /\ Refuse(y) \in Worlds /\ Refuse(y).group = y.group /\ Refuse(y).unit = y.unit
        /\ Sound(Refuse(y), T, X)
    BY <1>1, RefuseIs, RefuseSound DEF SameBodies, SameElse
  <2>2. Within(x, Refuse(y))
    BY <1>1, <2>1, WithinAlike
  <2> QED BY <1>1, <2>1, <2>2 DEF Carried
<1> QED BY <1>3, <1>5, <1>6

LEMMA SyncedSound ==
  ASSUME NEW T, NEW X, NEW x, Sound(x, T, X), NEW groups \in SUBSET Refs,
         NEW order \in SetToSeqs(Following(x, groups))
  PROVE  /\ Sound(Synced(x, order), T, X) /\ Within(x, Synced(x, order))
         /\ Synced(x, order).unit = x.unit
<1> DEFINE D == DOMAIN order
           V == Carried(x, T, X)
           After(i, y) == IF y.ok THEN Follow(y, order[i]) ELSE y
           Eq(h) == h = [s \in SUBSET D |->
                           IF s = {} THEN x ELSE After(Max(s), h[s \ {Max(s)}])]
           step == [e \in D \X V |-> After(e[1], e[2])]
           pick == [s \in SUBSET D |-> Max(s)]
<1>1. D \subseteq Int /\ IsFiniteSet(D) /\ \A i \in D : order[i] \in Following(x, groups)
  <2>1. Following(x, groups) \in SUBSET Refs
    BY DEF Following
  <2>2. IsFiniteSet(Following(x, groups))
    BY <2>1, RefsFinite, FS_Subset
  <2>3. Cardinality(Following(x, groups)) \in Nat
    BY <2>2, FS_CardinalityType
  <2>4. order \in [1..Cardinality(Following(x, groups)) -> Following(x, groups)]
    BY DEF SetToSeqs
  <2>5. D = 1..Cardinality(Following(x, groups))
    BY <2>4
  <2>6. IsFiniteSet(D) /\ D \subseteq Int
    <3> DEFINE n == Cardinality(Following(x, groups))
    <3>1. n \in Int /\ 1 \in Int /\ D = 1..n
      BY <2>3, <2>5
    <3> HIDE DEF n, D
    <3> QED BY <3>1, FS_Interval
  <2> QED BY <2>4, <2>5, <2>6
<1>2. \A s \in SUBSET D : s # {} => pick[s] \in s /\ pick[s] = Max(s)
  <2> SUFFICES ASSUME NEW s \in SUBSET D, s # {} PROVE Max(s) \in s
    OBVIOUS
  <2>1. IsFiniteSet(s) /\ s \subseteq Int
    BY <1>1, FS_Subset
  <2>2. \E i \in s : \A j \in s : i >= j
    BY <2>1, Largest
  <2> QED BY <2>2 DEF Max
<1>3. \A i \in D : \A y \in V : After(i, y) \in V
  <2> SUFFICES ASSUME NEW i \in D, NEW y \in V PROVE After(i, y) \in V
    OBVIOUS
  <2>1. order[i] \in Refs /\ x.group[order[i]] # None /\ Stands(x, x.group[order[i]].cust)
    BY <1>1 DEF Following, Active, Exists
  <2>2. x \in Worlds
    BY DEF Sound
  <2>3. Follow(y, order[i]) \in V
    BY <2>1, <2>2, FollowSound
  <2> QED BY <2>3
<1>4. x \in V
  <2>1. x \in Worlds
    BY DEF Sound
  <2>2. Within(x, x)
    BY <2>1, SameLighter, LighterWithin
  <2> QED BY <2>1, <2>2 DEF Carried
<1>5. Synced(x, order) = (CHOOSE h : Eq(h))[D]
  BY DEF Synced, FoldLeft, MapThenFoldSet
<1> HIDE DEF D, V
<1>6. \E h : Eq(h)
  <2>1. step \in [D \X V -> V]
    BY <1>3
  <2>2. Picks(pick, D)
    BY <1>2 DEF Picks
  <2> HIDE DEF step, pick
  <2>3. PICK h \in [SUBSET D -> V] : Taken(h, SUBSET D, x, step, pick)
    BY <1>1, <1>4, <2>1, <2>2, FoldExists
  <2>4. \A s \in SUBSET D : s # {} =>
          step[pick[s], h[s \ {pick[s]}]] = After(Max(s), h[s \ {Max(s)}])
    <3> SUFFICES ASSUME NEW s \in SUBSET D, s # {}
                 PROVE  step[Max(s), h[s \ {Max(s)}]] = After(Max(s), h[s \ {Max(s)}])
      BY <1>2
    <3>1. Max(s) \in D /\ h[s \ {Max(s)}] \in V
      BY <1>2
    <3> DEFINE i == Max(s)
               y == h[s \ {Max(s)}]
    <3>2. i \in D /\ y \in V
      BY <3>1
    <3> HIDE DEF i, y
    <3>3. step[i, y] = After(i, y)
      BY <3>2 DEF step
    <3> QED BY <3>3 DEF i, y
  <2> HIDE DEF After
  <2>5. Eq(h)
    BY <2>3, <2>4 DEF Taken
  <2> QED BY <2>5
<1> DEFINE c == CHOOSE h : Eq(h)
<1>7. Eq(c)
  BY <1>6
<1>8. Synced(x, order) = c[D]
  BY <1>5
<1> HIDE DEF c
<1>9. \A s \in SUBSET D : c[s] = IF s = {} THEN x ELSE After(Max(s), c[s \ {Max(s)}])
  <2> HIDE DEF After
  <2> QED BY <1>7
<1>10. c[D] \in V
  <2>1. c[{}] \in V
    BY <1>4, <1>9
  <2>2. ASSUME NEW s \in SUBSET D, s # {}, c[s \ {pick[s]}] \in V PROVE c[s] \in V
    <3>1. Max(s) \in D /\ pick[s] = Max(s)
      BY <1>2, <2>2
    <3> HIDE DEF After, pick
    <3>2. c[s] = After(Max(s), c[s \ {Max(s)}])
      BY <1>9, <2>2
    <3> QED BY <1>3, <2>2, <3>1, <3>2
  <2>3. Picks(pick, D)
    BY <1>2 DEF Picks
  <2> HIDE DEF pick, After
  <2>4. Keeps(c, D, V, pick)
    BY <2>1, <2>2 DEF Keeps
  <2> QED BY <1>1, <2>3, <2>4, FoldStays
<1> QED BY <1>8, <1>10 DEF V, Carried

\* What a battle's captures keep.
Fought(x, T, X, captured, g) ==
    {y \in Worlds : /\ Sound(y, T, X) /\ y.unit = x.unit /\ Within(x, y)
                    /\ \A p \in captured : p \in T \/ y.ptr[p] \in {None, g}}

LEMMA CapturesSound ==
  ASSUME NEW T, NEW X, NEW x, Sound(x, T, X), NEW captured \in SUBSET Persons,
         NEW c \in Captors, Stands(x, c), NEW g \in Refs,
         \A p \in captured : p \in T \/ x.ptr[p] \in {None, g}
  PROVE  LET y == Captures(x, captured, c, g) IN Sound(y, T, X) /\ Within(x, y)
<1> DEFINE D == captured
           V == Fought(x, T, X, captured, g)
           After(i, y) == IF y.ok THEN Capture(y, i, c, g, TRUE) ELSE y
           Eq(h) == h = [s \in SUBSET D |->
                           IF s = {} THEN x
                           ELSE After([p \in Persons |-> p][AnyOf(s)], h[s \ {AnyOf(s)}])]
           step == [e \in D \X V |-> After(e[1], e[2])]
           pick == [s \in SUBSET D |-> AnyOf(s)]
<1>1. D \subseteq Persons /\ IsFiniteSet(D)
  BY CustodyAssumption, FS_Subset
<1>2. \A s \in SUBSET D : s # {} => pick[s] \in s /\ pick[s] = AnyOf(s)
  BY AnyOfIn
<1>3. \A i \in D : \A y \in V : After(i, y) \in V
  <2> SUFFICES ASSUME NEW i \in D, NEW y \in V PROVE After(i, y) \in V
    OBVIOUS
  <2>1. /\ Sound(y, T, X) /\ y.unit = x.unit /\ Within(x, y)
        /\ \A p \in captured : p \in T \/ y.ptr[p] \in {None, g}
    BY DEF Fought
  <2>2. Stands(y, c) /\ i \in Persons /\ (i \in T \/ y.ptr[i] \in {None, g}) /\ TRUE \in BOOLEAN
    BY <2>1 DEF Stands
  <2> DEFINE z == Capture(y, i, c, g, TRUE)
  <2>3. /\ Sound(z, T, X) /\ z.unit = y.unit /\ Within(y, z)
        /\ \A q \in Persons : z.ptr[q] \in {y.ptr[q], g}
    BY <2>1, <2>2, CaptureSound
  <2> HIDE DEF z
  <2>4. z \in Worlds
    BY <2>3 DEF Sound
  <2>6. Within(x, z)
    BY <2>1, <2>3, <2>4, WithinTwice DEF Sound
  <2>5. z \in V
    BY <1>1, <2>1, <2>3, <2>4, <2>6 DEF Fought
  <2> QED BY <2>5 DEF z
<1>4. x \in V
  <2>1. x \in Worlds
    BY DEF Sound
  <2>2. Within(x, x)
    BY <2>1, SameLighter, LighterWithin
  <2> QED BY <2>1, <2>2 DEF Fought
<1>5. Captures(x, captured, c, g) = (CHOOSE h : Eq(h))[D]
  BY DEF Captures, FoldFunctionOnSet, MapThenFoldSet, AnyOf
<1>a. \A s \in SUBSET D : s # {} => [p \in Persons |-> p][AnyOf(s)] = AnyOf(s)
  BY <1>1, AnyOfIn
<1> HIDE DEF D, V
<1>6. \E h : Eq(h)
  <2>1. step \in [D \X V -> V]
    BY <1>3
  <2>2. Picks(pick, D)
    BY <1>2 DEF Picks
  <2> HIDE DEF step, pick
  <2>3. PICK h \in [SUBSET D -> V] : Taken(h, SUBSET D, x, step, pick)
    BY <1>1, <1>4, <2>1, <2>2, FoldExists
  <2>4. \A s \in SUBSET D : s # {} =>
          step[pick[s], h[s \ {pick[s]}]]
            = After([p \in Persons |-> p][AnyOf(s)], h[s \ {AnyOf(s)}])
    <3> SUFFICES ASSUME NEW s \in SUBSET D, s # {}
                 PROVE  step[AnyOf(s), h[s \ {AnyOf(s)}]] = After(AnyOf(s), h[s \ {AnyOf(s)}])
      BY <1>2, <1>a
    <3> DEFINE i == AnyOf(s)
               y == h[s \ {AnyOf(s)}]
    <3>1. i \in D /\ y \in V
      BY <1>2
    <3> HIDE DEF i, y
    <3>2. step[i, y] = After(i, y)
      BY <3>1 DEF step
    <3> QED BY <3>2 DEF i, y
  <2> HIDE DEF After
  <2>5. Eq(h)
    BY <2>3, <2>4 DEF Taken
  <2> QED BY <2>5
<1> DEFINE k == CHOOSE h : Eq(h)
<1>7. Eq(k)
  BY <1>6
<1>8. Captures(x, captured, c, g) = k[D]
  BY <1>5
<1> HIDE DEF k
<1>9. \A s \in SUBSET D : k[s] = IF s = {} THEN x ELSE After(AnyOf(s), k[s \ {AnyOf(s)}])
  <2> HIDE DEF After
  <2> QED BY <1>7, <1>a
<1>10. k[D] \in V
  <2>1. k[{}] \in V
    BY <1>4, <1>9
  <2>2. ASSUME NEW s \in SUBSET D, s # {}, k[s \ {pick[s]}] \in V PROVE k[s] \in V
    <3>1. AnyOf(s) \in D /\ pick[s] = AnyOf(s)
      BY <1>2, <2>2
    <3> HIDE DEF After, pick
    <3>2. k[s] = After(AnyOf(s), k[s \ {AnyOf(s)}])
      BY <1>9, <2>2
    <3> QED BY <1>3, <2>2, <3>1, <3>2
  <2>3. Picks(pick, D)
    BY <1>2 DEF Picks
  <2> HIDE DEF pick, After
  <2>4. Keeps(k, D, V, pick)
    BY <2>1, <2>2 DEF Keeps
  <2> QED BY <1>1, <2>3, <2>4, FoldStays
<1> QED BY <1>8, <1>10 DEF V, Fought

-----------------------------------------------------------------------------
(* Steps that leave the custody alone. *)

LEMMA SameCustodySound ==
  ASSUME NEW T, NEW X, NEW x, Sound(x, T, X), NEW y \in Worlds,
         y.group = x.group, y.lent = x.lent, y.ptr = x.ptr, y.host = x.host, Balanced(y)
  PROVE  Sound(y, T, X)
BY DEF Sound

LEMMA SiegeOfferSound ==
  ASSUME NEW T, NEW X, NEW x, Sound(x, T, X), NEW c \in Captors
  PROVE  Sound([x EXCEPT !.siege = [to |-> c, n |-> x.foe.n],
                         !.foe.to = c, !.foe.offered = x.foe.n], T, X)
<1> DEFINE f == [x.foe EXCEPT !.to = c, !.offered = x.foe.n]
           s == [to |-> c, n |-> x.foe.n]
           y == [x EXCEPT !.siege = [to |-> c, n |-> x.foe.n],
                          !.foe.to = c, !.foe.offered = x.foe.n]
<1>0. /\ x \in Worlds /\ x.foe.n \in Nat
      /\ x.foe \in [n : Nat, at : Places, to : Captors \cup {None}, offered : Nat]
  BY HalvesOf, WorldFields DEF Sound
<1>1. y = [x EXCEPT !.siege = s, !.foe = f]
  BY <1>0 DEF Worlds
<1>2. /\ f \in [n : Nat, at : Places, to : Captors \cup {None}, offered : Nat]
      /\ f.n = x.foe.n /\ s \in Offers
  BY <1>0 DEF Offers
<1> HIDE DEF f, s, y
<1>3. y \in Worlds
  BY <1>0, <1>1, <1>2 DEF Worlds
<1>4. /\ y.group = x.group /\ y.lent = x.lent /\ y.ptr = x.ptr /\ y.host = x.host
      /\ y.foe = f /\ y.free = x.free /\ y.unit = x.unit
      /\ y.head = x.head /\ y.levy = x.levy /\ y.dead = x.dead
  BY <1>0, <1>1 DEF Worlds
<1>5. Balanced(y)
  BY <1>2, <1>4 DEF Sound, Balanced
<1>6. Sound(y, T, X)
  BY <1>3, <1>4, <1>5, SameCustodySound
<1> QED BY <1>6 DEF y

LEMMA SiegeDropSound ==
  ASSUME NEW T, NEW X, NEW x, Sound(x, T, X)
  PROVE  Sound([x EXCEPT !.siege = None], T, X)
<1> DEFINE y == [x EXCEPT !.siege = None]
<1>0. x \in Worlds
  BY DEF Sound
<1>1. y \in Worlds /\ SameBodies(x, y) /\ y.ptr = x.ptr /\ y.host = x.host
  BY <1>0 DEF Worlds, SameBodies, SameElse
<1> HIDE DEF y
<1>2. Routed(x.group, y.host)
  BY <1>1 DEF Sound
<1>3. Sound(y, T, X)
  BY <1>1, <1>2, AlikeSound
<1> QED BY <1>3 DEF y

\* People die or go elsewhere.
LEMMA DieSound ==
  ASSUME NEW T, NEW X, NEW x, Sound(x, T, X), NEW p \in Persons
  PROVE  Sound([x EXCEPT !.alive[p] = FALSE], T, X)
<1> DEFINE y == [x EXCEPT !.alive[p] = FALSE]
<1>0. x \in Worlds
  BY DEF Sound
<1>1. y \in Worlds /\ SameBodies(x, y) /\ y.ptr = x.ptr /\ y.host = x.host
  <2> DEFINE B == [x.alive EXCEPT ![p] = FALSE]
  <2>1. y = [x EXCEPT !.alive = B]
    BY <1>0 DEF Worlds
  <2>2. B \in [Persons -> BOOLEAN]
    BY <1>0, WorldFields
  <2> HIDE DEF B, y
  <2> QED BY <1>0, <2>1, <2>2 DEF Worlds, SameBodies, SameElse
<1> HIDE DEF y
<1>2. Routed(x.group, y.host)
  BY <1>1 DEF Sound
<1>3. Sound(y, T, X)
  BY <1>1, <1>2, AlikeSound
<1> QED BY <1>3 DEF y

LEMMA GoneSound ==
  ASSUME NEW T, NEW X, NEW x, Sound(x, T, X), NEW A \in [Persons -> Places]
  PROVE  Sound([x EXCEPT !.at = A], T, X)
<1> DEFINE y == [x EXCEPT !.at = A]
<1>0. x \in Worlds
  BY DEF Sound
<1>1. y \in Worlds /\ SameBodies(x, y) /\ y.ptr = x.ptr /\ y.host = x.host
  BY <1>0 DEF Worlds, SameBodies, SameElse
<1> HIDE DEF y
<1>2. Routed(x.group, y.host)
  BY <1>1 DEF Sound
<1>3. Sound(y, T, X)
  BY <1>1, <1>2, AlikeSound
<1> QED BY <1>3 DEF y

LEMMA TravelSound ==
  ASSUME NEW T, NEW X, NEW x, Sound(x, T, X), NEW p \in Persons, NEW l \in Places
  PROVE  Sound([x EXCEPT !.at[p] = l], T, X)
<1> DEFINE A == [x.at EXCEPT ![p] = l]
<1>0. x \in Worlds
  BY DEF Sound
<1>1. [x EXCEPT !.at[p] = l] = [x EXCEPT !.at = A]
  BY <1>0 DEF Worlds
<1>2. A \in [Persons -> Places]
  BY <1>0, WorldFields
<1> HIDE DEF A
<1> QED BY <1>1, <1>2, GoneSound

Marched(x, l) ==
    [x EXCEPT !.foe.at = l,
              !.at = [p \in Persons |-> IF p \in x.leads /\ x.alive[p] /\ @[p] = x.foe.at
                                        THEN l ELSE @[p]]]

LEMMA EnemyMarchSound ==
  ASSUME NEW T, NEW X, NEW x, Sound(x, T, X), NEW l \in Places
  PROVE  Sound(Marched(x, l), T, X)
<1> DEFINE A == [p \in Persons |-> IF p \in x.leads /\ x.alive[p] /\ x.at[p] = x.foe.at
                                   THEN l ELSE x.at[p]]
           f == [x.foe EXCEPT !.at = l]
           y == Marched(x, l)
<1>0. /\ x \in Worlds
      /\ x.foe \in [n : Nat, at : Places, to : Captors \cup {None}, offered : Nat]
  BY WorldFields DEF Sound
<1>1. y = [x EXCEPT !.foe = f, !.at = A]
  BY <1>0 DEF Marched, Worlds
<1>2. /\ f \in [n : Nat, at : Places, to : Captors \cup {None}, offered : Nat]
      /\ f.n = x.foe.n /\ A \in [Persons -> Places]
  BY <1>0, WorldFields
<1> HIDE DEF f, A, y
<1>3. y \in Worlds
  BY <1>0, <1>1, <1>2 DEF Worlds
<1>4. /\ y.group = x.group /\ y.lent = x.lent /\ y.ptr = x.ptr /\ y.host = x.host
      /\ y.foe = f /\ y.free = x.free /\ y.unit = x.unit
      /\ y.head = x.head /\ y.levy = x.levy /\ y.dead = x.dead
  BY <1>0, <1>1 DEF Worlds
<1>5. Balanced(y)
  BY <1>2, <1>4 DEF Sound, Balanced
<1>6. Sound(y, T, X)
  BY <1>3, <1>4, <1>5, SameCustodySound
<1> QED BY <1>6 DEF y

-----------------------------------------------------------------------------
(* The captor's formations. *)

UnitSum(u) == SumFunctionOnSet([c \in Captors |-> BodiesOf(u[c])], Captors)

\* One formation changes.
LEMMA UnitSumIs ==
  ASSUME NEW u \in [Captors -> Units \cup {None}], NEW v \in [Captors -> Units \cup {None}],
         NEW c \in Captors, \A d \in Captors \ {c} : v[d] = u[d]
  PROVE  /\ UnitSum(v) = UnitSum(u) - BodiesOf(u[c]) + BodiesOf(v[c])
         /\ UnitSum(u) \in Int /\ BodiesOf(u[c]) \in Nat /\ BodiesOf(v[c]) \in Nat
<1> DEFINE a == [d \in Captors |-> BodiesOf(u[d])]
           b == [d \in Captors |-> BodiesOf(v[d])]
<1>1. \A d \in Captors : BodiesOf(u[d]) \in Nat /\ BodiesOf(v[d]) \in Nat
  <2>1. \A d \in Captors : u[d] \in Units \cup {None} /\ v[d] \in Units \cup {None}
    OBVIOUS
  <2> QED BY <2>1 DEF BodiesOf, Units
<1>0. IsFiniteSet(Captors)
  BY CustodyAssumption
<1>2. \A d \in Captors : a[d] \in Int /\ b[d] \in Int /\ (d # c => b[d] = a[d])
  BY <1>1
<1>6. a[c] = BodiesOf(u[c]) /\ b[c] = BodiesOf(v[c])
  OBVIOUS
<1>3. UnitSum(u) = SumFunctionOnSet(a, Captors) /\ UnitSum(v) = SumFunctionOnSet(b, Captors)
  BY DEF UnitSum
<1> HIDE DEF a, b
<1>4. SumFunctionOnSet(b, Captors) = SumFunctionOnSet(a, Captors) - a[c] + b[c]
  BY <1>0, <1>2, SumOne
<1>5. SumFunctionOnSet(a, Captors) \in Int
  BY <1>0, <1>2, SumInt
<1> QED BY <1>1, <1>3, <1>4, <1>5, <1>6

LEMMA UnitAtSound ==
  ASSUME NEW T, NEW X, NEW x, Sound(x, T, X), NEW c \in Captors, Stands(x, c), NEW l \in Places
  PROVE  Sound([x EXCEPT !.unit[c].at = l], T, X)
<1> DEFINE r == [x.unit[c] EXCEPT !.at = l]
           U == [x.unit EXCEPT ![c] = r]
           y == [x EXCEPT !.unit[c].at = l]
<1>0. x \in Worlds /\ x.unit[c] \in Units /\ x.unit[c] # None
  BY UnitIs DEF Sound, Stands
<1>1. y = [x EXCEPT !.unit = U]
  BY <1>0 DEF Worlds
<1>2. r \in Units /\ r.n = x.unit[c].n
  BY <1>0 DEF Units
<1> HIDE DEF r
<1>3. /\ U \in [Captors -> Units \cup {None}] /\ U[c] = r
      /\ \A d \in Captors \ {c} : U[d] = x.unit[d]
      /\ x.unit \in [Captors -> Units \cup {None}]
  BY <1>0, <1>2, WorldFields
<1> HIDE DEF U, y
<1>4. y \in Worlds
  BY <1>0, <1>1, <1>3 DEF Worlds
<1>5. /\ y.group = x.group /\ y.lent = x.lent /\ y.ptr = x.ptr /\ y.host = x.host
      /\ y.foe = x.foe /\ y.free = x.free /\ y.unit = U
      /\ y.head = x.head /\ y.levy = x.levy /\ y.dead = x.dead
  BY <1>0, <1>1 DEF Worlds
<1>6. BodiesOf(r) = BodiesOf(x.unit[c])
  BY <1>0, <1>2, NoneIsNone DEF BodiesOf
<1>7. UnitSum(U) = UnitSum(x.unit)
  BY <1>3, <1>6, UnitSumIs
<1>8. Balanced(y)
  BY <1>5, <1>7 DEF Sound, Balanced, UnitSum
<1>9. Sound(y, T, X)
  BY <1>4, <1>5, <1>8, SameCustodySound
<1> QED BY <1>9 DEF y

LEMMA DissolveSound ==
  ASSUME NEW T, NEW X, NEW x, Sound(x, T, X), NEW c \in Captors, Stands(x, c)
  PROVE  Sound([x EXCEPT !.unit[c] = None, !.free["captor"] = @ + x.unit[c].n], T, X)
<1> DEFINE U == [x.unit EXCEPT ![c] = None]
           F == [x.free EXCEPT !["captor"] = x.free["captor"] + x.unit[c].n]
           y == [x EXCEPT !.unit[c] = None, !.free["captor"] = @ + x.unit[c].n]
<1>0. x \in Worlds /\ x.unit[c] # None /\ x.unit[c].n \in Nat
  BY UnitIs DEF Sound, Stands
<1>1. y = [x EXCEPT !.unit = U, !.free = F]
  BY <1>0 DEF Worlds
<1>2. /\ U \in [Captors -> Units \cup {None}] /\ U[c] = None
      /\ \A d \in Captors \ {c} : U[d] = x.unit[d]
      /\ x.unit \in [Captors -> Units \cup {None}]
  BY <1>0, WorldFields
<1>3. /\ F \in [Sides -> Int] /\ F["enemy"] = x.free["enemy"]
      /\ F["captor"] = x.free["captor"] + x.unit[c].n
  BY <1>0, WorldFields DEF Sides
<1> HIDE DEF U, F, y
<1>4. y \in Worlds
  BY <1>0, <1>1, <1>2, <1>3, WithUnits
<1>5. /\ y.group = x.group /\ y.lent = x.lent /\ y.ptr = x.ptr /\ y.host = x.host
      /\ y.foe = x.foe /\ y.free = F /\ y.unit = U
      /\ y.head = x.head /\ y.levy = x.levy /\ y.dead = x.dead
  BY <1>0, <1>1 DEF Worlds
<1>6. UnitSum(U) = UnitSum(x.unit) - BodiesOf(x.unit[c]) + BodiesOf(U[c]) /\ UnitSum(x.unit) \in Int
  BY <1>2, UnitSumIs
<1>7. BodiesOf(x.unit[c]) = x.unit[c].n /\ BodiesOf(U[c]) = 0
  BY <1>0, <1>2 DEF BodiesOf
<1>8. x.head["captor"] = F["captor"] + UnitSum(U)
  <2>1. x.head["captor"] = x.free["captor"] + UnitSum(x.unit)
    BY DEF Sound, Balanced, UnitSum
  <2>2. x.free["captor"] \in Int
    BY <1>0, HalvesOf
  <2> DEFINE a == UnitSum(x.unit)
             b == UnitSum(U)
  <2>3. b = a - x.unit[c].n + 0 /\ a \in Int /\ x.head["captor"] = x.free["captor"] + a
    BY <1>6, <1>7, <2>1
  <2> HIDE DEF a, b
  <2>4. x.head["captor"] = F["captor"] + b
    BY <1>0, <1>3, <2>2, <2>3
  <2> QED BY <2>4 DEF b
<1>9. Balanced(y)
  BY <1>3, <1>5, <1>8 DEF Sound, Balanced, UnitSum
<1>10. Sound(y, T, X)
  BY <1>4, <1>5, <1>9, SameCustodySound
<1> QED BY <1>10 DEF y

\* The battle itself, before its captures.
Battled(x, b, c, lost, own, captured, offered) ==
    [x EXCEPT
       !.fought = @ \cup {b}, !.leads = @ \ captured,
       !.foe.n = @ - lost, !.unit[c].n = @ - own,
       !.foe.to = IF offered = 0 THEN @ ELSE c,
       !.foe.offered = IF offered = 0 THEN @ ELSE offered,
       !.head = [enemy |-> @.enemy - lost, captor |-> @.captor - own],
       !.levy = [enemy |-> @.enemy - lost, captor |-> @.captor - own],
       !.dead = @ + lost + own]

LEMMA Losses ==
  ASSUME NEW a \in Int, NEW b \in Int, NEW d \in Int, NEW k \in Int, NEW m \in Int
  PROVE  (a - k) + (b - m) + (d + k + m) = a + b + d
OBVIOUS

LEMMA BattledSound ==
  ASSUME NEW T, NEW X, NEW x, Sound(x, T, X), NEW b \in Battles, NEW c \in Captors,
         Stands(x, c), NEW lost \in Nat, NEW own \in Nat, lost <= x.foe.n, own <= x.unit[c].n,
         NEW captured, NEW offered \in Nat
  PROVE  LET y == Battled(x, b, c, lost, own, captured, offered) IN
         Sound(y, T, X) /\ y.ptr = x.ptr /\ Stands(y, c) /\ y.group = x.group
<1> DEFINE r == [x.unit[c] EXCEPT !.n = x.unit[c].n - own]
           U == [x.unit EXCEPT ![c] = r]
           f == [x.foe EXCEPT !.n = x.foe.n - lost, !.to = IF offered = 0 THEN x.foe.to ELSE c,
                              !.offered = IF offered = 0 THEN x.foe.offered ELSE offered]
           H == [enemy |-> x.head["enemy"] - lost, captor |-> x.head["captor"] - own]
           V == [enemy |-> x.levy["enemy"] - lost, captor |-> x.levy["captor"] - own]
           d == x.dead + lost + own
           a == x.fought \cup {b}
           m == x.leads \ captured
           y == Battled(x, b, c, lost, own, captured, offered)
<1>0. /\ x \in Worlds /\ x.unit[c] \in Units /\ x.unit[c] # None /\ x.unit[c].n \in Nat
      /\ x.foe \in [n : Nat, at : Places, to : Captors \cup {None}, offered : Nat]
  BY UnitIs, WorldFields DEF Sound, Stands
<1>1. y = [x EXCEPT !.fought = a, !.leads = m, !.unit = U, !.foe = f, !.head = H, !.levy = V,
                    !.dead = d]
  <2> DEFINE n == x.foe.n - lost
             k == x.unit[c].n - own
             to == IF offered = 0 THEN x.foe.to ELSE c
             of == IF offered = 0 THEN x.foe.offered ELSE offered
  <2>1. y = [x EXCEPT !.fought = a, !.leads = m, !.foe.n = n, !.unit[c].n = k, !.foe.to = to,
                      !.foe.offered = of, !.head = H, !.levy = V, !.dead = d]
    BY <1>0 DEF Battled, Worlds
  <2>2. f = [x.foe EXCEPT !.n = n, !.to = to, !.offered = of] /\ r = [x.unit[c] EXCEPT !.n = k]
    OBVIOUS
  <2> HIDE DEF n, k, to, of, a, m, H, V, d, y, f, r
  <2> QED BY <1>0, <2>1, <2>2 DEF Worlds
<1>h. /\ x.head["enemy"] \in Int /\ x.head["captor"] \in Int
      /\ x.levy["enemy"] \in Int /\ x.levy["captor"] \in Int
      /\ x.foe.n \in Nat /\ x.foe.offered \in Nat /\ x.foe.to \in Captors \cup {None}
      /\ x.dead \in Int /\ x.free["captor"] \in Int /\ x.free["enemy"] \in Int
  BY <1>0, HalvesOf
<1>2. r \in Units /\ r.n = x.unit[c].n - own
  <2>1. x.unit[c].n - own \in Nat
    BY <1>0
  <2> QED BY <1>0, <2>1 DEF Units
<1> HIDE DEF r
<1>3. /\ U \in [Captors -> Units \cup {None}] /\ U[c] = r
      /\ \A e \in Captors \ {c} : U[e] = x.unit[e]
      /\ x.unit \in [Captors -> Units \cup {None}]
  BY <1>0, <1>2, WorldFields
<1>4. /\ f \in [n : Nat, at : Places, to : Captors \cup {None}, offered : Nat]
      /\ f.n = x.foe.n - lost
  <2>1. x.foe.n - lost \in Nat
    BY <1>h
  <2> QED BY <1>0, <1>h, <2>1
<1>5. /\ H \in [Sides -> Int] /\ V \in [Sides -> Int]
      /\ H["enemy"] = x.head["enemy"] - lost /\ H["captor"] = x.head["captor"] - own
      /\ (x.levy = x.head => V = H)
  BY <1>h DEF Sides
<1>6. d \in Int /\ d = x.dead + lost + own /\ a \in SUBSET Battles /\ m \in SUBSET Persons
  BY <1>0, <1>h, WorldFields
<1> HIDE DEF U, f, H, V, d, a, m, y
<1>7. y \in Worlds
  BY <1>0, <1>1, <1>3, <1>4, <1>5, <1>6 DEF Worlds
<1>8. /\ y.group = x.group /\ y.lent = x.lent /\ y.ptr = x.ptr /\ y.host = x.host
      /\ y.foe = f /\ y.free = x.free /\ y.unit = U
      /\ y.head = H /\ y.levy = V /\ y.dead = d
  BY <1>0, <1>1 DEF Worlds
<1>9. r # None
  BY <1>2, NoneIsNone
<1>10. UnitSum(U) = UnitSum(x.unit) - BodiesOf(x.unit[c]) + BodiesOf(U[c]) /\ UnitSum(x.unit) \in Int
  BY <1>3, UnitSumIs
<1>11. BodiesOf(x.unit[c]) = x.unit[c].n /\ BodiesOf(U[c]) = x.unit[c].n - own
  BY <1>0, <1>2, <1>3, <1>9 DEF BodiesOf
<1>12. H["captor"] = x.free["captor"] + UnitSum(U)
  <2>1. x.head["captor"] = x.free["captor"] + UnitSum(x.unit)
    BY DEF Sound, Balanced, UnitSum
  <2> DEFINE i == UnitSum(x.unit)
             j == UnitSum(U)
  <2>2. j = i - x.unit[c].n + (x.unit[c].n - own) /\ i \in Int /\ x.head["captor"] = x.free["captor"] + i
    BY <1>10, <1>11, <2>1
  <2> HIDE DEF i, j
  <2>3. H["captor"] = x.free["captor"] + j
    BY <1>0, <1>5, <1>h, <2>2
  <2> QED BY <2>3 DEF j
<1>13. H["enemy"] = x.free["enemy"] + f.n + SumFunctionOnSet(x.lent, Refs)
  <2> DEFINE s == SumFunctionOnSet(x.lent, Refs)
  <2>1. s \in Int
    <3>1. \A h \in Refs : x.lent[h] \in Int
      BY <1>0, WorldFields
    <3> QED BY <3>1, RefsFinite, SumInt
  <2>2. x.head["enemy"] = x.free["enemy"] + x.foe.n + s
    BY DEF Sound, Balanced
  <2> HIDE DEF s
  <2>3. H["enemy"] = x.free["enemy"] + f.n + s
    BY <1>4, <1>5, <1>h, <2>1, <2>2
  <2> QED BY <2>3 DEF s
<1>14. H["enemy"] + H["captor"] + d = x.head["enemy"] + x.head["captor"] + x.dead
  BY <1>5, <1>6, <1>h, Losses
<1>15. Balanced(y)
  BY <1>5, <1>8, <1>12, <1>13, <1>14 DEF Sound, Balanced, UnitSum
<1>16. Sound(y, T, X)
  BY <1>7, <1>8, <1>15, SameCustodySound
<1> QED BY <1>3, <1>8, <1>9, <1>16 DEF y, Stands

-----------------------------------------------------------------------------
(* A commit: whatever its validation does not look at was not written. *)

LEMMA CommitFine ==
  ASSUME IInv, NEW T, NEW X, NEW x, twice \subseteq T, Sound(x, T, X), Commit(x)
  PROVE  Sound(w', T, X) /\ Fine(w'.group, w'.at, T)
<1>0. x \in Worlds /\ w \in Worlds /\ Pointed(x.group, x.ptr, T)
  BY DEF Sound, IInv
<1>1. w' = [x EXCEPT !.wrote = {}]
  BY DEF Commit
<1>2. w' \in Worlds /\ SameBodies(x, w') /\ w'.ptr = x.ptr /\ w'.host = x.host /\ w'.at = x.at
  BY <1>0, <1>1 DEF Worlds, SameBodies, SameElse
<1>3. Routed(x.group, w'.host)
  BY <1>2 DEF Sound
<1>4. Sound(w', T, X)
  <2> DEFINE y == w'
  <2>1. y \in Worlds /\ SameBodies(x, y) /\ y.ptr = x.ptr /\ Routed(x.group, y.host)
    BY <1>2, <1>3
  <2> HIDE DEF y
  <2>2. Sound(y, T, X)
    BY <2>1, AlikeSound
  <2> QED BY <2>2 DEF y
<1>5. Fine(x.group, x.at, T)
  <2> SUFFICES ASSUME NEW g \in Refs, x.group[g] # None
               PROVE  /\ ~x.group[g].held => x.group[g].named = {}
                      /\ \A p \in x.group[g].named \ T : x.at[p] = x.group[g].at
    BY DEF Fine
  <2>1. CASE g \in Touched(x)
    <3>1. ValidGroup(x, g)
      BY <2>1 DEF Commit
    <3> QED BY <3>1 DEF ValidGroup
  <2>2. CASE g \notin Touched(x)
    <3>1. x.group[g] = w.group[g]
      BY <2>2 DEF Touched
    <3>2. /\ ~x.group[g].held => x.group[g].named = {}
          /\ \A p \in x.group[g].named \ T : w.at[p] = x.group[g].at
      BY <3>1 DEF IInv, Fine
    <3>3. ASSUME NEW p \in x.group[g].named \ T PROVE x.at[p] = w.at[p]
      <4>1. x.ptr[p] = g /\ p \in Persons
        BY <1>0, GroupFields DEF Pointed
      <4>2. g # None
        BY NoneIsNone
      <4> QED BY <2>2, <4>1, <4>2 DEF Touched
    <3> QED BY <3>2, <3>3
  <2> QED BY <2>1, <2>2
<1> QED BY <1>2, <1>4, <1>5 DEF SameBodies

\* Whom no fact about captives is claimed of.
Marked == twice \cup executed

LEMMA Now ==
  ASSUME IInv PROVE w \in Worlds /\ Sound(w, twice, Marked)
BY DEF IInv, Sound, Marked

LEMMA LightNow ==
  ASSUME IInv, NEW T, NEW X, NEW x, Sound(x, T, X), Lighter(w.group, x.group)
  PROVE  Within(w, x)
BY Now, LighterWithin DEF Sound

LEMMA SameNow ==
  ASSUME IInv, NEW T, NEW X, NEW x, Sound(x, T, X), x.group = w.group
  PROVE  Within(w, x)
BY Now, SameLighter, LightNow

\* What every step leads to.
Lawful == IInv' /\ Respects(w, w')

LEMMA CommitKeeps ==
  ASSUME IInv, NEW T \in SUBSET Persons, NEW E \in SUBSET Persons, NEW x,
         twice \subseteq T, Sound(x, T, T \cup E), Within(w, x), Commit(x), twice' = T, executed' = E
  PROVE  Lawful
<1>1. Sound(w', T, T \cup E) /\ Fine(w'.group, w'.at, T)
  <2> DEFINE X == T \cup E
  <2>1. Sound(x, T, X)
    OBVIOUS
  <2> HIDE DEF X
  <2>2. Sound(w', T, X) /\ Fine(w'.group, w'.at, T)
    BY <2>1, CommitFine
  <2> QED BY <2>2 DEF X
<1>2. IInv'
  BY <1>1 DEF IInv, Sound, Balanced, Fine, Pointed, Known, Routed, Lent, Live, Worlds
<1>3. Respects(w, w')
  <2>1. ASSUME NEW z, z = [x EXCEPT !.wrote = {}] PROVE Respects(w, z)
    <3>1. x \in Worlds /\ w \in Worlds
      BY Now DEF Sound
    <3>2. z \in Worlds /\ z.group = x.group /\ z.unit = x.unit
      BY <2>1, <3>1 DEF Worlds
    <3>3. Within(w, z)
      BY <3>2, WithinAlike
    <3> QED BY <3>1, <3>2, <3>3, WithinRespects
  <2>2. w' = [x EXCEPT !.wrote = {}]
    BY DEF Commit
  <2> QED BY <2>1, <2>2
<1> QED BY <1>2, <1>3 DEF Lawful

LEMMA CommandKeeps ==
  ASSUME IInv, NEW T \in SUBSET Persons, NEW E \in SUBSET Persons, NEW x,
         twice \subseteq T, Sound(x, T, T \cup E), Within(w, x), Command(x), twice' = T, executed' = E
  PROVE  Lawful
<1>1. PICK y \in Hours(x) : Commit(y)
  BY DEF Command
<1>2. Sound(y, T, T \cup E) /\ Lighter(x.group, y.group) /\ y.unit = x.unit
  <2> DEFINE X == T \cup E
  <2>1. Sound(x, T, X)
    OBVIOUS
  <2> HIDE DEF X
  <2>2. Sound(y, T, X) /\ Lighter(x.group, y.group) /\ y.unit = x.unit
    BY <2>1, HoursSound
  <2> QED BY <2>2 DEF X
<1>3. Within(w, y)
  <2>1. w \in Worlds /\ x \in Worlds /\ y \in Worlds
    BY <1>2, Now DEF Sound
  <2> QED BY <1>2, <2>1, WithinLighter
<1> QED BY <1>1, <1>2, <1>3, CommitKeeps

LEMMA QuietKeeps ==
  ASSUME IInv, NEW x, Sound(x, twice, Marked), Within(w, x), Command(x) \/ Commit(x), Same
  PROVE  Lawful
<1>1. /\ twice \in SUBSET Persons /\ executed \in SUBSET Persons
      /\ twice' = twice /\ executed' = executed
  BY DEF IInv, Same
<1> DEFINE T == twice
           E == executed
<1>2. /\ T \in SUBSET Persons /\ E \in SUBSET Persons /\ twice \subseteq T
      /\ Sound(x, T, T \cup E) /\ twice' = T /\ executed' = E
  BY <1>1 DEF Marked
<1> HIDE DEF T, E
<1> QED BY <1>2, CommandKeeps, CommitKeeps

-----------------------------------------------------------------------------
(* One lemma for each step. *)

LEMMA PassKeeps == ASSUME IInv, Pass PROVE Lawful
<1>1. Sound(w, twice, Marked) /\ w \in Worlds
  BY Now
<1>2. Sound(Listed(w), twice, Marked) /\ Listed(w).group = w.group
  BY <1>1, ListedSound, ListedIs DEF Sound, SameBodies
<1>3. Same
  BY DEF Pass, Quiet
<1>4. CASE Command(w)
  BY <1>1, <1>3, <1>4, SameNow, QuietKeeps
<1>5. CASE Command(Listed(w))
  <2> DEFINE x == Listed(w)
  <2>1. Sound(x, twice, Marked) /\ x.group = w.group /\ Command(x)
    BY <1>2, <1>5
  <2> HIDE DEF x
  <2> QED BY <1>3, <2>1, SameNow, QuietKeeps
<1> QED BY <1>4, <1>5 DEF Pass

LEMMA AcceptSurrenderKeeps ==
  ASSUME IInv, NEW c \in Captors, NEW k \in Nat, NEW g \in Refs, AcceptSurrender(c, k, g)
  PROVE  Lawful
<1> DEFINE x == Surrender(w, c, k, g)
<1>1. Sound(x, twice, Marked) /\ Within(w, x)
  BY Now, SurrenderSound
<1>2. Command(x) /\ Same
  BY DEF AcceptSurrender
<1> HIDE DEF x
<1> QED BY <1>1, <1>2, QuietKeeps

LEMMA SiegeOfferKeeps ==
  ASSUME IInv, NEW c \in Captors, SiegeOffer(c) PROVE Lawful
<1> DEFINE x == [w EXCEPT !.siege = [to |-> c, n |-> w.foe.n],
                          !.foe.to = c, !.foe.offered = w.foe.n]
<1>1. Sound(x, twice, Marked)
  BY Now, SiegeOfferSound
<1>3. x.group = w.group
  BY Now DEF Worlds
<1>2. Command(x) /\ Same
  BY DEF SiegeOffer
<1> HIDE DEF x
<1> QED BY <1>1, <1>2, <1>3, SameNow, QuietKeeps

LEMMA SiegeAcceptKeeps ==
  ASSUME IInv, NEW i \in Surrenders, NEW parole \in BOOLEAN, SiegeAccept(i, parole)
  PROVE  Lawful
<1> DEFINE g == <<i, w.siege.to>>
           v == [w EXCEPT !.siege = None]
           x == Surrender(v, w.siege.to, w.siege.n, g)
           y == IF parole /\ x.ok THEN FreeBodies(x, g) ELSE x
<1>1. Command(y) /\ Same
  BY DEF SiegeAccept
<1>2. w.siege \in Offers
  BY Now, WorldFields DEF SiegeAccept
<1>3. w.siege.to \in Captors /\ w.siege.n \in Nat
  BY <1>2 DEF Offers
<1>4. g \in Refs
  BY <1>3 DEF Refs
<1>5. Sound(v, twice, Marked) /\ v.group = w.group
  BY Now, SiegeDropSound DEF Worlds
<1> HIDE DEF g, v
<1>6. Sound(x, twice, Marked) /\ (x.ok => x.group[g] # None) /\ Within(v, x)
  <2> DEFINE c == w.siege.to
             k == w.siege.n
  <2>1. c \in Captors /\ k \in Nat /\ x = Surrender(v, c, k, g)
    BY <1>3
  <2> HIDE DEF c, k, x
  <2> QED BY <1>4, <1>5, <2>1, SurrenderSound
<1> HIDE DEF x
<1>7. Within(w, x)
  BY <1>5, <1>6 DEF Within
<1>8. Sound(y, twice, Marked) /\ Within(w, y)
  <2>1. CASE parole /\ x.ok
    <3> DEFINE u == FreeBodies(x, g)
    <3>1. Sound(u, twice, Marked) /\ Lighter(x.group, u.group) /\ u.unit = x.unit
      BY <1>4, <1>6, <2>1, FreeBodiesSound
    <3>2. y = u
      BY <2>1
    <3> HIDE DEF u, y
    <3>3. w \in Worlds /\ x \in Worlds /\ u \in Worlds
      BY <1>6, <3>1, Now DEF Sound
    <3>4. Within(w, u)
      BY <1>7, <3>1, <3>3, WithinLighter
    <3> QED BY <3>1, <3>2, <3>4
  <2>2. CASE ~(parole /\ x.ok)
    BY <1>6, <1>7, <2>2
  <2> QED BY <2>1, <2>2
<1> HIDE DEF y
<1> QED BY <1>1, <1>8, QuietKeeps

LEMMA BattleKeeps ==
  ASSUME IInv, NEW b \in Battles, NEW c \in Captors, NEW lost \in 0..1, NEW own \in 0..1,
         NEW captured \in SUBSET Persons, NEW offered \in 0..Garrison,
         Battle(b, c, lost, own, captured, offered)
  PROVE  Lawful
<1> DEFINE fought == Battled(w, b, c, lost, own, captured, offered)
           g == <<b, c>>
           T == twice \cup {p \in captured : Captive(w, p)}
           E == executed
           X == T \cup E
           y == Captures(fought, captured, c, g)
<1>1. /\ Commit(y) /\ Stands(w, c) /\ lost <= w.foe.n /\ own <= w.unit[c].n
      /\ twice' = T /\ executed' = E
  BY DEF Battle, Battled
<1>2. twice \in SUBSET Persons /\ executed \in SUBSET Persons
  BY DEF IInv
<1>3. /\ T \in SUBSET Persons /\ E \in SUBSET Persons /\ twice \subseteq T
      /\ Marked \subseteq X
      /\ \A p \in captured : p \in T \/ w.ptr[p] = None
  BY <1>2 DEF Marked, Captive
<1>4. g \in Refs
  BY DEF Refs
<1> HIDE DEF T, g
<1>5. Sound(w, T, X)
  <2> HIDE DEF X
  <2> QED BY <1>3, Now, WiderSound
<1>6. Sound(fought, T, X) /\ fought.ptr = w.ptr /\ Stands(fought, c) /\ fought.group = w.group
  <2>1. lost \in Nat /\ own \in Nat /\ offered \in Nat
    BY CustodyAssumption
  <2> HIDE DEF X
  <2> QED BY <1>1, <1>5, <2>1, BattledSound
<1> HIDE DEF fought
<1>7. Sound(y, T, X) /\ Within(fought, y)
  <2>1. \A p \in captured : p \in T \/ fought.ptr[p] \in {None, g}
    BY <1>3, <1>6
  <2> HIDE DEF X
  <2> QED BY <1>4, <1>6, <2>1, CapturesSound
<1> HIDE DEF y, E
<1>8. Within(w, y)
  BY <1>6, <1>7 DEF Within
<1> QED BY <1>1, <1>3, <1>7, <1>8, CommitKeeps

LEMMA DetainKeeps ==
  ASSUME IInv, NEW k \in Cases, NEW c \in Captors, NEW p \in Persons, Detain(k, c, p)
  PROVE  Lawful
<1> DEFINE g == <<k, c>>
           T == IF w.ptr[p] \in {None, g} THEN twice ELSE twice \cup {p}
           E == executed
           X == T \cup E
           y == Capture(w, p, c, g, FALSE)
<1>1. Command(y) /\ Stands(w, c) /\ twice' = T /\ executed' = E
  BY DEF Detain
<1>2. twice \in SUBSET Persons /\ executed \in SUBSET Persons
  BY DEF IInv
<1>3. /\ T \in SUBSET Persons /\ E \in SUBSET Persons /\ twice \subseteq T
      /\ Marked \subseteq X
      /\ p \in T \/ w.ptr[p] \in {None, g}
  BY <1>2 DEF Marked
<1>4. g \in Refs
  BY DEF Refs
<1> HIDE DEF T, g
<1>5. Sound(w, T, X)
  <2> HIDE DEF X
  <2> QED BY <1>3, Now, WiderSound
<1>6. Sound(y, T, X) /\ Within(w, y)
  <2>1. FALSE \in BOOLEAN
    OBVIOUS
  <2> HIDE DEF X
  <2> QED BY <1>1, <1>3, <1>4, <1>5, <2>1, CaptureSound
<1> HIDE DEF y, E
<1> QED BY <1>1, <1>3, <1>6, CommandKeeps

LEMMA WroteSound ==
  ASSUME NEW T, NEW X, NEW x, Sound(x, T, X), NEW g \in Refs
  PROVE  Sound(Wrote(x, g), T, X)
<1>1. x \in Worlds /\ Routed(x.group, x.host)
  BY DEF Sound
<1> QED BY <1>1, WroteIs, AlikeSound

\* A command that ends with the group's document written.
LEMMA WrittenKeeps ==
  ASSUME IInv, NEW x, Sound(x, twice, Marked), Within(w, x), NEW g \in Refs, Command(Wrote(x, g)), Same
  PROVE  Lawful
<1> DEFINE y == Wrote(x, g)
<1>1. Sound(y, twice, Marked) /\ Command(y)
  BY WroteSound
<1>2. Within(w, y)
  <2>1. y.group = x.group /\ y.unit = x.unit
    BY WroteIs DEF Sound, SameBodies, SameElse
  <2> HIDE DEF y
  <2> QED BY <2>1, WithinAlike
<1> HIDE DEF y
<1> QED BY <1>1, <1>2, QuietKeeps

LEMMA CourtReleaseKeeps ==
  ASSUME IInv, NEW g \in Refs, NEW p \in Persons, CourtRelease(g, p) PROVE Lawful
<1> DEFINE x == [w EXCEPT !.group[g].named = @ \ {p}, !.ptr[p] = None]
<1>1. w.group[g] # None /\ p \in w.group[g].named /\ Command(Wrote(x, g)) /\ Same
  BY DEF CourtRelease, Exists, Quiet
<1>2. Sound(x, twice, Marked) /\ Lighter(w.group, x.group)
  BY <1>1, Now, CourtReleaseSound
<1> HIDE DEF x
<1> QED BY <1>1, <1>2, LightNow, WrittenKeeps

LEMMA ExecuteKeeps ==
  ASSUME IInv, NEW g \in Refs, NEW p \in Persons, NEW sentence \in BOOLEAN,
         Execute(g, p, sentence)
  PROVE  Lawful
<1> DEFINE v == Beheaded(w, g, p)
           x == Wrote(v, g)
           y == IF sentence THEN x ELSE Closed(x, g)
           T == twice
           E == executed \cup {p}
           X == Marked \cup {p}
<1>1. /\ w.group[g] # None /\ p \in w.group[g].named /\ Command(y)
      /\ twice' = T /\ executed' = E
  BY DEF Execute, Exists, Beheaded
<1>2. /\ T \in SUBSET Persons /\ E \in SUBSET Persons /\ twice \subseteq T /\ X = T \cup E
  BY DEF IInv, Marked
<1>3. Sound(v, T, X) /\ v.group[g] # None /\ Lighter(w.group, v.group)
  <2>1. Sound(w, twice, Marked)
    BY Now
  <2> DEFINE Y == Marked
  <2>2. Sound(w, twice, Y)
    BY <2>1
  <2> HIDE DEF Y
  <2>3. w.group[g] # None /\ p \in w.group[g].named
    BY <1>1
  <2>4. Sound(v, twice, Y \cup {p}) /\ v.group[g] # None /\ Lighter(w.group, v.group)
    BY <2>2, <2>3, ExecuteSound
  <2> QED BY <2>4 DEF Y
<1> HIDE DEF v, X, T, E
<1>4. Sound(x, T, X) /\ x.group[g] # None /\ x.group = v.group
  <2>1. v \in Worlds
    BY <1>3 DEF Sound
  <2> QED BY <1>3, <2>1, WroteSound, WroteIs DEF SameBodies
<1> HIDE DEF x
<1>5. Sound(y, T, X) /\ Within(w, y)
  <2>1. Lighter(w.group, x.group)
    BY <1>3, <1>4
  <2>2. CASE sentence
    BY <1>4, <2>1, <2>2, LightNow
  <2>3. CASE ~sentence
    <3> DEFINE u == Closed(x, g)
    <3>1. Sound(u, T, X) /\ Lighter(x.group, u.group) /\ y = u
      BY <1>4, <2>3, ClosedSound
    <3> HIDE DEF u, y
    <3>2. w \in Worlds /\ x \in Worlds /\ u \in Worlds
      BY <1>4, <3>1, Now DEF Sound
    <3>3. Lighter(w.group, u.group)
      BY <2>1, <3>1, <3>2, LighterTwice
    <3> QED BY <3>1, <3>3, LightNow
  <2> QED BY <2>2, <2>3
<1> HIDE DEF y
<1>6. Sound(y, T, T \cup E) /\ Within(w, y)
  BY <1>2, <1>5
<1> QED BY <1>1, <1>2, <1>6, CommandKeeps

LEMMA ExecuteBodiesKeeps ==
  ASSUME IInv, NEW g \in Refs, NEW k, ExecuteBodies(g, k) PROVE Lawful
<1> DEFINE v == Kill(w, g, k)
           x == Closed(v, g)
<1>1. w.group[g] # None /\ k \in 1..w.group[g].n /\ Command(Wrote(x, g)) /\ Same
  BY DEF ExecuteBodies, Exists
<1>2. Sound(v, twice, Marked) /\ v.group[g] # None /\ Lighter(w.group, v.group)
  BY <1>1, Now, KillSound
<1> HIDE DEF v
<1>3. Sound(x, twice, Marked) /\ Lighter(v.group, x.group)
  BY <1>2, ClosedSound
<1> HIDE DEF x
<1>4. Lighter(w.group, x.group)
  <2>1. w \in Worlds /\ v \in Worlds /\ x \in Worlds
    BY <1>2, <1>3, Now DEF Sound
  <2> QED BY <1>2, <1>3, <2>1, LighterTwice
<1> QED BY <1>1, <1>3, <1>4, LightNow, WrittenKeeps

LEMMA DieKeeps == ASSUME IInv, NEW p \in Persons, Die(p) PROVE Lawful
<1> DEFINE x == [w EXCEPT !.alive[p] = FALSE]
<1>1. Sound(x, twice, Marked) /\ Commit(x) /\ Same
  BY Now, DieSound DEF Die
<1>2. x.group = w.group
  BY Now DEF Worlds
<1> HIDE DEF x
<1> QED BY <1>1, <1>2, SameNow, QuietKeeps

LEMMA TravelKeeps ==
  ASSUME IInv, NEW p \in Persons, NEW l \in Places, Travel(p, l) PROVE Lawful
<1> DEFINE x == [w EXCEPT !.at[p] = l]
<1>1. Sound(x, twice, Marked) /\ Commit(x) /\ Same
  BY Now, TravelSound DEF Travel
<1>2. x.group = w.group
  BY Now DEF Worlds
<1> HIDE DEF x
<1> QED BY <1>1, <1>2, SameNow, QuietKeeps

LEMMA ReleaseKeeps == ASSUME IInv, NEW g \in Refs, Release(g) PROVE Lawful
<1> DEFINE x == Free(w, g)
<1>1. w.group[g] # None /\ Command(Wrote(x, g)) /\ Same
  BY DEF Release, Exists, Quiet
<1>2. Sound(x, twice, Marked) /\ Lighter(w.group, x.group)
  BY <1>1, Now, FreeSound
<1> HIDE DEF x
<1> QED BY <1>1, <1>2, LightNow, WrittenKeeps

LEMMA SetRansomKeeps == ASSUME IInv, NEW g \in Refs, SetRansom(g) PROVE Lawful
<1> DEFINE x == [w EXCEPT !.group[g].ransom = TRUE]
<1>1. w.group[g] # None /\ Command(Wrote(x, g)) /\ Same
  BY DEF SetRansom, Exists
<1>2. Sound(x, twice, Marked) /\ Lighter(w.group, x.group)
  BY <1>1, Now, RansomSound
<1> HIDE DEF x
<1> QED BY <1>1, <1>2, LightNow, WrittenKeeps

LEMMA AcceptRansomKeeps == ASSUME IInv, NEW g \in Refs, AcceptRansom(g) PROVE Lawful
<1> DEFINE v == [w EXCEPT !.group[g].ransom = FALSE]
           x == Free(v, g)
<1>1. w.group[g] # None /\ Command(Wrote(x, g)) /\ Same
  BY DEF AcceptRansom, Exists, Quiet
<1>2. Sound(v, twice, Marked) /\ v.group[g] # None /\ Lighter(w.group, v.group)
  <2>1. ASSUME NEW b \in BOOLEAN, NEW y, y = [w EXCEPT !.group[g].ransom = b]
        PROVE  Sound(y, twice, Marked) /\ y.group[g] # None /\ Lighter(w.group, y.group)
    BY <1>1, <2>1, Now, RansomSound
  <2> QED BY <2>1
<1> HIDE DEF v
<1>3. Sound(x, twice, Marked) /\ Lighter(v.group, x.group)
  BY <1>2, FreeSound
<1> HIDE DEF x
<1>4. Lighter(w.group, x.group)
  <2>1. w \in Worlds /\ v \in Worlds /\ x \in Worlds
    BY <1>2, <1>3, Now DEF Sound
  <2> QED BY <1>2, <1>3, <2>1, LighterTwice
<1> QED BY <1>1, <1>3, <1>4, LightNow, WrittenKeeps

LEMMA ProposeExchangeKeeps ==
  ASSUME IInv, NEW g \in Refs, NEW h \in Refs, ProposeExchange(g, h) PROVE Lawful
<1> DEFINE x == [w EXCEPT !.group[g].swap = h]
<1>1. w.group[g] # None /\ Command(Wrote(x, g)) /\ Same
  BY DEF ProposeExchange, Exists
<1>2. Sound(x, twice, Marked) /\ Lighter(w.group, x.group)
  BY <1>1, Now, SwapSound
<1> HIDE DEF x
<1> QED BY <1>1, <1>2, LightNow, WrittenKeeps

LEMMA AcceptExchangeKeeps ==
  ASSUME IInv, NEW g \in Refs, NEW h \in Refs, AcceptExchange(g, h) PROVE Lawful
<1> DEFINE v == [w EXCEPT !.group[g].swap = None]
           x == Free(v, g)
           y == Free(x, h)
           z == Wrote(y, g)
<1>1. w.group[g] # None /\ w.group[h] # None /\ g # h /\ Command(Wrote(z, h)) /\ Same
  BY DEF AcceptExchange, Exists, Quiet
<1>2. /\ Sound(v, twice, Marked) /\ v.group[g] # None /\ v.group[h] # None
      /\ Lighter(w.group, v.group)
  BY <1>1, Now, SwapSound
<1> HIDE DEF v
<1>3. Sound(x, twice, Marked) /\ x.group[h] # None /\ Lighter(v.group, x.group)
  BY <1>2, FreeSound
<1> HIDE DEF x
<1>4. Sound(y, twice, Marked) /\ Lighter(x.group, y.group)
  BY <1>3, FreeSound
<1> HIDE DEF y
<1>5. Sound(z, twice, Marked) /\ z.group = y.group
  <2>1. y \in Worlds
    BY <1>4 DEF Sound
  <2> QED BY <1>4, <2>1, WroteSound, WroteIs DEF SameBodies
<1> HIDE DEF z
<1>6. Lighter(w.group, z.group)
  <2>1. w \in Worlds /\ v \in Worlds /\ x \in Worlds /\ y \in Worlds
    BY <1>2, <1>3, <1>4, Now DEF Sound
  <2>2. Lighter(w.group, x.group)
    BY <1>2, <1>3, <2>1, LighterTwice
  <2>3. Lighter(w.group, y.group)
    BY <1>4, <2>1, <2>2, LighterTwice
  <2> QED BY <1>5, <2>3
<1> QED BY <1>1, <1>5, <1>6, LightNow, WrittenKeeps

LEMMA OfferServiceKeeps == ASSUME IInv, NEW g \in Refs, OfferService(g) PROVE Lawful
<1> DEFINE x == [w EXCEPT !.group[g].service = "offered"]
<1>1. w.group[g] # None /\ Command(Wrote(x, g)) /\ Same
  BY DEF OfferService, Exists
<1>2. Sound(x, twice, Marked) /\ Lighter(w.group, x.group)
  BY <1>1, Now, OfferSound
<1> HIDE DEF x
<1> QED BY <1>1, <1>2, LightNow, WrittenKeeps

LEMMA RecruitKeeps == ASSUME IInv, NEW g \in Refs, Recruit(g) PROVE Lawful
<1> DEFINE v == FreeBodies(w, g)
           k == w.group[g].n
           u == Enrol(v, k)
           x == [u EXCEPT !.group[g].slices = 0]
<1>1. w.group[g] # None /\ Command(Wrote(x, g)) /\ Same
  BY DEF Recruit, Exists, Quiet
<1>2. Sound(v, twice, Marked) /\ Lighter(w.group, v.group)
  BY <1>1, Now, FreeBodiesSound
<1>3. v.group[g] # None /\ k \in Int
  <2>1. w \in Worlds /\ w.lent[g] \in Nat /\ k \in Int
    BY <1>1, Now, LentNat, GroupFields
  <2>2. v.group[g] \in Groups
    BY <1>1, <2>1, FreeBodiesIs
  <2> QED BY <2>1, <2>2, NoneIsNone
<1> HIDE DEF v, k
<1>4. Sound(u, twice, Marked) /\ u.group = v.group
  BY <1>2, <1>3, EnrolSound
<1> HIDE DEF u
<1>5. Sound(x, twice, Marked) /\ Lighter(u.group, x.group)
  BY <1>3, <1>4, SlicesSound
<1> HIDE DEF x
<1>6. Lighter(w.group, x.group)
  <2>1. w \in Worlds /\ u \in Worlds /\ x \in Worlds
    BY <1>4, <1>5, Now DEF Sound
  <2> QED BY <1>2, <1>4, <1>5, <2>1, LighterTwice
<1> QED BY <1>1, <1>5, <1>6, LightNow, WrittenKeeps

\* What the other groups leave is the same where they are the same.
LEMMA OthersCapacity ==
  ASSUME NEW x, NEW y, NEW c, NEW l, NEW g \in Refs, y.unit = x.unit,
         \A h \in Refs \ {g} : y.group[h] = x.group[h]
  PROVE  Capacity(y, c, l, g) = Capacity(x, c, l, g)
<1>1. \A h \in Refs \ {g} : /\ People(y, h) = People(x, h) /\ Active(y, h) = Active(x, h)
                            /\ y.group[h] = x.group[h]
  BY DEF People, Active, Exists
<1> DEFINE D == {h \in Actives(x) : h # g}
           E == {h \in Actives(y) : h # g}
<1>2. D = E /\ \A h \in D : h \in Refs \ {g}
  BY <1>1 DEF Actives
<1> HIDE DEF D, E
<1>3. ASSUME NEW Q, Q \subseteq D PROVE Total(y, Q) = Total(x, Q)
  <2>1. [h \in Q |-> People(y, h)] = [h \in Q |-> People(x, h)]
    BY <1>1, <1>2, <1>3
  <2> QED BY <2>1 DEF Total
<1> DEFINE A == {h \in D : x.group[h].cust = c}
           B == {h \in D : x.group[h].at = l}
<1>4. /\ {h \in E : y.group[h].cust = c} = A /\ {h \in E : y.group[h].at = l} = B
      /\ A \subseteq D /\ B \subseteq D
  BY <1>1, <1>2
<1>5. Capacity(x, c, l, g) = AtMost(Minus(Ratio * x.unit[c].n, Total(x, A)),
                                   Minus(Room[l], Total(x, B)))
  BY DEF Capacity, D
<1>6. Capacity(y, c, l, g) = AtMost(Minus(Ratio * y.unit[c].n, Total(y, A)),
                                   Minus(Room[l], Total(y, B)))
  BY <1>4 DEF Capacity, E
<1> HIDE DEF A, B
<1>7. Total(y, A) = Total(x, A) /\ Total(y, B) = Total(x, B)
  BY <1>3, <1>4
<1> QED BY <1>5, <1>6, <1>7

LEMMA TransferCustodianKeeps ==
  ASSUME IInv, NEW g \in Refs, NEW c \in Captors, TransferCustodian(g, c) PROVE Lawful
<1> DEFINE x == [w EXCEPT !.group[g].cust = c]
<1>1. w.group[g] # None /\ Command(Wrote(x, g)) /\ Same
  BY DEF TransferCustodian, Exists, Quiet
<1>2. /\ Sound(x, twice, Marked) /\ x.unit = w.unit /\ x.group[g] # None
      /\ x.group[g].cust = c /\ x.group[g].at = w.group[g].at
      /\ x.group[g].n = w.group[g].n /\ x.group[g].named = w.group[g].named
      /\ \A h \in Refs \ {g} : x.group[h] = w.group[h]
  BY <1>1, Now, CustodianSound
<1> HIDE DEF x
<1>3. Fits(x, g)
  <2>1. Stands(x, c)
    BY <1>2 DEF TransferCustodian, Stands
  <2>2. People(x, g) = People(w, g)
    BY <1>1, <1>2 DEF People, Exists
  <2>3. Capacity(x, c, w.group[g].at, g) = Capacity(w, c, w.group[g].at, g)
    BY <1>2, OthersCapacity
  <2> QED BY <1>2, <2>1, <2>2, <2>3 DEF Fits, TransferCustodian
<1>4. Within(w, x)
  <2>1. w \in Worlds /\ x \in Worlds
    BY <1>2, Now DEF Sound
  <2> QED BY <1>2, <1>3, <2>1, FitsWithin
<1> QED BY <1>1, <1>2, <1>4, WrittenKeeps

LEMMA MoveKeeps ==
  ASSUME IInv, NEW c \in Captors, NEW l \in Places, NEW army \in BOOLEAN, Move(c, l, army)
  PROVE  Lawful
<1>1. Stands(w, c) /\ Same
  BY DEF Move
<1>2. PICK x \in Hours(w) :
        LET moved == [x EXCEPT !.unit[c].at = l]
            groups == {g \in Refs : army \/ (Exists(x, g) /\ x.group[g].cust = c)}
        IN \E order \in SetToSeqs(Following(moved, groups)) : Commit(Synced(moved, order))
  BY DEF Move
<1> DEFINE moved == [x EXCEPT !.unit[c].at = l]
           groups == {g \in Refs : army \/ (Exists(x, g) /\ x.group[g].cust = c)}
<1>3. PICK order \in SetToSeqs(Following(moved, groups)) : Commit(Synced(moved, order))
  BY <1>2
<1>4. Sound(x, twice, Marked) /\ Lighter(w.group, x.group) /\ x.unit = w.unit
  BY Now, HoursSound
<1>5. Stands(x, c)
  BY <1>1, <1>4 DEF Stands
<1>6. Sound(moved, twice, Marked) /\ moved.group = x.group
  <2>1. x \in Worlds
    BY <1>4 DEF Sound
  <2> QED BY <1>4, <1>5, <2>1, UnitAtSound DEF Worlds
<1>7. groups \in SUBSET Refs
  OBVIOUS
<1> HIDE DEF moved, groups
<1> DEFINE y == Synced(moved, order)
<1>8. Sound(y, twice, Marked) /\ Within(moved, y) /\ y.unit = moved.unit
  BY <1>6, <1>7, SyncedSound
<1> HIDE DEF y
<1>10. Within(w, y)
  <2>1. Within(w, moved)
    BY <1>4, <1>6, LightNow
  <2>2. w \in Worlds /\ moved \in Worlds /\ y \in Worlds
    BY <1>6, <1>8, Now DEF Sound
  <2> QED BY <1>8, <2>1, <2>2, WithinTwice
<1>9. Commit(y)
  BY <1>3 DEF y
<1> QED BY <1>1, <1>8, <1>9, <1>10, QuietKeeps

LEMMA MarchKeeps ==
  ASSUME IInv, NEW c \in Captors, NEW l \in Places, March(c, l) PROVE Lawful
<1> DEFINE x == [w EXCEPT !.unit[c].at = l]
<1>1. Sound(x, twice, Marked) /\ Commit(x) /\ Same
  BY Now, UnitAtSound DEF March
<1>2. x.group = w.group
  BY Now DEF Worlds
<1> HIDE DEF x
<1> QED BY <1>1, <1>2, SameNow, QuietKeeps

LEMMA EnemyMarchKeeps == ASSUME IInv, NEW l \in Places, EnemyMarch(l) PROVE Lawful
<1> DEFINE x == Marched(w, l)
<1>1. Sound(x, twice, Marked)
  BY Now, EnemyMarchSound
<1>2. Commit(x) /\ Same
  BY DEF EnemyMarch, Marched
<1>3. x.group = w.group
  BY Now DEF Worlds, Marched
<1> HIDE DEF x
<1> QED BY <1>1, <1>2, <1>3, SameNow, QuietKeeps

LEMMA DissolveKeeps == ASSUME IInv, NEW c \in Captors, Dissolve(c) PROVE Lawful
<1> DEFINE x == [w EXCEPT !.unit[c] = None, !.free["captor"] = @ + w.unit[c].n]
<1>1. Sound(x, twice, Marked)
  BY Now, DissolveSound DEF Dissolve
<1>2. Command(x) /\ Same
  BY DEF Dissolve
<1>3. x.group = w.group
  BY Now DEF Worlds
<1> HIDE DEF x
<1> QED BY <1>1, <1>2, <1>3, SameNow, QuietKeeps

-----------------------------------------------------------------------------
(* The theorems. *)

LEMMA TakeKeeps == ASSUME IInv, Fight \/ Take PROVE Lawful
<1>1. CASE Fight
  <2>1. PICK b \in Battles, c \in Captors, lost \in 0..1, own \in 0..1,
             captured \in SUBSET Persons, offered \in 0..Garrison :
          Battle(b, c, lost, own, captured, offered)
    BY <1>1 DEF Fight
  <2> QED BY <2>1, BattleKeeps
<1>2. CASE \E c \in Captors, k \in 1..w.foe.offered, i \in Surrenders :
             AcceptSurrender(c, k, <<i, c>>)
  <2>1. PICK c \in Captors, k \in 1..w.foe.offered, i \in Surrenders :
          AcceptSurrender(c, k, <<i, c>>)
    BY <1>2
  <2>2. w.foe.offered \in Nat
    BY Now, HalvesOf
  <2>3. k \in Nat /\ <<i, c>> \in Refs
    BY <2>2 DEF Refs
  <2> QED BY <2>1, <2>3, AcceptSurrenderKeeps
<1>3. CASE \E c \in Captors : SiegeOffer(c)
  BY <1>3, SiegeOfferKeeps
<1>4. CASE \E i \in Surrenders, parole \in BOOLEAN : SiegeAccept(i, parole)
  BY <1>4, SiegeAcceptKeeps
<1>5. CASE \E k \in Cases, c \in Captors, p \in Persons : Detain(k, c, p)
  BY <1>5, DetainKeeps
<1> QED BY <1>1, <1>2, <1>3, <1>4, <1>5 DEF Take

LEMMA SettleKeeps == ASSUME IInv, NEW g \in Refs, Settle(g) PROVE Lawful
<1>1. CASE \E p \in Persons : CourtRelease(g, p)
  BY <1>1, CourtReleaseKeeps
<1>2. CASE \E p \in Persons, sentence \in BOOLEAN : Execute(g, p, sentence)
  BY <1>2, ExecuteKeeps
<1>3. CASE \E k \in 1..Garrison : ExecuteBodies(g, k)
  BY <1>3, ExecuteBodiesKeeps
<1>4. CASE Release(g) \/ SetRansom(g) \/ AcceptRansom(g) \/ OfferService(g) \/ Recruit(g)
  BY <1>4, ReleaseKeeps, SetRansomKeeps, AcceptRansomKeeps, OfferServiceKeeps, RecruitKeeps
<1>5. CASE \E h \in Refs : ProposeExchange(g, h) \/ AcceptExchange(g, h)
  BY <1>5, ProposeExchangeKeeps, AcceptExchangeKeeps
<1>6. CASE \E c \in Captors : TransferCustodian(g, c)
  BY <1>6, TransferCustodianKeeps
<1> QED BY <1>1, <1>2, <1>3, <1>4, <1>5, <1>6 DEF Settle

LEMMA OtherKeeps == ASSUME IInv, Other PROVE Lawful
<1>1. CASE Pass
  BY <1>1, PassKeeps
<1>2. CASE \E p \in Persons : Die(p) \/ \E l \in Places : Travel(p, l)
  BY <1>2, DieKeeps, TravelKeeps
<1>3. CASE \E c \in Captors, l \in Places : March(c, l) \/ \E army \in BOOLEAN : Move(c, l, army)
  BY <1>3, MarchKeeps, MoveKeeps
<1>4. CASE \E l \in Places : EnemyMarch(l)
  BY <1>4, EnemyMarchKeeps
<1>5. CASE \E c \in Captors : Dissolve(c)
  BY <1>5, DissolveKeeps
<1> QED BY <1>1, <1>2, <1>3, <1>4, <1>5 DEF Other

LEMMA InitSound == Init => IInv
<1> SUFFICES ASSUME Init PROVE IInv
  OBVIOUS
<1>1. /\ w.group = [g \in Refs |-> None] /\ w.lent = [g \in Refs |-> 0] /\ w.host = {}
      /\ w.ptr = [p \in Persons |-> None] /\ w.free = [s \in Sides |-> 0]
      /\ w.foe = [n |-> Garrison, at |-> Start, to |-> None, offered |-> 0]
      /\ w.unit = [c \in Captors |-> [n |-> Strength[c], at |-> Start]]
      /\ w.head = [enemy |-> Garrison, captor |-> SumFunction(Strength)]
      /\ w.levy = w.head /\ w.dead = 0 /\ twice = {} /\ executed = {}
  BY DEF Init
<1> DEFINE m == SumFunction(Strength)
<1>2. m = SumFunctionOnSet(Strength, Captors) /\ m \in Int
  <2>1. DOMAIN Strength = Captors /\ IsFiniteSet(Captors) /\ \A c \in Captors : Strength[c] \in Int
    BY CustodyAssumption
  <2>2. SumFunctionOnSet(Strength, Captors) \in Int
    BY <2>1, SumInt
  <2> QED BY <2>1, <2>2 DEF SumFunction, SumFunctionOnSet, FoldFunction, FoldFunctionOnSet
<1> HIDE DEF m
<1>3. \A c \in Captors : w.unit[c] \in Units /\ w.unit[c].n = Strength[c]
  BY <1>1, CustodyAssumption DEF Units
<1>4. w \in Worlds
  <2>1. /\ w.unit \in [Captors -> Units \cup {None}]
        /\ w.head \in [Sides -> Int] /\ w.free \in [Sides -> Int]
        /\ w.foe \in [n : Nat, at : Places, to : Captors \cup {None}, offered : Nat]
    BY <1>1, <1>2, <1>3, CustodyAssumption DEF Sides, m
  <2>2. /\ w.group \in [Refs -> Groups \cup {None}] /\ w.lent \in [Refs -> Int]
        /\ w.ptr \in [Persons -> Refs \cup {None}]
    BY <1>1
  <2>3. [p \in Persons |-> Start] \in [Persons -> Places]
    BY CustodyAssumption
  <2> QED BY <1>1, <2>1, <2>2, <2>3 DEF Init, Worlds
<1>5. /\ Pointed(w.group, w.ptr, twice) /\ Known(w.group, w.ptr, twice \cup executed)
      /\ Routed(w.group, w.host) /\ Lent(w.group, w.lent) /\ Fine(w.group, w.at, twice)
  BY <1>1 DEF Pointed, Known, Routed, Live, Lent, Fine
<1>6. Balanced(w)
  <2>1. SumFunctionOnSet(w.lent, Refs) = 0
    BY <1>1, RefsFinite, SumZero
  <2>2. SumFunctionOnSet([c \in Captors |-> BodiesOf(w.unit[c])], Captors) = m
    <3> DEFINE a == [c \in Captors |-> BodiesOf(w.unit[c])]
    <3>1. \A c \in Captors : a[c] = Strength[c] /\ a[c] \in Int
      BY <1>3, NoneIsNone, CustodyAssumption DEF BodiesOf
    <3>2. IsFiniteSet(Captors)
      BY CustodyAssumption
    <3> HIDE DEF a
    <3>3. SumFunctionOnSet(a, Captors) = SumFunctionOnSet(Strength, Captors)
      BY <3>1, <3>2, SumSame
    <3> QED BY <1>2, <3>3 DEF a
  <2>3. /\ w.head["enemy"] = Garrison /\ w.head["captor"] = m
        /\ w.free["enemy"] = 0 /\ w.free["captor"] = 0 /\ w.foe.n = Garrison
        /\ Garrison \in Nat
    BY <1>1, CustodyAssumption DEF Sides, m
  <2> QED BY <1>1, <1>2, <2>1, <2>2, <2>3 DEF Balanced
<1> QED BY <1>1, <1>4, <1>5, <1>6 DEF IInv, Sound

LEMMA NextKeeps == ASSUME IInv, Next PROVE Lawful
BY TakeKeeps, SettleKeeps, OtherKeeps DEF Next

LEMMA SpecKeeps == Spec => []IInv
<1>1. IInv /\ [Next]_vars => IInv'
  <2> SUFFICES ASSUME IInv, [Next]_vars PROVE IInv'
    OBVIOUS
  <2>1. CASE Next
    BY <2>1, NextKeeps DEF Lawful
  <2>2. CASE UNCHANGED vars
    BY <2>2 DEF vars, IInv, Sound, Balanced, Fine, Pointed, Known, Routed, Lent, Live, Worlds
  <2> QED BY <2>1, <2>2
<1> QED BY InitSound, <1>1, PTL DEF Spec

\* CustodySound: for any captors, persons and budgets, the documents of a reachable state
\* are well formed, captives and groups name each other, the host routes every active
\* group, and the bodies are balanced (prisoner_system.py 136, 342, 589).
THEOREM CustodySound == Spec => []IInv
BY SpecKeeps

\* BodiesLentAreBodies: no prisoner is an invented body, and none is lost, whatever
\* surrenders, dies, is ransomed, exchanged or recruited (prisoner_system.py 3).
THEOREM BodiesLentAreBodies == Spec => []CaptivesConserved
<1>1. IInv => CaptivesConserved
  <2> SUFFICES ASSUME IInv PROVE CaptivesConserved
    OBVIOUS
  <2>1. w \in Worlds /\ Lent(w.group, w.lent) /\ Balanced(w)
    BY Now DEF Sound
  <2>2. SumFunction(w.lent) = SumFunctionOnSet(w.lent, Refs)
    <3>1. DOMAIN w.lent = Refs
      BY <2>1, WorldFields
    <3> QED BY <3>1, SumIsOnDomain
  <2> DEFINE u == [c \in Captors |-> IF Stands(w, c) THEN w.unit[c].n ELSE 0]
             v == [c \in Captors |-> BodiesOf(w.unit[c])]
  <2>3. SumFunction(u) = SumFunctionOnSet(v, Captors)
    <3>1. u = v /\ DOMAIN u = Captors
      BY DEF BodiesOf, Stands
    <3> HIDE DEF u, v
    <3> QED BY <3>1, SumIsOnDomain
  <2>4. SumFunction(Strength) = SumFunctionOnSet(Strength, Captors)
    <3>1. DOMAIN Strength = Captors
      BY CustodyAssumption
    <3> QED BY <3>1, SumIsOnDomain
  <2>5. \A g \in Refs : w.lent[g] = IF Exists(w, g) THEN w.group[g].n ELSE 0
    BY <2>1 DEF Lent, Exists
  <2>6. /\ w.head["enemy"] = w.free["enemy"] + w.foe.n + SumFunction(w.lent)
        /\ w.head["captor"] = w.free["captor"] + SumFunction(u)
        /\ w.levy = w.head
        /\ w.head["enemy"] + w.head["captor"] + w.dead = Garrison + SumFunction(Strength)
    BY <2>1, <2>2, <2>3, <2>4 DEF Balanced
  <2> QED BY <2>5, <2>6 DEF CaptivesConserved
<1> QED BY CustodySound, <1>1, PTL

\* NamedCustodyHolds: a captive's document and his group's agree, but for whom a court
\* or a battle took out of another group, or who was executed in custody
\* (startup_integrity.py 186-220).
THEOREM NamedCustodyHolds == Spec => []NamedCustodyExact
<1>1. IInv => NamedCustodyExact
  <2> SUFFICES ASSUME IInv PROVE NamedCustodyExact
    OBVIOUS
  <2>1. /\ w \in Worlds /\ Pointed(w.group, w.ptr, twice)
        /\ Known(w.group, w.ptr, twice \cup executed) /\ Fine(w.group, w.at, twice)
    BY DEF IInv, Sound
  <2>2. ASSUME NEW g \in Actives(w), NEW p \in Persons \ twice, p \in w.group[g].named
        PROVE  w.ptr[p] = g /\ w.at[p] = w.group[g].at
    <3>1. g \in Refs /\ w.group[g] # None
      BY DEF Actives, Active, Exists
    <3>2. p \in w.group[g].named \ twice
      BY <2>2
    <3> QED BY <2>1, <3>1, <3>2 DEF Pointed, Fine
  <2>3. ASSUME NEW p \in Persons \ (twice \cup executed), Captive(w, p)
        PROVE  Active(w, w.ptr[p])
    <3> DEFINE g == w.ptr[p]
    <3>1. g \in Refs
      BY <2>1, <2>3, WorldFields DEF Captive
    <3>2. w.group[g] # None /\ p \in w.group[g].named
      BY <2>1, <2>3 DEF Known, Captive
    <3> HIDE DEF g
    <3>3. w.group[g].held
      BY <2>1, <3>1, <3>2, GroupFields DEF Fine
    <3>4. w.group[g].n \in Nat /\ Cardinality(w.group[g].named) \in Nat
          /\ IsFiniteSet(w.group[g].named)
      BY <2>1, <3>1, <3>2, GroupFields
    <3>5. Cardinality(w.group[g].named) # 0
      BY <3>2, <3>4, FS_EmptySet
    <3>6. w.group[g].n + Cardinality(w.group[g].named) > 0
      BY <3>4, <3>5
    <3> QED BY <3>2, <3>3, <3>6 DEF Active, Exists, People, g
  <2> QED BY <2>2, <2>3 DEF NamedCustodyExact
<1> QED BY CustodySound, <1>1, PTL

\* NobodyIsForgotten: every active group is on the route of the daily review, and what the
\* review writes of it can be committed (prisoner_system.py 136).
THEOREM NobodyIsForgotten == Spec => []HeldAreReviewed
<1>1. IInv => HeldAreReviewed
  <2> SUFFICES ASSUME IInv, NEW g \in Actives(w)
               PROVE  g \in w.host /\ (w.group[g].named \cap twice = {} => ValidGroup(w, g))
    BY DEF HeldAreReviewed
  <2>1. /\ Pointed(w.group, w.ptr, twice) /\ Routed(w.group, w.host)
        /\ Fine(w.group, w.at, twice)
    BY DEF IInv, Sound
  <2>2. g \in Refs /\ w.group[g] # None
    BY DEF Actives, Active, Exists
  <2>3. g \in w.host
    BY <2>1, LiveIsActives DEF Routed
  <2>4. ASSUME w.group[g].named \cap twice = {} PROVE ValidGroup(w, g)
    <3>1. \A p \in w.group[g].named : p \in w.group[g].named \ twice
      BY <2>4
    <3> QED BY <2>1, <2>2, <3>1 DEF ValidGroup, Pointed, Fine
  <2> QED BY <2>3, <2>4
<1> QED BY CustodySound, <1>1, PTL
\* CapacityIsShared: no step lets a custodian guard more, or a place hold more, and be over
\* what its bodies and the room allow: not a surrender, a capture, a transfer or a move of
\* several groups one after the other (prisoner_system.py 333, 342).
THEOREM CapacityIsShared == Spec => CapacityShared
<1> DEFINE Step == /\ \A c \in Captors :
                        GuardedBy(w', c) > GuardedBy(w, c) =>
                           Stands(w', c) /\ GuardedBy(w', c) <= Ratio * w'.unit[c].n
                   /\ \A l \in Places : HeldAt(w', l) > HeldAt(w, l) => HeldAt(w', l) <= Room[l]
<1>1. IInv /\ [Next]_vars => [Step]_vars
  <2>1. ASSUME IInv, Next PROVE Step
    BY <2>1, NextKeeps DEF Lawful, Respects
  <2> QED BY <2>1
<1>2. Spec => [][Step]_vars
  BY CustodySound, <1>1, PTL DEF Spec
<1> QED BY <1>2 DEF CapacityShared

=============================================================================
