------------------------ MODULE CampaignGatewayProofs ------------------------
(***************************************************************************)
(* Proofs about CampaignGateway for every number of processes, threads and *)
(* commands: the nested lease, what reads show, and what the checks before *)
(* a commit establish although other calls run between any two of them.    *)
(***************************************************************************)
EXTENDS CampaignGateway, TLAPS

Instructions == {"in", "out", "read", "ready", "plan", "bless", "attest", "lookup",
                 "verify", "commit"}

Programs == Seq(Instructions)

Uses(s) == {s[k] : k \in 1 .. Len(s)}

(***************************************************************************)
(* How programs are put together.                                          *)
(***************************************************************************)

\* The depth n before each instruction of s and behind the last one.
Nested(s, n) ==
    /\ n \in [1 .. Len(s) + 1 -> Nat] /\ n[1] = 0 /\ n[Len(s) + 1] = 0
    /\ \A k \in 1 .. Len(s) :
          n[k + 1] = CASE s[k] = "in" -> n[k] + 1
                       [] s[k] = "out" -> n[k] - 1
                       [] OTHER -> n[k]

\* Instructions that touch the campaign or the planner's cache.
Guarded == {"read", "plan", "commit"}

\* The sections of s are balanced; and what needs the lock is in one of them.
Balanced(s) == \E n : Nested(s, n)
Covered(s)  == \E n : Nested(s, n) /\ \A k \in 1 .. Len(s) : s[k] \in Guarded => n[k] > 0

LEMMA ConcatParts ==
  ASSUME NEW s \in Programs, NEW t \in Programs
  PROVE  /\ s \o t \in Programs /\ Len(s \o t) = Len(s) + Len(t)
         /\ \A k \in 1 .. Len(s) : (s \o t)[k] = s[k]
         /\ \A k \in Len(s) + 1 .. Len(s) + Len(t) :
               k - Len(s) \in 1 .. Len(t) /\ (s \o t)[k] = t[k - Len(s)]
         /\ Uses(s \o t) = Uses(s) \union Uses(t)
<1>1. /\ s \o t \in Programs /\ Len(s \o t) = Len(s) + Len(t)
      /\ \A k \in 1 .. Len(s) : (s \o t)[k] = s[k]
      /\ \A k \in Len(s) + 1 .. Len(s) + Len(t) :
            k - Len(s) \in 1 .. Len(t) /\ (s \o t)[k] = t[k - Len(s)]
  BY DEF Programs
<1>2. Len(s) \in Nat /\ Len(t) \in Nat
  BY DEF Programs
<1>3. \A k \in 1 .. Len(t) : /\ Len(s) + k \in Len(s) + 1 .. Len(s) + Len(t)
                             /\ (Len(s) + k) - Len(s) = k
  BY <1>2
<1>4. Uses(s \o t) \subseteq Uses(s) \union Uses(t)
  <2> SUFFICES ASSUME NEW k \in 1 .. Len(s \o t) PROVE (s \o t)[k] \in Uses(s) \union Uses(t)
    BY DEF Uses
  <2>1. CASE k \in 1 .. Len(s)
    BY <1>1, <2>1 DEF Uses
  <2>2. CASE k \in Len(s) + 1 .. Len(s) + Len(t)
    BY <1>1, <2>2 DEF Uses
  <2> QED BY <1>1, <1>2, <2>1, <2>2
<1>5. Uses(s) \subseteq Uses(s \o t)
  <2>1. \A k \in 1 .. Len(s) : k \in 1 .. Len(s \o t)
    BY <1>1, <1>2
  <2> QED BY <1>1, <2>1 DEF Uses
<1>6. Uses(t) \subseteq Uses(s \o t)
  <2> SUFFICES ASSUME NEW k \in 1 .. Len(t) PROVE t[k] \in Uses(s \o t)
    BY DEF Uses
  <2>1. Len(s) + k \in 1 .. Len(s \o t) /\ (s \o t)[Len(s) + k] = t[k]
    BY <1>1, <1>2, <1>3
  <2> QED BY <2>1 DEF Uses
<1> QED BY <1>1, <1>4, <1>5, <1>6

LEMMA SectionParts ==
  ASSUME NEW b \in Programs
  PROVE  /\ Section(b) \in Programs /\ Len(Section(b)) = Len(b) + 2
         /\ Section(b)[1] = "in" /\ Section(b)[Len(b) + 2] = "out"
         /\ \A k \in 2 .. Len(b) + 1 : k - 1 \in 1 .. Len(b) /\ Section(b)[k] = b[k - 1]
         /\ Uses(Section(b)) = {"in", "out"} \union Uses(b)
<1>1. <<"in">> \in Programs /\ <<"out">> \in Programs
  BY DEF Programs, Instructions
<1>2. Uses(<<"in">>) = {"in"} /\ Uses(<<"out">>) = {"out"}
  BY DEF Uses
<1>3. <<"in">> \o b \in Programs /\ Uses(<<"in">> \o b) = {"in"} \union Uses(b)
  BY <1>1, <1>2, ConcatParts
<1>4. Section(b) \in Programs /\ Uses(Section(b)) = {"in", "out"} \union Uses(b)
  BY <1>1, <1>2, <1>3, ConcatParts DEF Section
<1>5. /\ Len(Section(b)) = Len(b) + 2
      /\ Section(b)[1] = "in" /\ Section(b)[Len(b) + 2] = "out"
      /\ \A k \in 2 .. Len(b) + 1 : k - 1 \in 1 .. Len(b) /\ Section(b)[k] = b[k - 1]
  BY DEF Section, Programs
<1> QED BY <1>4, <1>5

\* Instructions that do not lock are balanced; they are covered if none of them needs to be.
LEMMA PlainBalanced ==
  ASSUME NEW s \in Programs, Uses(s) \intersect {"in", "out"} = {}
  PROVE  Balanced(s) /\ (Uses(s) \intersect Guarded = {} => Covered(s))
<1> DEFINE n == [k \in 1 .. Len(s) + 1 |-> 0]
<1>1. Len(s) \in Nat
  BY DEF Programs
<1>2. Nested(s, n)
  BY <1>1 DEF Nested, Uses
<1> QED BY <1>2 DEF Balanced, Covered, Uses

LEMMA ConcatNested ==
  ASSUME NEW s \in Programs, NEW t \in Programs, NEW m, NEW n, Nested(s, m), Nested(t, n)
  PROVE  LET d == [k \in 1 .. Len(s) + Len(t) + 1 |->
                      IF k <= Len(s) THEN m[k] ELSE n[k - Len(s)]]
         IN  Nested(s \o t, d)
<1> DEFINE u == s \o t
           d == [k \in 1 .. Len(s) + Len(t) + 1 |-> IF k <= Len(s) THEN m[k] ELSE n[k - Len(s)]]
<1>1. Len(s) \in Nat /\ Len(t) \in Nat /\ Len(u) = Len(s) + Len(t)
  BY ConcatParts DEF Programs
<1>2. d \in [1 .. Len(u) + 1 -> Nat] /\ d[1] = 0 /\ d[Len(u) + 1] = 0
  BY <1>1 DEF Nested
<1>3. ASSUME NEW k \in 1 .. Len(u)
      PROVE  d[k + 1] = CASE u[k] = "in" -> d[k] + 1
                          [] u[k] = "out" -> d[k] - 1
                          [] OTHER -> d[k]
  <2>1. CASE k < Len(s)
    BY <1>1, <2>1, ConcatParts DEF Nested
  <2>2. CASE k = Len(s)
    <3>1. d[k + 1] = m[k + 1] /\ d[k] = m[k] /\ u[k] = s[k] /\ k \in 1 .. Len(s)
      BY <1>1, <2>2, ConcatParts DEF Nested
    <3> QED BY <3>1 DEF Nested
  <2>3. CASE k > Len(s)
    <3>1. k - Len(s) \in 1 .. Len(t) /\ u[k] = t[k - Len(s)]
      BY <1>1, <2>3, ConcatParts
    <3>2. d[k] = n[k - Len(s)] /\ d[k + 1] = n[(k - Len(s)) + 1]
      BY <1>1, <2>3
    <3> QED BY <3>1, <3>2 DEF Nested
  <2> QED BY <1>1, <2>1, <2>2, <2>3
<1> QED BY <1>2, <1>3 DEF Nested

LEMMA ConcatBalanced ==
  ASSUME NEW s \in Programs, NEW t \in Programs
  PROVE  /\ Balanced(s) /\ Balanced(t) => Balanced(s \o t)
         /\ Covered(s) /\ Covered(t) => Covered(s \o t)
<1>1. ASSUME Balanced(s), Balanced(t) PROVE Balanced(s \o t)
  BY <1>1, ConcatNested DEF Balanced
<1>2. ASSUME Covered(s), Covered(t) PROVE Covered(s \o t)
  <2>1. PICK m : Nested(s, m) /\ \A k \in 1 .. Len(s) : s[k] \in Guarded => m[k] > 0
    BY <1>2 DEF Covered
  <2>2. PICK n : Nested(t, n) /\ \A k \in 1 .. Len(t) : t[k] \in Guarded => n[k] > 0
    BY <1>2 DEF Covered
  <2> DEFINE d == [k \in 1 .. Len(s) + Len(t) + 1 |-> IF k <= Len(s) THEN m[k] ELSE n[k - Len(s)]]
  <2>3. Nested(s \o t, d)
    BY <2>1, <2>2, ConcatNested
  <2>4. Len(s) \in Nat /\ Len(t) \in Nat
    BY DEF Programs
  <2>5. ASSUME NEW k \in 1 .. Len(s \o t), (s \o t)[k] \in Guarded PROVE d[k] > 0
    <3>1. CASE k <= Len(s)
      BY <2>1, <2>4, <2>5, <3>1, ConcatParts
    <3>2. CASE k > Len(s)
      BY <2>2, <2>4, <2>5, <3>2, ConcatParts
    <3> QED BY <2>4, <3>1, <3>2, ConcatParts
  <2> QED BY <2>3, <2>5 DEF Covered
<1> QED BY <1>1, <1>2

\* A section covers whatever it encloses.
LEMMA SectionCovered ==
  ASSUME NEW b \in Programs, Balanced(b)
  PROVE  Covered(Section(b)) /\ Balanced(Section(b))
<1>1. PICK n : Nested(b, n)
  BY DEF Balanced
<1> DEFINE s == Section(b)
           l == Len(b)
           d == [k \in 1 .. l + 3 |-> IF k = 1 \/ k = l + 3 THEN 0 ELSE n[k - 1] + 1]
<1>2. l \in Nat /\ Len(s) = l + 2
  BY SectionParts DEF Programs
<1> HIDE DEF l
<1>3. n \in [1 .. l + 1 -> Nat] /\ n[1] = 0 /\ n[l + 1] = 0
  BY <1>1 DEF Nested, l
<1>4. \A j \in 1 .. l + 1 : d[j + 1] = n[j] + 1 /\ n[j] \in Nat
  <2> SUFFICES ASSUME NEW j \in 1 .. l + 1 PROVE d[j + 1] = n[j] + 1 /\ n[j] \in Nat
    OBVIOUS
  <2>1. j + 1 \in 1 .. l + 3 /\ j + 1 # 1 /\ j + 1 # l + 3 /\ (j + 1) - 1 = j
    BY <1>2
  <2> QED BY <1>3, <2>1
<1>5. d[1] = 0 /\ d[l + 3] = 0 /\ DOMAIN d = 1 .. l + 3 /\ d = [k \in DOMAIN d |-> d[k]]
  BY <1>2
<1> HIDE DEF d
<1>6. \A k \in 1 .. l + 3 : k = 1 \/ k = l + 3 \/ \E j \in 1 .. l + 1 : k = j + 1
  <2> SUFFICES ASSUME NEW k \in 1 .. l + 3, k # 1, k # l + 3
               PROVE  \E j \in 1 .. l + 1 : k = j + 1
    OBVIOUS
  <2>1. k - 1 \in 1 .. l + 1 /\ k = (k - 1) + 1
    BY <1>2
  <2> QED BY <2>1
<1>7. d \in [1 .. Len(s) + 1 -> Nat] /\ d[1] = 0 /\ d[Len(s) + 1] = 0
  <2>1. \A k \in 1 .. l + 3 : d[k] \in Nat
    BY <1>4, <1>5, <1>6
  <2>2. Len(s) + 1 = l + 3
    BY <1>2
  <2> QED BY <1>5, <2>1, <2>2
<1>8. s[1] = "in" /\ s[l + 2] = "out" /\ \A j \in 1 .. l : s[j + 1] = b[j]
  <2>1. \A j \in 1 .. l : j + 1 \in 2 .. l + 1 /\ (j + 1) - 1 = j
    BY <1>2
  <2> QED BY <2>1, SectionParts DEF l
<1> HIDE DEF s
<1>9. ASSUME NEW k \in 1 .. Len(s)
      PROVE  d[k + 1] = CASE s[k] = "in" -> d[k] + 1
                          [] s[k] = "out" -> d[k] - 1
                          [] OTHER -> d[k]
  <2>1. CASE k = 1
    <3>1. d[1 + 1] = 1
      BY <1>2, <1>3, <1>4
    <3> QED BY <1>5, <1>8, <2>1, <3>1
  <2>2. CASE k = l + 2
    <3>1. l + 1 \in 1 .. l + 1 /\ (l + 1) + 1 = l + 2 /\ k + 1 = l + 3
      BY <1>2, <2>2
    <3>2. d[l + 2] = 1
      BY <1>3, <1>4, <3>1
    <3> QED BY <1>5, <1>8, <2>2, <3>1, <3>2
  <2>3. ASSUME NEW j \in 1 .. l, k = j + 1
        PROVE  d[k + 1] = CASE s[k] = "in" -> d[k] + 1
                            [] s[k] = "out" -> d[k] - 1
                            [] OTHER -> d[k]
    <3>1. j \in 1 .. l + 1 /\ j + 1 \in 1 .. l + 1
      BY <1>2
    <3>2. d[k] = n[j] + 1 /\ d[k + 1] = n[j + 1] + 1 /\ s[k] = b[j]
      BY <1>4, <1>8, <2>3, <3>1
    <3>3. n[j + 1] = CASE b[j] = "in" -> n[j] + 1
                       [] b[j] = "out" -> n[j] - 1
                       [] OTHER -> n[j]
      BY <1>1 DEF Nested, l
    <3>4. n[j] \in Nat /\ n[j + 1] \in Nat
      BY <1>3, <3>1
    <3> QED BY <3>2, <3>3, <3>4
  <2>4. k = 1 \/ k = l + 2 \/ \E j \in 1 .. l : k = j + 1
    <3>1. CASE k # 1 /\ k # l + 2
      <4>1. k - 1 \in 1 .. l /\ k = (k - 1) + 1
        BY <1>2, <3>1
      <4> QED BY <4>1
    <3> QED BY <3>1
  <2> QED BY <2>1, <2>2, <2>3, <2>4
<1>10. Nested(s, d)
  BY <1>7, <1>9 DEF Nested
<1>11. ASSUME NEW k \in 1 .. Len(s), s[k] \in Guarded PROVE d[k] > 0
  <2>1. k # 1 /\ k \in 1 .. l + 3 /\ k # l + 3
    BY <1>2, <1>8, <1>11 DEF Guarded
  <2>2. PICK j \in 1 .. l + 1 : k = j + 1
    BY <1>6, <2>1
  <2> QED BY <1>4, <2>2
<1> QED BY <1>10, <1>11 DEF Covered, Balanced, s

\* In s every instruction of B comes after an a; none of B comes before an r.
After(s, a, B)     == \A k \in 1 .. Len(s) : s[k] \in B => \E j \in 1 .. k - 1 : s[j] = a
NotBefore(s, B, r) == \A k \in 1 .. Len(s) : s[k] = r => \A j \in 1 .. k - 1 : s[j] \notin B

LEMMA AfterLeft ==
  ASSUME NEW s \in Programs, NEW t \in Programs, NEW a \in Uses(s), NEW B, After(s, a, B)
  PROVE  After(s \o t, a, B) /\ a \in Uses(s \o t)
<1> DEFINE u == s \o t
<1>1. Len(s) \in Nat /\ Len(t) \in Nat /\ Len(u) = Len(s) + Len(t)
  BY ConcatParts DEF Programs
<1>2. PICK i \in 1 .. Len(s) : s[i] = a
  BY DEF Uses
<1>3. \A k \in 1 .. Len(s) : u[k] = s[k]
  BY ConcatParts
<1>4. ASSUME NEW k \in 1 .. Len(u), u[k] \in B PROVE \E j \in 1 .. k - 1 : u[j] = a
  <2>1. CASE k \in 1 .. Len(s)
    <3>1. PICK j \in 1 .. k - 1 : s[j] = a
      BY <1>3, <1>4, <2>1 DEF After
    <3>2. j \in 1 .. Len(s)
      BY <1>1, <2>1
    <3> QED BY <1>3, <3>1, <3>2
  <2>2. CASE k \notin 1 .. Len(s)
    <3>1. i \in 1 .. k - 1
      BY <1>1, <2>2
    <3> QED BY <1>2, <1>3, <3>1
  <2> QED BY <2>1, <2>2
<1> QED BY <1>4, ConcatParts DEF After

LEMMA AfterRight ==
  ASSUME NEW s \in Programs, NEW t \in Programs, NEW a, NEW B,
         Uses(s) \intersect B = {}, After(t, a, B)
  PROVE  After(s \o t, a, B)
<1> DEFINE u == s \o t
<1>1. Len(s) \in Nat /\ Len(t) \in Nat /\ Len(u) = Len(s) + Len(t)
  BY ConcatParts DEF Programs
<1>2. \A k \in 1 .. Len(s) : u[k] \notin B
  BY ConcatParts DEF Uses
<1>3. \A k \in 1 .. Len(t) : u[Len(s) + k] = t[k]
  <2> SUFFICES ASSUME NEW k \in 1 .. Len(t) PROVE u[Len(s) + k] = t[k]
    OBVIOUS
  <2>1. Len(s) + k \in Len(s) + 1 .. Len(s) + Len(t) /\ (Len(s) + k) - Len(s) = k
    BY <1>1
  <2> QED BY <2>1, ConcatParts
<1>4. ASSUME NEW k \in 1 .. Len(u), u[k] \in B PROVE \E j \in 1 .. k - 1 : u[j] = a
  <2>1. PICK i \in 1 .. Len(t) : k = Len(s) + i
    <3>1. k \notin 1 .. Len(s)
      BY <1>2, <1>4
    <3>2. k - Len(s) \in 1 .. Len(t) /\ k = Len(s) + (k - Len(s))
      BY <1>1, <3>1
    <3> QED BY <3>2
  <2>2. PICK j \in 1 .. i - 1 : t[j] = a
    BY <1>3, <1>4, <2>1 DEF After
  <2>3. j \in 1 .. Len(t) /\ Len(s) + j \in 1 .. k - 1
    BY <1>1, <2>1
  <2> QED BY <1>3, <2>2, <2>3
<1> QED BY <1>4 DEF After

LEMMA NotBeforeSplit ==
  ASSUME NEW s \in Programs, NEW t \in Programs, NEW B, NEW r,
         Uses(s) \intersect B = {}, r \notin Uses(t)
  PROVE  NotBefore(s \o t, B, r)
<1> DEFINE u == s \o t
<1>1. Len(s) \in Nat /\ Len(t) \in Nat /\ Len(u) = Len(s) + Len(t)
  BY ConcatParts DEF Programs
<1>2. \A k \in 1 .. Len(s) : u[k] \notin B
  BY ConcatParts DEF Uses
<1>3. ASSUME NEW k \in 1 .. Len(u), u[k] = r, NEW j \in 1 .. k - 1 PROVE u[j] \notin B
  <2>1. k \in 1 .. Len(s)
    <3>1. CASE k \in Len(s) + 1 .. Len(s) + Len(t)
      BY <1>3, <3>1, ConcatParts DEF Uses
    <3> QED BY <1>1, <3>1
  <2>2. j \in 1 .. Len(s)
    BY <1>1, <2>1
  <2> QED BY <1>2, <2>2
<1> QED BY <1>3 DEF NotBefore

\* Pieces: an instruction, two of them, nothing, and sections of these.
Piece(s, U) == s \in Programs /\ Uses(s) = U /\ Balanced(s)

LEMMA WordPiece ==
  ASSUME NEW i \in Instructions \ {"in", "out"}
  PROVE  Piece(<<i>>, {i}) /\ (i \notin Guarded => Covered(<<i>>))
<1>1. <<i>> \in Programs /\ Uses(<<i>>) = {i}
  BY DEF Programs, Uses
<1> QED BY <1>1, PlainBalanced DEF Piece

LEMMA WordsPiece ==
  ASSUME NEW i \in Instructions \ {"in", "out"}, NEW j \in Instructions \ {"in", "out"}
  PROVE  Piece(<<i, j>>, {i, j})
<1>1. <<i, j>> \in Programs /\ Uses(<<i, j>>) = {i, j}
  BY DEF Programs, Uses
<1> QED BY <1>1, PlainBalanced DEF Piece

LEMMA EmptyPiece == Piece(<<>>, {})
<1>1. <<>> \in Programs /\ Uses(<<>>) = {}
  BY DEF Programs, Uses
<1> QED BY <1>1, PlainBalanced DEF Piece

LEMMA SectionPiece ==
  ASSUME NEW b, NEW U, Piece(b, U)
  PROVE  Piece(Section(b), {"in", "out"} \union U) /\ Covered(Section(b))
  BY SectionParts, SectionCovered DEF Piece

LEMMA ConcatPiece ==
  ASSUME NEW s, NEW t, NEW U, NEW V, Piece(s, U), Piece(t, V)
  PROVE  Piece(s \o t, U \union V)
  BY ConcatParts, ConcatBalanced DEF Piece

LEMMA CoveredBalanced ==
  ASSUME NEW s, Covered(s)
  PROVE  Balanced(s)
  BY DEF Covered, Balanced

\* The programs of the calls, piece by piece.
LEMMA ContextShape ==
  Piece(Context, {"in", "out", "read"}) /\ Covered(Context)
<1>1. Piece(<<"read">>, {"read"})
  BY WordPiece DEF Instructions
<1>2. Piece(Section(<<"read">>), {"in", "out"} \union {"read"}) /\ Covered(Section(<<"read">>))
  BY <1>1, SectionPiece
<1> QED BY <1>2 DEF Context, Piece

LEMMA PreviewShape ==
  ASSUME NEW c
  PROVE  Preview(c) \in Programs /\ Covered(Preview(c)) /\ "read" \notin Uses(Preview(c))
<1> DEFINE rest == IF c \in Contested THEN <<"ready">>
                   ELSE Section(<<"plan">>) \o Section(<<"bless">>)
           body == Section(<<>>) \o rest
<1>1. \E U : Piece(rest, U) /\ "read" \notin U
  <2>1. /\ Piece(<<"ready">>, {"ready"}) /\ Piece(<<"plan">>, {"plan"})
        /\ Piece(<<"bless">>, {"bless"})
    BY WordPiece DEF Instructions
  <2>2. Piece(Section(<<"plan">>) \o Section(<<"bless">>),
              ({"in", "out"} \union {"plan"}) \union ({"in", "out"} \union {"bless"}))
    BY <2>1, SectionPiece, ConcatPiece
  <2>3. "read" \notin ({"in", "out"} \union {"plan"}) \union ({"in", "out"} \union {"bless"})
    OBVIOUS
  <2> QED BY <2>1, <2>2, <2>3
<1> HIDE DEF rest
<1>2. \E U : Piece(body, U) /\ "read" \notin U
  <2>1. PICK U : Piece(rest, U) /\ "read" \notin U
    BY <1>1
  <2>2. Piece(body, ({"in", "out"} \union {}) \union U)
    BY <2>1, EmptyPiece, SectionPiece, ConcatPiece
  <2>3. "read" \notin ({"in", "out"} \union {}) \union U
    BY <2>1
  <2> QED BY <2>2, <2>3
<1>3. Preview(c) = Section(Section(body))
  BY DEF Preview, rest
<1> HIDE DEF body
<1>4. PICK U : Piece(body, U) /\ "read" \notin U
  BY <1>2
<1>5. Piece(Section(body), {"in", "out"} \union U)
  BY <1>4, SectionPiece
<1>6. /\ Piece(Preview(c), {"in", "out"} \union ({"in", "out"} \union U))
      /\ Covered(Preview(c))
  BY <1>3, <1>5, SectionPiece
<1> QED BY <1>4, <1>6 DEF Piece

LEMMA ExecuteShape ==
  /\ Execute \in Programs /\ Covered(Execute) /\ "read" \notin Uses(Execute)
  /\ \A B : "lookup" \notin B /\ "in" \notin B /\ "out" \notin B => After(Execute, "lookup", B)
<1> DEFINE look == Section(<<"lookup">>)
           inner == <<"lookup", "plan">> \o Section(<<"commit">>)
           middle == <<"lookup">> \o Section(inner)
           body == look \o Section(middle)
<1>1. /\ Piece(<<"lookup">>, {"lookup"}) /\ Piece(<<"commit">>, {"commit"})
      /\ Piece(<<"lookup", "plan">>, {"lookup", "plan"})
  BY WordPiece, WordsPiece DEF Instructions
<1>2. Piece(look, {"in", "out"} \union {"lookup"})
  BY <1>1, SectionPiece
<1>3. PICK U : Piece(inner, U) /\ "read" \notin U
  <2>1. Piece(inner, {"lookup", "plan"} \union ({"in", "out"} \union {"commit"}))
    BY <1>1, SectionPiece, ConcatPiece
  <2> QED BY <2>1
<1>4. PICK V : Piece(middle, V) /\ "read" \notin V
  <2> HIDE DEF inner
  <2>1. Piece(middle, {"lookup"} \union ({"in", "out"} \union U))
    BY <1>1, <1>3, SectionPiece, ConcatPiece
  <2> QED BY <1>3, <2>1
<1>5. Execute = Section(body)
  BY DEF Execute
<1>6. /\ look \in Programs /\ Section(middle) \in Programs /\ body \in Programs
      /\ Balanced(body) /\ "read" \notin Uses(body)
  <2> HIDE DEF middle, look
  <2>1. Piece(Section(middle), {"in", "out"} \union V)
    BY <1>4, SectionPiece
  <2>2. Piece(body, ({"in", "out"} \union {"lookup"}) \union ({"in", "out"} \union V))
    BY <1>2, <2>1, ConcatPiece
  <2> QED BY <1>2, <1>4, <2>1, <2>2 DEF Piece
<1>7. ASSUME NEW B, "lookup" \notin B, "in" \notin B, "out" \notin B
      PROVE  After(Execute, "lookup", B)
  <2> HIDE DEF middle, look
  <2>1. After(look, "lookup", B) /\ "lookup" \in Uses(look)
    BY <1>2, <1>7 DEF After, Uses, Piece
  <2>2. After(body, "lookup", B) /\ "lookup" \in Uses(body)
    BY <1>6, <2>1, AfterLeft
  <2> HIDE DEF body
  <2>3. <<"in">> \in Programs /\ Uses(<<"in">>) = {"in"} /\ <<"out">> \in Programs
    BY DEF Programs, Instructions, Uses
  <2>4. <<"in">> \o body \in Programs /\ "lookup" \in Uses(<<"in">> \o body)
    BY <1>6, <2>2, <2>3, ConcatParts
  <2>5. After(<<"in">> \o body, "lookup", B)
    BY <1>6, <1>7, <2>2, <2>3, AfterRight
  <2>6. After((<<"in">> \o body) \o <<"out">>, "lookup", B)
    BY <2>3, <2>4, <2>5, AfterLeft
  <2> QED BY <1>5, <2>6 DEF Section
<1> HIDE DEF body
<1> QED BY <1>5, <1>6, <1>7, SectionParts, SectionCovered

\* Instructions an execution comes to only after a lookup of the receipt.
Refusable == {"plan", "ready", "bless", "verify", "commit"}

LEMMA NoRead ==
  ASSUME NEW s, "read" \notin Uses(s), NEW B
  PROVE  NotBefore(s, B, "read")
  BY DEF NotBefore, Uses

LEMMA NotEmpty ==
  ASSUME NEW s \in Programs, NEW i \in Uses(s)
  PROVE  Len(s) > 0
  BY DEF Uses, Programs

LEMMA ProgramShape ==
  ASSUME NEW op \in Operations, NEW c
  PROVE  /\ Program(op, c) \in Programs /\ Covered(Program(op, c))
         /\ Len(Program(op, c)) > 0
         /\ NotBefore(Program(op, c), {"plan", "commit"}, "read")
         /\ op = "execute" => After(Program(op, c), "verify", {"commit"})
         /\ op \in Executions => After(Program(op, c), "lookup", Refusable)
<1>1. CASE op = "context"
  <2>1. Program(op, c) = Context
    BY <1>1 DEF Program
  <2>2. NotBefore(Context, {"plan", "commit"}, "read")
    <3>1. \A j \in 1 .. Len(Context) : Context[j] \in {"in", "out", "read"}
      BY ContextShape DEF Piece, Uses
    <3>2. \A k \in 1 .. Len(Context) : \A j \in 1 .. k - 1 : j \in 1 .. Len(Context)
      BY ContextShape DEF Piece, Programs
    <3> QED BY <3>1, <3>2 DEF NotBefore
  <2>3. Len(Context) > 0
    BY ContextShape, NotEmpty DEF Piece
  <2> QED BY <1>1, <2>1, <2>2, <2>3, ContextShape DEF Executions, Piece
<1>2. CASE op = "preview"
  <2> DEFINE reads == Section(Context) \o Context
             tail == Preview(c) \o <<"attest">>
  <2>1. Piece(reads, ({"in", "out"} \union {"in", "out", "read"}) \union {"in", "out", "read"})
    BY ContextShape, SectionPiece, ConcatPiece
  <2>2. Section(Context) \in Programs /\ Covered(Section(Context)) /\ Context \in Programs
    BY ContextShape, SectionPiece DEF Piece
  <2>3. reads \in Programs /\ Covered(reads) /\ Uses(reads) = {"in", "out", "read"}
    BY <2>1, <2>2, ContextShape, ConcatBalanced DEF Piece
  <2>4. /\ <<"attest">> \in Programs /\ Uses(<<"attest">>) = {"attest"} /\ Covered(<<"attest">>)
    BY WordPiece DEF Guarded, Instructions, Piece
  <2>5. tail \in Programs /\ Covered(tail) /\ "read" \notin Uses(tail)
    <3>1. Preview(c) \in Programs /\ Covered(Preview(c)) /\ "read" \notin Uses(Preview(c))
      BY PreviewShape
    <3>2. tail \in Programs /\ Uses(tail) = Uses(Preview(c)) \union Uses(<<"attest">>)
      BY <2>4, <3>1, ConcatParts
    <3>3. Covered(tail)
      BY <2>4, <3>1, ConcatBalanced
    <3> QED BY <2>4, <3>1, <3>2, <3>3
  <2>6. Program(op, c) = reads \o tail
    <3>1. Program(op, c) = (reads \o Preview(c)) \o <<"attest">>
      BY <1>2 DEF Program
    <3> HIDE DEF reads
    <3>2. (reads \o Preview(c)) \o <<"attest">> = reads \o (Preview(c) \o <<"attest">>)
      BY <2>3, <2>4, PreviewShape DEF Programs
    <3> QED BY <3>1, <3>2
  <2> HIDE DEF reads, tail
  <2>7. /\ reads \o tail \in Programs /\ Covered(reads \o tail)
        /\ Uses(reads \o tail) = Uses(reads) \union Uses(tail)
    BY <2>3, <2>5, ConcatParts, ConcatBalanced
  <2>8. Len(reads \o tail) > 0
    BY <2>3, <2>7, NotEmpty
  <2>9. NotBefore(reads \o tail, {"plan", "commit"}, "read")
    BY <2>3, <2>5, NotBeforeSplit
  <2> QED BY <1>2, <2>6, <2>7, <2>8, <2>9 DEF Executions
<1>3. CASE op \in Executions
  <2> DEFINE look == Section(<<"lookup">>)
             first == look \o <<"verify">>
  <2>1. Piece(look, {"in", "out"} \union {"lookup"}) /\ Covered(look)
    BY WordPiece, SectionPiece DEF Instructions
  <2>2. Piece(<<"verify">>, {"verify"}) /\ Covered(<<"verify">>)
    BY WordPiece DEF Instructions, Guarded
  <2> HIDE DEF look
  <2>3. Piece(first, ({"in", "out"} \union {"lookup"}) \union {"verify"}) /\ Covered(first)
    <3>1. Piece(first, ({"in", "out"} \union {"lookup"}) \union {"verify"})
      BY <2>1, <2>2, ConcatPiece
    <3>2. Covered(first)
      BY <2>1, <2>2, ConcatBalanced DEF Piece
    <3> QED BY <3>1, <3>2
  <2>4. /\ After(Execute, "lookup", Refusable) /\ Execute \in Programs /\ Covered(Execute)
        /\ "read" \notin Uses(Execute)
    BY ExecuteShape DEF Refusable
  <2>5. After(first, "lookup", Refusable)
    <3>1. After(look, "lookup", Refusable) /\ "lookup" \in Uses(look)
      BY <2>1 DEF After, Uses, Refusable, Piece
    <3> QED BY <2>1, <2>2, <3>1, AfterLeft DEF Piece
  <2>6. After(first, "verify", {"commit"})
    BY <2>3 DEF After, Uses, Piece
  <2> HIDE DEF first
  <2>7. Len(Execute) > 0
    <3>1. Execute # <<>>
      BY DEF Execute, Section
    <3> QED BY <2>4, <3>1 DEF Programs
  <2>8. CASE op = "post"
    <3>1. Program(op, c) = Execute
      BY <2>8 DEF Program
    <3> QED BY <2>4, <2>7, <2>8, <3>1, NoRead
  <2>9. CASE op = "execute"
    <3>1. Program(op, c) = first \o Execute
      BY <2>9 DEF Program, first, look
    <3>2. first \in Programs /\ "lookup" \in Uses(first) /\ "verify" \in Uses(first)
          /\ "read" \notin Uses(first)
      BY <2>3 DEF Piece
    <3>3. /\ first \o Execute \in Programs /\ Covered(first \o Execute)
          /\ "lookup" \in Uses(first \o Execute) /\ "read" \notin Uses(first \o Execute)
      BY <2>3, <2>4, <3>2, ConcatParts, ConcatBalanced
    <3>4. /\ After(first \o Execute, "lookup", Refusable)
          /\ After(first \o Execute, "verify", {"commit"})
      BY <2>4, <2>5, <2>6, <3>2, AfterLeft
    <3>5. Len(first \o Execute) > 0
      BY <3>3, NotEmpty
    <3> QED BY <2>9, <3>1, <3>3, <3>4, <3>5, NoRead
  <2> QED BY <1>3, <2>8, <2>9 DEF Executions
<1> QED BY <1>1, <1>2, <1>3 DEF Operations, Executions

(***************************************************************************)
(* The lease.                                                              *)
(***************************************************************************)

Calls == [op : Operations \union {None}, cmd : Commands \union {None}, at : Nat,
          known : BOOLEAN, saw : Nat \union {None}]

\* Every variable holds what its declaration says.
TypeOK ==
    /\ history \in Seq(Commands)
    /\ flock \in Threads \union {None}
    /\ depth \in [Threads -> Nat]
    /\ planner \in [Procs -> [rev : Nat \union {None}, staged : Commands \union {None}]]
    /\ release \in [Procs -> Nat]
    /\ call \in [Threads -> Calls]
    /\ tokens \subseteq [cmd : Commands, release : Nat]
    /\ kills \in Nat

Prog(t)  == Program(call[t].op, call[t].cmd)

\* The depth before each instruction of a program and behind the last one.
Nesting(op, c) ==
    CHOOSE n : /\ Nested(Program(op, c), n)
               /\ \A k \in 1 .. Len(Program(op, c)) : Program(op, c)[k] \in Guarded => n[k] > 0

\* A thread is where its program says: its lease is as deep as the sections it is in.
InPlace(t) ==
    IF Running(t)
      THEN /\ call[t].op \in Operations /\ call[t].cmd \in Commands
           /\ call[t].at \in 1 .. Len(Prog(t))
           /\ depth[t] = Nesting(call[t].op, call[t].cmd)[call[t].at]
      ELSE call[t] = Idle /\ depth[t] = 0

\* LeaseHeld is not inductive: how deep a thread is in its lease follows from where
\* it is in its program, and so it lets go of it with the end of the call.
LeaseInv ==
    /\ TypeOK
    /\ \A t \in Threads : InPlace(t)
    /\ \A t \in Threads : depth[t] > 0 <=> flock = t

LEMMA NestingFits ==
  ASSUME NEW op \in Operations, NEW c
  PROVE  LET s == Program(op, c)
             n == Nesting(op, c)
         IN  /\ n \in [1 .. Len(s) + 1 -> Nat] /\ n[1] = 0 /\ n[Len(s) + 1] = 0
             /\ Len(s) \in Nat /\ Len(s) > 0
             /\ \A k \in 1 .. Len(s) :
                   /\ s[k] = "in" => n[k + 1] = n[k] + 1
                   /\ s[k] = "out" => n[k] = n[k + 1] + 1
                   /\ s[k] \notin {"in", "out"} => n[k + 1] = n[k]
                   /\ s[k] \in Guarded => n[k] > 0
<1> DEFINE s == Program(op, c)
           n == Nesting(op, c)
<1>1. s \in Programs /\ Len(s) > 0 /\ Covered(s)
  BY ProgramShape
<1>2. Nested(s, n) /\ \A k \in 1 .. Len(s) : s[k] \in Guarded => n[k] > 0
  BY <1>1 DEF Covered, Nesting
<1> HIDE DEF n, s
<1>3. Len(s) \in Nat
  BY <1>1 DEF Programs
<1>4. \A k \in 1 .. Len(s) : k + 1 \in 1 .. Len(s) + 1 /\ k \in 1 .. Len(s) + 1
  BY <1>3
<1>5. \A k \in 1 .. Len(s) : n[k] \in Nat /\ n[k + 1] \in Nat
  BY <1>2, <1>4 DEF Nested
<1>6. ASSUME NEW k \in 1 .. Len(s)
      PROVE  /\ s[k] = "in" => n[k + 1] = n[k] + 1
             /\ s[k] = "out" => n[k] = n[k + 1] + 1
             /\ s[k] \notin {"in", "out"} => n[k + 1] = n[k]
  BY <1>2, <1>5 DEF Nested
<1> QED BY <1>1, <1>2, <1>3, <1>6 DEF Nested, n, s

\* What a thread does next, and how deep it is before and after.
LEMMA HereNext ==
  ASSUME LeaseInv, NEW t \in Threads, Running(t)
  PROVE  LET n == Nesting(call[t].op, call[t].cmd)
             k == call[t].at
         IN  /\ call[t].op \in Operations /\ call[t].cmd \in Commands
             /\ k \in 1 .. Len(Prog(t)) /\ Len(Prog(t)) \in Nat
             /\ Next_(t) = Prog(t)[k] /\ depth[t] = n[k]
             /\ k = Len(Prog(t)) => n[k + 1] = 0
             /\ Next_(t) = "in" => n[k + 1] = depth[t] + 1
             /\ Next_(t) = "out" => depth[t] = n[k + 1] + 1
             /\ Next_(t) \notin {"in", "out"} => n[k + 1] = depth[t]
             /\ Next_(t) \in Guarded => depth[t] > 0
             /\ n[k + 1] \in Nat
<1>1. InPlace(t)
  BY DEF LeaseInv
<1>2. call[t].op \in Operations /\ call[t].cmd \in Commands /\ call[t].at \in 1 .. Len(Prog(t))
  BY <1>1 DEF InPlace
<1>3. Next_(t) = Prog(t)[call[t].at]
  BY DEF Next_, Prog
<1>4. call[t].at + 1 \in 1 .. Len(Prog(t)) + 1
  BY <1>2, NestingFits DEF Prog
<1> QED BY <1>1, <1>2, <1>3, <1>4, NestingFits DEF InPlace, Prog

\* Where a step leads, and that it moves no other thread.
LEMMA StepMoves ==
  ASSUME LeaseInv, NEW t \in Threads, Running(t), NEW saw \in Nat \union {None}, Step(t, saw)
  PROVE  /\ \A u \in Threads \ {t} : call'[u] = call[u]
         /\ call' \in [Threads -> Calls]
         /\ \/ call[t].at = Len(Prog(t)) /\ call'[t] = Idle
            \/ /\ call[t].at # Len(Prog(t)) /\ call[t].at + 1 \in 1 .. Len(Prog(t))
               /\ call'[t].op = call[t].op /\ call'[t].cmd = call[t].cmd
               /\ call'[t].known = call[t].known
               /\ call'[t].at = call[t].at + 1 /\ call'[t].saw = saw
<1>1. Idle \in Calls
  BY DEF Idle, Calls
<1>2. call \in [Threads -> Calls]
  BY DEF LeaseInv, TypeOK
<1>3. call[t].at \in 1 .. Len(Prog(t)) /\ Len(Prog(t)) \in Nat
  BY HereNext
<1>4. CASE call[t].at = Len(Prog(t))
  <2>1. call' = [call EXCEPT ![t] = Idle]
    BY <1>4 DEF Step, Prog
  <2> QED BY <1>1, <1>2, <1>4, <2>1
<1>5. CASE call[t].at # Len(Prog(t))
  <2>1. call' = [call EXCEPT ![t] = [call[t] EXCEPT !.at = call[t].at + 1, !.saw = saw]]
    BY <1>5 DEF Step, Prog
  <2>2. [call[t] EXCEPT !.at = call[t].at + 1, !.saw = saw] \in Calls
    <3>1. call[t] \in Calls /\ call[t].at + 1 \in Nat
      BY <1>2, <1>3
    <3> QED BY <3>1 DEF Calls
  <2>3. call[t].at + 1 \in 1 .. Len(Prog(t))
    BY <1>3, <1>5
  <2> QED BY <1>2, <1>5, <2>1, <2>2, <2>3 DEF Calls
<1> QED BY <1>4, <1>5

\* A step whose depth follows the program leaves the thread in its place.
LEMMA StepInPlace ==
  ASSUME LeaseInv, NEW t \in Threads, Running(t), NEW saw \in Nat \union {None}, Step(t, saw),
         depth'[t] = Nesting(call[t].op, call[t].cmd)[call[t].at + 1]
  PROVE  InPlace(t)'
<1>1. None \notin Operations
  BY GatewayAssumption
<1>2. CASE call'[t] = Idle /\ call[t].at = Len(Prog(t))
  BY <1>2, HereNext DEF InPlace, Running, Idle
<1>3. CASE ~(call'[t] = Idle /\ call[t].at = Len(Prog(t)))
  <2>1. /\ call'[t].op = call[t].op /\ call'[t].cmd = call[t].cmd
        /\ call'[t].at = call[t].at + 1 /\ call[t].at + 1 \in 1 .. Len(Prog(t))
    BY <1>3, StepMoves
  <2>2. call[t].op \in Operations /\ call[t].cmd \in Commands
    BY HereNext
  <2> QED BY <1>1, <2>1, <2>2 DEF InPlace, Running, Prog
<1> QED BY <1>2, <1>3

LEMMA EndInPlace ==
  ASSUME LeaseInv, NEW t \in Threads, End(t)
  PROVE  /\ call' \in [Threads -> Calls] /\ depth' \in [Threads -> Nat]
         /\ flock' \in Threads \union {None}
         /\ \A u \in Threads \ {t} : call'[u] = call[u] /\ depth'[u] = depth[u]
         /\ InPlace(t)'
         /\ \A u \in Threads : depth'[u] > 0 <=> flock' = u
<1> USE GatewayAssumption
<1>1. Idle \in Calls
  BY DEF Idle, Calls
<1>2. call'[t] = Idle /\ depth'[t] = 0
  BY DEF End, LeaseInv, TypeOK
<1>3. InPlace(t)'
  BY <1>2 DEF InPlace, Running, Idle
<1> QED BY <1>1, <1>2, <1>3 DEF End, LeaseInv, TypeOK

\* InPlace looks at the call and the lease of its own thread only.
LEMMA OthersInPlace ==
  ASSUME LeaseInv, NEW t \in Threads, InPlace(t)',
         \A u \in Threads \ {t} : call'[u] = call[u] /\ depth'[u] = depth[u]
  PROVE  \A u \in Threads : InPlace(u)'
<1> SUFFICES ASSUME NEW u \in Threads, u # t PROVE InPlace(u)'
  OBVIOUS
<1>1. call'[u] = call[u] /\ depth'[u] = depth[u] /\ InPlace(u)
  BY DEF LeaseInv
<1> QED BY <1>1 DEF InPlace, Running, Prog

\* Instructions between the brackets of a section move the thread and not its lease.
LEMMA InsideStep ==
  ASSUME LeaseInv, NEW t \in Threads, Running(t), NEW saw \in Nat \union {None}, Step(t, saw),
         Next_(t) \notin {"in", "out"}, depth' = depth, flock' = flock
  PROVE  /\ call' \in [Threads -> Calls]
         /\ \A u \in Threads : InPlace(u)'
         /\ \A u \in Threads : depth'[u] > 0 <=> flock' = u
<1>1. depth'[t] = Nesting(call[t].op, call[t].cmd)[call[t].at + 1]
  BY HereNext
<1> QED BY <1>1, StepInPlace, StepMoves, OthersInPlace DEF LeaseInv

LEMMA LeaseStart ==
  ASSUME LeaseInv, NEW t \in Threads, Start(t)
  PROVE  LeaseInv'
<1> USE DEF LeaseInv, TypeOK
<1>1. PICK op \in Operations, c \in Commands :
         call' = [call EXCEPT ![t] = [Idle EXCEPT !.op = op, !.cmd = c,
                                      !.known = op \in Executions /\ Done(c)]]
  BY DEF Start
<1>2. /\ call'[t].op = op /\ call'[t].cmd = c /\ call'[t].at = 1
      /\ call' \in [Threads -> Calls]
      /\ \A u \in Threads \ {t} : call'[u] = call[u]
  BY <1>1 DEF Idle, Calls
<1>3. depth[t] = 0 /\ depth' = depth
  BY DEF Start, InPlace
<1>4. InPlace(t)'
  <2>1. op # None /\ 1 \in 1 .. Len(Program(op, c)) /\ Nesting(op, c)[1] = 0
    BY NestingFits, GatewayAssumption
  <2> QED BY <1>2, <1>3, <2>1 DEF InPlace, Running, Prog
<1>5. \A u \in Threads : InPlace(u)'
  BY <1>2, <1>3, <1>4, OthersInPlace
<1> QED BY <1>2, <1>3, <1>5 DEF Start

LEMMA LeaseEnter ==
  ASSUME LeaseInv, NEW t \in Threads, Enter(t)
  PROVE  LeaseInv'
<1> USE DEF TypeOK
<1>1. Running(t) /\ Next_(t) = "in" /\ Step(t, None) /\ depth' = [depth EXCEPT ![t] = @ + 1]
  BY DEF Enter, Doing
<1>2. depth \in [Threads -> Nat] /\ depth' \in [Threads -> Nat] /\ depth'[t] = depth[t] + 1
      /\ \A u \in Threads \ {t} : depth'[u] = depth[u]
  BY <1>1 DEF LeaseInv
<1>3. depth'[t] = Nesting(call[t].op, call[t].cmd)[call[t].at + 1]
  BY <1>1, <1>2, HereNext
<1>4. call' \in [Threads -> Calls] /\ \A u \in Threads : InPlace(u)'
  BY <1>1, <1>2, <1>3, StepMoves, StepInPlace, OthersInPlace
<1>5. \A u \in Threads : depth'[u] > 0 <=> flock' = u
  <2>1. CASE depth[t] > 0 /\ flock' = flock
    BY <1>2, <2>1 DEF LeaseInv
  <2>2. CASE flock = None /\ flock' = t
    BY <1>2, <2>2, GatewayAssumption DEF LeaseInv
  <2> QED BY <2>1, <2>2 DEF Enter
<1>6. flock' \in Threads \union {None}
  BY DEF Enter, LeaseInv
<1>7. planner' \in [Procs -> [rev : Nat \union {None}, staged : Commands \union {None}]]
  <2>1. planner' = planner \/ planner' = [planner EXCEPT ![ProcOf[t]] = Clean]
    BY DEF Enter, Fresh
  <2>2. Clean \in [rev : Nat \union {None}, staged : Commands \union {None}]
    BY DEF Clean
  <2> QED BY <2>1, <2>2 DEF LeaseInv
<1> QED BY <1>2, <1>4, <1>5, <1>6, <1>7 DEF Enter, LeaseInv

LEMMA LeaseExit ==
  ASSUME LeaseInv, NEW t \in Threads, Exit(t)
  PROVE  LeaseInv'
<1> USE DEF TypeOK
<1>1. Running(t) /\ Next_(t) = "out" /\ Step(t, None) /\ depth' = [depth EXCEPT ![t] = @ - 1]
  BY DEF Exit, Doing
<1>2. /\ depth[t] \in Nat /\ depth'[t] = Nesting(call[t].op, call[t].cmd)[call[t].at + 1]
      /\ depth'[t] \in Nat /\ depth[t] = depth'[t] + 1
      /\ \A u \in Threads \ {t} : depth'[u] = depth[u]
  BY <1>1, HereNext DEF LeaseInv
<1>3. depth' \in [Threads -> Nat]
  BY <1>1, <1>2 DEF LeaseInv
<1>4. call' \in [Threads -> Calls] /\ \A u \in Threads : InPlace(u)'
  BY <1>1, <1>2, StepMoves, StepInPlace, OthersInPlace
<1>5. \A u \in Threads : depth'[u] > 0 <=> flock' = u
  <2>1. flock = t
    BY <1>2 DEF LeaseInv
  <2>2. CASE depth[t] = 1
    BY <1>2, <2>1, <2>2, GatewayAssumption DEF Exit, Unlock, LeaseInv
  <2>3. CASE depth[t] # 1
    BY <1>2, <2>1, <2>3 DEF Exit, Unlock, LeaseInv
  <2> QED BY <2>2, <2>3
<1>6. flock' \in Threads \union {None}
  BY DEF Exit, LeaseInv, Unlock
<1> QED BY <1>3, <1>4, <1>5, <1>6 DEF Exit, LeaseInv

LEMMA LeaseRead ==
  ASSUME LeaseInv, NEW t \in Threads, Read(t)
  PROVE  LeaseInv'
<1> USE DEF TypeOK
<1> DEFINE p == ProcOf[t]
           seen == IF planner[p].rev = None THEN Revision ELSE planner[p].rev
<1>1. p \in Procs /\ Revision \in Nat
  BY GatewayAssumption DEF LeaseInv, Revision
<1>2. planner[p] \in [rev : Nat \union {None}, staged : Commands \union {None}]
  BY <1>1 DEF LeaseInv
<1>3. seen \in Nat /\ seen + 1 \in Nat
  BY <1>1, <1>2
<1>4. /\ Running(t) /\ Next_(t) = "read" /\ planner' = [planner EXCEPT ![p].rev = seen]
      /\ \E saw \in {seen, seen + 1} : Step(t, saw)
      /\ UNCHANGED <<history, flock, depth, release, tokens, kills>>
  BY DEF Read, Doing
<1> HIDE DEF seen
<1>5. PICK saw \in Nat \union {None} : Step(t, saw)
  BY <1>3, <1>4
<1>6. /\ call' \in [Threads -> Calls] /\ \A u \in Threads : InPlace(u)'
      /\ \A u \in Threads : depth'[u] > 0 <=> flock' = u
  BY <1>4, <1>5, InsideStep
<1>7. planner' \in [Procs -> [rev : Nat \union {None}, staged : Commands \union {None}]]
  BY <1>1, <1>3, <1>4 DEF LeaseInv
<1> QED BY <1>4, <1>6, <1>7 DEF LeaseInv

LEMMA LeaseInside ==
  ASSUME LeaseInv, NEW t \in Threads,
         \/ Plan(t) \/ Ready(t) \/ Attest(t) \/ Verify(t) \/ Commit(t)
  PROVE  LeaseInv'
<1> USE DEF TypeOK
<1>1. Running(t) /\ Step(t, None) /\ depth' = depth /\ flock' = flock /\ kills' = kills
      /\ release' = release /\ Next_(t) \notin {"in", "out"}
  BY DEF Plan, Ready, Attest, Verify, Commit, Doing
<1>2. /\ call' \in [Threads -> Calls] /\ \A u \in Threads : InPlace(u)'
      /\ \A u \in Threads : depth'[u] > 0 <=> flock' = u
  BY <1>1, InsideStep
<1>3. call[t].cmd \in Commands /\ ProcOf[t] \in Procs
  BY <1>1, HereNext, GatewayAssumption
<1>4. history' \in Seq(Commands)
  <2>1. history' = history \/ history' = Append(history, call[t].cmd)
    BY DEF Plan, Ready, Attest, Verify, Commit
  <2>2. history \in Seq(Commands) /\ call[t].cmd \in Commands
    BY <1>3 DEF LeaseInv
  <2>3. Append(history, call[t].cmd) \in Seq(Commands)
    BY <2>2
  <2> QED BY <2>1, <2>2, <2>3
<1>5. planner' \in [Procs -> [rev : Nat \union {None}, staged : Commands \union {None}]]
  <2>1. Revision \in Nat
    BY DEF LeaseInv, Revision
  <2> QED BY <1>3, <2>1 DEF LeaseInv, Plan, Ready, Attest, Verify, Commit
<1>6. tokens' \subseteq [cmd : Commands, release : Nat]
  BY <1>3 DEF LeaseInv, Plan, Ready, Attest, Verify, Commit
<1> QED BY <1>1, <1>2, <1>4, <1>5, <1>6 DEF LeaseInv

LEMMA LeaseStep ==
  ASSUME LeaseInv, [Next]_vars
  PROVE  LeaseInv'
<1>1. ASSUME NEW t \in Threads, Busy(t) \/ Refuse(t) \/ (Lookup(t) /\ End(t))
      PROVE  LeaseInv'
  <2>1. End(t) /\ UNCHANGED <<history, planner, release, tokens, kills>>
    BY <1>1 DEF Busy, Refuse, Lookup
  <2> QED BY <2>1, EndInPlace, OthersInPlace DEF LeaseInv, TypeOK
<1>2. ASSUME NEW t \in Threads, Lookup(t), ~End(t) PROVE LeaseInv'
  <2>1. Running(t) /\ Next_(t) = "lookup" /\ Step(t, None)
        /\ UNCHANGED <<depth, flock, history, planner, release, tokens, kills>>
    BY <1>2 DEF Lookup, Doing
  <2> QED BY <2>1, InsideStep DEF LeaseInv, TypeOK
<1>3. ASSUME NEW p \in Procs, Replace(p) PROVE LeaseInv'
  <2> USE DEF TypeOK
  <2>1. ASSUME NEW t \in Threads
        PROVE  /\ ProcOf[t] = p => call'[t] = Idle /\ depth'[t] = 0
               /\ ProcOf[t] # p => call'[t] = call[t] /\ depth'[t] = depth[t]
    BY <1>3 DEF Replace
  <2>2. Idle \in Calls
    BY DEF Idle, Calls
  <2>3. call' \in [Threads -> Calls] /\ depth' \in [Threads -> Nat]
    BY <1>3, <2>2 DEF Replace, LeaseInv
  <2>4. ASSUME NEW t \in Threads PROVE InPlace(t)'
    <3>1. CASE ProcOf[t] = p
      <4>1. call'[t] = Idle /\ depth'[t] = 0
        BY <2>1, <3>1
      <4> QED BY <4>1 DEF InPlace, Running, Idle
    <3>2. CASE ProcOf[t] # p
      BY <2>1, <3>2 DEF InPlace, Running, Prog, LeaseInv
    <3> QED BY <3>1, <3>2
  <2>5. \A u \in Threads : depth'[u] > 0 <=> flock' = u
    BY <1>3, <2>1, GatewayAssumption DEF Replace, LeaseInv
  <2>6. release' \in [Procs -> Nat]
    BY <1>3, GatewayAssumption DEF Replace, LeaseInv
  <2>7. planner' \in [Procs -> [rev : Nat \union {None}, staged : Commands \union {None}]]
    BY <1>3 DEF Replace, LeaseInv, Clean
  <2> QED BY <1>3, <2>3, <2>4, <2>5, <2>6, <2>7 DEF Replace, LeaseInv
<1>4. CASE UNCHANGED vars
  BY <1>4 DEF vars, LeaseInv, TypeOK, InPlace, Running, Prog
<1> QED BY <1>1, <1>2, <1>3, <1>4, LeaseStart, LeaseEnter, LeaseExit, LeaseRead, LeaseInside
        DEF Next, Work

LEMMA LeaseBegins == Init => LeaseInv
  BY GatewayAssumption DEF Init, LeaseInv, TypeOK, InPlace, Running, Idle, Calls, Clean

THEOREM LeaseInvariant == Spec => []LeaseInv
<1>1. LeaseInv /\ [Next]_vars => LeaseInv'
  BY LeaseStep
<1> QED BY LeaseBegins, <1>1, PTL DEF Spec

\* The campaign lock nests: whatever sections a call enters, an inner one that ends
\* does not unlock the outer one, and no call that ends, fails or dies keeps the lock
\* (CampaignLock in tx/locking.py under the layers of service_runtime.py).
THEOREM LeaseIsHeld == Spec => []LeaseHeld
<1>1. LeaseInv => LeaseHeld
  BY DEF LeaseInv, LeaseHeld, InPlace, TypeOK
<1> QED BY <1>1, LeaseInvariant, PTL

(***************************************************************************)
(* What a call has established on its way.                                 *)
(***************************************************************************)

\* The instructions a call has behind it.
Past(t) == {Prog(t)[j] : j \in 1 .. call[t].at - 1}

\* What it read is current as long as it has the lease.
SeenAt(t) == call[t].saw # None => depth[t] > 0 /\ call[t].saw = Revision

\* Before a section plans or commits, the planner's cache holds the committed state.
PlannerAt(t) ==
    depth[t] > 0 /\ Past(t) \intersect {"plan", "commit"} = {} =>
        /\ planner[ProcOf[t]].staged = None
        /\ planner[ProcOf[t]].rev \in {None, Revision}

\* A verified attestation is of this command and of the release that now runs.
TokenAt(t) == call[t].op = "execute" /\ "verify" \in Past(t) => Attested(t)

\* A retry of a recorded command does not get past its first lookup.
KnownAt(t) ==
    call[t].known =>
        call[t].op \in Executions /\ Done(call[t].cmd) /\ "lookup" \notin Past(t)

\* ReadsCurrent, ExecutedAsPreviewed and RetryAnswered speak of single instructions;
\* what makes them true was established some instructions earlier, with other calls
\* in between, and has to be carried along.
ViewAt(t) == SeenAt(t) /\ PlannerAt(t) /\ TokenAt(t) /\ KnownAt(t)
ViewInv == \A t \in Threads : ViewAt(t)

\* What the order of a program says about the past of its instructions.
LEMMA PastShape ==
  ASSUME LeaseInv, NEW t \in Threads, Running(t)
  PROVE  /\ Next_(t) = "read" => Past(t) \intersect {"plan", "commit"} = {}
         /\ call[t].op = "execute" /\ Next_(t) = "commit" => "verify" \in Past(t)
         /\ call[t].op \in Executions /\ Next_(t) \in Refusable => "lookup" \in Past(t)
<1>1. /\ call[t].op \in Operations /\ call[t].at \in 1 .. Len(Prog(t))
      /\ Next_(t) = Prog(t)[call[t].at]
  BY HereNext
<1>2. /\ NotBefore(Prog(t), {"plan", "commit"}, "read")
      /\ call[t].op = "execute" => After(Prog(t), "verify", {"commit"})
      /\ call[t].op \in Executions => After(Prog(t), "lookup", Refusable)
  BY <1>1, ProgramShape DEF Prog
<1>3. Next_(t) = "read" => Past(t) \intersect {"plan", "commit"} = {}
  BY <1>1, <1>2 DEF NotBefore, Past
<1>4. call[t].op = "execute" /\ Next_(t) = "commit" => "verify" \in Past(t)
  BY <1>1, <1>2 DEF After, Past
<1>5. call[t].op \in Executions /\ Next_(t) \in Refusable => "lookup" \in Past(t)
  BY <1>1, <1>2 DEF After, Past
<1> QED BY <1>3, <1>4, <1>5

LEMMA PastStep ==
  ASSUME LeaseInv, NEW t \in Threads, Running(t), NEW saw \in Nat \union {None}, Step(t, saw)
  PROVE  \/ call'[t] = Idle
         \/ /\ call'[t].op = call[t].op /\ call'[t].cmd = call[t].cmd
            /\ call'[t].known = call[t].known /\ call'[t].saw = saw
            /\ Past(t)' = Past(t) \union {Next_(t)}
<1>1. CASE call'[t] = Idle
  BY <1>1
<1>2. CASE call'[t] # Idle
  <2>1. /\ call'[t].op = call[t].op /\ call'[t].cmd = call[t].cmd
        /\ call'[t].known = call[t].known /\ call'[t].saw = saw
        /\ call'[t].at = call[t].at + 1
    BY <1>2, StepMoves
  <2>2. call[t].at \in 1 .. Len(Prog(t)) /\ Len(Prog(t)) \in Nat /\ Next_(t) = Prog(t)[call[t].at]
    BY HereNext
  <2>3. Prog(t)' = Prog(t)
    BY <2>1 DEF Prog
  <2>4. 1 .. (call[t].at + 1) - 1 = (1 .. call[t].at - 1) \union {call[t].at}
    BY <2>2
  <2> HIDE DEF Prog
  <2>5. Past(t)' = {Prog(t)[j] : j \in 1 .. (call[t].at + 1) - 1}
    BY <2>1, <2>3 DEF Past
  <2>6. Past(t)' = {Prog(t)[j] : j \in 1 .. call[t].at - 1} \union {Prog(t)[call[t].at]}
    BY <2>4, <2>5
  <2> QED BY <2>1, <2>2, <2>6 DEF Past
<1> QED BY <1>1, <1>2

LEMMA IdleView ==
  ASSUME LeaseInv', NEW t \in Threads, call'[t] = Idle
  PROVE  ViewAt(t)'
<1>1. ~Running(t)'
  BY DEF Running, Idle
<1>2. depth'[t] = 0
  BY <1>1 DEF LeaseInv, InPlace
<1>3. call'[t].saw = None /\ call'[t].known = FALSE /\ call'[t].op # "execute"
  BY GatewayAssumption DEF Idle, Operations
<1> QED BY <1>2, <1>3 DEF ViewAt, SeenAt, PlannerAt, TokenAt, KnownAt

LEMMA DoneGrows ==
  ASSUME LeaseInv, NEW c \in Commands, Done(c),
         \/ history' = history
         \/ \E d \in Commands : history' = Append(history, d)
  PROVE  Done(c)'
<1>1. history \in Seq(Commands)
  BY DEF LeaseInv, TypeOK
<1>2. PICK i \in DOMAIN history : history[i] = c
  BY DEF Done
<1>3. ASSUME NEW d \in Commands, history' = Append(history, d) PROVE Done(c)'
  <2>1. i \in 1 .. Len(history) + 1 /\ Append(history, d)[i] = c
    BY <1>1, <1>2
  <2>2. DOMAIN Append(history, d) = 1 .. Len(history) + 1
    BY <1>1
  <2> QED BY <1>3, <2>1, <2>2 DEF Done
<1> QED BY <1>3 DEF Done

\* A thread is disturbed by the others only outside of its lease, and there only by
\* commits and new attestations.
LEMMA OtherView ==
  ASSUME LeaseInv, NEW u \in Threads, ViewAt(u), call'[u] = call[u], depth'[u] = depth[u],
         depth[u] > 0 => history' = history /\ planner'[ProcOf[u]] = planner[ProcOf[u]],
         release'[ProcOf[u]] = release[ProcOf[u]], tokens \subseteq tokens',
         \/ history' = history
         \/ \E d \in Commands : history' = Append(history, d)
  PROVE  ViewAt(u)'
<1>1. Past(u)' = Past(u) /\ Prog(u)' = Prog(u)
  BY DEF Past, Prog
<1>2. SeenAt(u)'
  BY DEF ViewAt, SeenAt, Revision
<1>3. PlannerAt(u)'
  BY <1>1 DEF ViewAt, PlannerAt, Revision
<1>4. TokenAt(u)'
  BY <1>1 DEF ViewAt, TokenAt, Attested
<1>5. KnownAt(u)'
  <2>1. call[u].known => call[u].cmd \in Commands
    BY DEF LeaseInv, InPlace, Idle
  <2> QED BY <1>1, <2>1, DoneGrows DEF ViewAt, KnownAt
<1> QED BY <1>2, <1>3, <1>4, <1>5 DEF ViewAt

\* The lease keeps all other threads out.
LEMMA LeaseAlone ==
  ASSUME LeaseInv, NEW t \in Threads, NEW u \in Threads, u # t, depth[u] > 0
  PROVE  depth[t] = 0 /\ flock = u
<1>1. flock = u /\ flock # t
  BY DEF LeaseInv
<1> QED BY <1>1 DEF LeaseInv, TypeOK

LEMMA ViewOthers ==
  ASSUME LeaseInv, ViewInv, NEW t \in Threads, Work(t), NEW u \in Threads, u # t
  PROVE  ViewAt(u)'
<1>1. call'[u] = call[u] /\ depth'[u] = depth[u]
  <2>1. ASSUME End(t) PROVE call'[u] = call[u] /\ depth'[u] = depth[u]
    BY <2>1, EndInPlace
  <2>2. ASSUME NEW saw, Step(t, saw) PROVE call'[u] = call[u]
    BY <2>2 DEF Step, LeaseInv, TypeOK
  <2>3. CASE Start(t)
    BY <2>3 DEF Start, LeaseInv, TypeOK
  <2>4. CASE Enter(t) \/ Exit(t)
    BY <2>2, <2>4 DEF Enter, Exit, LeaseInv, TypeOK
  <2>5. CASE Busy(t) \/ Refuse(t) \/ Lookup(t)
    BY <2>1, <2>2, <2>5 DEF Busy, Refuse, Lookup
  <2>6. CASE Read(t) \/ Plan(t) \/ Ready(t) \/ Attest(t) \/ Verify(t) \/ Commit(t)
    BY <2>2, <2>6 DEF Read, Plan, Ready, Attest, Verify, Commit
  <2> QED BY <2>3, <2>4, <2>5, <2>6 DEF Work
<1>2. release' = release /\ tokens \subseteq tokens'
  BY DEF Work, Start, Enter, Busy, Exit, Read, Plan, Ready, Attest, Lookup, Verify,
         Commit, Refuse
<1>3. \/ history' = history
      \/ Commit(t) /\ \E d \in Commands : history' = Append(history, d)
  <2>1. CASE Commit(t)
    BY <2>1, HereNext DEF Commit, Doing
  <2>2. CASE ~Commit(t)
    BY <2>2 DEF Work, Start, Enter, Busy, Exit, Read, Plan, Ready, Attest, Lookup,
                Verify, Refuse
  <2> QED BY <2>1, <2>2
<1>4. planner' = planner \/ Read(t) \/ Plan(t) \/ (Enter(t) /\ flock = None)
  BY DEF Work, Start, Enter, Busy, Exit, Ready, Attest, Lookup, Verify, Commit, Refuse
<1>5. Commit(t) \/ Read(t) \/ Plan(t) => depth[t] > 0
  BY HereNext DEF Commit, Read, Plan, Doing, Guarded
<1>6. depth[u] > 0 => history' = history /\ planner' = planner
  <2>1. depth[u] > 0 => depth[t] = 0 /\ flock = u /\ u # None
    BY LeaseAlone, GatewayAssumption
  <2> QED BY <1>3, <1>4, <1>5, <2>1
<1> QED BY <1>1, <1>2, <1>3, <1>6, OtherView DEF ViewInv

\* A step that neither starts nor ends a call, and what it has to leave behind.
LEMMA ViewAfterStep ==
  ASSUME LeaseInv, LeaseInv', NEW t \in Threads, ViewAt(t), Running(t),
         NEW saw \in Nat \union {None}, Step(t, saw),
         saw # None => depth'[t] > 0 /\ saw = Revision',
         depth'[t] > 0 /\ (Past(t) \union {Next_(t)}) \intersect {"plan", "commit"} = {} =>
            /\ planner'[ProcOf[t]].staged = None
            /\ planner'[ProcOf[t]].rev \in {None, Revision'},
         Next_(t) = "verify" => Attested(t),
         Next_(t) = "lookup" => ~Done(call[t].cmd),
         release' = release, tokens \subseteq tokens',
         \/ history' = history
         \/ \E d \in Commands : history' = Append(history, d)
  PROVE  ViewAt(t)'
<1>1. CASE call'[t] = Idle
  BY <1>1, IdleView
<1>2. CASE call'[t] # Idle
  <2>1. /\ call'[t].op = call[t].op /\ call'[t].cmd = call[t].cmd
        /\ call'[t].known = call[t].known /\ call'[t].saw = saw
        /\ Past(t)' = Past(t) \union {Next_(t)}
    BY <1>2, PastStep
  <2>2. SeenAt(t)'
    BY <2>1 DEF SeenAt, Revision
  <2>3. PlannerAt(t)'
    BY <2>1 DEF PlannerAt, Revision
  <2>4. TokenAt(t)'
    <3>1. Attested(t) => Attested(t)'
      BY <2>1 DEF Attested
    <3> QED BY <2>1, <3>1 DEF ViewAt, TokenAt
  <2>5. KnownAt(t)'
    <3>1. call[t].cmd \in Commands
      BY HereNext
    <3>2. \A c \in Commands : Done(c) => Done(c)'
      BY DoneGrows
    <3>3. Done(call[t].cmd) => Done(call[t].cmd)'
      BY <2>1, <3>1, <3>2 DEF Done
    <3> QED BY <2>1, <3>3 DEF ViewAt, KnownAt
  <2> QED BY <2>2, <2>3, <2>4, <2>5 DEF ViewAt
<1> QED BY <1>1, <1>2

LEMMA ViewOwn ==
  ASSUME LeaseInv, LeaseInv', ViewInv, NEW t \in Threads, Work(t)
  PROVE  ViewAt(t)'
<1>1. ViewAt(t) /\ ProcOf[t] \in Procs
  BY GatewayAssumption DEF ViewInv
<1>2. ASSUME End(t) PROVE ViewAt(t)'
  <2>1. call'[t] = Idle
    BY <1>2 DEF End, LeaseInv, TypeOK
  <2> QED BY <2>1, IdleView
<1>3. CASE Start(t)
  <2>1. PICK op \in Operations, c \in Commands :
           call' = [call EXCEPT ![t] = [Idle EXCEPT !.op = op, !.cmd = c,
                                        !.known = op \in Executions /\ Done(c)]]
    BY <1>3 DEF Start
  <2>2. /\ call'[t].op = op /\ call'[t].cmd = c /\ call'[t].at = 1 /\ call'[t].saw = None
        /\ call'[t].known = (op \in Executions /\ Done(c))
    BY <2>1 DEF Idle, LeaseInv, TypeOK
  <2>3. depth'[t] = 0 /\ history' = history
    BY <1>3 DEF Start, LeaseInv, InPlace
  <2>4. Past(t)' = {}
    BY <2>2 DEF Past
  <2>5. KnownAt(t)'
    BY <2>2, <2>3, <2>4 DEF KnownAt, Done
  <2> QED BY <2>2, <2>3, <2>4, <2>5 DEF ViewAt, SeenAt, PlannerAt, TokenAt
<1>4. CASE Enter(t)
  <2>1. /\ Running(t) /\ Next_(t) = "in" /\ Step(t, None) /\ history' = history
        /\ release' = release /\ tokens' = tokens
    BY <1>4 DEF Enter, Doing
  <2>2. depth[t] \in Nat
    BY DEF LeaseInv, TypeOK
  <2>3. CASE depth[t] > 0 /\ planner' = planner
    <3>1. Past(t) \intersect {"plan", "commit"} = {} =>
             /\ planner'[ProcOf[t]].staged = None
             /\ planner'[ProcOf[t]].rev \in {None, Revision'}
      BY <1>1, <2>1, <2>3 DEF ViewAt, PlannerAt, Revision
    <3> QED BY <1>1, <2>1, <3>1, ViewAfterStep
  <2>4. CASE planner' = [planner EXCEPT ![ProcOf[t]] = Clean]
    <3>1. planner'[ProcOf[t]] = Clean
      BY <1>1, <2>4 DEF LeaseInv, TypeOK
    <3>2. planner'[ProcOf[t]].staged = None /\ planner'[ProcOf[t]].rev = None
      BY <3>1 DEF Clean
    <3> QED BY <1>1, <2>1, <3>2, ViewAfterStep
  <2> QED BY <1>4, <2>3, <2>4 DEF Enter, Fresh
<1>5. CASE Exit(t)
  <2>1. /\ Running(t) /\ Next_(t) = "out" /\ Step(t, None) /\ history' = history
        /\ release' = release /\ tokens' = tokens /\ planner' = planner
        /\ depth' = [depth EXCEPT ![t] = @ - 1]
    BY <1>5 DEF Exit, Doing
  <2>2. depth'[t] > 0 => depth[t] > 0
    BY <2>1 DEF LeaseInv, TypeOK
  <2>3. depth'[t] > 0 /\ Past(t) \intersect {"plan", "commit"} = {} =>
           /\ planner'[ProcOf[t]].staged = None
           /\ planner'[ProcOf[t]].rev \in {None, Revision'}
    BY <1>1, <2>1, <2>2 DEF ViewAt, PlannerAt, Revision
  <2> QED BY <1>1, <2>1, <2>3, ViewAfterStep
<1>6. CASE Read(t)
  <2> DEFINE p == ProcOf[t]
             seen == IF planner[p].rev = None THEN Revision ELSE planner[p].rev
  <2>1. /\ Running(t) /\ Next_(t) = "read" /\ history' = history /\ release' = release
        /\ tokens' = tokens /\ depth' = depth
        /\ planner' = [planner EXCEPT ![p].rev = seen]
        /\ Step(t, IF planner[p].staged = None THEN seen ELSE seen + 1)
    BY <1>6 DEF Read, Doing
  <2>2. depth[t] > 0
    BY <2>1, HereNext DEF Guarded
  <2>3. planner[p].staged = None /\ planner[p].rev \in {None, Revision}
    BY <1>1, <2>1, <2>2, PastShape DEF ViewAt, PlannerAt
  <2>4. seen = Revision /\ Revision \in Nat
    BY <2>3 DEF LeaseInv, TypeOK, Revision
  <2>5. planner'[p].rev = Revision /\ planner'[p].staged = None
    BY <1>1, <2>1, <2>3, <2>4 DEF LeaseInv, TypeOK
  <2>6. Step(t, Revision) /\ Revision' = Revision
    BY <2>1, <2>3, <2>4 DEF Revision
  <2> HIDE DEF seen
  <2> QED BY <1>1, <2>1, <2>2, <2>4, <2>5, <2>6, ViewAfterStep
<1>7. CASE Plan(t)
  <2>1. /\ Running(t) /\ Next_(t) = "plan" /\ history' = history /\ release' = release
        /\ tokens' = tokens /\ Step(t, None)
    BY <1>7 DEF Plan, Doing
  <2> QED BY <1>1, <2>1, ViewAfterStep
<1>8. CASE Commit(t)
  <2>1. /\ Running(t) /\ Next_(t) = "commit" /\ release' = release /\ tokens' = tokens
        /\ Step(t, None) /\ history' = Append(history, call[t].cmd)
    BY <1>8 DEF Commit, Doing
  <2>2. call[t].cmd \in Commands
    BY <2>1, HereNext
  <2> QED BY <1>1, <2>1, <2>2, ViewAfterStep
<1>9. CASE Ready(t) \/ Attest(t) \/ Verify(t)
  <2>1. /\ Running(t) /\ history' = history /\ release' = release /\ tokens \subseteq tokens'
        /\ depth' = depth /\ planner' = planner /\ Step(t, None)
        /\ Next_(t) # "lookup" /\ (Next_(t) = "verify" => Attested(t))
    BY <1>9 DEF Ready, Attest, Verify, Doing
  <2>2. depth'[t] > 0 /\ Past(t) \intersect {"plan", "commit"} = {} =>
           /\ planner'[ProcOf[t]].staged = None
           /\ planner'[ProcOf[t]].rev \in {None, Revision'}
    BY <1>1, <2>1 DEF ViewAt, PlannerAt, Revision
  <2> QED BY <1>1, <2>1, <2>2, ViewAfterStep
<1>10. CASE Lookup(t)
  <2>1. CASE End(t)
    BY <1>2, <2>1
  <2>2. CASE ~Found(t) /\ Step(t, None) /\ depth' = depth
    <3>1. /\ Running(t) /\ Next_(t) = "lookup" /\ history' = history /\ release' = release
          /\ tokens' = tokens /\ planner' = planner /\ ~Done(call[t].cmd)
      BY <1>10, <2>2 DEF Lookup, Doing, Found
    <3>2. depth'[t] > 0 /\ Past(t) \intersect {"plan", "commit"} = {} =>
             /\ planner'[ProcOf[t]].staged = None
             /\ planner'[ProcOf[t]].rev \in {None, Revision'}
      BY <1>1, <2>2, <3>1 DEF ViewAt, PlannerAt, Revision
    <3> QED BY <1>1, <2>2, <3>1, <3>2, ViewAfterStep
  <2> QED BY <1>10, <2>1, <2>2 DEF Lookup
<1>11. CASE Busy(t) \/ Refuse(t)
  BY <1>2, <1>11 DEF Busy, Refuse
<1> QED BY <1>3, <1>4, <1>5, <1>6, <1>7, <1>8, <1>9, <1>10, <1>11 DEF Work

LEMMA ViewReplace ==
  ASSUME LeaseInv, LeaseInv', ViewInv, NEW p \in Procs, Replace(p), NEW u \in Threads
  PROVE  ViewAt(u)'
<1>1. ViewAt(u) /\ history' = history /\ tokens' = tokens /\ ProcOf[u] \in Procs
  BY GatewayAssumption DEF Replace, ViewInv
<1>2. CASE ProcOf[u] = p
  <2>1. call'[u] = Idle
    BY <1>2 DEF Replace
  <2> QED BY <2>1, IdleView
<1>3. CASE ProcOf[u] # p
  <2>1. call'[u] = call[u] /\ depth'[u] = depth[u]
    BY <1>3 DEF Replace
  <2>2. planner'[ProcOf[u]] = planner[ProcOf[u]] /\ release'[ProcOf[u]] = release[ProcOf[u]]
    BY <1>1, <1>3 DEF Replace, LeaseInv, TypeOK
  <2> QED BY <1>1, <2>1, <2>2, OtherView
<1> QED BY <1>2, <1>3

LEMMA ViewStep ==
  ASSUME LeaseInv, LeaseInv', ViewInv, [Next]_vars
  PROVE  ViewInv'
<1> SUFFICES ASSUME NEW u \in Threads PROVE ViewAt(u)'
  BY DEF ViewInv
<1>1. ASSUME NEW t \in Threads, Work(t) PROVE ViewAt(u)'
  BY <1>1, ViewOwn, ViewOthers
<1>2. ASSUME NEW p \in Procs, Replace(p) PROVE ViewAt(u)'
  BY <1>2, ViewReplace
<1>3. CASE UNCHANGED vars
  BY <1>3 DEF vars, ViewInv, ViewAt, SeenAt, PlannerAt, TokenAt, KnownAt, Past, Prog,
              Revision, Attested, Done
<1> QED BY <1>1, <1>2, <1>3 DEF Next

THEOREM ViewInvariant == Spec => [](LeaseInv /\ ViewInv)
<1>1. Init => ViewInv
  BY GatewayAssumption DEF Init, ViewInv, ViewAt, SeenAt, PlannerAt, TokenAt, KnownAt,
                           Idle, Operations
<1>2. LeaseInv /\ LeaseInv' /\ ViewInv /\ [Next]_vars => ViewInv'
  BY ViewStep
<1> QED BY <1>1, <1>2, LeaseInvariant, PTL DEF Spec

\* Every public read shows the committed state of its moment, whatever previews,
\* refused commands and commits of other processes ran before it, because the first
\* section of each call starts from an empty cache (campaign_access.py).
THEOREM ReadsAreCurrent == Spec => []ReadsCurrent
<1>1. ViewInv => ReadsCurrent
  BY DEF ViewInv, ViewAt, SeenAt, ReadsCurrent
<1> QED BY <1>1, ViewInvariant, PTL

\* Whatever runs between the verification of the attestation and the commit, a
\* commit is of a command that the same release previewed, on the revision the
\* preview was of (_verify_preview_attestation and require_revision).
THEOREM PreviewedIsExecuted == Spec => ExecutedAsPreviewed
<1>1. LeaseInv /\ ViewInv =>
         \A t \in Threads : Commit(t) /\ call[t].op = "execute" =>
            /\ BaseOf[call[t].cmd] = Revision
            /\ \E k \in tokens : k.cmd = call[t].cmd /\ k.release = release[ProcOf[t]]
  <2> SUFFICES ASSUME LeaseInv, ViewInv, NEW t \in Threads, Commit(t), call[t].op = "execute"
               PROVE  /\ BaseOf[call[t].cmd] = Revision
                      /\ \E k \in tokens : k.cmd = call[t].cmd /\ k.release = release[ProcOf[t]]
    OBVIOUS
  <2>1. Running(t) /\ Next_(t) = "commit" /\ BaseOf[call[t].cmd] = Revision
    BY DEF Commit, Doing, OnBase
  <2>2. Attested(t)
    BY <2>1, PastShape DEF ViewInv, ViewAt, TokenAt
  <2> QED BY <2>1, <2>2 DEF Attested
<1> QED BY <1>1, ViewInvariant, PTL DEF ExecutedAsPreviewed

\* A command that is recorded when its call comes in is answered from its receipt and
\* never refused (lookup_receipt before every check, service_runtime.py).
THEOREM RetryIsAnswered == Spec => RetryAnswered
<1>1. LeaseInv /\ ViewInv => \A t \in Threads : Refuse(t) => ~call[t].known
  <2> SUFFICES ASSUME LeaseInv, ViewInv, NEW t \in Threads, Refuse(t), call[t].known
               PROVE  FALSE
    OBVIOUS
  <2>1. Running(t) /\ Next_(t) \in Refusable
    BY DEF Refuse, Refusable
  <2>2. call[t].op \in Executions /\ "lookup" \notin Past(t)
    BY DEF ViewInv, ViewAt, KnownAt
  <2> QED BY <2>1, <2>2, PastShape
<1> QED BY <1>1, ViewInvariant, PTL DEF RetryAnswered

=============================================================================
