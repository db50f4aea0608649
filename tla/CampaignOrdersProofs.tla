------------------------ MODULE CampaignOrdersProofs ------------------------
(***************************************************************************)
(* Proofs about CampaignOrders for any places, requests, rides and lengths  *)
(* of the kept lists: nobody acts on an order that was not brought, no       *)
(* mission is forgotten on the way, no decision rests on what was not heard. *)
(***************************************************************************)
EXTENDS CampaignOrders, CountingProofs, Integers

Actors   == {Wei, Superior, Army}
Statuses == {"briefed", "arrived", "waiting", "active", "postbattle"}
Phases   == {"concentration", "waiting", "arrived", "development", "postbattle"}
Matter   == ({"arrival"} \X Nat \X BOOLEAN) \cup ({"request"} \X Requests \X (Places \cup {None}))

OrderRow == [kind : Kinds, base : Nat \cup {None}, matters : SUBSET Matter, phase : Phases,
             stands : Stands, authorized : BOOLEAN, age : Nat]
DecisionRow == [order : Nat, delivery : {"pending", "transit", "delivered"},
                prior : [cur : Nat, status : Statuses, phase : Phases]]
ReportRow == [matters : SUBSET Matter, to : Places \cup {None},
              status : {"delivered", "transit", "unresolved"}, left : Int \cup {None}]
MailRow   == [order : Nat, left : Int]

Camp ==
    [orders : Seq(OrderRow), cur : Nat, status : Statuses, phase : Phases, site : Places,
     authority : BOOLEAN, learnt : SUBSET Matter, place : [Actors -> Places \cup {None}],
     cut : SUBSET Places,
     council : {"none", "summoned", "held"}, venue : Places \cup {None},
     origin : Places \cup {None}, summoned : BOOLEAN, meet : Int \cup {None}, back : Int \cup {None},
     scene : BOOLEAN, delivered : Seq(Nat), shown : Nat \cup {None},
     decisions : Seq(DecisionRow), reports : Seq(ReportRow), known : SUBSET Matter,
     mail : SUBSET MailRow, review : {"none", "due", "hosted", "reviewed"}, daily : BOOLEAN]

(***************************************************************************)
(* Lists and rows.                                                         *)
(***************************************************************************)

\* A function on the places of a list is a list.
LEMMA Mapped ==
  ASSUME NEW T, NEW U, NEW s \in Seq(T), NEW f \in [DOMAIN s -> U]
  PROVE  f \in Seq(U) /\ Len(f) = Len(s)
<1>1. DOMAIN s = 1 .. Len(s) /\ Len(s) \in Nat
  OBVIOUS
<1> QED BY <1>1

LEMMA Replaced ==
  ASSUME NEW T, NEW s \in Seq(T), NEW i \in DOMAIN s, NEW x \in T
  PROVE  [s EXCEPT ![i] = x] \in Seq(T)
OBVIOUS

LEMMA Appended ==
  ASSUME NEW T, NEW s \in Seq(T), NEW x \in T
  PROVE  /\ Append(s, x) \in Seq(T) /\ Len(Append(s, x)) = Len(s) + 1
         /\ DOMAIN Append(s, x) = DOMAIN s \cup {Len(s) + 1} /\ Len(s) + 1 \notin DOMAIN s
         /\ \A i \in DOMAIN s : Append(s, x)[i] = s[i]
         /\ Append(s, x)[Len(s) + 1] = x
<1>1. DOMAIN s = 1 .. Len(s) /\ Len(s) \in Nat /\ DOMAIN Append(s, x) = 1 .. Len(s) + 1
  OBVIOUS
<1>2. 1 .. Len(s) + 1 = 1 .. Len(s) \cup {Len(s) + 1}
  BY <1>1
<1>3. \A i \in 1 .. Len(s) : Append(s, x)[i] = s[i]
  OBVIOUS
<1> QED BY <1>1, <1>2, <1>3

\* The rows of a document.
LEMMA Rows ==
  ASSUME NEW c \in Camp
  PROVE  /\ c.orders \in Seq(OrderRow) /\ DOMAIN c.orders = 1 .. Len(c.orders) /\ Len(c.orders) \in Nat
         /\ \A o \in DOMAIN c.orders : o \in Nat /\ c.orders[o] \in OrderRow
         /\ c.decisions \in Seq(DecisionRow)
         /\ \A i \in DOMAIN c.decisions : c.decisions[i] \in DecisionRow
         /\ c.reports \in Seq(ReportRow)
         /\ \A i \in DOMAIN c.reports : c.reports[i] \in ReportRow
         /\ c.delivered \in Seq(Nat)
         /\ \A i \in DOMAIN c.delivered : c.delivered[i] \in Nat
         /\ c.mail \subseteq MailRow
<1>1. /\ c.orders \in Seq(OrderRow) /\ c.decisions \in Seq(DecisionRow)
      /\ c.reports \in Seq(ReportRow) /\ c.delivered \in Seq(Nat) /\ c.mail \subseteq MailRow
  BY DEF Camp
<1>2. DOMAIN c.orders = 1 .. Len(c.orders) /\ Len(c.orders) \in Nat
  BY <1>1
<1>3. \A o \in DOMAIN c.orders : o \in Nat /\ c.orders[o] \in OrderRow
  BY <1>1, <1>2
<1>4. /\ \A i \in DOMAIN c.decisions : c.decisions[i] \in DecisionRow
      /\ \A i \in DOMAIN c.reports : c.reports[i] \in ReportRow
      /\ \A i \in DOMAIN c.delivered : c.delivered[i] \in Nat
  BY <1>1
<1> QED BY <1>1, <1>2, <1>3, <1>4

(***************************************************************************)
(* Rewriting the current order: arrival, packet, entry authority.          *)
(***************************************************************************)

\* d is c with other standings, authorities and ages of its orders; what was issued,
\* sent, received and told is the same.
Rewritten(c, d) ==
    /\ d \in Camp
    /\ DOMAIN d.orders = DOMAIN c.orders
    /\ \A o \in DOMAIN c.orders : /\ d.orders[o].kind = c.orders[o].kind
                                   /\ d.orders[o].matters = c.orders[o].matters
    /\ d.cur = c.cur /\ d.decisions = c.decisions /\ d.delivered = c.delivered
    /\ d.mail = c.mail /\ d.reports = c.reports /\ d.known = c.known /\ d.place = c.place

LEMMA ArrivedRewrites ==
  ASSUME NEW c \in Camp, c.cur \in DOMAIN c.orders
  PROVE  Rewritten(c, Arrived(c))
<1> DEFINE os == [c.orders EXCEPT ![c.cur] = [c.orders[c.cur] EXCEPT !.stands = "done"]]
           st == IF Current(c).authorized THEN "arrived" ELSE "waiting"
           d == [c EXCEPT !.orders = os, !.status = st, !.phase = st, !.site = Destination(c),
                          !.learnt = c.learnt \union {<<"arrival", c.cur, Current(c).authorized>>}]
<1>1. c.orders[c.cur] \in OrderRow /\ c.cur \in Nat
  BY Rows
<1>2. [c.orders[c.cur] EXCEPT !.stands = "done"] \in OrderRow
  BY <1>1 DEF OrderRow, Stands
<1>3. /\ os \in Seq(OrderRow) /\ DOMAIN os = DOMAIN c.orders
      /\ \A o \in DOMAIN c.orders : os[o].kind = c.orders[o].kind /\ os[o].matters = c.orders[o].matters
  BY <1>1, <1>2, Replaced, Rows DEF OrderRow
<1>4. st \in Statuses /\ st \in Phases
  BY DEF Statuses, Phases
<1>5. Destination(c) \in Places
  BY OrdersAssumption DEF Destination
<1>6. c.learnt \union {<<"arrival", c.cur, Current(c).authorized>>} \in SUBSET Matter
  <2>1. Current(c).authorized \in BOOLEAN /\ c.learnt \subseteq Matter
    BY <1>1 DEF Current, OrderRow, Camp
  <2>2. <<"arrival", c.cur, Current(c).authorized>> \in Matter
    BY <1>1, <2>1 DEF Matter
  <2> QED BY <2>1, <2>2
<1>7. Arrived(c) = c \/ Arrived(c) = d
  BY DEF Arrived, Camp
<1> HIDE DEF os, st
<1>8. d \in Camp
  BY <1>3, <1>4, <1>5, <1>6 DEF Camp
<1>9. Rewritten(c, d)
  BY <1>3, <1>8 DEF Rewritten, Camp
<1>10. Rewritten(c, c)
  BY DEF Rewritten
<1> QED BY <1>7, <1>9, <1>10

LEMMA RewritesTwice ==
  ASSUME NEW c, NEW d, NEW e, Rewritten(c, d), Rewritten(d, e)
  PROVE  Rewritten(c, e)
BY DEF Rewritten

LEMMA BriefedRewrites ==
  ASSUME NEW c \in Camp, c.cur \in DOMAIN c.orders
  PROVE  Rewritten(c, Briefed(c))
<1> DEFINE os == [c.orders EXCEPT ![c.cur] =
                     [c.orders[c.cur] EXCEPT !.stands = "open", !.authorized = TRUE]]
           d == [c EXCEPT !.orders = os, !.status = "briefed"]
<1>1. c.orders[c.cur] \in OrderRow /\ c.cur \in Nat
  BY Rows
<1>2. [c.orders[c.cur] EXCEPT !.stands = "open", !.authorized = TRUE] \in OrderRow
  BY <1>1 DEF OrderRow, Stands
<1>3. /\ os \in Seq(OrderRow) /\ DOMAIN os = DOMAIN c.orders
      /\ \A o \in DOMAIN c.orders : os[o].kind = c.orders[o].kind /\ os[o].matters = c.orders[o].matters
  BY <1>1, <1>2, Replaced, Rows DEF OrderRow
<1>4. [c EXCEPT !.orders[c.cur].stands = "open", !.orders[c.cur].authorized = TRUE,
                !.status = "briefed"] = d
  BY <1>1, Rows DEF Camp, OrderRow
<1>5. Briefed(c) = Arrived(c) \/ Briefed(c) = Arrived(d)
  BY <1>4 DEF Briefed
<1> HIDE DEF os
<1>6. d \in Camp
  BY <1>3 DEF Camp, Statuses
<1>7. Rewritten(c, d) /\ d.cur \in DOMAIN d.orders
  BY <1>3, <1>6 DEF Rewritten, Camp
<1> HIDE DEF d
<1>8. Rewritten(c, Arrived(c)) /\ Rewritten(d, Arrived(d))
  BY <1>6, <1>7, ArrivedRewrites
<1>9. Rewritten(c, Arrived(d))
  BY <1>7, <1>8, RewritesTwice
<1> QED BY <1>5, <1>8, <1>9

LEMMA ReopenRewrites ==
  ASSUME NEW c \in Camp, c.cur \in DOMAIN c.orders
  PROVE  Rewritten(c, Reopen(c))
<1>1. Rewritten(c, c)
  BY DEF Rewritten
<1> QED BY <1>1, BriefedRewrites DEF Reopen

(***************************************************************************)
(* What an advance keeps of issue and receipt.                             *)
(***************************************************************************)

\* The missions that were decided and not yet brought have their decisions; a decision
\* that was delivered was brought, and one in transit has a courier.  The order that
\* was current when a decision was taken may become current again.
Held(c, b) ==
    /\ c.cur \in DOMAIN c.orders
    /\ c.orders[c.cur].kind = "mission" => c.cur \in b
    /\ \A i \in DOMAIN c.delivered : c.delivered[i] \in b
    /\ \A i \in DOMAIN c.decisions :
          /\ {c.decisions[i].order, c.decisions[i].prior.cur} \subseteq DOMAIN c.orders
          /\ c.orders[c.decisions[i].prior.cur].kind = "mission" => c.decisions[i].prior.cur \in b
          /\ c.decisions[i].delivery = "delivered" => c.decisions[i].order \in b
          /\ c.decisions[i].delivery = "transit" /\ c.decisions[i].order \notin b =>
                \E m \in c.mail : m.order = c.decisions[i].order
    /\ \A m \in c.mail : m.order \in DOMAIN c.orders
    /\ \A o \in DOMAIN c.orders :
          c.orders[o].kind = "mission" /\ o \notin b =>
              \E i \in DOMAIN c.decisions : c.decisions[i].order = o

\* Every matter an order rests on, and all that the superior knows, was heard.
Heard(c, h) ==
    /\ c.known \subseteq h
    /\ \A o \in DOMAIN c.orders : c.orders[o].matters \subseteq h

LEMMA RewrittenKeeps ==
  ASSUME NEW c, NEW d, Rewritten(c, d)
  PROVE  /\ \A b : Held(c, b) => Held(d, b)
         /\ \A h : Heard(c, h) => Heard(d, h)
<1>1. ASSUME NEW b, Held(c, b) PROVE Held(d, b)
  BY <1>1 DEF Held, Rewritten
<1>2. ASSUME NEW h, Heard(c, h) PROVE Heard(d, h)
  BY <1>2 DEF Heard, Rewritten
<1> QED BY <1>1, <1>2

(***************************************************************************)
(* The lists that are kept short.                                          *)
(***************************************************************************)

\* A list that was pruned has rows of the list only, all that are not old, and its last.
LEMMA Retained ==
  ASSUME NEW T, NEW rows \in Seq(T), NEW old \in SUBSET (DOMAIN rows), NEW n \in Nat \ {0}
  PROVE  LET K == RetainNew(rows, old, n) IN
         /\ K \in Seq(T)
         /\ \A k \in DOMAIN K : \E i \in DOMAIN rows : K[k] = rows[i]
         /\ \A i \in DOMAIN rows : i \notin old => \E k \in DOMAIN K : K[k] = rows[i]
         /\ Len(rows) > 0 => \E k \in DOMAIN K : K[k] = rows[Len(rows)]
<1> DEFINE S == {i \in DOMAIN rows : i \in old => Cardinality({j \in old : j >= i}) <= n}
           K == AtPlaces(rows, S)
<1>1. S \in SUBSET (DOMAIN rows) /\ DOMAIN rows = 1 .. Len(rows) /\ Len(rows) \in Nat
  OBVIOUS
<1>2. /\ K \in Seq(T)
      /\ \A k \in DOMAIN K : \E i \in S : K[k] = rows[i]
      /\ \A i \in S : \E k \in DOMAIN K : K[k] = rows[i]
  BY <1>1, AtPlacesSeq
<1>3. ASSUME Len(rows) > 0 PROVE Len(rows) \in S
  <2> DEFINE R == {j \in old : j >= Len(rows)}
  <2>1. R \in SUBSET {Len(rows)}
    BY <1>1
  <2>2. IsFiniteSet({Len(rows)}) /\ Cardinality({Len(rows)}) = 1
    BY FS_Singleton
  <2>3. Cardinality(R) <= 1 /\ IsFiniteSet(R)
    BY <2>1, <2>2, FS_Subset
  <2>4. Cardinality(R) \in Nat
    BY <2>3, FS_CardinalityType
  <2>5. Len(rows) \in DOMAIN rows
    BY <1>1, <1>3
  <2> QED BY <2>3, <2>4, <2>5
<1>4. \A i \in DOMAIN rows : i \notin old => i \in S
  OBVIOUS
<1>5. RetainNew(rows, old, n) = K
  BY DEF RetainNew
<1> HIDE DEF S, K
<1>6. /\ \A k \in DOMAIN K : \E i \in DOMAIN rows : K[k] = rows[i]
      /\ \A i \in DOMAIN rows : i \notin old => \E k \in DOMAIN K : K[k] = rows[i]
      /\ Len(rows) > 0 => \E k \in DOMAIN K : K[k] = rows[Len(rows)]
  BY <1>1, <1>2, <1>3, <1>4
<1> QED BY <1>2, <1>5, <1>6

LEMMA ReportsKept ==
  ASSUME NEW rows \in Seq(ReportRow)
  PROVE  /\ KeptReports(rows) \in Seq(ReportRow)
         /\ Len(rows) > 0 => \E k \in DOMAIN KeptReports(rows) : KeptReports(rows)[k] = rows[Len(rows)]
<1> DEFINE old == {i \in DOMAIN rows : Delivered(rows[i])}
<1>1. old \in SUBSET (DOMAIN rows) /\ RecentReports \in Nat \ {0}
  BY OrdersAssumption
<1>2. KeptReports(rows) = RetainNew(rows, old, RecentReports)
  BY DEF KeptReports
<1> HIDE DEF old
<1>3. /\ RetainNew(rows, old, RecentReports) \in Seq(ReportRow)
      /\ Len(rows) > 0 => \E k \in DOMAIN RetainNew(rows, old, RecentReports) :
                             RetainNew(rows, old, RecentReports)[k] = rows[Len(rows)]
  BY <1>1, Retained
<1> QED BY <1>2, <1>3

LEMMA DecisionsKept ==
  ASSUME NEW rows \in Seq(DecisionRow)
  PROVE  LET K == KeptDecisions(rows) IN
         /\ K \in Seq(DecisionRow)
         /\ \A k \in DOMAIN K : \E i \in DOMAIN rows : K[k] = rows[i]
         /\ \A i \in DOMAIN rows :
               rows[i].delivery # "delivered" => \E k \in DOMAIN K : K[k] = rows[i]
<1> DEFINE old == {i \in DOMAIN rows : Issued(rows[i])}
           K == RetainNew(rows, old, Recent)
<1>1. old \in SUBSET (DOMAIN rows) /\ Recent \in Nat \ {0}
  BY OrdersAssumption
<1>2. KeptDecisions(rows) = K
  BY DEF KeptDecisions
<1>3. \A i \in DOMAIN rows : rows[i].delivery # "delivered" => i \notin old
  BY DEF Issued
<1> HIDE DEF old
<1>4. /\ K \in Seq(DecisionRow)
      /\ \A k \in DOMAIN K : \E i \in DOMAIN rows : K[k] = rows[i]
  BY <1>1, Retained
<1>5. \A i \in DOMAIN rows : i \notin old => \E k \in DOMAIN K : K[k] = rows[i]
  BY <1>1, Retained
<1> HIDE DEF K
<1> QED BY <1>2, <1>3, <1>4, <1>5

LEMMA RedeliveredRows ==
  ASSUME NEW c \in Camp, NEW S, NEW how \in {"pending", "transit", "delivered"}
  PROVE  LET R == Redelivered(c, S, how) IN
         /\ R \in Seq(DecisionRow) /\ DOMAIN R = DOMAIN c.decisions
         /\ \A i \in DOMAIN c.decisions :
               /\ R[i].order = c.decisions[i].order
               /\ R[i].prior = c.decisions[i].prior
               /\ R[i].delivery = IF c.decisions[i].order \in S THEN how
                                  ELSE c.decisions[i].delivery
<1> DEFINE R == Redelivered(c, S, how)
<1>1. \A i \in DOMAIN c.decisions : c.decisions[i] \in DecisionRow
  BY Rows
<1>2. DOMAIN R = DOMAIN c.decisions
  BY DEF Redelivered
<1>3. ASSUME NEW i \in DOMAIN c.decisions
      PROVE  /\ R[i] \in DecisionRow
             /\ R[i].order = c.decisions[i].order
             /\ R[i].prior = c.decisions[i].prior
             /\ R[i].delivery = IF c.decisions[i].order \in S THEN how
                                ELSE c.decisions[i].delivery
  BY <1>1 DEF Redelivered, DecisionRow
<1>4. R \in [DOMAIN c.decisions -> DecisionRow]
  BY <1>1 DEF Redelivered, DecisionRow
<1>5. R \in Seq(DecisionRow)
  BY <1>4, Rows, Mapped
<1> QED BY <1>2, <1>3, <1>5

(***************************************************************************)
(* The steps of Prepare.                                                   *)
(***************************************************************************)

\* What every step keeps; the matters of the reports and the places apart.
Good(c, b, h) == c \in Camp /\ Held(c, b) /\ Heard(c, h)
Apart(c, d)   == d.reports = c.reports /\ d.place = c.place

LEMMA ArrivedGood ==
  ASSUME NEW c, NEW b, NEW h, Good(c, b, h)
  PROVE  Good(Arrived(c), b, h) /\ Apart(c, Arrived(c))
<1>1. Rewritten(c, Arrived(c))
  BY ArrivedRewrites DEF Good, Held
<1> QED BY <1>1, RewrittenKeeps DEF Good, Apart, Rewritten

LEMMA ReopenGood ==
  ASSUME NEW c, NEW b, NEW h, Good(c, b, h)
  PROVE  Good(Reopen(c), b, h) /\ Apart(c, Reopen(c))
<1>1. Rewritten(c, Reopen(c))
  BY ReopenRewrites DEF Good, Held
<1> QED BY <1>1, RewrittenKeeps DEF Good, Apart, Rewritten

\* d has a new decision, on the order after those of c.
Decided(c, d) ==
    /\ \A i \in DOMAIN d.decisions :
         \/ \E k \in DOMAIN c.decisions : d.decisions[i] = c.decisions[k]
         \/ /\ d.decisions[i].order = Len(c.orders) + 1
            /\ d.decisions[i].prior.cur = c.cur /\ d.decisions[i].delivery = "pending"
    /\ \A k \in DOMAIN c.decisions : c.decisions[k].delivery # "delivered" =>
         \E i \in DOMAIN d.decisions : d.decisions[i] = c.decisions[k]
    /\ \E i \in DOMAIN d.decisions : d.decisions[i].order = Len(c.orders) + 1

\* An order that is appended keeps what the others have.
LEMMA AppendedGood ==
  ASSUME NEW c, NEW b, NEW h, Good(c, b, h), NEW r \in OrderRow, r.matters \subseteq h,
         NEW d \in Camp, d.orders = Append(c.orders, r), d.delivered = c.delivered,
         d.known = c.known, d.mail = c.mail,
         d.cur = c.cur \/ (d.cur = Len(c.orders) + 1 /\ r.kind # "mission"),
         (d.decisions = c.decisions /\ r.kind # "mission") \/ Decided(c, d)
  PROVE  Good(d, b, h)
<1>1. /\ DOMAIN d.orders = DOMAIN c.orders \cup {Len(c.orders) + 1}
      /\ Len(c.orders) + 1 \notin DOMAIN c.orders
      /\ \A o \in DOMAIN c.orders : d.orders[o] = c.orders[o]
      /\ d.orders[Len(c.orders) + 1] = r
  BY Appended, Rows DEF Good
<1> DEFINE new == Len(c.orders) + 1
<1> HIDE DEF new
<1>2. Heard(d, h)
  BY <1>1 DEF Good, Heard
<1>3. d.cur \in DOMAIN d.orders /\ (d.orders[d.cur].kind = "mission" => d.cur \in b)
  BY <1>1 DEF Good, Held
<1>4. \A i \in DOMAIN d.delivered : d.delivered[i] \in b
  BY DEF Good, Held
<1>5. ASSUME NEW i \in DOMAIN d.decisions
      PROVE  /\ {d.decisions[i].order, d.decisions[i].prior.cur} \subseteq DOMAIN d.orders
             /\ d.orders[d.decisions[i].prior.cur].kind = "mission" => d.decisions[i].prior.cur \in b
             /\ d.decisions[i].delivery = "delivered" => d.decisions[i].order \in b
             /\ d.decisions[i].delivery = "transit" /\ d.decisions[i].order \notin b =>
                   \E m \in d.mail : m.order = d.decisions[i].order
  <2>0. \/ \E k \in DOMAIN c.decisions : d.decisions[i] = c.decisions[k]
        \/ /\ d.decisions[i].order = Len(c.orders) + 1
           /\ d.decisions[i].prior.cur = c.cur /\ d.decisions[i].delivery = "pending"
    BY DEF Decided
  <2>1. CASE \E k \in DOMAIN c.decisions : d.decisions[i] = c.decisions[k]
    BY <2>1, <1>1 DEF Good, Held
  <2>2. CASE /\ d.decisions[i].order = Len(c.orders) + 1
             /\ d.decisions[i].prior.cur = c.cur /\ d.decisions[i].delivery = "pending"
    BY <2>2, <1>1 DEF Good, Held
  <2> QED BY <2>0, <2>1, <2>2
<1>6. ASSUME NEW o \in DOMAIN d.orders, d.orders[o].kind = "mission", o \notin b
      PROVE  \E i \in DOMAIN d.decisions : d.decisions[i].order = o
  <2>1. CASE o \in DOMAIN c.orders
    <3>1. PICK k \in DOMAIN c.decisions : c.decisions[k].order = o
      BY <2>1, <1>1, <1>6 DEF Good, Held
    <3>2. c.decisions[k].delivery # "delivered"
      BY <3>1, <1>6 DEF Good, Held
    <3> QED BY <3>1, <3>2 DEF Decided
  <2>2. CASE o = Len(c.orders) + 1
    BY <2>2, <1>1, <1>6 DEF Decided
  <2> QED BY <2>1, <2>2, <1>1
<1>7. Held(d, b)
  <2>1. \A m \in d.mail : m.order \in DOMAIN d.orders
    BY <1>1 DEF Good, Held
  <2> QED BY <1>3, <1>4, <1>5, <1>6, <2>1 DEF Held
<1> QED BY <1>2, <1>7 DEF Good

LEMMA FollowOnGood ==
  ASSUME NEW c, NEW b, NEW h, Good(c, b, h), NEW reopened
  PROVE  Good(FollowOn(c, reopened), b, h) /\ Apart(c, FollowOn(c, reopened))
<1> DEFINE r == Order("entry", c.cur, {}, c.phase, "open", TRUE)
           os == Append(c.orders, r)
           n == Len(c.orders) + 1
           d == [c EXCEPT !.orders = os, !.cur = n]
<1>1. r \in OrderRow /\ r.kind = "entry" /\ r.matters = {}
  BY DEF Good, Camp, Order, OrderRow, Kinds, Stands
<1>2. FollowOn(c, reopened) = c \/ FollowOn(c, reopened) = d
  BY DEF FollowOn
<1>3. os \in Seq(OrderRow) /\ n \in Nat
  <2>1. c.orders \in Seq(OrderRow)
    BY Rows DEF Good
  <2> HIDE DEF r
  <2> QED BY <1>1, <2>1
<1> HIDE DEF r, os, n
<1>4. d \in Camp /\ Apart(c, d)
  BY <1>3 DEF Good, Camp, Apart
<1>5. /\ d.orders = os /\ d.cur = n /\ d.delivered = c.delivered /\ d.known = c.known
      /\ d.mail = c.mail /\ d.decisions = c.decisions
  BY DEF Good, Camp
<1> HIDE DEF d
<1>6. Good(d, b, h)
  <2>1. r.matters \subseteq h /\ r.kind # "mission"
    BY <1>1
  <2>2. d.orders = Append(c.orders, r) /\ d.cur = Len(c.orders) + 1
    BY <1>5 DEF os, n
  <2> QED BY <1>1, <1>4, <1>5, <2>1, <2>2, AppendedGood
<1> QED BY <1>2, <1>4, <1>6 DEF Apart

LEMMA ReportGood ==
  ASSUME NEW c, NEW b, NEW h, Good(c, b, h),
         \A x \in ToSet(Report(c).reports) :
            Delivered(x) /\ x.to = c.place[Superior] /\ x \notin ToSet(c.reports) => x.matters \subseteq h
  PROVE  /\ Good(Report(c), b, h) /\ Report(c).place = c.place
         /\ Report(c).reports \in Seq(ReportRow)
<1> DEFINE new == {m \in c.learnt \ (c.known \union Carried(c)) : Routable(c, m)}
           ride == Ride(c.place[Wei], c.place[Superior])
           status == IF ~Linked(c, c.place[Wei], c.place[Superior]) THEN "unresolved"
                     ELSE IF ride = 0 THEN "delivered" ELSE "transit"
           report == [matters |-> new, to |-> c.place[Superior], status |-> status,
                      left |-> IF status = "transit" THEN ride ELSE None]
           rows == Append(c.reports, report)
           known == IF status = "delivered" THEN c.known \union new ELSE c.known
           d == [c EXCEPT !.reports = KeptReports(rows), !.known = known]
<1>1. c \in Camp /\ c.reports \in Seq(ReportRow)
  BY Rows DEF Good
<1>2. Report(c) = IF new = {} THEN c ELSE d
  BY <1>1 DEF Report, Queue
<1>3. new \subseteq Matter /\ c.known \subseteq Matter /\ c.place[Superior] \in Places \cup {None}
  BY <1>1 DEF Camp, Actors
<1>4. ride \in Nat /\ status \in {"delivered", "transit", "unresolved"}
  BY OrdersAssumption DEF Ride
<1>5. report \in ReportRow
  <2> HIDE DEF new, ride, status
  <2> QED BY <1>3, <1>4 DEF ReportRow
<1>6. rows \in Seq(ReportRow) /\ Len(rows) > 0 /\ rows[Len(rows)] = report
  <2> HIDE DEF report
  <2>1. rows \in Seq(ReportRow) /\ Len(rows) = Len(c.reports) + 1 /\ Len(c.reports) \in Nat
    BY <1>1, <1>5
  <2>2. rows[Len(c.reports) + 1] = report
    BY <1>1, <1>5
  <2> QED BY <2>1, <2>2
<1>7. /\ KeptReports(rows) \in Seq(ReportRow)
      /\ \E k \in DOMAIN KeptReports(rows) : KeptReports(rows)[k] = report
  <2> HIDE DEF rows, report
  <2> QED BY <1>6, ReportsKept
<1>8. known \subseteq Matter
  <2> HIDE DEF new, status
  <2> QED BY <1>3
<1>9. /\ report.matters = new /\ report.to = c.place[Superior]
      /\ status = "delivered" => Delivered(report)
  <2> HIDE DEF new, ride, status
  <2> QED BY DEF Delivered
<1>10. new # {} => report \notin ToSet(c.reports)
  <2> HIDE DEF report, ride, status
  <2>1. ASSUME report \in ToSet(c.reports), NEW x \in new PROVE FALSE
    <3>1. x \in report.matters /\ x \notin Carried(c)
      BY <1>9, <2>1
    <3> QED BY <3>1, <2>1 DEF Carried
  <2> QED BY <2>1
<1> HIDE DEF new, report, rows, ride, status, known
<1>11. d \in Camp
  BY <1>1, <1>7, <1>8 DEF Camp
<1>12. /\ d.orders = c.orders /\ d.cur = c.cur /\ d.delivered = c.delivered
       /\ d.decisions = c.decisions /\ d.mail = c.mail /\ d.place = c.place
       /\ d.reports = KeptReports(rows) /\ d.known = known
  BY <1>1 DEF Camp
<1> HIDE DEF d
<1>13. Held(d, b)
  BY <1>12 DEF Good, Held
<1>14. ASSUME new # {} PROVE Heard(d, h)
  <2>1. Report(c) = d
    BY <1>2, <1>14
  <2>2. report \in ToSet(d.reports)
    BY <1>7, <1>12 DEF ToSet
  <2>3. status = "delivered" => new \subseteq h
    BY <2>1, <2>2, <1>9, <1>10, <1>14
  <2>4. known \subseteq h
    BY <2>3 DEF known, Good, Heard
  <2> QED BY <2>4, <1>12 DEF Good, Heard
<1> QED BY <1>1, <1>2, <1>7, <1>11, <1>12, <1>13, <1>14 DEF Good

LEMMA DecideGood ==
  ASSUME NEW c0, NEW b, NEW h, Good(c0, b, h),
         \A x \in ToSet(Decide(c0).reports) :
            Delivered(x) /\ x.to = c0.place[Superior] /\ x \notin ToSet(c0.reports) => x.matters \subseteq h
  PROVE  Good(Decide(c0), b, h) /\ Decide(c0).place = c0.place
<1> DEFINE c == Report(c0)
           mission == Order("mission", c.cur, Basis(c), c.phase, "pending", Current(c).authorized)
           row == [order |-> Len(c.orders) + 1, delivery |-> "pending",
                   prior |-> [cur |-> c.cur, status |-> c.status, phase |-> c.phase]]
           os == Append(c.orders, mission)
           ds == Append(c.decisions, row)
           d == [c EXCEPT !.orders = os, !.decisions = KeptDecisions(ds)]
<1> HIDE DEF c
<1>1. \/ Decide(c0) = c0
      \/ Decide(c0) = c
      \/ Decide(c0) = d
  BY DEF Decide, c
<1>2. CASE Decide(c0) = c0
  BY <1>2
<1>3. ASSUME Decide(c0) # c0
      PROVE  Decide(c0).reports = c.reports
  <2>1. Decide(c0) = c \/ Decide(c0) = d
    BY <1>1, <1>3
  <2>2. d.reports = c.reports
    BY DEF Report, Queue, Good, Camp, c
  <2> QED BY <2>1, <2>2
<1>4. ASSUME Decide(c0) # c0
      PROVE  Good(c, b, h) /\ c.place = c0.place
  BY <1>3, <1>4, ReportGood DEF c
<1>5. CASE Decide(c0) = c /\ Decide(c0) # c0
  BY <1>4, <1>5
<1>6. CASE Decide(c0) = d /\ Decide(c0) # c0
  <2>1. Good(c, b, h) /\ c.place = c0.place /\ c \in Camp
    BY <1>4, <1>6 DEF Good
  <2>2. /\ c.orders \in Seq(OrderRow) /\ c.decisions \in Seq(DecisionRow) /\ Len(c.orders) \in Nat
        /\ c.cur \in DOMAIN c.orders /\ c.orders[c.cur] \in OrderRow
    BY <2>1, Rows DEF Good, Held
  <2>3. mission \in OrderRow
    <3> DEFINE basis == Basis(c)
    <3>1. basis \in SUBSET Matter
      BY <2>1 DEF Basis, Camp
    <3> HIDE DEF basis
    <3>2. Order("mission", c.cur, basis, c.phase, "pending", Current(c).authorized) \in OrderRow
      BY <2>1, <2>2, <3>1 DEF Order, OrderRow, Camp, Kinds, Stands, Current
    <3> QED BY <3>2 DEF basis
  <2>4. mission.kind = "mission" /\ mission.matters \subseteq h
    BY <2>1 DEF Order, Good, Heard, Basis
  <2>5. row \in DecisionRow
    BY <2>1, <2>2 DEF DecisionRow, Camp
  <2>6. /\ row.order = Len(c.orders) + 1 /\ row.delivery = "pending" /\ row.prior.cur = c.cur
    OBVIOUS
  <2> HIDE DEF mission, row
  <2>7. os \in Seq(OrderRow) /\ ds \in Seq(DecisionRow)
    BY <2>2, <2>3, <2>5
  <2>8. /\ DOMAIN ds = DOMAIN c.decisions \cup {Len(c.decisions) + 1}
        /\ \A i \in DOMAIN c.decisions : ds[i] = c.decisions[i]
        /\ ds[Len(c.decisions) + 1] = row
    BY <2>2, <2>5, Appended
  <2> HIDE DEF ds
  <2>9. /\ KeptDecisions(ds) \in Seq(DecisionRow)
        /\ \A k \in DOMAIN KeptDecisions(ds) : \E i \in DOMAIN ds : KeptDecisions(ds)[k] = ds[i]
        /\ \A i \in DOMAIN ds : ds[i].delivery # "delivered" =>
              \E k \in DOMAIN KeptDecisions(ds) : KeptDecisions(ds)[k] = ds[i]
    BY <2>7, DecisionsKept
  <2> DEFINE K == KeptDecisions(ds)
  <2> HIDE DEF K, os
  <2>10. d \in Camp
    BY <2>1, <2>7, <2>9 DEF Camp, K
  <2>11. /\ d.orders = os /\ d.cur = c.cur /\ d.delivered = c.delivered
         /\ d.decisions = K /\ d.mail = c.mail /\ d.place = c.place /\ d.known = c.known
    BY <2>1 DEF Camp, K
  <2> HIDE DEF d
  <2>12. \A i \in DOMAIN K :
            \/ \E k \in DOMAIN c.decisions : K[i] = c.decisions[k]
            \/ /\ K[i].order = Len(c.orders) + 1
               /\ K[i].prior.cur = c.cur /\ K[i].delivery = "pending"
    <3>1. ASSUME NEW i \in DOMAIN K
          PROVE  (\E k \in DOMAIN c.decisions : K[i] = c.decisions[k]) \/ K[i] = row
      <4>1. PICK k \in DOMAIN ds : K[i] = ds[k]
        BY <2>9 DEF K
      <4> QED BY <4>1, <2>8
    <3> QED BY <3>1, <2>6
  <2>13. \A k \in DOMAIN c.decisions : c.decisions[k].delivery # "delivered" =>
            \E i \in DOMAIN K : K[i] = c.decisions[k]
    BY <2>8, <2>9 DEF K
  <2>14. \E i \in DOMAIN K : K[i].order = Len(c.orders) + 1
    BY <2>6, <2>8, <2>9 DEF K
  <2>15. d.orders = Append(c.orders, mission)
    BY <2>11 DEF os
  <2> HIDE DEF c
  <2>16. Good(d, b, h)
    <3>1. Decided(c, d)
      BY <2>11, <2>12, <2>13, <2>14 DEF Decided
    <3>2. /\ d.delivered = c.delivered /\ d.known = c.known /\ d.mail = c.mail
          /\ d.cur = c.cur
      BY <2>11
    <3> QED BY <2>1, <2>3, <2>4, <2>10, <2>15, <3>1, <3>2, AppendedGood
  <2> QED BY <1>6, <2>1, <2>11, <2>16
<1> QED BY <1>1, <1>2, <1>5, <1>6

LEMMA PendingOrders ==
  ASSUME NEW c, NEW b, NEW h, Good(c, b, h), NEW o \in Pending(c)
  PROVE  o \in DOMAIN c.orders /\ \E i \in DOMAIN c.decisions : c.decisions[i].order = o
BY DEF Pending, ToSet, Good, Held

LEMMA DemoteGood ==
  ASSUME NEW c, NEW b, NEW h, Good(c, b, h)
  PROVE  Good(Demote(c), b, h) /\ Apart(c, Demote(c))
<1> DEFINE P == Pending(c)
           prior == (CHOOSE d \in ToSet(c.decisions) : d.order = c.cur).prior
           os == [o \in DOMAIN c.orders |->
                    IF o \in P THEN Stand(c.orders[o], "pending") ELSE c.orders[o]]
           R == Redelivered(c, P, "pending")
           K == KeptDecisions(R)
           off == [c EXCEPT !.orders = os, !.decisions = K]
           shown == IF c.shown = c.cur THEN c.orders[c.cur].base ELSE c.shown
           back == [off EXCEPT !.cur = prior.cur, !.status = prior.status, !.phase = prior.phase,
                               !.shown = shown]
<1>1. c \in Camp /\ c.cur \in DOMAIN c.orders
  BY DEF Good, Held
<1>2. Demote(c) = IF c.cur \notin P THEN off ELSE back
  BY <1>1 DEF Demote, Camp
<1>3. \A o \in DOMAIN c.orders : c.orders[o] \in OrderRow
  BY <1>1, Rows
<1>4. /\ os \in Seq(OrderRow) /\ DOMAIN os = DOMAIN c.orders
      /\ \A o \in DOMAIN c.orders : os[o].kind = c.orders[o].kind /\ os[o].matters = c.orders[o].matters
  <2>1. \A o \in DOMAIN c.orders : Stand(c.orders[o], "pending") \in OrderRow
    BY <1>3 DEF Stand, OrderRow, Stands
  <2>2. os \in [DOMAIN c.orders -> OrderRow]
    BY <1>3, <2>1
  <2>3. os \in Seq(OrderRow)
    <3>1. c.orders \in Seq(OrderRow)
      BY <1>1, Rows
    <3> HIDE DEF os
    <3> QED BY <2>2, <3>1, Mapped
  <2>4. \A o \in DOMAIN c.orders : os[o].kind = c.orders[o].kind /\ os[o].matters = c.orders[o].matters
    BY <1>3 DEF Stand, OrderRow
  <2> QED BY <2>3, <2>4
<1>5. /\ R \in Seq(DecisionRow) /\ DOMAIN R = DOMAIN c.decisions
      /\ \A i \in DOMAIN c.decisions :
            /\ R[i].order = c.decisions[i].order
            /\ R[i].prior = c.decisions[i].prior
            /\ R[i].delivery = IF c.decisions[i].order \in P THEN "pending" ELSE c.decisions[i].delivery
  BY <1>1, RedeliveredRows
<1> HIDE DEF P, os, R
<1>6. /\ K \in Seq(DecisionRow)
      /\ \A k \in DOMAIN K : \E i \in DOMAIN R : K[k] = R[i]
      /\ \A i \in DOMAIN R : R[i].delivery # "delivered" => \E k \in DOMAIN K : K[k] = R[i]
  BY <1>5, DecisionsKept
<1> HIDE DEF K
<1>7. off \in Camp
  BY <1>1, <1>4, <1>6 DEF Camp
<1>8. /\ off.orders = os /\ off.decisions = K /\ off.cur = c.cur /\ off.delivered = c.delivered
      /\ off.mail = c.mail /\ off.known = c.known /\ Apart(c, off)
  BY <1>1 DEF Camp, Apart
<1> HIDE DEF off
<1>9. ASSUME NEW i \in DOMAIN K
      PROVE  /\ {K[i].order, K[i].prior.cur} \subseteq DOMAIN os
             /\ os[K[i].prior.cur].kind = "mission" => K[i].prior.cur \in b
             /\ K[i].delivery = "delivered" => K[i].order \in b
             /\ K[i].delivery = "transit" /\ K[i].order \notin b => \E m \in c.mail : m.order = K[i].order
  <2>1. PICK k \in DOMAIN c.decisions : K[i] = R[k]
    BY <1>5, <1>6
  <2>2. /\ K[i].order = c.decisions[k].order /\ K[i].prior = c.decisions[k].prior
        /\ K[i].delivery \in {"pending", c.decisions[k].delivery}
    BY <1>5, <2>1
  <2> QED BY <1>4, <2>2 DEF Good, Held
<1>10. ASSUME NEW o \in DOMAIN os, os[o].kind = "mission", o \notin b
       PROVE  \E i \in DOMAIN K : K[i].order = o
  <2>1. PICK i \in DOMAIN c.decisions : c.decisions[i].order = o
    BY <1>4, <1>10 DEF Good, Held
  <2>2. c.decisions[i].delivery # "delivered"
    BY <2>1, <1>10 DEF Good, Held
  <2>3. R[i].delivery # "delivered" /\ R[i].order = o
    BY <1>5, <2>1, <2>2
  <2> QED BY <1>5, <1>6, <2>3
<1>11. Good(off, b, h)
  <2>1. Heard(off, h)
    BY <1>4, <1>8 DEF Good, Heard
  <2>2. Held(off, b)
    BY <1>4, <1>8, <1>9, <1>10 DEF Good, Held
  <2> QED BY <1>7, <2>1, <2>2 DEF Good
<1>12. ASSUME c.cur \in P
       PROVE  Good(back, b, h) /\ Apart(c, back)
  <2>1. \E d \in ToSet(c.decisions) : d.order = c.cur
    BY <1>12 DEF P, Pending
  <2>2. PICK i \in DOMAIN c.decisions : (CHOOSE d \in ToSet(c.decisions) : d.order = c.cur) = c.decisions[i]
    BY <2>1 DEF ToSet
  <2>3. prior = c.decisions[i].prior
    BY <2>2
  <2> HIDE DEF prior
  <2>4. /\ prior.cur \in DOMAIN os /\ (os[prior.cur].kind = "mission" => prior.cur \in b)
        /\ prior.cur \in Nat /\ prior.status \in Statuses /\ prior.phase \in Phases
    <3>1. c.decisions[i] \in DecisionRow
      BY <1>1, Rows
    <3>2. prior.cur \in Nat /\ prior.status \in Statuses /\ prior.phase \in Phases
      BY <2>3, <3>1 DEF DecisionRow
    <3>3. prior.cur \in DOMAIN os /\ (os[prior.cur].kind = "mission" => prior.cur \in b)
      BY <1>4, <2>3 DEF Good, Held
    <3> QED BY <3>2, <3>3
  <2>5. shown \in Nat \cup {None}
    BY <1>1, <1>3 DEF Camp, OrderRow
  <2> HIDE DEF shown
  <2>6. back \in Camp
    BY <1>7, <2>4, <2>5 DEF Camp
  <2>7. /\ back.orders = off.orders /\ back.decisions = off.decisions /\ back.cur = prior.cur
        /\ back.delivered = off.delivered /\ back.mail = off.mail /\ back.known = off.known
        /\ Apart(off, back)
    BY <1>7 DEF Camp, Apart
  <2> HIDE DEF back
  <2>8. Held(back, b)
    BY <1>8, <1>11, <2>4, <2>7 DEF Good, Held
  <2>9. Heard(back, h)
    BY <1>11, <2>7 DEF Good, Heard
  <2> QED BY <1>8, <2>6, <2>7, <2>8, <2>9 DEF Good, Apart
<1> HIDE DEF back
<1> QED BY <1>2, <1>8, <1>11, <1>12

\* A courier more may be under way.
LEMMA DispatchedMail ==
  ASSUME NEW c \in Camp, NEW o \in DOMAIN c.orders, NEW soonest \in Nat
  PROVE  LET M == Dispatch(c, o, soonest).mail IN
         /\ Dispatch(c, o, soonest) = [c EXCEPT !.mail = M]
         /\ M \subseteq MailRow /\ c.mail \subseteq M
         /\ \A m \in M : m \in c.mail \/ m.order = o
         /\ \E m \in M : m.order = o
<1> DEFINE left == AtLeast(Less(Ride(c.place[Superior], c.place[Wei]) + Handling, c.orders[o].age), soonest)
           row == [order |-> o, left |-> left]
           M == c.mail \union {row}
<1>1. c.orders[o].age \in Nat /\ o \in Nat /\ c.mail \subseteq MailRow
  BY Rows DEF OrderRow
<1>2. Ride(c.place[Superior], c.place[Wei]) \in Nat /\ Handling \in Nat
  BY OrdersAssumption DEF Ride
<1>3. left \in Int
  BY <1>1, <1>2 DEF AtLeast, Less
<1> HIDE DEF left
<1>4. row \in MailRow /\ row.order = o
  BY <1>1, <1>3 DEF MailRow
<1>5. \/ Dispatch(c, o, soonest) = c /\ \E m \in c.mail : m.order = o
      \/ Dispatch(c, o, soonest) = [c EXCEPT !.mail = M]
  BY DEF Dispatch, left
<1> HIDE DEF row
<1>6. /\ M \subseteq MailRow /\ c.mail \subseteq M
      /\ \A m \in M : m \in c.mail \/ m.order = o
      /\ \E m \in M : m.order = o
  BY <1>1, <1>4
<1> HIDE DEF M
<1>7. CASE Dispatch(c, o, soonest) = c /\ \E m \in c.mail : m.order = o
  <2>1. c = [c EXCEPT !.mail = c.mail]
    BY DEF Camp
  <2> QED BY <1>1, <1>7, <2>1
<1>8. CASE Dispatch(c, o, soonest) = [c EXCEPT !.mail = M]
  <2>1. Dispatch(c, o, soonest).mail = M
    BY <1>8 DEF Camp
  <2> QED BY <1>6, <1>8, <2>1
<1> QED BY <1>5, <1>7, <1>8

LEMMA RoutesGood ==
  ASSUME NEW c, NEW b, NEW h, Good(c, b, h)
  PROVE  Good(Routes(c), b, h) /\ Apart(c, Routes(c))
<1> DEFINE P == Pending(c)
           M == c.mail \union UNION {Dispatch(c, o, 1).mail : o \in P}
           R == Redelivered(c, P, "transit")
           d == [c EXCEPT !.mail = M, !.decisions = R]
<1>1. c \in Camp
  BY DEF Good
<1>2. Routes(c) = c \/ Routes(c) = d
  BY <1>1 DEF Routes, Camp
<1>3. ASSUME NEW o \in P
      PROVE  LET N == Dispatch(c, o, 1).mail IN
             /\ N \subseteq MailRow
             /\ \A m \in N : m \in c.mail \/ m.order = o
             /\ \E m \in N : m.order = o
             /\ o \in DOMAIN c.orders
  <2>1. o \in DOMAIN c.orders /\ 1 \in Nat
    BY PendingOrders
  <2> QED BY <1>1, <2>1, DispatchedMail
<1>4. /\ M \subseteq MailRow /\ c.mail \subseteq M
      /\ \A m \in M : m \in c.mail \/ m.order \in DOMAIN c.orders
      /\ \A o \in P : \E m \in M : m.order = o
  <2>1. c.mail \subseteq MailRow
    BY <1>1, Rows
  <2> HIDE DEF P
  <2> QED BY <1>3, <2>1
<1>5. /\ R \in Seq(DecisionRow) /\ DOMAIN R = DOMAIN c.decisions
      /\ \A i \in DOMAIN c.decisions :
            /\ R[i].order = c.decisions[i].order
            /\ R[i].prior = c.decisions[i].prior
            /\ R[i].delivery = IF c.decisions[i].order \in P THEN "transit" ELSE c.decisions[i].delivery
  BY <1>1, RedeliveredRows
<1> HIDE DEF P, M, R
<1>6. d \in Camp
  BY <1>1, <1>4, <1>5 DEF Camp
<1>7. /\ d.orders = c.orders /\ d.decisions = R /\ d.cur = c.cur /\ d.delivered = c.delivered
      /\ d.mail = M /\ d.known = c.known /\ Apart(c, d)
  BY <1>1 DEF Camp, Apart
<1> HIDE DEF d
<1>8. ASSUME NEW i \in DOMAIN R
      PROVE  /\ {R[i].order, R[i].prior.cur} \subseteq DOMAIN c.orders
             /\ c.orders[R[i].prior.cur].kind = "mission" => R[i].prior.cur \in b
             /\ R[i].delivery = "delivered" => R[i].order \in b
             /\ R[i].delivery = "transit" /\ R[i].order \notin b => \E m \in M : m.order = R[i].order
  <2>1. CASE c.decisions[i].order \in P
    BY <1>4, <1>5, <2>1 DEF Good, Held
  <2>2. CASE c.decisions[i].order \notin P
    BY <1>4, <1>5, <2>2 DEF Good, Held
  <2> QED BY <2>1, <2>2
<1>9. ASSUME NEW o \in DOMAIN c.orders, c.orders[o].kind = "mission", o \notin b
      PROVE  \E i \in DOMAIN R : R[i].order = o
  BY <1>5, <1>9 DEF Good, Held
<1>10. \A m \in M : m.order \in DOMAIN c.orders
  BY <1>4 DEF Good, Held
<1>11. Held(d, b) /\ Heard(d, h)
  BY <1>7, <1>8, <1>9, <1>10 DEF Good, Held, Heard
<1>12. Apart(c, c)
  BY DEF Apart
<1> QED BY <1>2, <1>6, <1>7, <1>11, <1>12 DEF Good

\* Fields the orders do not depend on.
LEMMA SameOrders ==
  ASSUME NEW c, NEW b, NEW h, Good(c, b, h), NEW d \in Camp,
         d.orders = c.orders, d.decisions = c.decisions, d.cur = c.cur,
         d.delivered = c.delivered, d.known = c.known,
         c.mail \subseteq d.mail, \A m \in d.mail : m.order \in DOMAIN c.orders
  PROVE  Good(d, b, h)
BY DEF Good, Held, Heard

LEMMA EnsuredGood ==
  ASSUME NEW c, NEW b, NEW h, Good(c, b, h)
  PROVE  Good(Ensured(c), b, h) /\ Apart(c, Ensured(c))
<1> DEFINE d == [c EXCEPT !.venue = c.site]
           comes == Linked(c, c.place[Superior], c.site)
           n == IF comes THEN AtLeast(1, Ride(c.place[Superior], c.site)) ELSE 1
           e == [c EXCEPT !.council = "summoned", !.venue = c.site,
                          !.origin = c.place[Superior], !.summoned = comes, !.meet = n]
<1>1. c \in Camp /\ c.place[Superior] \in Places \cup {None} /\ c.site \in Places
  BY DEF Good, Camp, Actors
<1>2. Ensured(c) = d \/ Ensured(c) = e
  BY DEF Ensured
<1>3. n \in Int /\ comes \in BOOLEAN
  BY OrdersAssumption DEF AtLeast, Ride, Linked
<1> HIDE DEF n, comes
<1>4. d \in Camp /\ e \in Camp
  <2>1. d \in Camp
    BY <1>1 DEF Camp
  <2>2. [c EXCEPT !.council = "summoned", !.venue = c.site, !.origin = c.place[Superior]] \in Camp
    BY <1>1 DEF Camp
  <2>3. PICK f \in Camp :
          f = [c EXCEPT !.council = "summoned", !.venue = c.site, !.origin = c.place[Superior]]
    BY <2>2
  <2>4. [f EXCEPT !.summoned = comes, !.meet = n] \in Camp
    <3>1. ASSUME NEW g \in Camp PROVE [g EXCEPT !.summoned = comes] \in Camp
      BY <1>3 DEF Camp
    <3>2. ASSUME NEW g \in Camp PROVE [g EXCEPT !.meet = n] \in Camp
      BY <1>3 DEF Camp
    <3>3. [f EXCEPT !.summoned = comes] \in Camp
      BY <3>1
    <3>4. [[f EXCEPT !.summoned = comes] EXCEPT !.meet = n] \in Camp
      BY <3>2, <3>3
    <3> QED BY <3>4
  <2>5. e = [f EXCEPT !.summoned = comes, !.meet = n]
    BY <2>3
  <2> QED BY <2>1, <2>4, <2>5
<1>5. /\ d.orders = c.orders /\ d.decisions = c.decisions /\ d.cur = c.cur
      /\ d.delivered = c.delivered /\ d.known = c.known /\ d.mail = c.mail /\ Apart(c, d)
  BY <1>1 DEF Camp, Apart
<1>6. /\ e.orders = c.orders /\ e.decisions = c.decisions /\ e.cur = c.cur
      /\ e.delivered = c.delivered /\ e.known = c.known /\ e.mail = c.mail /\ Apart(c, e)
  BY <1>1 DEF Camp, Apart
<1> HIDE DEF d, e
<1>7. \A m \in c.mail : m.order \in DOMAIN c.orders
  BY DEF Good, Held
<1>8. Good(d, b, h) /\ Good(e, b, h)
  BY <1>4, <1>5, <1>6, <1>7, SameOrders
<1> QED BY <1>2, <1>5, <1>6, <1>8

LEMMA CycleGood ==
  ASSUME NEW c0, NEW b, NEW h, Good(c0, b, h)
  PROVE  Good(Cycle(c0), b, h) /\ Apart(c0, Cycle(c0))
<1> DEFINE c == Ensured(c0)
           s == IF c.cur \notin ToSet(c.delivered) THEN Dispatch(c, c.cur, 0) ELSE c
           review == IF s.review = "due" THEN "hosted" ELSE s.review
           d == [s EXCEPT !.review = review, !.daily = Daily(c)]
<1> HIDE DEF c
<1>1. Good(c, b, h) /\ Apart(c0, c)
  BY EnsuredGood DEF c
<1>2. c \in Camp /\ c.cur \in DOMAIN c.orders /\ \A m \in c.mail : m.order \in DOMAIN c.orders
  BY <1>1 DEF Good, Held
<1>3. Cycle(c0) = c \/ Cycle(c0) = d
  BY DEF Cycle, c
<1>4. /\ s \in Camp
      /\ s.orders = c.orders /\ s.decisions = c.decisions /\ s.cur = c.cur
      /\ s.delivered = c.delivered /\ s.known = c.known /\ Apart(c, s)
      /\ c.mail \subseteq s.mail /\ \A m \in s.mail : m.order \in DOMAIN c.orders
  <2>1. CASE s = c
    BY <1>2, <2>1 DEF Apart
  <2>2. CASE s = Dispatch(c, c.cur, 0)
    <3> DEFINE M == Dispatch(c, c.cur, 0).mail
    <3>0. 0 \in Nat
      OBVIOUS
    <3>1. /\ s = [c EXCEPT !.mail = M] /\ M \subseteq MailRow /\ c.mail \subseteq M
          /\ \A m \in M : m \in c.mail \/ m.order = c.cur
      BY <1>2, <2>2, <3>0, DispatchedMail
    <3> HIDE DEF M, s
    <3>2. s \in Camp
      BY <1>2, <3>1 DEF Camp
    <3>3. /\ s.orders = c.orders /\ s.decisions = c.decisions /\ s.cur = c.cur
          /\ s.delivered = c.delivered /\ s.known = c.known /\ Apart(c, s) /\ s.mail = M
      BY <1>2, <3>1 DEF Camp, Apart
    <3> QED BY <1>2, <3>1, <3>2, <3>3
  <2> QED BY <2>1, <2>2
<1> HIDE DEF s
<1>5. d \in Camp
  <2>1. review \in {"none", "due", "hosted", "reviewed"}
    BY <1>4 DEF Camp
  <2> DEFINE daily == Daily(c)
  <2>2. daily \in BOOLEAN
    BY DEF Daily
  <2> HIDE DEF review, daily
  <2>3. [s EXCEPT !.review = review, !.daily = daily] \in Camp
    BY <1>4, <2>1, <2>2 DEF Camp
  <2> QED BY <2>3 DEF daily
<1>6. /\ d.orders = s.orders /\ d.decisions = s.decisions /\ d.cur = s.cur
      /\ d.delivered = s.delivered /\ d.known = s.known /\ d.mail = s.mail /\ Apart(s, d)
  BY <1>4 DEF Camp, Apart
<1> HIDE DEF d
<1>7. Good(d, b, h)
  BY <1>1, <1>4, <1>5, <1>6, SameOrders
<1> QED BY <1>1, <1>3, <1>4, <1>6, <1>7 DEF Apart

\* A briefing settles nothing of the orders; an advance reports and decides once.
LEMMA PrepareGood ==
  ASSUME NEW c, NEW b, NEW h, Good(c, b, h),
         \A x \in ToSet(Prepare(c).reports) :
            Delivered(x) /\ x.to = c.place[Superior] /\ x \notin ToSet(c.reports) => x.matters \subseteq h
  PROVE  Good(Prepare(c), b, h) /\ Prepare(c).place = c.place
<1> DEFINE demoted  == Demote(c)
           arrived  == Arrived(Reopen(demoted))
           followed == FollowOn(arrived, Reopens(demoted))
           decided  == Decide(followed)
           routed   == Routes(Demote(decided))
<1>1. Good(demoted, b, h) /\ Apart(c, demoted)
  BY DemoteGood
<1> HIDE DEF demoted
<1>2. Good(Reopen(demoted), b, h) /\ Apart(demoted, Reopen(demoted))
  BY <1>1, ReopenGood
<1>3. Good(arrived, b, h) /\ Apart(Reopen(demoted), arrived)
  BY <1>2, ArrivedGood
<1> HIDE DEF arrived
<1>4. Good(followed, b, h) /\ Apart(arrived, followed)
  BY <1>3, FollowOnGood
<1> HIDE DEF followed
<1>5. Apart(c, followed)
  BY <1>1, <1>2, <1>3, <1>4 DEF Apart
<1> DEFINE g == h \cup UNION {x.matters : x \in ToSet(decided.reports)}
<1> HIDE DEF decided
<1>6. Good(followed, b, g) /\ \A x \in ToSet(decided.reports) : x.matters \subseteq g
  <2>1. Good(followed, b, g)
    BY <1>4 DEF Good, Heard
  <2>2. \A x \in ToSet(decided.reports) : x.matters \subseteq g
    OBVIOUS
  <2> QED BY <2>1, <2>2
<1> HIDE DEF g
<1>7. Good(decided, b, g) /\ decided.place = c.place
  <2>1. Good(decided, b, g) /\ decided.place = followed.place
    BY <1>6, DecideGood DEF decided
  <2> QED BY <1>5, <2>1 DEF Apart
<1>8. Good(Demote(decided), b, g) /\ Apart(decided, Demote(decided))
  BY <1>7, DemoteGood
<1>9. Good(routed, b, g) /\ Apart(Demote(decided), routed)
  BY <1>8, RoutesGood
<1> HIDE DEF routed
<1>10. Good(Reopen(routed), b, g) /\ Apart(routed, Reopen(routed))
  BY <1>9, ReopenGood
<1>11. Apart(Reopen(routed), Cycle(Reopen(routed)))
  BY <1>10, CycleGood
<1>12. Prepare(c) = Cycle(Reopen(routed))
  BY DEF Prepare, routed, decided, followed, arrived, demoted
<1>13. Apart(decided, Prepare(c))
  BY <1>8, <1>9, <1>10, <1>11, <1>12 DEF Apart
<1>14. \A x \in ToSet(decided.reports) :
          Delivered(x) /\ x.to = followed.place[Superior] /\ x \notin ToSet(followed.reports)
             => x.matters \subseteq h
  BY <1>5, <1>13 DEF Apart
<1>15. Good(decided, b, h)
  BY <1>4, <1>14, DecideGood DEF decided
<1>16. Good(Demote(decided), b, h)
  BY <1>15, DemoteGood
<1>17. Good(routed, b, h)
  BY <1>16, RoutesGood DEF routed
<1>18. Good(Reopen(routed), b, h)
  BY <1>17, ReopenGood
<1>19. Good(Cycle(Reopen(routed)), b, h)
  BY <1>18, CycleGood
<1> QED BY <1>7, <1>12, <1>13, <1>19 DEF Apart

(***************************************************************************)
(* The settlements.                                                        *)
(***************************************************************************)

\* What was brought and heard only grows.
LEMMA GoodGrows ==
  ASSUME NEW c, NEW b, NEW h, NEW b2, NEW h2, b \subseteq b2, h \subseteq h2, Good(c, b, h)
  PROVE  Good(c, b2, h2)
BY DEF Good, Held, Heard

LEMMA ReceivedRows ==
  ASSUME NEW c \in Camp, NEW o \in Nat
  PROVE  /\ Received(c, o) \in Seq(Nat)
         /\ \A i \in DOMAIN Received(c, o) :
               Received(c, o)[i] = o \/ \E k \in DOMAIN c.delivered : Received(c, o)[i] = c.delivered[k]
<1> DEFINE s == Append(c.delivered, o)
           from == AtLeast(1, Less(Len(s) + 1, Recent))
           K == SubSeq(s, from, Len(s))
<1>1. /\ s \in Seq(Nat) /\ Len(s) \in Nat /\ DOMAIN s = 1 .. Len(s)
      /\ \A i \in DOMAIN s : s[i] = o \/ \E k \in DOMAIN c.delivered : s[i] = c.delivered[k]
  <2>1. c.delivered \in Seq(Nat)
    BY Rows
  <2>2. /\ s \in Seq(Nat) /\ DOMAIN s = DOMAIN c.delivered \cup {Len(c.delivered) + 1}
        /\ \A i \in DOMAIN c.delivered : s[i] = c.delivered[i]
        /\ s[Len(c.delivered) + 1] = o
    BY <2>1, Appended
  <2>3. s \in Seq(Nat)
    BY <2>2
  <2> HIDE DEF s
  <2>4. Len(s) \in Nat /\ DOMAIN s = 1 .. Len(s)
    BY <2>3
  <2> QED BY <2>2, <2>4
<1>2. Received(c, o) = c.delivered \/ Received(c, o) = K
  BY DEF Received, Newest
<1> HIDE DEF s
<1>3. from \in Nat /\ from >= 1
  BY <1>1, OrdersAssumption DEF AtLeast, Less
<1> HIDE DEF from
<1>4. K \in Seq(Nat) /\ \A i \in DOMAIN K : \E k \in DOMAIN s : K[i] = s[k]
  <2>1. K = [i \in 1 .. (Len(s) - from + 1) |-> s[i + from - 1]]
    BY <1>1, <1>3
  <2>2. \A i \in 1 .. (Len(s) - from + 1) : i + from - 1 \in DOMAIN s
    BY <1>1, <1>3
  <2>3. K \in Seq(Nat)
    BY <1>1, <1>3
  <2>4. ASSUME NEW i \in DOMAIN K PROVE \E k \in DOMAIN s : K[i] = s[k]
    <3>1. i \in 1 .. (Len(s) - from + 1) /\ K[i] = s[i + from - 1]
      BY <2>1
    <3> QED BY <2>2, <3>1
  <2> QED BY <2>3, <2>4
<1> HIDE DEF K
<1>5. \A i \in DOMAIN K : K[i] = o \/ \E k \in DOMAIN c.delivered : K[i] = c.delivered[k]
  BY <1>1, <1>4
<1> QED BY <1>2, <1>4, <1>5, Rows

LEMMA CouncilGood ==
  ASSUME NEW c, NEW b, NEW h, Good(c, b, h)
  PROVE  Good(Council(c), b \cup {c.cur}, h)
<1> DEFINE comes == \/ c.place[Superior] = c.venue
                    \/ c.summoned /\ c.place[Superior] = c.origin
           place == IF comes
                    THEN [c.place EXCEPT ![Superior] = c.venue] ELSE c.place
           got == Received(c, c.cur)
           scene == c.place[Wei] = c.venue
           d == [c EXCEPT !.place = place, !.council = "held", !.meet = None, !.back = 1,
                          !.scene = scene, !.delivered = got, !.shown = c.cur]
<1>1. c \in Camp /\ c.cur \in Nat
  BY DEF Good, Camp
<1>2. place \in [Actors -> Places \cup {None}]
  BY <1>1 DEF Camp, Actors
<1>3. /\ got \in Seq(Nat)
      /\ \A i \in DOMAIN got : got[i] = c.cur \/ \E k \in DOMAIN c.delivered : got[i] = c.delivered[k]
  BY <1>1, ReceivedRows
<1>4. scene \in BOOLEAN
  OBVIOUS
<1>5. Council(c) = d
  <2>1. [c EXCEPT !.place[Superior] = IF comes THEN c.venue ELSE @].place
          = place
    BY <1>1 DEF Camp, Actors
  <2> QED BY <1>1, <2>1 DEF Council, Camp, Actors
<1> HIDE DEF place, got, scene
<1>6. d \in Camp
  <2> DEFINE e == [c EXCEPT !.place = place, !.council = "held", !.meet = None, !.back = 1]
  <2>1. e \in Camp
    <3> DEFINE tick == 1
    <3>1. tick \in Int /\ e = [c EXCEPT !.place = place, !.council = "held", !.meet = None, !.back = tick]
      OBVIOUS
    <3> HIDE DEF e, tick
    <3> QED BY <1>1, <1>2, <3>1 DEF Camp
  <2>2. [e EXCEPT !.scene = scene, !.delivered = got, !.shown = c.cur] \in Camp
    <3> HIDE DEF e
    <3> QED BY <1>1, <1>3, <1>4, <2>1 DEF Camp
  <2>3. d = [e EXCEPT !.scene = scene, !.delivered = got, !.shown = c.cur]
    OBVIOUS
  <2> QED BY <2>2, <2>3
<1>7. /\ d.orders = c.orders /\ d.decisions = c.decisions /\ d.cur = c.cur
      /\ d.delivered = got /\ d.known = c.known /\ d.mail = c.mail
  BY <1>1 DEF Camp
<1> HIDE DEF d
<1>8. Held(d, b \cup {c.cur})
  BY <1>3, <1>7 DEF Good, Held
<1>9. Heard(d, h)
  BY <1>7 DEF Good, Heard
<1> QED BY <1>5, <1>6, <1>8, <1>9 DEF Good

LEMMA ActiveCamp ==
  ASSUME NEW c \in Camp, NEW os \in Seq(OrderRow), NEW K \in Seq(DecisionRow), NEW o \in Nat
  PROVE  [c EXCEPT !.orders = os, !.cur = o, !.status = "active", !.phase = "development",
                   !.shown = o, !.decisions = K] \in Camp
<1>1. "active" \in Statuses /\ "development" \in Phases
  BY DEF Statuses, Phases
<1> QED BY <1>1 DEF Camp

LEMMA ActivateGood ==
  ASSUME NEW c, NEW b, NEW h, Good(c, b, h), NEW o \in DOMAIN c.orders, o \in b
  PROVE  Good(Activate(c, o), b, h)
<1> DEFINE os == [c.orders EXCEPT ![o] = Stand(c.orders[o], "active")]
           R == Redelivered(c, {o}, "delivered")
           K == KeptDecisions(R)
           d == [c EXCEPT !.orders = os, !.cur = o, !.status = "active", !.phase = "development",
                          !.shown = o, !.decisions = K]
<1>1. c \in Camp /\ o \in Nat /\ c.orders[o] \in OrderRow
  BY Rows DEF Good
<1>2. Activate(c, o) = c \/ Activate(c, o) = d
  BY <1>1, Rows DEF Activate, Stand, Camp, OrderRow
<1>3. /\ os \in Seq(OrderRow) /\ DOMAIN os = DOMAIN c.orders
      /\ \A p \in DOMAIN c.orders : os[p].kind = c.orders[p].kind /\ os[p].matters = c.orders[p].matters
  <2>1. Stand(c.orders[o], "active") \in OrderRow
    BY <1>1 DEF Stand, OrderRow, Stands
  <2>2. c.orders \in Seq(OrderRow) /\ \A p \in DOMAIN c.orders : c.orders[p] \in OrderRow
    BY <1>1, Rows
  <2>3. os \in Seq(OrderRow) /\ DOMAIN os = DOMAIN c.orders
    BY <2>1, <2>2, Replaced
  <2>4. \A p \in DOMAIN c.orders : os[p].kind = c.orders[p].kind /\ os[p].matters = c.orders[p].matters
    BY <2>2 DEF Stand, OrderRow
  <2> QED BY <2>3, <2>4
<1>4. /\ R \in Seq(DecisionRow) /\ DOMAIN R = DOMAIN c.decisions
      /\ \A i \in DOMAIN c.decisions :
            /\ R[i].order = c.decisions[i].order
            /\ R[i].prior = c.decisions[i].prior
            /\ R[i].delivery = IF c.decisions[i].order \in {o} THEN "delivered" ELSE c.decisions[i].delivery
  BY <1>1, RedeliveredRows
<1> HIDE DEF os, R
<1>5. /\ K \in Seq(DecisionRow)
      /\ \A k \in DOMAIN K : \E i \in DOMAIN R : K[k] = R[i]
      /\ \A i \in DOMAIN R : R[i].delivery # "delivered" => \E k \in DOMAIN K : K[k] = R[i]
  BY <1>4, DecisionsKept
<1> HIDE DEF K
<1>6. d \in Camp
  BY <1>1, <1>3, <1>5, ActiveCamp
<1>7. /\ d.orders = os /\ d.decisions = K /\ d.cur = o /\ d.delivered = c.delivered
      /\ d.mail = c.mail /\ d.known = c.known
  BY <1>1 DEF Camp
<1> HIDE DEF d
<1>8. ASSUME NEW i \in DOMAIN K
      PROVE  /\ {K[i].order, K[i].prior.cur} \subseteq DOMAIN os
             /\ os[K[i].prior.cur].kind = "mission" => K[i].prior.cur \in b
             /\ K[i].delivery = "delivered" => K[i].order \in b
             /\ K[i].delivery = "transit" /\ K[i].order \notin b => \E m \in c.mail : m.order = K[i].order
  <2>1. PICK k \in DOMAIN c.decisions : K[i] = R[k]
    BY <1>4, <1>5
  <2>2. /\ K[i].order = c.decisions[k].order /\ K[i].prior = c.decisions[k].prior
        /\ \/ K[i].order = o /\ K[i].delivery = "delivered"
           \/ K[i].delivery = c.decisions[k].delivery
    BY <1>4, <2>1
  <2>3. /\ {K[i].order, K[i].prior.cur} \subseteq DOMAIN os
        /\ os[K[i].prior.cur].kind = "mission" => K[i].prior.cur \in b
    BY <1>3, <2>2 DEF Good, Held
  <2>4. CASE K[i].order = o /\ K[i].delivery = "delivered"
    BY <2>3, <2>4
  <2>5. CASE K[i].delivery = c.decisions[k].delivery
    BY <2>2, <2>3, <2>5 DEF Good, Held
  <2> QED BY <2>2, <2>4, <2>5
<1>9. ASSUME NEW p \in DOMAIN os, os[p].kind = "mission", p \notin b
      PROVE  \E i \in DOMAIN K : K[i].order = p
  <2>1. PICK i \in DOMAIN c.decisions : c.decisions[i].order = p
    BY <1>3, <1>9 DEF Good, Held
  <2>2. c.decisions[i].delivery # "delivered" /\ p # o
    BY <2>1, <1>9 DEF Good, Held
  <2>3. R[i].delivery # "delivered" /\ R[i].order = p
    BY <1>4, <2>1, <2>2
  <2> QED BY <1>4, <1>5, <2>3
<1>10. Heard(d, h)
  BY <1>3, <1>7 DEF Good, Heard
<1>11. Held(d, b)
  BY <1>3, <1>7, <1>8, <1>9 DEF Good, Held
<1> QED BY <1>2, <1>6, <1>10, <1>11 DEF Good

LEMMA ReceiveGood ==
  ASSUME NEW c, NEW b, NEW h, Good(c, b, h), NEW m \in c.mail
  PROVE  Good(Receive(c, m), b \cup {m.order}, h)
<1> DEFINE o == m.order
           g == b \cup {o}
           got == Received(c, o)
           mail == c.mail \ {m}
           off == [c EXCEPT !.mail = mail]
           on == [off EXCEPT !.delivered = got, !.shown = c.cur]
           mid == IF o \in ToSet(c.delivered) THEN off ELSE on
<1>1. c \in Camp /\ o \in DOMAIN c.orders /\ o \in Nat /\ c.cur \in Nat /\ mail \subseteq MailRow
  BY Rows DEF Good, Held, Camp
<1>2. Receive(c, m) = Activate(mid, o)
  BY DEF Receive, Carries
<1>3. /\ got \in Seq(Nat)
      /\ \A i \in DOMAIN got : got[i] = o \/ \E k \in DOMAIN c.delivered : got[i] = c.delivered[k]
  BY <1>1, ReceivedRows
<1>4. \A x \in c.mail : x \in mail \/ x.order = o
  OBVIOUS
<1>5. mail \subseteq c.mail
  OBVIOUS
<1> HIDE DEF got, mail, o
<1>6. off \in Camp
  BY <1>1 DEF Camp
<1>7. on \in Camp
  BY <1>1, <1>3, <1>6 DEF Camp
<1>8. /\ off.orders = c.orders /\ off.decisions = c.decisions /\ off.cur = c.cur
      /\ off.delivered = c.delivered /\ off.known = c.known /\ off.mail = mail
  BY <1>1 DEF Camp
<1>9. /\ on.orders = c.orders /\ on.decisions = c.decisions /\ on.cur = c.cur
      /\ on.delivered = got /\ on.known = c.known /\ on.mail = mail
  BY <1>1 DEF Camp
<1> HIDE DEF off, on
<1>10. ASSUME NEW d \in {off, on}
       PROVE  Good(d, g, h)
  <2>1. /\ d \in Camp
        /\ d.orders = c.orders /\ d.decisions = c.decisions /\ d.cur = c.cur
        /\ d.known = c.known /\ d.mail = mail
        /\ d.delivered \in {c.delivered, got}
    BY <1>6, <1>7, <1>8, <1>9
  <2>2. \A i \in DOMAIN d.delivered : d.delivered[i] \in g
    BY <1>3, <2>1 DEF Good, Held
  <2>3. Held(d, g)
    BY <1>4, <1>5, <2>1, <2>2 DEF Good, Held
  <2> QED BY <2>1, <2>3 DEF Good, Heard
<1>11. Good(mid, g, h) /\ mid.orders = c.orders
  BY <1>8, <1>9, <1>10
<1> HIDE DEF mid
<1>12. o \in DOMAIN mid.orders /\ o \in g
  BY <1>1, <1>11
<1> HIDE DEF g
<1>13. Good(Activate(mid, o), g, h)
  BY <1>11, <1>12, ActivateGood
<1> QED BY <1>2, <1>13 DEF g, o

LEMMA DeliverGood ==
  ASSUME NEW c, NEW b, NEW h, Good(c, b, h), NEW i \in DOMAIN c.reports
  PROVE  Good(Deliver(c, i), b, h \cup Hear(c, c.reports[i]))
<1> DEFINE r == c.reports[i]
           got == [r EXCEPT !.left = None, !.status = "delivered"]
           done == [c.reports EXCEPT ![i] = got]
           on == [c.reports EXCEPT ![i] = Forwarded(c, r)]
           g == h \cup Hear(c, r)
           known == c.known \union r.matters
           d == [c EXCEPT !.reports = KeptReports(done), !.known = known]
           e == [c EXCEPT !.reports = on]
<1>1. c \in Camp /\ c.reports \in Seq(ReportRow) /\ r \in ReportRow /\ c.place[Superior] \in Places \cup {None}
  BY Rows DEF Good, Camp, Actors
<1>2. got \in ReportRow
  BY <1>1 DEF ReportRow
<1>3. Forwarded(c, r) \in ReportRow
  <2> DEFINE n == AtLeast(1, Ride(r.to, c.place[Superior]))
  <2>1. n \in Int
    BY OrdersAssumption DEF AtLeast, Ride
  <2> HIDE DEF n
  <2> QED BY <1>1, <2>1 DEF Forwarded, ReportRow, n
<1>4. done \in Seq(ReportRow) /\ on \in Seq(ReportRow)
  <2> HIDE DEF r, got
  <2> QED BY <1>1, <1>2, <1>3, Replaced
<1>5. KeptReports(done) \in Seq(ReportRow)
  BY <1>4, ReportsKept
<1>6. known \subseteq Matter
  BY <1>1 DEF Camp, ReportRow
<1>7. Deliver(c, i) = IF Reaches(c, r) THEN d ELSE e
  BY <1>1 DEF Deliver, Camp, ReportRow
<1>8. Reaches(c, r) => known \subseteq g
  BY DEF Reaches, Hear, Good, Heard
<1> HIDE DEF r, got, done, on, known
<1>9. d \in Camp /\ e \in Camp
  BY <1>1, <1>4, <1>5, <1>6 DEF Camp
<1>10. /\ d.orders = c.orders /\ d.decisions = c.decisions /\ d.cur = c.cur
       /\ d.delivered = c.delivered /\ d.known = known /\ d.mail = c.mail
  BY <1>1 DEF Camp
<1>11. /\ e.orders = c.orders /\ e.decisions = c.decisions /\ e.cur = c.cur
       /\ e.delivered = c.delivered /\ e.known = c.known /\ e.mail = c.mail
  BY <1>1 DEF Camp
<1> HIDE DEF d, e
<1>12. Held(d, b) /\ Held(e, b)
  BY <1>10, <1>11 DEF Good, Held
<1>13. Heard(e, g)
  BY <1>11 DEF Good, Heard
<1>14. Reaches(c, r) => Heard(d, g)
  BY <1>8, <1>10 DEF Good, Heard
<1> QED BY <1>7, <1>9, <1>12, <1>13, <1>14 DEF Good, r

(***************************************************************************)
(* The invariant.                                                          *)
(***************************************************************************)

OrdersNow == Good(camp, brought, heard)

\* What an advance that is refused falls back on was right before it.
SavedInv == saved # None => Good(saved.camp, saved.brought, saved.heard)

OrdersInv == OrdersNow /\ SavedInv

LEMMA InitOrders == Init => OrdersInv
<1> SUFFICES ASSUME Init PROVE OrdersInv
  OBVIOUS
<1>1. PICK army \in {Staging, None}, superior \in Places :
        camp = [orders |-> <<Order("entry", None, {}, "concentration", "open", FALSE)>>,
                cur |-> 1, status |-> "briefed", phase |-> "concentration",
                site |-> Staging, authority |-> FALSE, learnt |-> {},
                place |-> [wei |-> Staging, superior |-> superior, army |-> army],
                cut |-> {},
                council |-> "none", venue |-> None, origin |-> None, summoned |-> FALSE,
                meet |-> None,
                back |-> None, scene |-> FALSE, delivered |-> <<>>, shown |-> None,
                decisions |-> <<>>, reports |-> <<>>, known |-> {}, mail |-> {},
                review |-> "none", daily |-> FALSE]
  BY DEF Init
<1> DEFINE row == Order("entry", None, {}, "concentration", "open", FALSE)
           place == [wei |-> Staging, superior |-> superior, army |-> army]
<1>2. row \in OrderRow /\ row.kind = "entry" /\ row.matters = {}
  BY DEF Order, OrderRow, Kinds, Phases, Stands
<1>3. place \in [Actors -> Places \cup {None}]
  BY OrdersAssumption DEF Actors, Wei, Superior, Army
<1> HIDE DEF row, place
<1>4. <<row>> \in Seq(OrderRow) /\ DOMAIN <<row>> = {1} /\ <<row>>[1] = row
  BY <1>2
<1>5. camp \in Camp
  <2>1. /\ 1 \in Nat /\ "briefed" \in Statuses /\ "concentration" \in Phases /\ Staging \in Places
        /\ <<>> \in Seq(Nat) /\ <<>> \in Seq(DecisionRow) /\ <<>> \in Seq(ReportRow)
    BY OrdersAssumption DEF Statuses, Phases
  <2> QED BY <1>1, <1>3, <1>4, <2>1 DEF Camp, row, place
<1>6. /\ camp.orders = <<row>> /\ camp.cur = 1 /\ camp.delivered = <<>> /\ camp.decisions = <<>>
      /\ camp.mail = {} /\ camp.known = {}
  BY <1>1 DEF row
<1>7. Held(camp, brought)
  BY <1>2, <1>4, <1>6 DEF Held
<1>8. Heard(camp, heard)
  BY <1>2, <1>4, <1>6 DEF Heard
<1> QED BY <1>5, <1>7, <1>8 DEF OrdersInv, OrdersNow, SavedInv, Good, Init

\* d is c but for fields the orders do not depend on.
LEMMA QuietStep ==
  ASSUME OrdersNow, camp' \in Camp, UNCHANGED <<heard, brought>>,
         camp'.orders = camp.orders, camp'.decisions = camp.decisions, camp'.cur = camp.cur,
         camp'.delivered = camp.delivered, camp'.known = camp.known, camp'.mail = camp.mail
  PROVE  OrdersNow'
BY DEF OrdersNow, Good, Held, Heard

LEMMA AskStep == OrdersNow /\ Ask => OrdersNow'
<1> SUFFICES ASSUME OrdersNow, Ask PROVE OrdersNow'
  OBVIOUS
<1>1. PICK r \in Requests :
        camp' = [camp EXCEPT !.learnt = camp.learnt \union {<<"request", r, camp.place[Wei]>>}]
  BY DEF Ask
<1> DEFINE learnt == camp.learnt \union {<<"request", r, camp.place[Wei]>>}
<1>2. camp \in Camp
  BY DEF OrdersNow, Good
<1>3. learnt \subseteq Matter
  <2>1. camp.place[Wei] \in Places \cup {None} /\ camp.learnt \subseteq Matter
    BY <1>2 DEF Camp, Actors
  <2>2. <<"request", r, camp.place[Wei]>> \in Matter
    BY <2>1 DEF Matter
  <2> QED BY <2>1, <2>2
<1> HIDE DEF learnt
<1>4. camp' = [camp EXCEPT !.learnt = learnt]
  BY <1>1 DEF learnt
<1>5. camp' \in Camp
  BY <1>2, <1>3, <1>4 DEF Camp
<1> QED BY <1>2, <1>4, <1>5, QuietStep DEF Camp, Ask

LEMMA JourneyStep == OrdersNow /\ Journey => OrdersNow'
<1> SUFFICES ASSUME OrdersNow, Journey PROVE OrdersNow'
  OBVIOUS
<1>1. PICK who \in {Wei, Superior, Army}, p \in Places : camp' = [camp EXCEPT !.place[who] = p]
  BY DEF Journey
<1> DEFINE place == [camp.place EXCEPT ![who] = p]
<1>2. camp \in Camp
  BY DEF OrdersNow, Good
<1>3. place \in [Actors -> Places \cup {None}] /\ camp' = [camp EXCEPT !.place = place]
  BY <1>1, <1>2 DEF Camp, Actors
<1> HIDE DEF place
<1>4. camp' \in Camp
  BY <1>2, <1>3 DEF Camp
<1> QED BY <1>2, <1>3, <1>4, QuietStep DEF Camp, Journey

LEMMA CrossingStep == OrdersNow /\ Crossing => OrdersNow'
<1> SUFFICES ASSUME OrdersNow, Crossing PROVE OrdersNow'
  OBVIOUS
<1>1. PICK p \in Fords : \/ camp' = [camp EXCEPT !.cut = camp.cut \union {p}]
                         \/ camp' = [camp EXCEPT !.cut = camp.cut \ {p}]
  BY DEF Crossing
<1>2. camp \in Camp /\ p \in Places
  BY OrdersAssumption DEF OrdersNow, Good
<1>3. PICK cut \in SUBSET Places : camp' = [camp EXCEPT !.cut = cut]
  <2>1. camp.cut \union {p} \in SUBSET Places /\ camp.cut \ {p} \in SUBSET Places
    BY <1>2 DEF Camp
  <2> QED BY <1>1, <2>1
<1>4. camp' \in Camp
  BY <1>2, <1>3 DEF Camp
<1> QED BY <1>2, <1>3, <1>4, QuietStep DEF Camp, Crossing

LEMMA AuthorizeStep == OrdersNow /\ Authorize => OrdersNow'
<1> SUFFICES ASSUME OrdersNow, Authorize PROVE OrdersNow'
  OBVIOUS
<1>1. camp \in Camp
  BY DEF OrdersNow, Good
<1>2. camp' \in Camp
  BY <1>1 DEF Camp, Authorize
<1> QED BY <1>1, <1>2, QuietStep DEF Camp, Authorize

LEMMA BriefStep == OrdersNow /\ (Brief \/ Review) => OrdersNow'
<1> SUFFICES ASSUME OrdersNow, Brief \/ Review PROVE OrdersNow'
  OBVIOUS
<1>1. camp \in Camp /\ camp.cur \in Nat
  BY DEF OrdersNow, Good, Camp
<1>2. CASE Brief
  <2>1. camp' \in Camp
    BY <1>1, <1>2 DEF Camp, Brief
  <2> QED BY <1>1, <1>2, <2>1, QuietStep DEF Camp, Brief
<1>3. CASE Review
  <2>1. camp' \in Camp
    BY <1>1, <1>3 DEF Camp, Review
  <2> QED BY <1>1, <1>3, <2>1, QuietStep DEF Camp, Review
<1> QED BY <1>2, <1>3

LEMMA ReturnStep == OrdersNow /\ ReturnFromCouncil => OrdersNow'
<1> SUFFICES ASSUME OrdersNow, ReturnFromCouncil PROVE OrdersNow'
  OBVIOUS
<1> DEFINE place == IF camp.place[Superior] = camp.venue
                    THEN [camp.place EXCEPT ![Superior] = camp.origin] ELSE camp.place
           tick == 1
<1>1. camp \in Camp
  BY DEF OrdersNow, Good
<1>2. place \in [Actors -> Places \cup {None}] /\ tick \in Int
  BY <1>1 DEF Camp, Actors
<1>3. \/ camp' = [camp EXCEPT !.place = place, !.back = None, !.scene = FALSE]
      \/ camp' = [camp EXCEPT !.back = tick]
  <2>1. Return(camp) = [camp EXCEPT !.place = place, !.back = None, !.scene = FALSE]
    BY <1>1 DEF Return, Camp, Actors
  <2> QED BY <2>1 DEF ReturnFromCouncil
<1> HIDE DEF place, tick
<1>4. camp' \in Camp
  <2>1. [camp EXCEPT !.place = place, !.back = None, !.scene = FALSE] \in Camp
    BY <1>1, <1>2 DEF Camp
  <2>2. [camp EXCEPT !.back = tick] \in Camp
    BY <1>1, <1>2 DEF Camp
  <2> QED BY <1>3, <2>1, <2>2
<1> QED BY <1>1, <1>3, <1>4, QuietStep DEF Camp, ReturnFromCouncil

\* The direction after a battle rests on no matter and is no mission.
LEMMA BattleStep == OrdersNow /\ Battle => OrdersNow'
<1> SUFFICES ASSUME OrdersNow, Battle PROVE OrdersNow'
  OBVIOUS
<1> DEFINE r == Order("direction", None, {}, camp.phase, "open", FALSE)
           os == Append(camp.orders, r)
           n == Len(camp.orders) + 1
<1>1. camp \in Camp /\ Good(camp, brought, heard) /\ UNCHANGED <<heard, brought>>
  BY DEF OrdersNow, Good, Battle
<1>2. r \in OrderRow /\ r.kind = "direction" /\ r.matters = {}
  BY <1>1 DEF Camp, Order, OrderRow, Kinds, Stands
<1>3. camp' = [camp EXCEPT !.orders = os, !.cur = n, !.status = "postbattle",
                           !.phase = "postbattle", !.review = "due"]
  BY <1>1 DEF Battle, Camp
<1>4. os \in Seq(OrderRow) /\ n \in Nat
  <2>1. camp.orders \in Seq(OrderRow)
    BY <1>1, Rows
  <2> HIDE DEF r
  <2> QED BY <1>2, <2>1
<1> HIDE DEF r, os, n
<1>5. camp' \in Camp
  BY <1>1, <1>3, <1>4 DEF Camp, Statuses, Phases
<1>6. /\ camp'.orders = Append(camp.orders, r) /\ camp'.cur = Len(camp.orders) + 1
      /\ camp'.delivered = camp.delivered /\ camp'.known = camp.known
      /\ camp'.mail = camp.mail /\ camp'.decisions = camp.decisions
  BY <1>1, <1>3 DEF Camp, os, n
<1>7. r.matters \subseteq heard /\ r.kind # "mission"
  BY <1>2
<1>8. Good(camp', brought, heard)
  BY <1>1, <1>2, <1>5, <1>6, <1>7, AppendedGood
<1> QED BY <1>1, <1>8 DEF OrdersNow, Good

LEMMA BeginStep == OrdersNow /\ Begin => OrdersNow'
<1> SUFFICES ASSUME OrdersNow, Begin PROVE OrdersNow'
  OBVIOUS
<1> DEFINE new == {x \in ToSet(camp'.reports) :
                     Delivered(x) /\ x.to = camp.place[Superior] /\ x \notin ToSet(camp.reports)}
<1>1. camp' = Prepare(camp) /\ heard' = heard \union UNION {r.matters : r \in new} /\ brought' = brought
  BY DEF Begin
<1>2. \A x \in new : x.matters \subseteq heard'
  BY <1>1
<1>3. Good(camp, brought, heard')
  BY <1>1, GoodGrows DEF OrdersNow
<1>4. \A x \in ToSet(Prepare(camp).reports) :
         Delivered(x) /\ x.to = camp.place[Superior] /\ x \notin ToSet(camp.reports)
           => x.matters \subseteq heard'
  BY <1>1, <1>2
<1>5. Good(Prepare(camp), brought, heard')
  BY <1>3, <1>4, PrepareGood
<1> QED BY <1>1, <1>5 DEF OrdersNow

\* An advance that is refused leaves what was saved.
LEMMA SettleStep == OrdersInv /\ Settle => OrdersNow'
<1> SUFFICES ASSUME OrdersNow, SavedInv, Settle PROVE OrdersNow'
  BY DEF OrdersInv
<1>1. CASE HoldCouncil
  <2>1. camp' = Council(camp) /\ brought' = brought \union {camp.cur} /\ heard' = heard
    BY <1>1 DEF HoldCouncil
  <2>2. Good(Council(camp), brought \cup {camp.cur}, heard)
    BY CouncilGood DEF OrdersNow
  <2> QED BY <2>1, <2>2 DEF OrdersNow
<1>2. CASE OrderArrives
  <2>1. PICK m \in camp.mail : camp' = Receive(camp, m) /\ brought' = brought \union {m.order}
    BY <1>2 DEF OrderArrives
  <2>2. Good(Receive(camp, m), brought \cup {m.order}, heard)
    BY ReceiveGood DEF OrdersNow
  <2>3. heard' = heard
    BY <1>2 DEF OrderArrives
  <2> QED BY <2>1, <2>2, <2>3 DEF OrdersNow
<1>3. CASE ReportArrives
  <2>1. PICK i \in DOMAIN camp.reports :
          camp' = Deliver(camp, i) /\ heard' = heard \union Hear(camp, camp.reports[i])
    BY <1>3 DEF ReportArrives
  <2>2. Good(Deliver(camp, i), brought, heard \union Hear(camp, camp.reports[i]))
    BY DeliverGood DEF OrdersNow
  <2>3. brought' = brought
    BY <1>3 DEF ReportArrives
  <2> QED BY <2>1, <2>2, <2>3 DEF OrdersNow
<1>4. CASE ReportFails
  BY <1>4 DEF ReportFails, SavedInv, OrdersNow
<1> QED BY <1>1, <1>2, <1>3, <1>4, ReturnStep DEF Settle

LEMMA LaterInt ==
  ASSUME NEW n \in Int \cup {None}
  PROVE  Later(n) \in Int \cup {None}
BY DEF Later

\* Time takes no courier and no decision away.
LEMMA TickStep == OrdersNow /\ Tick => OrdersNow'
<1> SUFFICES ASSUME OrdersNow, Tick PROVE OrdersNow'
  OBVIOUS
<1> DEFINE meet == Later(camp.meet)
           back == Later(camp.back)
           mail == {[m EXCEPT !.left = m.left - 1] : m \in camp.mail}
           rows == [i \in DOMAIN camp.reports |->
                      [camp.reports[i] EXCEPT !.left = Later(camp.reports[i].left)]]
           os == [o \in DOMAIN camp.orders |-> Older(camp.orders[o])]
<1>1. camp \in Camp /\ Good(camp, brought, heard) /\ UNCHANGED <<heard, brought>>
  BY DEF OrdersNow, Good, Tick
<1>2. camp' = [camp EXCEPT !.meet = meet, !.back = back, !.mail = mail, !.reports = rows, !.orders = os]
  BY <1>1 DEF Tick, Camp
<1>3. meet \in Int \cup {None} /\ back \in Int \cup {None}
  BY <1>1, LaterInt DEF Camp
<1>4. /\ mail \subseteq MailRow
      /\ \A m \in mail : \E x \in camp.mail : m.order = x.order
      /\ \A x \in camp.mail : \E m \in mail : m.order = x.order
  <2>1. \A x \in camp.mail : x \in MailRow
    BY <1>1, Rows
  <2>2. \A x \in camp.mail :
           [x EXCEPT !.left = x.left - 1] \in MailRow /\ [x EXCEPT !.left = x.left - 1].order = x.order
    BY <2>1 DEF MailRow
  <2> QED BY <2>2
<1>5. rows \in Seq(ReportRow)
  <2>1. camp.reports \in Seq(ReportRow) /\ \A i \in DOMAIN camp.reports : camp.reports[i] \in ReportRow
    BY <1>1, Rows
  <2>2. ASSUME NEW i \in DOMAIN camp.reports
        PROVE  [camp.reports[i] EXCEPT !.left = Later(camp.reports[i].left)] \in ReportRow
    <3>1. camp.reports[i].left \in Int \cup {None}
      BY <2>1 DEF ReportRow
    <3>2. Later(camp.reports[i].left) \in Int \cup {None}
      BY <3>1, LaterInt
    <3> QED BY <2>1, <3>2 DEF ReportRow
  <2>3. rows \in [DOMAIN camp.reports -> ReportRow]
    BY <2>2
  <2> HIDE DEF rows
  <2> QED BY <2>1, <2>3, Mapped
<1>6. /\ os \in Seq(OrderRow) /\ DOMAIN os = DOMAIN camp.orders
      /\ \A o \in DOMAIN camp.orders :
            os[o].kind = camp.orders[o].kind /\ os[o].matters = camp.orders[o].matters
  <2>1. camp.orders \in Seq(OrderRow) /\ \A o \in DOMAIN camp.orders : camp.orders[o] \in OrderRow
    BY <1>1, Rows
  <2>2. ASSUME NEW x \in OrderRow
        PROVE  Older(x) \in OrderRow /\ Older(x).kind = x.kind /\ Older(x).matters = x.matters
    BY DEF Older, OrderRow
  <2>3. os \in [DOMAIN camp.orders -> OrderRow]
    BY <2>1, <2>2
  <2>4. os \in Seq(OrderRow)
    <3> HIDE DEF os
    <3> QED BY <2>1, <2>3, Mapped
  <2> QED BY <2>1, <2>2, <2>4
<1> HIDE DEF meet, back, mail, rows, os
<1>7. camp' \in Camp
  BY <1>1, <1>2, <1>3, <1>4, <1>5, <1>6 DEF Camp
<1>8. /\ camp'.orders = os /\ camp'.decisions = camp.decisions /\ camp'.cur = camp.cur
      /\ camp'.delivered = camp.delivered /\ camp'.known = camp.known /\ camp'.mail = mail
  BY <1>1, <1>2 DEF Camp
<1>9. Held(camp', brought)
  <2>1. /\ camp'.cur \in DOMAIN os /\ (os[camp'.cur].kind = "mission" => camp'.cur \in brought)
        /\ \A i \in DOMAIN camp'.delivered : camp'.delivered[i] \in brought
        /\ \A m \in mail : m.order \in DOMAIN os
    BY <1>1, <1>4, <1>6, <1>8 DEF Good, Held
  <2>2. ASSUME NEW i \in DOMAIN camp.decisions
        PROVE  LET d == camp.decisions[i] IN
               /\ {d.order, d.prior.cur} \subseteq DOMAIN os
               /\ os[d.prior.cur].kind = "mission" => d.prior.cur \in brought
               /\ d.delivery = "delivered" => d.order \in brought
               /\ d.delivery = "transit" /\ d.order \notin brought => \E m \in mail : m.order = d.order
    BY <1>1, <1>4, <1>6 DEF Good, Held
  <2>3. ASSUME NEW o \in DOMAIN os, os[o].kind = "mission", o \notin brought
        PROVE  \E i \in DOMAIN camp.decisions : camp.decisions[i].order = o
    BY <1>1, <1>6, <2>3 DEF Good, Held
  <2> QED BY <1>8, <2>1, <2>2, <2>3 DEF Held
<1>10. Heard(camp', heard)
  BY <1>1, <1>6, <1>8 DEF Good, Heard
<1> QED BY <1>1, <1>7, <1>9, <1>10 DEF OrdersNow, Good

\* Only Begin saves anything, and it saves what it finds.
LEMMA SavedStep == OrdersInv /\ [Next]_vars => SavedInv'
<1> SUFFICES ASSUME OrdersNow, SavedInv, [Next]_vars PROVE SavedInv'
  BY DEF OrdersInv
<1>1. CASE Begin
  <2>1. \/ saved' = None
        \/ saved' = [camp |-> camp, heard |-> heard, brought |-> brought]
    BY <1>1 DEF Begin
  <2> QED BY <2>1 DEF SavedInv, OrdersNow
<1>2. CASE ReportFails \/ Finish
  BY <1>2 DEF ReportFails, Finish, SavedInv
<1>3. CASE UNCHANGED saved
  BY <1>3 DEF SavedInv
<1>4. Begin \/ ReportFails \/ Finish \/ UNCHANGED saved
  BY DEF Next, vars, Ask, Journey, Crossing, Authorize, Battle, Settle, HoldCouncil,
         ReturnFromCouncil, OrderArrives, ReportArrives, Brief, Review, Tick
<1> QED BY <1>1, <1>2, <1>3, <1>4

LEMMA OrdersStep == OrdersInv /\ [Next]_vars => OrdersInv'
<1> SUFFICES ASSUME OrdersInv, OrdersNow, [Next]_vars PROVE OrdersNow'
  BY SavedStep DEF OrdersInv
<1>1. CASE Finish \/ UNCHANGED vars
  BY <1>1 DEF Finish, vars, OrdersNow
<1> QED BY <1>1, AskStep, JourneyStep, CrossingStep, AuthorizeStep, BriefStep, BattleStep, BeginStep,
           SettleStep, TickStep DEF Next

LEMMA OrdersInvariant == Spec => []OrdersInv
BY InitOrders, OrdersStep, PTL DEF Spec

(***************************************************************************)
(* The operation turns to a mission only after the mission was brought: a   *)
(* decision moves no pointer, and an undelivered one that did is taken back *)
(* to a basis that was itself received.                                     *)
(***************************************************************************)
THEOREM MissionIsReceived == Spec => []MissionReceived
<1>1. OrdersInv => MissionReceived
  BY DEF OrdersInv, OrdersNow, Good, Held, MissionReceived, Current
<1> QED BY <1>1, OrdersInvariant, PTL

(***************************************************************************)
(* A mission that was not brought keeps its decision, however many were     *)
(* delivered since and pruned, and a courier while it is in transit.        *)
(***************************************************************************)
THEOREM NoMissionIsLost == Spec => []NoMissionLost
<1>1. OrdersInv => NoMissionLost
  BY DEF OrdersInv, OrdersNow, Good, Held, NoMissionLost, ToSet
<1> QED BY <1>1, OrdersInvariant, PTL

(***************************************************************************)
(* Every matter an order rests on was put before the superior where he was: *)
(* at the command post at once, or by a courier who found him there.        *)
(***************************************************************************)
THEOREM DecidedOnHeard == Spec => []DecidedOnReceived
<1>1. OrdersInv => DecidedOnReceived
  BY DEF OrdersInv, OrdersNow, Good, Heard, DecidedOnReceived, ToSet
<1> QED BY <1>1, OrdersInvariant, PTL

=============================================================================
