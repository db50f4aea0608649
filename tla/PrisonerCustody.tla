---------------------------- MODULE PrisonerCustody ----------------------------
(***************************************************************************)
(* Prisoners of one enemy force in the hands of one captor.  A body in       *)
(* custody stays a body of its force, lent out under the name of a prisoner *)
(* group; a captive with a name keeps his own document, which points to the *)
(* group that lists him.  Group, force, population, person and the daily     *)
(* review of the scheduler are separate documents, written by commands of    *)
(* several sources: surrender, siege, battle, court, ransom, exchange.       *)
(*                                                                         *)
(* The documents are one record.  An operator that would raise clears "ok"; *)
(* a command is one step and is refused as a whole, by a check, by a daily   *)
(* review that raises in the hours it takes, or by the validation of the     *)
(* commit.  Cohorts, guards and care are ForceLedger's or left out.          *)
(***************************************************************************)
EXTENDS Naturals, FiniteSets, Functions, SequencesExt

CONSTANTS
    Captors,        \* formations of the captor
    Strength,       \* [Captors -> Nat], their bodies at the start
    Garrison,       \* bodies of the enemy's formation at the start
    Persons,        \* its leaders, outside of its bodies
    Places, Start,  \* where formations are, and are at the start
    Room,           \* [Places -> Nat]: emergency room of a place
    Ratio,          \* prisoners a body of the custodian can hold (2)
    Surrenders, Battles, Cases,     \* names for what groups come from
    Kinds,          \* of steps that are bounded
    Budgets,        \* bounds, alternative functions of Kinds
    None

ASSUME CustodyAssumption ==
    /\ Strength \in [Captors -> Nat] /\ Garrison \in Nat
    /\ Start \in Places /\ Room \in [Places -> Nat] /\ Ratio \in Nat
    /\ IsFiniteSet(Captors) /\ IsFiniteSet(Persons)
    /\ IsFiniteSet(Surrenders) /\ IsFiniteSet(Battles) /\ IsFiniteSet(Cases)
    /\ Kinds = {"surrender", "battle", "case", "offer", "move", "death", "dissolve"}
    /\ Budgets \subseteq [Kinds -> Nat] /\ Budgets # {}

\* A group is named by what it came from, a surrender of its own, or the battle or case
\* of its captures, and its first custodian.
Refs == (Surrenders \X Captors) \cup (Battles \X Captors) \cup (Cases \X Captors)
Sides == {"enemy", "captor"}
Services == {"none", "offered", "accepted"}

\* Documents of groups, formations and siege offers; None is none of them.
Groups ==
    [held : BOOLEAN, cust : Captors, at : Places, source : BOOLEAN, n : Nat, slices : Nat,
     named : SUBSET Persons, ransom : BOOLEAN, swap : Refs \cup {None}, service : Services]
Units  == [n : Nat, at : Places]
Offers == [to : Captors, n : Nat]
ASSUME NoneAssumption == None \notin Groups \cup Units \cup Offers \cup Refs

VARIABLES
    w,          \* the saved documents
    twice,      \* history: persons captured or detained while they were captives
    executed,   \* history: persons executed in custody
    left        \* bound: how many steps of each kind are still to be taken

vars == <<w, twice, executed, left>>

AtMost(n, k) == IF n < k THEN n ELSE k
Minus(n, k) == IF n > k THEN n - k ELSE 0
Refuse(x) == [x EXCEPT !.ok = FALSE]

Exists(x, g) == x.group[g] # None
Stands(x, c) == x.unit[c] # None
Captive(x, p) == x.ptr[p] # None

\* _custody_group_people.
People(x, g) == IF Exists(x, g) THEN x.group[g].n + Cardinality(x.group[g].named) ELSE 0

\* _custody_active_groups.
Active(x, g) == Exists(x, g) /\ x.group[g].held /\ People(x, g) > 0
Actives(x)   == {g \in Refs : Active(x, g)}

Total(x, S) == SumFunction([g \in S |-> People(x, g)])
GuardedBy(x, c) == Total(x, {g \in Actives(x) : x.group[g].cust = c})
HeldAt(x, l)    == Total(x, {g \in Actives(x) : x.group[g].at = l})

\* Mutant: every group may use the whole of the custodian.
UnsharedCapacity(x, c, l, g) == AtMost(Ratio * x.unit[c].n, Room[l])

\* _custody_holding_capacity, the emergency capacity for g: what the other groups have
\* left of the custodian's bodies and of the place.
Capacity(x, c, l, g) ==
    LET others == {h \in Actives(x) : h # g}
    IN AtMost(Minus(Ratio * x.unit[c].n, Total(x, {h \in others : x.group[h].cust = c})),
              Minus(Room[l], Total(x, {h \in others : x.group[h].at = l})))

Fits(x, g) ==
    /\ Stands(x, x.group[g].cust)
    /\ People(x, g) <= Capacity(x, x.group[g].cust, x.group[g].at, g)

\* Mutant: the review is put on the scheduler by the next reconciliation.
ListedLater(x) == x

\* _custody_ensure_review_host: one host routes all active groups, or there is none.
Listed(x) == [x EXCEPT !.host = Actives(x)]

\* "held" stands for the statuses held and in_transit; "source" is whether the group
\* names the force it is of.
Group(c, l, source, n) ==
    [held |-> TRUE, cust |-> c, at |-> l, source |-> source, n |-> n, slices |-> n,
     named |-> {}, ransom |-> FALSE, swap |-> None, service |-> "none"]

\* The group's document is written, whatever else becomes of it.
Wrote(x, g) == [x EXCEPT !.wrote = @ \cup {g}]

-----------------------------------------------------------------------------
(* Reducers. *)

\* _custody_detach_surrender: bodies leave the enemy's formation and are lent to g.
Detached(x, k, g) == [x EXCEPT !.foe.n = @ - k, !.lent[g] = k]

\* _custody_new_group: k bodies of the enemy's formation, as it offered them.
Surrender(x, c, k, g) ==
    LET take == AtMost(k, x.foe.n)
        held == [Detached(x, take, g) EXCEPT !.foe.to = None,
                                             !.group[g] = Group(c, x.foe.at, TRUE, take)]
    IN IF \/ ~Stands(x, c) \/ Exists(x, g) \/ take = 0
          \/ x.foe.at # x.unit[c].at
          \/ x.foe.to # c \/ k > x.foe.offered
          \/ k > Capacity(x, c, x.foe.at, g)
       THEN Refuse(x)
       ELSE IF Fits(held, g) THEN Listed(held) ELSE Refuse(x)

\* _custody_attach_named_capture.
Capture(x, p, c, g, source) ==
    LET base == IF Exists(x, g) THEN x
                ELSE [x EXCEPT !.group[g] = Group(c, x.unit[c].at, source, 0)]
        held == [base EXCEPT !.group[g].named = @ \cup {p},
                             !.ptr[p] = g, !.at[p] = x.unit[c].at]
    IN IF Fits(held, g) THEN Listed(held) ELSE Refuse(x)

\* The leaders that a battle captures, one after the other.
Captures(x, captured, c, g) ==
    LET took(p, y) == IF y.ok THEN Capture(y, p, c, g, TRUE) ELSE y
    IN FoldFunctionOnSet(took, x, [p \in Persons |-> p], captured)

\* Mutant: a release returns the bodies that once surrendered.
AllSlices(x, g) == x.group[g].slices

\* What of the slices the cohorts still hold for g.
StillHeld(x, g) == AtMost(x.group[g].slices, x.lent[g])

\* _custody_release_aggregate: the bodies are free again where the group was; a force
\* that still lends to g afterwards is not valid.
FreeBodies(x, g) ==
    LET given == IF x.group[g].n > 0 THEN StillHeld(x, g) ELSE 0
    IN [x EXCEPT !.free["enemy"] = @ + given, !.lent[g] = Minus(@, given),
                 !.group[g].n = Minus(@, given), !.group[g].held = FALSE]

\* Mutant: the documents of the people keep their custody.
PeopleLeft(x, g) == [x EXCEPT !.group[g].named = {}]

\* _custody_release_named.
FreePeople(x, g) ==
    LET named == x.group[g].named
    IN [x EXCEPT !.group[g].named = {},
                 !.ptr = [p \in Persons |-> IF p \in named THEN None ELSE @[p]],
                 !.at  = [p \in Persons |-> IF p \in named THEN x.group[g].at ELSE @[p]]]

Free(x, g) == FreePeople(FreeBodies(x, g), g)

\* _custody_kill_aggregate: dead in the group, in the force and in the population.
Kill(x, g, k) ==
    [x EXCEPT !.lent[g] = @ - k, !.group[g].n = @ - k,
              !.head["enemy"] = @ - k, !.levy["enemy"] = @ - k, !.dead = @ + k]

Closed(x, g) ==
    IF People(x, g) = 0 THEN [x EXCEPT !.group[g].held = FALSE] ELSE x

\* A group follows its custodian, and its captives with it.
Follow(x, g) ==
    LET l == x.unit[x.group[g].cust].at
        named == x.group[g].named
        moved == [x EXCEPT !.group[g].at = l,
                    !.ptr = [p \in Persons |-> IF p \in named THEN g ELSE @[p]],
                    !.at  = [p \in Persons |-> IF p \in named THEN l ELSE @[p]]]
    IN IF x.group[g].at = l THEN x ELSE IF Fits(moved, g) THEN moved ELSE Refuse(x)

\* The groups that have a custodian to follow.
Following(x, groups) == {g \in groups : Active(x, g) /\ Stands(x, x.group[g].cust)}

\* The sync after a movement takes one group after the other, in the order of their
\* hashed names.
Synced(x, order) == FoldLeft(LAMBDA y, g : IF y.ok THEN Follow(y, g) ELSE y, x, order)

-----------------------------------------------------------------------------
(* The daily review, and how a command ends. *)

Due(x)  == {g \in x.host : x.group[g].held}
Kept(x) == {g \in Due(x) : People(x, g) > 0}

\* A review assesses the capacity, and raises when the custodian is gone.
Reviewable(x) == \A g \in Kept(x) : Stands(x, x.group[g].cust)

Deaths(x) == {d \in [Kept(x) -> 0..1] : \A g \in Kept(x) : d[g] > 0 => x.group[g].n > 1}

\* An offer of service that is old enough is decided; a refused one is as none.
Decided(service) == IF service = "offered" THEN {"offered", "accepted", "none"} ELSE {service}

\* _custody_daily_review of every routed group; some may have died of want.
Reviewed(x, dead, service) ==
    LET lost == SumFunctionOnSet(dead, Kept(x))
    IN [x EXCEPT
         !.group = [g \in Refs |->
            IF g \notin Due(x) THEN x.group[g]
            ELSE IF g \notin Kept(x) THEN [x.group[g] EXCEPT !.held = FALSE]
            ELSE [x.group[g] EXCEPT !.n = @ - dead[g], !.service = service[g]]],
         !.lent = [g \in Refs |-> IF g \in Kept(x) THEN x.lent[g] - dead[g] ELSE x.lent[g]],
         !.head["enemy"] = @ - lost, !.levy["enemy"] = @ - lost, !.dead = @ + lost,
         !.wrote = @ \cup Due(x)]

\* What the hours of a command make of x: they may hold a daily review.
Hours(x) ==
    {x} \cup
    IF ~x.ok \/ Due(x) = {} \/ ~Reviewable(x) THEN {}
    ELSE {Reviewed(x, d, s) : d \in Deaths(x),
            s \in {t \in [Kept(x) -> {"none", "offered", "accepted"}] :
                    \A g \in Kept(x) : t[g] \in Decided(x.group[g].service)}}

\* _validate_invariants, of one group.
ValidGroup(x, g) ==
    /\ ~x.group[g].held => x.group[g].named = {}
    /\ \A p \in x.group[g].named : x.ptr[p] = g /\ x.at[p] = x.group[g].at

\* The groups written by a step from w to x, and those that persons written point to.
Touched(x) ==
    x.wrote
    \cup {g \in Refs : x.group[g] # w.group[g]}
    \cup ({x.ptr[p] : p \in {q \in Persons : \/ x.ptr[q] # w.ptr[q] \/ x.at[q] # w.at[q]
                                             \/ x.alive[q] # w.alive[q]}} \ {None})

\* The saved documents become those of x; a commit that is not valid is refused.
Commit(x) ==
    /\ x.ok
    /\ \A g \in Touched(x) : ValidGroup(x, g)
    /\ w' = [x EXCEPT !.wrote = {}]

Command(x) == \E y \in Hours(x) : Commit(y)

Spend(kind) == left[kind] > 0 /\ left' = [left EXCEPT ![kind] = @ - 1]
Same  == UNCHANGED <<twice, executed>>
Quiet == Same /\ UNCHANGED left

-----------------------------------------------------------------------------
(* Commands and callbacks. *)

Init ==
    /\ w = [group |-> [g \in Refs |-> None], lent |-> [g \in Refs |-> 0], host |-> {},
            ptr |-> [p \in Persons |-> None], at |-> [p \in Persons |-> Start],
            alive |-> [p \in Persons |-> TRUE], leads |-> Persons,
            foe |-> [n |-> Garrison, at |-> Start, to |-> None, offered |-> 0],
            siege |-> None, fought |-> {},
            unit |-> [c \in Captors |-> [n |-> Strength[c], at |-> Start]],
            free |-> [s \in Sides |-> 0],
            head |-> [enemy |-> Garrison, captor |-> SumFunction(Strength)],
            levy |-> [enemy |-> Garrison, captor |-> SumFunction(Strength)],
            dead |-> 0, wrote |-> {}, ok |-> TRUE]
    /\ twice = {} /\ executed = {} /\ left \in Budgets

\* Time passes; a reconciliation of the scheduler routes the active groups first.
Pass == (Command(w) \/ Command(Listed(w))) /\ Quiet

\* custody_action accept_surrender.
AcceptSurrender(c, k, g) ==
    Command(Surrender(w, c, k, g)) /\ Same /\ Spend("surrender")

\* siege_action offer_surrender, of all the defenders.
SiegeOffer(c) ==
    /\ w.foe.n > 0
    /\ Command([w EXCEPT !.siege = [to |-> c, n |-> w.foe.n],
                         !.foe.to = c, !.foe.offered = w.foe.n])
    /\ Same /\ Spend("offer")

\* siege_action accept_surrender_terms; parole frees the bodies at once.
SiegeAccept(i, parole) ==
    /\ w.siege # None
    /\ LET g == <<i, w.siege.to>>
           x == Surrender([w EXCEPT !.siege = None], w.siege.to, w.siege.n, g) IN
       Command(IF parole /\ x.ok THEN FreeBodies(x, g) ELSE x)
    /\ Same /\ Spend("surrender")

\* A battle that c wins: bodies lost, leaders captured, and perhaps an offer.
Battle(b, c, lost, own, captured, offered) ==
    /\ b \notin w.fought /\ Stands(w, c) /\ w.unit[c].at = w.foe.at
    /\ lost <= w.foe.n /\ own <= w.unit[c].n
    /\ captured \subseteq {p \in w.leads : w.alive[p] /\ w.at[p] = w.foe.at}
    /\ offered <= w.foe.n - lost
    /\ LET fought == [w EXCEPT
              !.fought = @ \cup {b}, !.leads = @ \ captured,
              !.foe.n = @ - lost, !.unit[c].n = @ - own,
              !.foe.to = IF offered = 0 THEN @ ELSE c,
              !.foe.offered = IF offered = 0 THEN @ ELSE offered,
              !.head = [enemy |-> @.enemy - lost, captor |-> @.captor - own],
              !.levy = [enemy |-> @.enemy - lost, captor |-> @.captor - own],
              !.dead = @ + lost + own]
           IN Commit(Captures(fought, captured, c, <<b, c>>))
    /\ twice' = twice \cup {p \in captured : Captive(w, p)}
    /\ UNCHANGED executed
    /\ Spend("battle")

\* _court_detain_person: whoever is where the custodian is, a captive too.
Detain(k, c, p) ==
    /\ Stands(w, c) /\ w.at[p] = w.unit[c].at
    /\ Command(Capture(w, p, c, <<k, c>>, FALSE))
    /\ twice' = IF w.ptr[p] \in {None, <<k, c>>} THEN twice ELSE twice \cup {p}
    /\ UNCHANGED executed
    /\ Spend("case")

\* _court_release_person.
CourtRelease(g, p) ==
    /\ Exists(w, g) /\ p \in w.group[g].named
    /\ Command(Wrote([w EXCEPT !.group[g].named = @ \ {p}, !.ptr[p] = None], g))
    /\ Quiet

\* An execution, of a sentence or by the custodian, who then closes an empty group.
Execute(g, p, sentence) ==
    /\ Exists(w, g) /\ p \in w.group[g].named
    /\ LET x == Wrote([w EXCEPT !.group[g].named = @ \ {p}, !.alive[p] = FALSE], g)
       IN Command(IF sentence THEN x ELSE Closed(x, g))
    /\ executed' = executed \cup {p}
    /\ UNCHANGED twice
    /\ Spend("death")

ExecuteBodies(g, k) ==
    /\ Exists(w, g) /\ k \in 1..w.group[g].n
    /\ Command(Wrote(Closed(Kill(w, g, k), g), g))
    /\ Same /\ Spend("death")

\* A natural death changes nothing about the custody.
Die(p) == w.alive[p] /\ Commit([w EXCEPT !.alive[p] = FALSE]) /\ Same /\ Spend("death")

\* Somebody goes elsewhere; the commit refuses it of a captive.
Travel(p, l) == w.alive[p] /\ w.at[p] # l /\ Commit([w EXCEPT !.at[p] = l]) /\ Same /\ Spend("move")

\* release and parole, of a group of any status.
Release(g) == Exists(w, g) /\ Command(Wrote(Free(w, g), g)) /\ Quiet

SetRansom(g) ==
    /\ Exists(w, g) /\ w.group[g].source
    /\ Command(Wrote([w EXCEPT !.group[g].ransom = TRUE], g))
    /\ Same /\ Spend("offer")

\* accept_ransom: an offer stands whatever has become of the group.  The silver is left
\* out.
AcceptRansom(g) ==
    /\ Exists(w, g) /\ w.group[g].source /\ w.group[g].ransom
    /\ Command(Wrote(Free([w EXCEPT !.group[g].ransom = FALSE], g), g))
    /\ Quiet

ProposeExchange(g, h) ==
    /\ Exists(w, g) /\ Exists(w, h)
    /\ w.group[g].held /\ w.group[h].held
    /\ w.group[g].at = w.group[h].at
    /\ Command(Wrote([w EXCEPT !.group[g].swap = h], g))
    /\ Same /\ Spend("offer")

AcceptExchange(g, h) ==
    /\ Exists(w, g) /\ Exists(w, h) /\ g # h /\ w.group[g].swap = h
    /\ w.group[g].at = w.group[h].at
    /\ Command(Wrote(Wrote(Free(Free([w EXCEPT !.group[g].swap = None], g), h), g), h))
    /\ Quiet

\* offer_recruitment, to bodies; captives with a name are not recruited.
OfferService(g) ==
    /\ Exists(w, g) /\ w.group[g].n > 0
    /\ Command(Wrote([w EXCEPT !.group[g].service = "offered"], g))
    /\ Same /\ Spend("offer")

\* transfer_between_forces and _custody_transfer_population_affiliation.
Enrol(x, k) ==
    [x EXCEPT !.free = [enemy |-> @.enemy - k, captor |-> @.captor + k],
              !.head = [enemy |-> @.enemy - k, captor |-> @.captor + k],
              !.levy = [enemy |-> @.enemy - k, captor |-> @.captor + k]]

\* _custody_finalize_recruitment.
Recruit(g) ==
    /\ Exists(w, g) /\ w.group[g].service = "accepted" /\ w.group[g].n > 0
    /\ LET x == FreeBodies(w, g) IN
       /\ x.group[g].n = 0
       /\ Command(Wrote([Enrol(x, w.group[g].n) EXCEPT !.group[g].slices = 0], g))
    /\ Quiet

TransferCustodian(g, c) ==
    /\ Exists(w, g) /\ Stands(w, c) /\ Stands(w, w.group[g].cust)
    /\ w.unit[c].at = w.group[g].at /\ w.unit[w.group[g].cust].at = w.group[g].at
    /\ People(w, g) <= Capacity(w, c, w.group[g].at, g)
    /\ Command(Wrote([w EXCEPT !.group[g].cust = c], g))
    /\ Quiet

\* formation_move, or the movement of the army: of the prisoners, those of c, or all,
\* follow after the hours.
Move(c, l, army) ==
    /\ Stands(w, c) /\ w.unit[c].at # l
    /\ \E x \in Hours(w) :
        LET moved == [x EXCEPT !.unit[c].at = l]
            groups == {g \in Refs : army \/ (Exists(x, g) /\ x.group[g].cust = c)}
        IN \E order \in SetToSeqs(Following(moved, groups)) : Commit(Synced(moved, order))
    /\ Same /\ Spend("move")

\* _autonomy_move_formation_step: a march by a callback of the scheduler takes no
\* prisoner along.
March(c, l) ==
    /\ Stands(w, c) /\ w.unit[c].at # l
    /\ Commit([w EXCEPT !.unit[c].at = l])
    /\ Same /\ Spend("move")

\* The same of the enemy's formation, with those who lead it.
EnemyMarch(l) ==
    /\ w.foe.at # l
    /\ Commit([w EXCEPT !.foe.at = l,
                !.at = [p \in Persons |-> IF p \in w.leads /\ w.alive[p] /\ @[p] = w.foe.at
                                         THEN l ELSE @[p]]])
    /\ Same /\ Spend("move")

\* formation_dissolve asks nothing about prisoners.
Dissolve(c) ==
    /\ Stands(w, c)
    /\ Command([w EXCEPT !.unit[c] = None, !.free["captor"] = @ + w.unit[c].n])
    /\ Same /\ Spend("dissolve")

Fight ==
    \E b \in Battles, c \in Captors, lost, own \in 0..1, captured \in SUBSET Persons,
       offered \in 0..Garrison : Battle(b, c, lost, own, captured, offered)

Take ==
    \/ \E c \in Captors, k \in 1..w.foe.offered, i \in Surrenders :
        AcceptSurrender(c, k, <<i, c>>)
    \/ \E c \in Captors : SiegeOffer(c)
    \/ \E i \in Surrenders, parole \in BOOLEAN : SiegeAccept(i, parole)
    \/ \E k \in Cases, c \in Captors, p \in Persons : Detain(k, c, p)

Settle(g) ==
    \/ \E p \in Persons : CourtRelease(g, p)
    \/ \E p \in Persons, sentence \in BOOLEAN : Execute(g, p, sentence)
    \/ \E k \in 1..Garrison : ExecuteBodies(g, k)
    \/ Release(g) \/ SetRansom(g) \/ AcceptRansom(g) \/ OfferService(g) \/ Recruit(g)
    \/ \E h \in Refs : ProposeExchange(g, h) \/ AcceptExchange(g, h)
    \/ \E c \in Captors : TransferCustodian(g, c)

Other ==
    \/ Pass
    \/ \E p \in Persons : Die(p) \/ \E l \in Places : Travel(p, l)
    \/ \E c \in Captors, l \in Places : March(c, l) \/ \E army \in BOOLEAN : Move(c, l, army)
    \/ \E l \in Places : EnemyMarch(l)
    \/ \E c \in Captors : Dissolve(c)

Next == Fight \/ Take \/ (\E g \in Refs : Settle(g)) \/ Other

Spec == Init /\ [][Next]_vars

-----------------------------------------------------------------------------

(***************************************************************************)
(* Bodies are conserved: a force's headcount is what it has free, in units   *)
(* and lent to prisoner groups, each group counts what is lent to it, the   *)
(* populations count what the forces do, and whoever left them is dead      *)
(* (prisoner_system.py 3: "Prisoner owners contain no invented bodies").    *)
(***************************************************************************)
CaptivesConserved ==
    LET lent == SumFunction(w.lent)
        Bodies(c) == IF Stands(w, c) THEN w.unit[c].n ELSE 0
        units == SumFunction([c \in Captors |-> Bodies(c)])
    IN /\ \A g \in Refs : w.lent[g] = IF Exists(w, g) THEN w.group[g].n ELSE 0
       /\ w.head["enemy"] = w.free["enemy"] + w.foe.n + lent
       /\ w.head["captor"] = w.free["captor"] + units
       /\ w.levy = w.head
       /\ w.head["enemy"] + w.head["captor"] + w.dead = Garrison + SumFunction(Strength)

(***************************************************************************)
(* A captive with a name is one fact in two documents: whoever an active     *)
(* group lists points to it and is where it is, and whoever points to a      *)
(* group is in an active one; else the next start of the service is refused  *)
(* (startup_integrity.py 186-220).  Persons detained twice and persons       *)
(* executed in custody are excepted: the code breaks the rule for them.      *)
(***************************************************************************)
NamedCustodyExact ==
    /\ \A g \in Actives(w), p \in Persons \ twice :
        p \in w.group[g].named => w.ptr[p] = g /\ w.at[p] = w.group[g].at
    /\ \A p \in Persons \ (twice \cup executed) : Captive(w, p) => Active(w, w.ptr[p])

(***************************************************************************)
(* Nobody is forgotten in custody: every active group is routed by the host  *)
(* of the daily review, and the review's write can be committed, unless the  *)
(* group lists someone detained twice (prisoner_system.py 136: "creating the *)
(* first active group recreates this host").                                *)
(***************************************************************************)
HeldAreReviewed ==
    \A g \in Actives(w) :
        g \in w.host /\ (w.group[g].named \cap twice = {} => ValidGroup(w, g))

(***************************************************************************)
(* Capacity is shared: no step that adds prisoners to a custodian or to a     *)
(* place takes all groups there together beyond what its bodies and the room *)
(* can hold (prisoner_system.py 342: "Existing groups consume the same       *)
(* custodian's guard envelope").                                             *)
(***************************************************************************)
CapacityShared ==
    [][/\ \A c \in Captors :
            GuardedBy(w', c) > GuardedBy(w, c) =>
                Stands(w', c) /\ GuardedBy(w', c) <= Ratio * w'.unit[c].n
       /\ \A l \in Places : HeldAt(w', l) > HeldAt(w, l) => HeldAt(w', l) <= Room[l]]_vars
=============================================================================
