------------------------------ MODULE ForceLedger ------------------------------
(***************************************************************************)
(* The personnel of one state's force, kept in three documents that must    *)
(* tell the same story: the force (what is free where, what each formation  *)
(* was given), its cohort ledger (which body came from which intake), and   *)
(* the documents of the formations.                                         *)
(*                                                                         *)
(* A ledger is a record; every reducer of the source is an operator from    *)
(* ledgers to ledgers, and one that would raise clears "ok".  A command     *)
(* that writes before its hours pass is one action.  An order to a          *)
(* formation reads the document, lets its hours pass, and then puts its     *)
(* copy back: Begin and End, with the callbacks of the hours between.       *)
(* Formations keep a named commander, so that no bodies are lent to them    *)
(* for unit command (external personnel).                                   *)
(***************************************************************************)
EXTENDS Integers, FiniteSets, Functions, SequencesExt, Ranks

CONSTANTS
    Roles, Line,                \* fighting roles, the one recruits get
    Places, Home,               \* the force's own place and others
    Formations, Standing,       \* the formation of the state's blueprint,
    Target,                     \*   and its strength
    People,                     \* those who may become persons of their own
    Slots,                      \* bound: cohorts alive at a time
    Civilians, Reserve,         \* at the start: the population, free by role
    Authorized,                 \* strength the force may recruit to
    MaxOrders, MaxDead,         \* bounds: orders that let hours pass, deaths
    None

ASSUME ForceAssumption ==
    /\ Line \in Roles /\ Home \in Places /\ Standing \in Formations
    /\ Slots \subseteq Nat /\ IsFiniteSet(Slots)
    /\ Cardinality(Slots) >= Cardinality(Roles)
    /\ Civilians \in Nat /\ Target \in Nat \ {0} /\ Authorized \in Nat
    /\ MaxOrders \in Nat /\ MaxDead \in Nat
    /\ Reserve \in [Roles -> Nat]
    /\ IsFiniteSet(Roles) /\ IsFiniteSet(Places)
    /\ IsFiniteSet(Formations) /\ IsFiniteSet(People)

\* What a formation's document says of it: strength, composition, establishment, slices
\* of cohorts, place, and whether it is a lost one.
Docs == [n : Int, comp : [Roles -> Int], est : [Roles -> Int], slices : [Slots -> Nat],
         at : Places, lost : BOOLEAN]

\* Where a person may be: nowhere yet, in the force, in a formation, or out of both.
Persons == [at : Formations \cup {None, "own", "gone"}, role : Roles \cup {None}]
Cohorts == [role : Roles \cup {None}, res : [Places -> Nat], held : [Formations -> Nat]]
Ledgers ==
    [pop : Int, dead : Int, head : Int, auth : Int, free : [Roles -> [Places -> Int]],
     listed : SUBSET Formations, given : [Formations -> [n : Int, comp : [Roles -> Int]]],
     person : [People -> Persons], cohort : [Slots -> Cohorts],
     doc : [Formations -> Docs \cup {None}], ok : BOOLEAN, full : BOOLEAN]

Kinds == {"assign", "mobilize", "move", "train", "reconstitute"}
ASSUME NoneAssumption ==
    /\ None \notin Roles \cup Formations \cup Docs \cup {"own", "gone"}
    /\ None \notin [f : Formations, kind : Kinds, doc : Docs, saved : Ledgers]
    /\ {"own", "gone"} \cap Formations = {}

VARIABLES
    ledger,     \* the saved documents
    order,      \* the order whose hours pass, or None
    orders,     \* orders that were begun
    stale,      \* history: formations whose document an old copy replaced
    surprised   \* history: a step was refused for a reason not known

vars == <<ledger, order, orders, stale, surprised>>

Zero(S) == [s \in S |-> 0]
Plus(f, g) == [s \in DOMAIN f |-> f[s] + g[s]]
Less(f, g) == [s \in DOMAIN f |-> f[s] - g[s]]
Only(S, x, k) == [s \in S |-> IF s = x THEN k ELSE 0]
More(f, x, k) == Plus(f, Only(DOMAIN f, x, k))
Fewer(f, x, k) == Less(f, Only(DOMAIN f, x, k))
AtMost(n, k) == IF n < k THEN n ELSE k
Minus(n, k) == IF n > k THEN n - k ELSE 0
Total(f) == SumFunction(f)

Refuse(L) == [L EXCEPT !.ok = FALSE]
Overflow(L) == [L EXCEPT !.full = TRUE]

-----------------------------------------------------------------------------
(* The documents. *)

Blank == [role |-> None, res |-> Zero(Places), held |-> Zero(Formations)]
Cohort(role, res, held) == [role |-> role, res |-> res, held |-> held]
Blanks(L) == {i \in Slots : L.cohort[i] = Blank}

\* k bodies of the cohort c go from a place to f, from f to a place, from f to g,
\* out of the force.
Placed(c, place, f, k) == [c EXCEPT !.res = Fewer(c.res, place, k), !.held = More(c.held, f, k)]
Freed(c, f, place, k) == [c EXCEPT !.held = Fewer(c.held, f, k), !.res = More(c.res, place, k)]
Passed(c, f, g, k) == [c EXCEPT !.held = More(Fewer(c.held, f, k), g, k)]
Spent(c, f, k) == [c EXCEPT !.held = Fewer(c.held, f, k)]

\* The persons P, those in S being somewhere else.
Moved(P, S, to) == [p \in People |-> IF p \in S THEN [P[p] EXCEPT !.at = to] ELSE P[p]]

Doc(place, comp, slices) ==
    [n |-> Total(comp), comp |-> comp, est |-> comp, slices |-> slices, at |-> place,
     lost |-> FALSE]
Exists(L, f) == L.doc[f] # None

\* The members of f that are persons of their own, by role.
Embedded(L, f) == {p \in People : L.person[p].at = f}
EmbeddedBy(L, f) == [r \in Roles |-> Cardinality({p \in Embedded(L, f) : L.person[p].role = r})]
Unassigned(L) == {p \in People : L.person[p].at = "own"}

\* The anonymous members of f, by role: by its document and by the cohorts.
SlicesBy(L, f) == [r \in Roles |->
    SumFunctionOnSet(L.doc[f].slices, {i \in Slots : L.cohort[i].role = r})]
HeldBy(L, f) == [r \in Roles |->
    SumFunctionOnSet([i \in Slots |-> L.cohort[i].held[f]], {i \in Slots : L.cohort[i].role = r})]
ReserveOf(L, r) == SumFunctionOnSet([i \in Slots |-> Total(L.cohort[i].res)],
                                    {i \in Slots : L.cohort[i].role = r})

\* validate_cohort_ledger.
Valid(L) ==
    /\ Total([i \in Slots |-> Total(L.cohort[i].res) + Total(L.cohort[i].held)])
         + Cardinality({p \in People : L.person[p].at \in {"own"} \cup Formations}) = L.head
    /\ \A r \in Roles : ReserveOf(L, r) = Total(L.free[r])
    /\ \A f \in Formations :
          LET bodies == Plus(HeldBy(L, f), EmbeddedBy(L, f)) IN
          /\ (f \in L.listed) <=> (Total(bodies) > 0)
          /\ f \in L.listed => /\ L.given[f].n = Total(bodies)
                               /\ L.given[f].comp # Zero(Roles) => L.given[f].comp = bodies

Check(L) == IF L.ok /\ Valid(L) THEN L ELSE Refuse(L)

\* Mutant: the force is told the strength of f but not its composition.
ListedStrength(L, f) == [L EXCEPT !.listed = @ \union {f}, !.given[f].n = L.doc[f].n]

\* _formation_allocation_record: what the force says that f was given.
Listed(L, f) == [L EXCEPT !.listed = @ \union {f},
                          !.given[f] = [n |-> L.doc[f].n, comp |-> L.doc[f].comp]]
Unlisted(L, f) == [L EXCEPT !.listed = @ \ {f}, !.given[f] = [n |-> 0, comp |-> Zero(Roles)]]

-----------------------------------------------------------------------------
(* Reducers. *)

\* ensure_formation_composition: a document without slices takes those of the ledger.
Ensure(L, f) ==
    LET held == [i \in Slots |-> L.cohort[i].held[f]] IN
    IF L.doc[f].slices # Zero(Slots) THEN L
    ELSE IF Total(held) + Cardinality(Embedded(L, f)) = L.doc[f].n
    THEN [L EXCEPT !.doc[f].slices = held]
    ELSE Refuse(L)

\* normalize_formation_establishment, of a detachment: an establishment is at least
\* the strength.
Normal(L, f) ==
    LET d == L.doc[f] IN
    IF Total(d.est) < d.n THEN [L EXCEPT !.doc[f].est = d.comp] ELSE L

\* Mutant: recruits stay among the civilians.
Called(L, k) == L

\* The recruits leave their stratum of the population.
CalledUp(L, k) == [L EXCEPT !.pop = @ - k]

\* add_recruits and record_recruitment_cohort: k civilians become a cohort of their own.
Enlist(L, role, k) ==
    LET i == CHOOSE j \in Blanks(L) : \A b \in Blanks(L) : j <= b IN
    IF k = 0 THEN L ELSE IF Blanks(L) = {} THEN Overflow(L) ELSE
    Check([CalledUp(L, k) EXCEPT
                    !.head = @ + k,
                    !.auth = IF @ < L.head + k THEN L.head + k ELSE @,
                    !.free[role][Home] = @ + k,
                    !.cohort[i] = Cohort(role, Only(Places, Home, k),
                                         Zero(Formations))])

\* take_reserve_slices, the oldest intake first: what each cohort gives of adds.
Drawn(L, adds, place) == [i \in Slots |->
    LET role == L.cohort[i].role
        older == {j \in Slots : j < i /\ L.cohort[j].role = role}
        before == SumFunctionOnSet([j \in Slots |-> L.cohort[j].res[place]], older)
    IN IF role = None THEN 0
       ELSE AtMost(L.cohort[i].res[place], Minus(adds[role], before))]

\* _take_force_personnel and take_reserve_slices, the slices put on the document of f.
Muster(L, f, adds, place) ==
    LET drawn == Drawn(L, adds, place) IN
    IF \/ \E r \in Roles : L.free[r][place] < adds[r]
       \/ Total(drawn) < Total(adds)
    THEN Refuse(L)
    ELSE [L EXCEPT
            !.free = [r \in Roles |-> Fewer(L.free[r], place, adds[r])],
            !.cohort = [i \in Slots |-> Placed(L.cohort[i], place, f, drawn[i])],
            !.doc[f].slices = Plus(L.doc[f].slices, drawn)]

\* The same with the numbers of the document, before the force is told.
Reinforce(L, f, adds) ==
    LET M == Muster(L, f, adds, L.doc[f].at)
        d == M.doc[f]
    IN [M EXCEPT !.doc[f] = [d EXCEPT !.n = d.n + Total(adds), !.comp = Plus(d.comp, adds)]]

\* _ct_isolate_training: slices of cohorts that others share become cohorts of f.
Isolate(L0, f) ==
    LET L == Ensure(L0, f)
        slices == L.doc[f].slices
        Shared(i) == \/ Total(L.cohort[i].res) > 0
                     \/ \E g \in Formations \ {f} : L.cohort[i].held[g] > 0
        branch == Ranked({i \in Slots : slices[i] > 0 /\ Shared(i)})
        fresh  == Ranked(Blanks(L))
        Branches == 1..Len(branch)
        From(j) == branch[CHOOSE k \in Branches : fresh[k] = j]
        New(j)  == \E k \in Branches : fresh[k] = j
    IN IF ~L.ok THEN L
       ELSE IF Len(branch) > Len(fresh) THEN Overflow(L)
       ELSE IF \E k \in Branches : L.cohort[branch[k]].held[f] # slices[branch[k]] THEN Refuse(L)
       ELSE Check([L EXCEPT
              !.cohort = [j \in Slots |->
                 IF New(j) THEN Cohort(L.cohort[From(j)].role, Zero(Places),
                                       Only(Formations, f, slices[From(j)]))
                 ELSE IF j \in ToSet(branch) THEN Spent(L.cohort[j], f, L.cohort[j].held[f])
                 ELSE L.cohort[j]],
              !.doc[f].slices = [j \in Slots |->
                 IF New(j) THEN slices[From(j)]
                 ELSE IF j \in ToSet(branch) THEN 0 ELSE slices[j]]])

\* Shares of k by largest remainder.  The source breaks ties by name or by a hash:
\* here any way of breaking them.
Shares(weight, k) ==
    LET all == Total(weight)
        Base(x) == (weight[x] * k) \div all
        Rest(x) == (weight[x] * k) % all
    IN IF all = 0 THEN {weight}
       ELSE {h \in [DOMAIN weight -> 0..k] :
              /\ \A x \in DOMAIN weight :
                    \/ h[x] = Base(x)
                    \/ h[x] = Base(x) + 1 /\ Rest(x) > 0
              /\ \A x, y \in DOMAIN weight :
                    h[x] > Base(x) /\ h[y] = Base(y) => Rest(x) >= Rest(y)
              /\ Total(h) = k}

\* The slices of f in the cohorts of one role.
RoleSlices(L, f, r) ==
    [i \in Slots |-> IF L.cohort[i].role = r THEN L.doc[f].slices[i] ELSE 0]

\* How k anonymous members of f may be chosen: by role, then by cohort in each role.
Partitions(L, f, k) ==
    {h \in [Slots -> 0..k] :
        LET moved == [r \in Roles |->
                SumFunctionOnSet(h, {i \in Slots : L.cohort[i].role = r})]
        IN /\ \A i \in Slots : h[i] <= L.doc[f].slices[i]
           /\ moved \in Shares(SlicesBy(L, f), k)
           /\ \A r \in Roles : [i \in Slots |-> IF L.cohort[i].role = r THEN h[i] ELSE 0]
                                  \in Shares(RoleSlices(L, f, r), moved[r])}

\* partition_formation_slices: the slices h of f go to the new formation g, which
\* takes the share est of the establishment.
Partition(L, f, g, h, est) ==
    LET moved == [r \in Roles |-> SumFunctionOnSet(h, {i \in Slots : L.cohort[i].role = r})]
        stay  == Less(Plus(SlicesBy(L, f), EmbeddedBy(L, f)), moved)
        child == [Doc(L.doc[f].at, moved, h) EXCEPT !.est = est, !.lost = L.doc[f].lost]
        d == L.doc[f]
        parent == [d EXCEPT !.n = d.n - Total(h), !.comp = stay, !.est = Less(d.est, est),
                            !.slices = Less(d.slices, h)]
        parted == [L EXCEPT
            !.cohort = [i \in Slots |-> Passed(L.cohort[i], f, g, h[i])],
            !.doc[f] = parent, !.doc[g] = child]
    IN IF \/ Total(SlicesBy(L, f)) + Cardinality(Embedded(L, f)) # d.n
          \/ \E i \in Slots : h[i] > L.cohort[i].held[f]
          \/ d.comp \notin {Plus(stay, moved), stay}
       THEN Refuse(L)
       ELSE Check(Listed(Listed(parted, f), g))

\* merge_formation_slices and the documents: g is taken up by f.
Absorb(L, f, g) ==
    LET d == L.doc[f]
        e == L.doc[g]
        merged == [Unlisted(L, g) EXCEPT
            !.doc[f] = [d EXCEPT !.n = d.n + e.n, !.comp = Plus(d.comp, e.comp),
                                 !.est = Plus(d.est, e.est), !.slices = Plus(d.slices, e.slices)],
            !.doc[g] = None,
            !.cohort = [i \in Slots |-> Passed(L.cohort[i], g, f, e.slices[i])],
            !.person = Moved(L.person, Embedded(L, g), f)]
    IN IF ~L.ok \/ \E i \in Slots : e.slices[i] > 0 /\ L.cohort[i].held[g] # e.slices[i]
       THEN Refuse(L) ELSE Check(Listed(merged, f))

\* return_formation_slices and the documents: f is dissolved where it stands.
Disband(L, f) ==
    LET d == L.doc[f]
        returned == [Unlisted(L, f) EXCEPT
            !.free = [r \in Roles |-> More(L.free[r], d.at, d.comp[r])],
            !.cohort = [i \in Slots |-> Freed(L.cohort[i], f, d.at, d.slices[i])],
            !.person = Moved(L.person, Embedded(L, f), "own"),
            !.doc[f] = None]
    IN IF ~L.ok \/ \E i \in Slots : L.cohort[i].held[f] < d.slices[i]
       THEN Refuse(L) ELSE Check(returned)

\* How a battle's anonymous deaths may fall on the cohorts of f.
Falls(L, f, k) == {h \in Shares(L.doc[f].slices, k) : \A i \in Slots : h[i] <= L.doc[f].slices[i]}

\* trim_formation_to_personnel: f loses h of its anonymous members and the killed.
Trim(L, f, h, killed) ==
    LET loss == Total(h) + Cardinality(killed)
        d == L.doc[f]
        left == [L EXCEPT
            !.head = L.head - loss, !.dead = L.dead + loss,
            !.person = Moved(L.person, killed, "gone"),
            !.cohort = [i \in Slots |-> Spent(L.cohort[i], f, h[i])],
            !.doc[f] = [d EXCEPT !.n = d.n - loss, !.lost = (d.n = loss),
                                 !.slices = Less(d.slices, h)]]
        done == [left EXCEPT !.doc[f].comp = Plus(SlicesBy(left, f), EmbeddedBy(left, f))]
    IN IF \/ ~L.ok
          \/ Total(d.slices) = 0
          \/ Total(d.slices) + Cardinality(Embedded(L, f)) # d.n
          \/ \E i \in Slots : L.cohort[i].held[f] < h[i]
          \/ Total(done.doc[f].comp) # done.doc[f].n
       THEN Refuse(L)
       ELSE Check(IF done.doc[f].n > 0 THEN Listed(done, f) ELSE Unlisted(done, f))

-----------------------------------------------------------------------------
(* The review of the state, a callback of every advance that crosses it. *)

\* The formation of the blueprint is brought to strength, or mustered.  The role of
\* the blueprint is given the whole strength, in the document and in the force.
Blueprint(L0) ==
    LET L == IF Exists(L0, Standing) THEN Ensure(L0, Standing) ELSE L0
        d == L.doc[Standing]
        take == AtMost(Minus(Target, d.n), L.free[Line][d.at])
        only(k) == Only(Roles, Line, k)
        comp == [r \in Roles |-> IF r = Line THEN d.n + take ELSE d.comp[r]]
        filled == [Reinforce(L, Standing, only(take)) EXCEPT !.doc[Standing].comp = comp]
        given  == [filled EXCEPT !.listed = @ \union {Standing},
                                 !.given[Standing] = [n |-> d.n + take, comp |-> only(d.n + take)]]
        new == [L EXCEPT !.doc[Standing] = Doc(Home, only(Target), Zero(Slots))]
    IN IF ~L.ok THEN L
       ELSE IF Exists(L, Standing) THEN IF take = 0 THEN L ELSE Check(given)
       ELSE IF L.free[Line][Home] < Target THEN L
       ELSE Check(Listed(Muster(new, Standing, only(Target), Home), Standing))

\* _fc_train: every formation that holds bodies trains cohorts of its own.
Train(L, f) ==
    IF L.ok /\ Exists(L, f) /\ Total(HeldBy(L, f)) > 0 THEN Isolate(L, f) ELSE L

\* The replacements that f lacks and the reserve of its place has.
Replacements(L, f) ==
    LET d == L.doc[f] IN
    [r \in Roles |-> AtMost(Minus(d.est[r], d.comp[r]), L.free[r][d.at])]

\* Mutant: the force is written and the document of f is not.
ReplaceUnwritten(L, f) ==
    LET d == L.doc[f]
        adds == Replacements(L, f)
        filled == Listed(Normal(Reinforce(L, f, adds), f), f)
    IN IF ~L.ok \/ f \notin L.listed \/ ~Exists(L, f) \/ d.lost \/ Total(adds) = 0 THEN L
       ELSE Check([filled EXCEPT !.doc[f] = d])

\* _reconstitute_force_from_local_reserve, for one formation that the force names.
Replace(L, f) ==
    LET d == L.doc[f]
        adds == Replacements(L, f)
    IN IF ~L.ok \/ f \notin L.listed \/ ~Exists(L, f) \/ d.lost \/ Total(adds) = 0 THEN L
       ELSE Check(Listed(Normal(Reinforce(L, f, adds), f), f))

Reviewed(L, hired) ==
    LET each == SetToSeq(Formations)
        trained == FoldLeft(Train, Blueprint(Enlist(L, Line, hired)), each)
    IN FoldLeft(Replace, trained, each)

-----------------------------------------------------------------------------
(* Steps. *)

\* A cohort that nothing counts in and nothing names is forgotten (the source keeps it).
Named(doc, i) == doc # None /\ doc.slices[i] > 0
Pruned(L, held) == [L EXCEPT !.cohort = [i \in Slots |->
    IF \/ Total(L.cohort[i].res) + Total(L.cohort[i].held) > 0
       \/ Named(held, i) \/ \E f \in Formations : Named(L.doc[f], i)
    THEN L.cohort[i] ELSE Blank]]

\* Why the reducers may refuse what the rules of the game allow.
Reconstituting(f) == order # None /\ order.f = f /\ order.kind = "reconstitute"
Excused == stale # {} \/ \E f \in Formations : Reconstituting(f)

\* A command that is refused leaves the documents it found; so does an order one of
\* whose hours' callbacks raises.
Refused(excuse) ==
    /\ ledger' = IF order = None THEN ledger ELSE order.saved
    /\ order' = None
    /\ surprised' = (surprised \/ ~(excuse \/ Excused))
    /\ UNCHANGED stale

Settle(L, excuse) ==
    /\ ~L.full /\ L.dead <= MaxDead
    /\ UNCHANGED orders
    /\ IF L.ok THEN /\ ledger' = Pruned(L, IF order = None THEN None ELSE order.doc)
                    /\ UNCHANGED <<order, surprised>>
                    /\ stale' = {f \in stale : Exists(L, f)}
       ELSE Refused(excuse)

Command(L, excuse) == order = None /\ Settle(L, excuse)

Recruit(role, k) == k <= ledger.pop /\ Command(Enlist(ledger, role, k), FALSE)

\* formation_create.
Create(f, comp, place) ==
    /\ ~Exists(ledger, f) /\ \A r \in Roles : comp[r] <= ledger.free[r][place]
    /\ LET new == [ledger EXCEPT !.doc[f] = Doc(place, comp, Zero(Slots))]
       IN Command(Check(Listed(Muster(new, f, comp, place), f)), FALSE)

\* person_materialize: a body of the reserve, or one of the anonymous of f, gets a name.
MaterializeFree(p, role, place) ==
    LET from == {i \in Slots : ledger.cohort[i].role = role /\ ledger.cohort[i].res[place] > 0}
        i == CHOOSE j \in from : \A k \in from : j <= k
    IN /\ ledger.person[p].at = None /\ from # {} /\ ledger.free[role][place] > 0
       /\ Command(Check([ledger EXCEPT !.free[role][place] = @ - 1,
                                       !.cohort[i].res[place] = @ - 1,
                                       !.person[p] = [at |-> "own", role |-> role]]), FALSE)

MaterializeIn(p, role, f) ==
    LET L == Ensure(ledger, f)
        from == {i \in Slots : L.cohort[i].role = role /\ L.doc[f].slices[i] > 0}
        i == CHOOSE j \in from : \A k \in from : j <= k
    IN /\ ledger.person[p].at = None /\ Exists(ledger, f) /\ from # {}
       /\ Command(IF L.cohort[i].held[f] = 0 THEN Refuse(L)
                  ELSE Check([L EXCEPT !.cohort[i].held[f] = @ - 1,
                                       !.doc[f].slices[i] = @ - 1,
                                       !.person[p] = [at |-> f, role |-> role]]), FALSE)

Split(f, g, k) ==
    LET L == Ensure(Normal(ledger, f), f) IN
    /\ Exists(ledger, f) /\ ~Exists(ledger, g) /\ k \in 1..Minus(ledger.doc[f].n, 1)
    /\ k <= Total(L.doc[f].slices)
    /\ \E h \in Partitions(L, f, k), est \in Shares(L.doc[f].est, k) :
          Command(IF L.ok THEN Partition(L, f, g, h, est) ELSE L, FALSE)

Merge(f, g) ==
    /\ f # g /\ Exists(ledger, f) /\ Exists(ledger, g) /\ ledger.doc[f].at = ledger.doc[g].at
    /\ Command(Absorb(Ensure(Normal(Ensure(Normal(ledger, f), f), g), g), f, g),
               ledger.doc[f].n + ledger.doc[g].n = 0)

\* formation_dissolve: the whole composition is free again, yet only the anonymous
\* return to the cohorts.
Dissolve(f) ==
    /\ Exists(ledger, f)
    /\ Command(Disband(Ensure(ledger, f), f), Embedded(ledger, f) # {})

\* _autonomy_state.  Office, treasury and population bound what it can hire.
MixedStanding ==
    LET d == ledger.doc[Standing] IN
    d # None /\ \E r \in Roles \ {Line} : d.comp[r] > 0
Review(hired) ==
    /\ hired <= AtMost(ledger.pop, Minus(ledger.auth, ledger.head))
    /\ Settle(Reviewed(ledger, hired), MixedStanding)

\* A battle.  The player's isolates the slices of f before they are trimmed.
Fight(f, k, killed, isolates) ==
    /\ Exists(ledger, f) /\ killed \subseteq Embedded(ledger, f)
    /\ k + Cardinality(killed) > 0 /\ k <= Total(ledger.doc[f].slices)
    /\ isolates => order = None
    /\ LET L == IF isolates THEN Isolate(ledger, f) ELSE ledger IN
       \E h \in Falls(L, f, k) : Settle(Trim(L, f, h, killed), Total(ledger.doc[f].slices) = 0)

\* _settle_materialized_force_body_death.
Die(p) ==
    LET f == ledger.person[p].at
        r == ledger.person[p].role
        d == ledger.doc[f]
        Fallen(comp) == [comp EXCEPT ![r] = Minus(comp[r], 1)]
        gone == [ledger EXCEPT !.head = @ - 1, !.dead = @ + 1, !.person[p].at = "gone"]
    IN \/ /\ f = "own"
          /\ Settle(Check(gone), FALSE)
       \/ /\ f \in Formations
          /\ Settle(Check([gone EXCEPT
                    !.doc[f] = [d EXCEPT !.n = d.n - 1, !.comp = Fallen(d.comp)],
                    !.given[f] = [n |-> d.n - 1, comp |-> Fallen(ledger.given[f].comp)]]),
                    d.n = 1)

-----------------------------------------------------------------------------
(* Orders that read the document of f, let hours pass, and put their copy back. *)

Open(f, kind, doc, L) ==
    /\ order = None /\ orders < MaxOrders
    /\ orders' = orders + 1
    /\ order' = [f |-> f, kind |-> kind, doc |-> doc, saved |-> ledger]
    /\ ledger' = L
    /\ UNCHANGED <<stale, surprised>>

\* Assigning and supplying change nothing counted here; mobilizing and marching also
\* take a formation off the lost ones.
Begin(f, kind) == Exists(ledger, f) /\ Open(f, kind, ledger.doc[f], ledger)

\* formation_reconstitute: the force is written, the document waits.
Reconstitute(f, adds) ==
    LET d == ledger.doc[f]
        L == Check(Listed(Reinforce(ledger, f, adds), f)) IN
    /\ Exists(ledger, f) /\ Total(adds) \in 1..Minus(Total(d.est), d.n)
    /\ \A r \in Roles : adds[r] <= ledger.free[r][d.at]
    /\ IF L.ok THEN Open(f, "reconstitute", L.doc[f], [L EXCEPT !.doc[f] = d])
       ELSE order = None /\ Refused(FALSE) /\ UNCHANGED orders

\* The commit holds the strength put back against the sheet of the commander. Who changed the
\* strength in the hours wrote the sheet too: training and reconstituting write it anew, a march
\* puts the old sheet back, an officer newly appointed was given the strength of the copy.
Diverged == order.kind \in {"assign", "mobilize"} /\ order.doc.n # ledger.doc[order.f].n

Finish(L) ==
    /\ ~L.full
    /\ UNCHANGED orders
    /\ \/ /\ ~L.ok \/ Diverged
          /\ Refused(ledger.doc[order.f] # order.saved.doc[order.f])
       \/ /\ L.ok /\ (Diverged => order.kind = "assign")
          /\ ledger' = Pruned(L, None) /\ order' = None
          /\ stale' = IF ledger.doc[order.f] = order.saved.doc[order.f] THEN stale
                      ELSE stale \union {order.f}
          /\ UNCHANGED surprised

\* The copy is put back; training then works on what was put, and validates it.
End(place) ==
    LET f == order.f
        copy == [ledger EXCEPT !.doc[f] = order.doc]
    IN /\ order # None
       /\ IF order.kind = "move" THEN place # order.doc.at ELSE place = order.doc.at
       /\ Finish(IF order.kind = "train" THEN Isolate(Check(Ensure(copy, f)), f)
                 ELSE [copy EXCEPT !.doc[f].at = place,
                                   !.doc[f].lost = @ /\ order.kind \notin {"mobilize", "move"}])

-----------------------------------------------------------------------------
\* ensure_cohort_ledger: a standing reserve of each role, its ancestry unasserted.
Init ==
    LET first == Ranked(Slots)
        roles == SetToSeq(Roles)
        RoleOf(i) == roles[CHOOSE k \in DOMAIN roles : first[k] = i]
    IN
    /\ ledger =
         [pop |-> Civilians, dead |-> 0, head |-> Total(Reserve), auth |-> Authorized,
          free |-> [r \in Roles |-> Only(Places, Home, Reserve[r])],
          listed |-> {}, given |-> [f \in Formations |-> [n |-> 0, comp |-> Zero(Roles)]],
          person |-> [p \in People |-> [at |-> None, role |-> None]],
          cohort |-> [i \in Slots |->
              IF i \in {first[k] : k \in DOMAIN roles} /\ Reserve[RoleOf(i)] > 0
              THEN Cohort(RoleOf(i), Only(Places, Home, Reserve[RoleOf(i)]),
                          Zero(Formations))
              ELSE Blank],
          doc |-> [f \in Formations |-> None],
          ok |-> TRUE, full |-> FALSE]
    /\ order = None /\ orders = 0 /\ stale = {} /\ surprised = FALSE

Bodies == 1..(Civilians + Total(Reserve))
Some == {adds \in [Roles -> 0..Total(Reserve) + Civilians] : Total(adds) \in Bodies}

Next ==
    \/ \E r \in Roles, k \in Bodies : Recruit(r, k)
    \/ \E f \in Formations, comp \in Some, place \in Places : Create(f, comp, place)
    \/ \E p \in People, r \in Roles, place \in Places : MaterializeFree(p, r, place)
    \/ \E p \in People, r \in Roles, f \in Formations : MaterializeIn(p, r, f)
    \/ \E f, g \in Formations, k \in Bodies : Split(f, g, k)
    \/ \E f, g \in Formations : Merge(f, g)
    \/ \E f \in Formations : Dissolve(f)
    \/ \E hired \in {0} \cup Bodies : Review(hired)
    \/ \E f \in Formations, k \in {0} \cup Bodies, killed \in SUBSET People, b \in BOOLEAN :
          Fight(f, k, killed, b)
    \/ \E p \in People : Die(p)
    \/ \E f \in Formations, kind \in Kinds \ {"reconstitute"} : Begin(f, kind)
    \/ \E f \in Formations, adds \in Some : Reconstitute(f, adds)
    \/ \E place \in Places : End(place)

Spec == Init /\ [][Next]_vars

-----------------------------------------------------------------------------
(* Properties. *)

\* No operation on the force makes or loses a body: those who were there at the start
\* are civilians, dead or serving, and the force accounts for each one serving as
\* free, given to a formation, or a person of the force's own (what
\* engine._validate_invariants demands of a commit).
BodiesConserved ==
    /\ ledger.pop + ledger.dead + ledger.head = Civilians + Total(Reserve)
    /\ ledger.head = Total([r \in Roles |-> Total(ledger.free[r])])
                       + Total([f \in Formations |-> ledger.given[f].n])
                       + Cardinality(Unassigned(ledger))

\* The document of a formation tells what the force and the cohorts tell of it, after
\* every mix of musters, splits, merges, battles and reviews, unless a copy that had
\* grown old replaced it or an open reconstitution has yet to write it.
Tells(f) ==
    LET d == ledger.doc[f] IN
    IF d = None THEN f \notin ledger.listed
    ELSE /\ d.n = Total(d.comp) /\ d.n = ledger.given[f].n
         /\ d.comp = Plus(HeldBy(ledger, f), EmbeddedBy(ledger, f))
         /\ d.slices = [i \in Slots |-> ledger.cohort[i].held[f]]
DocumentsAgree == \A f \in Formations \ stale : Reconstituting(f) \/ Tells(f)

\* What the rules allow is carried out: validation refuses a step only when an old copy
\* replaced a document, while a reconstitution is open, or in the cases that the steps
\* name (each of them a finding).
LawfulAccepted == ~surprised

\* "exact agreement" of composition, cohort roles and allocation
\* (cohort_personnel.partition_formation_slices), whatever the hours of an order bring.
ExactAgreement == order = None => \A f \in Formations : Tells(f)
=============================================================================
