--------------------------- MODULE CausalScheduler ---------------------------
(* The chronology of the campaign: runtime/sword_runtime/                      *)
(* causal_living_world.py, scheduler_frontier.py, time_integration.py.         *)
(*                                                                             *)
(* A route is a host together with its one event: something of the world that  *)
(* falls due at an instant.  The registry of routes is part of the runtime     *)
(* document.  A command that takes time works on a staged copy of it, window   *)
(* by window; for each window it builds a heap of the due routes, and from     *)
(* then on it must keep the heap and a map of row positions in step with the   *)
(* registry, which the callbacks of the routes it settles rewrite.             *)
(*                                                                             *)
(* Routes are natural numbers, smaller ones first at one instant (priority,    *)
(* then event id).  Instants are naturals; one unit is the hour after which a  *)
(* resumed contact falls due again.  The process is sequential: what is left   *)
(* open is the player, the battlefields and what the callbacks do.             *)
EXTENDS Integers, FiniteSets, Sequences, SequencesExt, Functions, Ranks

CONSTANTS
    Ceremonies, \* one-shot routes whose settlement may wake the player
    Marches,    \* routes registered from the orders of operations, leg by leg
    Companies,  \* mercenary companies: due at the next deadline of a contract
    Arrivals,   \* one route for all travelling cohorts: due at the next arrival
    Reviews,    \* recurring hosts of owners: states, populations, staffs, ...
    Contacts,   \* the interstate review, which may find the player in contact
    Every,      \* recurrence of reviews, contacts and companies without a deadline
    Longest,    \* the longest leg of a march, or delay of a registration
    ReconcileEvery, Window,
    MaxTime,            \* bound: no command asks for a later instant
    BattleReports,      \* battlefields may interrupt an advance
    RetimesRoutes,      \* a callback may bring a registered arrival or company forward
    SupersedesRoutes    \* a callback may replace a registered march

Recon == 0      \* the reconciliation host, first at every instant
Routes == {Recon} \cup Ceremonies \cup Marches \cup Companies \cup Arrivals
             \cup Reviews \cup Contacts
NoRoute == -1

ASSUME RankAssumption ==
    /\ Routes \subseteq Nat /\ IsFiniteSet(Routes)
    /\ Cardinality(Contacts) <= 1
    /\ LET kinds == <<{Recon}, Ceremonies, Marches, Companies, Arrivals, Reviews, Contacts>>
       IN  \A i, j \in 1 .. 7 : i # j => kinds[i] \cap kinds[j] = {}
ASSUME TimeAssumption ==
    /\ {Longest, ReconcileEvery, Window} \subseteq Nat \ {0}
    /\ Every \in [Companies \cup Reviews \cup Contacts -> Nat \ {0}]
    /\ MaxTime \in Nat
ASSUME ModeAssumption == {BattleReports, RetimesRoutes, SupersedesRoutes} \subseteq BOOLEAN

VARIABLES
    saved,      \* the committed runtime document
    rt,         \* the staged one
    cmd,        \* the command that takes time: its kind and target
    pc,         \* where that command is
    step,       \* the end of the window
    queue,      \* the heap: pairs of an instant and a route
    known,      \* the generations of routes the window has met
    pos         \* of each route, the row of the registry it was last seen in

vars == <<saved, rt, cmd, pc, step, queue, known, pos>>

(* now: world_time, equal to causal_settled_through.  due: of each registered  *)
(* route, its due_at.  rows: the registry's order.  held: suspended routes.    *)
(* theater: whether the theater is engaged, and with the player's formation in *)
(* it ("engaged") or not ("away").  owed: owners that need a route and have    *)
(* none yet, with the instant since when.                                      *)
Document(r) ==
    /\ r.now \in Nat
    /\ DOMAIN r.due \subseteq Routes /\ \A x \in DOMAIN r.due : r.due[x] \in Nat
    /\ ToSet(r.rows) = DOMAIN r.due /\ Len(r.rows) = Cardinality(DOMAIN r.due)
    /\ r.held \subseteq DOMAIN r.due
    /\ r.wake.kind \in {"none", "contact", "ceremony", "report"}
    /\ r.wake.route \in Routes \cup {NoRoute}
    /\ r.ack \in {"none", "contact", "notice"}
    /\ r.theater \in {"quiet", "engaged", "away"}
    /\ r.dirty \in BOOLEAN
    /\ DOMAIN r.owed \subseteq Routes \ DOMAIN r.due
    /\ \A x \in DOMAIN r.owed : r.owed[x] \in 0 .. r.now

NoWake == [kind |-> "none", route |-> NoRoute]
NoCommand == [kind |-> "none", target |-> 0]

Live(r) == DOMAIN r.due \ r.held
Entries(r) == {<<r.due[x], x>> : x \in Live(r)}
Generations(r) == {<<r.due[x], x>> : x \in DOMAIN r.due}
Positions(rows) == [x \in ToSet(rows) |-> CHOOSE i \in DOMAIN rows : rows[i] = x]
Overdue(r) == \E x \in Live(r) : r.due[x] < r.now

-----------------------------------------------------------------------------
(* The registry.                                                               *)

(* What f says, and what g says besides.                                       *)
Over(f, g) == [x \in DOMAIN f \cup DOMAIN g |-> IF x \in DOMAIN f THEN f[x] ELSE g[x]]

Register(r, f) ==
    [r EXCEPT !.due = Over(f, @),
              !.rows = @ \o Ranked(DOMAIN f),
              !.owed = Restrict(@, DOMAIN @ \ DOMAIN f)]
(* Mutant: the event of a dropped host stays in the registry.                  *)
DropHost(r, S) == [r EXCEPT !.due = Restrict(@, DOMAIN @ \ S), !.held = @ \ S]
Drop(r, S) ==
    [r EXCEPT !.due = Restrict(@, DOMAIN @ \ S),
              !.rows = AtPlaces(@, {i \in DOMAIN @ : @[i] \notin S}),
              !.held = @ \ S]
Owe(r, S) == [r EXCEPT !.owed = Over([x \in S |-> r.now], @)]

(* A ceremony that should have been held falls due now; a leg takes at least   *)
(* an hour; a company is due at a deadline, a review after its recurrence.     *)
FirstDue(r, x) ==
    CASE x \in Ceremonies -> r.now .. r.now + Longest
      [] x \in Marches \cup Arrivals -> r.now + 1 .. r.now + Longest
      [] x \in Companies -> r.now + 1 .. r.now + Every[x]
      [] OTHER -> {r.now + Every[x]}

(* The functions that choose an instant of I[x] for every route x.             *)
Instants(I) == {f \in [DOMAIN I -> UNION {I[x] : x \in DOMAIN I}] : \A x \in DOMAIN I : f[x] \in I[x]}
FirstDues(r, S) == Instants([x \in S |-> FirstDue(r, x)])

(* Mutant: ceremonies that should have been held are not looked for.           *)
SyncedButCeremonies(r, S) ==
    UNION {{Register(Drop(r, gone), f) : f \in FirstDues(r, (DOMAIN r.owed \cap S) \ Ceremonies)} :
             gone \in SUBSET (Marches \cap DOMAIN r.due)}

(* Orders that are no longer executable lose their routes, and what is owed    *)
(* among S is registered.                                                      *)
Synced(r, S) ==
    UNION {{Register(Drop(r, gone), f) : f \in FirstDues(r, DOMAIN r.owed \cap S)} :
             gone \in SUBSET (Marches \cap DOMAIN r.due)}

EnsureRecon(r) ==
    IF Recon \in DOMAIN r.due THEN r ELSE Register(r, [x \in {Recon} |-> r.now + ReconcileEvery])

(* The reconciliation drops the companies that need no review, and brings the  *)
(* others forward to their deadlines; one that is due now gets a new instant.  *)
Contracted(r) ==
    UNION {LET s == Drop(r, gone)
               kept == Companies \cap DOMAIN s.due
               until(x) == IF s.due[x] > s.now THEN s.due[x] ELSE s.now + Every[x]
           IN  {[s EXCEPT !.due = Over(f, @)] : f \in Instants([x \in kept |-> s.now + 1 .. until(x)])} :
             gone \in SUBSET (Companies \cap DOMAIN r.due)}

Reconciled(r) ==
    {[s EXCEPT !.dirty = FALSE] : s \in UNION {Synced(c, Routes) : c \in Contracted(EnsureRecon(r))}}

Prepared(r) ==
    UNION {IF s.dirty THEN Reconciled(s) ELSE {s} :
             s \in Synced(EnsureRecon(r), Marches \cup Ceremonies)}

-----------------------------------------------------------------------------
(* The wake.                                                                   *)

(* Mutant: the host is given a new instant and stays suspended.                *)
ResumedAsleep(r) ==
    CASE r.wake.kind = "contact" ->
            [r EXCEPT !.due[r.wake.route] = r.now + 1, !.wake = NoWake, !.ack = "contact"]
      [] r.wake.kind \in {"ceremony", "report"} ->
            [Drop(r, {r.wake.route}) EXCEPT !.wake = NoWake, !.ack = "notice"]
      [] OTHER -> r

(* The player continues: a contact falls due again in an hour, a ceremony is   *)
(* over; what was shown is remembered as acknowledged.                         *)
Resumed(r) ==
    CASE r.wake.kind = "contact" ->
            [r EXCEPT !.due[r.wake.route] = r.now + 1, !.held = @ \ {r.wake.route},
                      !.wake = NoWake, !.ack = "contact"]
      [] r.wake.kind \in {"ceremony", "report"} ->
            [Drop(r, {r.wake.route}) EXCEPT !.wake = NoWake, !.ack = "notice"]
      [] OTHER -> r

(* The player responds: the contact is released if the response took the       *)
(* formation away, any other wake is over.                                     *)
Responses(r) ==
    CASE r.wake.kind = "contact" ->
            {r, [r EXCEPT !.due[r.wake.route] = r.now + 1, !.held = @ \ {r.wake.route},
                          !.wake = NoWake, !.ack = "none", !.theater = "away"]}
      [] r.wake.kind \in {"ceremony", "report"} ->
            {[Drop(r, {r.wake.route}) EXCEPT !.wake = NoWake, !.ack = "none"]}
      [] OTHER -> {r}
-----------------------------------------------------------------------------
(* The callbacks: what settling a route does to the registry, and what becomes *)
(* of the route.                                                               *)

Again(r, k) == [rt |-> r, fate |-> "again", after |-> k]
Retire(r) == [rt |-> r, fate |-> "retire", after |-> 0]
Wake(r) == [rt |-> r, fate |-> "wake", after |-> 0]
Fail(r) == [rt |-> r, fate |-> "fail", after |-> 0]

Unrouted(r) == (Marches \cup Reviews) \ (DOMAIN r.due \cup DOMAIN r.owed)

(* A command cycle makes staff assignments into orders and registers their     *)
(* marches at once.                                                            *)
Ordered(r) ==
    {s \in UNION {Synced(Owe(r, S), Marches) : S \in SUBSET (Marches \cap Unrouted(r))} :
        LET gone == DOMAIN r.due \ DOMAIN s.due
            added == DOMAIN s.due \ DOMAIN r.due
        IN  SupersedesRoutes \/ gone = {} \/ Cardinality(gone) > Cardinality(added)}

(* Cohorts depart, or a company is made an offer: the arrival or the company   *)
(* is registered, or its route brought forward.                                *)
Scheduled(r) ==
    UNION {IF x \notin DOMAIN r.due
           THEN {Register(r, f) : f \in FirstDues(r, {x})}
           ELSE {[r EXCEPT !.due[x] = d] : d \in {t \in r.now + 1 .. r.due[x] - 1 : RetimesRoutes}} :
             x \in Arrivals \cup Companies}

ReviewOutcomes(r, x) ==
    {Retire(r)}
    \cup {Again(s, Every[x]) :
            s \in {r} \cup {Owe(r, {y}) : y \in Unrouted(r)} \cup Ordered(r) \cup Scheduled(r)}

(* The theater becomes engaged, with the player's formation or without, stays, *)
(* or leaves it by withdrawal or battle; a battle of the player's formation    *)
(* needs the acknowledged contact, which is consumed with the engagement.      *)
Disengaged(r) ==
    [r EXCEPT !.theater = "quiet", !.ack = IF @ = "contact" THEN "none" ELSE @]
ContactOutcomes(r, x) ==
    {Again(r, Every[x])}
    \cup CASE r.theater = "quiet" ->
                {Again([r EXCEPT !.theater = "away"], Every[x]),
                 Wake([r EXCEPT !.theater = "engaged"])}
           [] r.theater = "engaged" ->
                {Again(Disengaged(r), Every[x])}
                \cup (IF r.ack = "contact" THEN {} ELSE {Fail(r)})
           [] r.theater = "away" -> {Again(Disengaged(r), Every[x])}

ReconOutcomes(r) ==
    IF Overdue(r) THEN {Fail(r)} ELSE {Again(s, ReconcileEvery) : s \in Reconciled(r)}

(* A journey, a contract: over, or due again within n.                         *)
LegOutcomes(r, n) == {Retire(r)} \cup {Again(r, k) : k \in 1 .. n}

Outcomes(r, x) ==
    CASE x = Recon -> ReconOutcomes(r)
      [] x \in Ceremonies -> {Retire(r), Wake(r)}
      [] x \in Marches \cup Arrivals -> LegOutcomes(r, Longest)
      [] x \in Companies -> LegOutcomes(r, Every[x])
      [] x \in Reviews -> ReviewOutcomes(r, x)
      [] x \in Contacts -> ContactOutcomes(r, x)
-----------------------------------------------------------------------------
(* A window.                                                                   *)

(* Mutant: the priority counts before the instant.                             *)
ByPriority(e, f) == e[2] < f[2] \/ (e[2] = f[2] /\ e[1] <= f[1])
Before(e, f) == e[1] < f[1] \/ (e[1] = f[1] /\ e[2] <= f[2])

(* The loop pops entries until it meets one that its route still answers to:   *)
(* the route has not been retired, suspended or given another instant.         *)
Stale(e) == e[2] \notin Live(rt) \/ rt.due[e[2]] # e[1]
Answered == {e \in queue : ~Stale(e)}
Top == CHOOSE e \in Answered : \A f \in Answered : Before(e, f)
Reaches == Answered # {} /\ Top[1] <= step   \* something is left in the window

NextBoundary ==
    LET inside == {rt.due[x] : x \in {y \in Live(rt) : rt.now <= rt.due[y] /\ rt.due[y] <= cmd.target}}
    IN  CHOOSE t \in inside \cup {cmd.target} : \A u \in inside : t <= u

StartWindow ==
    /\ pc \in {"begin", "between"}
    /\ rt.now < cmd.target \/ (pc = "begin" /\ cmd.kind # "downtime")
    /\ step' = IF cmd.kind = "downtime" THEN NextBoundary
               ELSE IF cmd.target <= rt.now + Window THEN cmd.target ELSE rt.now + Window
    /\ rt' = IF cmd.kind = "other" THEN rt ELSE Resumed(rt)
    /\ queue' = Entries(rt')
    /\ known' = Generations(rt')
    /\ pos' = Positions(rt'.rows)
    /\ pc' = "loop"
    /\ UNCHANGED <<saved, cmd>>

NoHeap == queue' = {} /\ known' = {} /\ pos' = <<>>

(* Before the clock moves to the next due instant, or at last to the window's  *)
(* end, the battlefields are settled up to it.                                 *)
Interrupts ==
    {t \in rt.now + 1 .. (IF Reaches THEN Top[1] ELSE step) : BattleReports}

Interrupt ==
    /\ pc = "loop" /\ cmd.kind # "other"
    /\ \E t \in Interrupts :
         rt' = [rt EXCEPT !.now = t, !.wake = [kind |-> "report", route |-> NoRoute], !.ack = "none"]
    /\ NoHeap
    /\ pc' = "stopped"
    /\ UNCHANGED <<saved, cmd, step>>

(* Mutant: the moved row keeps the position it had.                            *)
SwapUnnoticed(r, x, at) ==
    LET last == Len(r.rows)
    IN  [rt |-> [r EXCEPT !.due = Restrict(@, DOMAIN @ \ {x}),
                          !.rows = SubSeq([r.rows EXCEPT ![at[x]] = r.rows[last]], 1, last - 1)],
         pos |-> Restrict(at, DOMAIN at \ {x})]

(* The settled route's row is overwritten by the last one.                     *)
SwapDelete(r, x, at) ==
    LET last == Len(r.rows)
    IN  [rt |-> [r EXCEPT !.due = Restrict(@, DOMAIN @ \ {x}),
                          !.rows = SubSeq([r.rows EXCEPT ![at[x]] = r.rows[last]], 1, last - 1)],
         pos |-> [y \in DOMAIN at \ {x} |-> IF y = r.rows[last] THEN at[x] ELSE at[y]]]

(* What the window sees of the registry r a callback has left: rows beyond the *)
(* former length are new, and unless the registry was reconciled, is shorter,  *)
(* or has not got the settled route x where it was, nothing else is looked at. *)
Fresh(r) == {r.rows[i] : i \in Len(rt.rows) + 1 .. Len(r.rows)}
Seen(r) == Over(Restrict(Positions(r.rows), Fresh(r)), pos)
(* Mutant: a reconciliation is looked at like any other callback.              *)
RebuildsOnLoss(r, x) ==
    \/ Len(r.rows) < Len(rt.rows)
    \/ x \notin DOMAIN Seen(r)
    \/ Seen(r)[x] > Len(r.rows)
    \/ r.rows[Seen(r)[x]] # x
Rebuilds(r, x) ==
    \/ x = Recon
    \/ Len(r.rows) < Len(rt.rows)
    \/ x \notin DOMAIN Seen(r)
    \/ Seen(r)[x] > Len(r.rows)
    \/ r.rows[Seen(r)[x]] # x
Unseen(r) == {y \in Fresh(r) : <<r.due[y], y>> \notin known}

(* The settled route goes to sleep with the question to the player.            *)
Suspend(x, r) ==
    /\ cmd.kind # "other"
    /\ rt' = [r EXCEPT !.held = @ \cup {x}, !.ack = "none",
                       !.wake = [kind |-> IF x \in Contacts THEN "contact" ELSE "ceremony",
                                 route |-> x]]
    /\ NoHeap
    /\ pc' = "stopped"

(* The settled route falls due again, or is retired.                           *)
Proceed(x, out) ==
    LET r == out.rt
        at == IF Rebuilds(r, x) THEN Positions(r.rows) ELSE Seen(r)
        next == Top[1] + out.after
        left == IF out.fate = "retire" THEN SwapDelete(r, x, at)
                ELSE [rt |-> [r EXCEPT !.due[x] = next], pos |-> at]
        again == IF out.fate = "retire" THEN {} ELSE {<<next, x>>}
    IN  /\ rt' = left.rt
        /\ IF Rebuilds(r, x)
           THEN /\ queue' = Entries(rt')
                /\ known' = Generations(rt')
                /\ pos' = Positions(rt'.rows)
           ELSE /\ queue' = {e \in queue : ~Before(e, Top)} \cup again
                             \cup {<<r.due[y], y>> : y \in Unseen(r) \cap Live(r)}
                /\ known' = known \cup again \cup {<<r.due[y], y>> : y \in Unseen(r)}
                /\ pos' = left.pos
        /\ pc' = "loop"

Settle ==
    /\ pc = "loop" /\ Reaches /\ Top[1] >= rt.now
    /\ \E out \in Outcomes([rt EXCEPT !.now = Top[1]], Top[2]) :
         \/ out.fate = "wake" /\ Suspend(Top[2], out.rt)
         \/ out.fate \in {"again", "retire"} /\ Proceed(Top[2], out)
    /\ UNCHANGED <<saved, cmd, step>>

(* Mutant: the clock moves to the target of the command.                       *)
CloseAtTarget ==
    /\ pc = "loop" /\ ~Reaches
    /\ rt' = [rt EXCEPT !.now = cmd.target]
    /\ NoHeap
    /\ pc' = "between"
    /\ UNCHANGED <<saved, cmd, step>>

(* Nothing is left in the window: the clock moves to its end.                  *)
Close ==
    /\ pc = "loop" /\ ~Reaches
    /\ rt' = [rt EXCEPT !.now = step]
    /\ NoHeap
    /\ pc' = "between"
    /\ UNCHANGED <<saved, cmd, step>>
-----------------------------------------------------------------------------
(* The commands.                                                               *)

Done == pc' = "idle" /\ cmd' = NoCommand /\ step' = 0

(* A command that takes no time: it may create or cancel owners of routes, and *)
(* it may be the response to a wake.                                           *)
Respond ==
    /\ pc = "idle"
    /\ \E S \in {{}} \cup {{x} : x \in Unrouted(saved)} :
         \E r \in Responses([Owe(saved, S) EXCEPT !.dirty = @ \/ S # {}]) :
            saved' = r /\ rt' = r
    /\ UNCHANGED <<cmd, pc, step, queue, known, pos>>

(* advance_time goes on from a wake, plainly or until something concerns the   *)
(* player; other commands that take time are not a decision about it.          *)
Begin ==
    /\ pc = "idle"
    /\ \E kind \in {"advance", "downtime", "other"}, target \in saved.now .. MaxTime :
         cmd' = [kind |-> kind, target |-> target]
    /\ saved.dirty => ~Overdue(saved)
    /\ rt' \in Prepared(saved)
    /\ pc' = "begin"
    /\ UNCHANGED <<saved, step, queue, known, pos>>

Commit ==
    /\ \/ pc = "stopped"
       \/ pc = "between" /\ (rt.now >= cmd.target \/ cmd.kind = "downtime")
       \/ pc = "begin" /\ cmd.kind = "downtime" /\ rt.now >= cmd.target
    /\ rt' \in (IF cmd.kind = "other" THEN Responses(rt) ELSE {rt})
    /\ saved' = rt'
    /\ Done
    /\ UNCHANGED <<queue, known, pos>>

(* The command raises: its staged documents are thrown away.                   *)
Refused ==
    \/ /\ Reaches
       /\ \/ Top[1] < rt.now
          \/ \E out \in Outcomes([rt EXCEPT !.now = Top[1]], Top[2]) :
               out.fate = "fail" \/ (out.fate = "wake" /\ cmd.kind = "other")
    \/ cmd.kind = "other" /\ Interrupts # {}

Refuse ==
    /\ pc = "loop" /\ Refused
    /\ rt' = saved
    /\ NoHeap
    /\ Done
    /\ UNCHANGED saved

Next ==
    \/ Respond \/ Begin
    \/ StartWindow \/ Interrupt \/ Settle \/ Close
    \/ Commit \/ Refuse

(* The owners' hosts are registered at first, the reconciliation host may not  *)
(* be, and of the ceremonies some are owed.                                    *)
Init ==
    /\ \E R \in {{}, {Recon}}, C \in SUBSET Ceremonies, from \in {0} :
         \E d \in [R \cup C \cup Reviews \cup Contacts -> 1 .. ReconcileEvery] :
            /\ Recon \in R => d[Recon] = ReconcileEvery
            /\ \A x \in Reviews \cup Contacts : d[x] <= Every[x]
            /\ saved = [now |-> from, due |-> d, rows |-> Ranked(DOMAIN d), held |-> {},
                        wake |-> NoWake, ack |-> "none", theater |-> "quiet",
                        dirty |-> FALSE, owed |-> [x \in Ceremonies \ C |-> from]]
    /\ rt = saved
    /\ cmd = NoCommand /\ pc = "idle" /\ step = 0
    /\ queue = {} /\ known = {} /\ pos = <<>>

Spec == Init /\ [][Next]_vars
-----------------------------------------------------------------------------
(* The shapes of the variables.                                                *)
TypeOK ==
    /\ Document(saved) /\ Document(rt)
    /\ cmd \in [kind : {"none", "advance", "downtime", "other"}, target : 0 .. MaxTime]
    /\ pc \in {"idle", "begin", "loop", "between", "stopped"}
    /\ step \in 0 .. MaxTime
    /\ \A e \in queue \cup known : e \in Nat \X Routes
    /\ DOMAIN pos \subseteq Routes

(* The clock never passes a route that has not been settled: set_causal_frontier *)
(* would otherwise have to move backward, which every later advance refuses.   *)
NothingOverdue == ~Overdue(saved) /\ ~Overdue(rt)

(* In a window, the heap holds every route that falls due in it (scheduler and  *)
(* registry agree although callbacks rewrite the registry).                    *)
HeapCovers ==
    pc = "loop" => \A x \in Live(rt) : rt.due[x] <= step => <<rt.due[x], x>> \in queue

(* The rows where the window believes the routes to be are where they are, so   *)
(* that retiring one removes its own row and no other.                         *)
PositionsExact == pc = "loop" => pos = Positions(rt.rows)

(* A suspended route is one the player has been asked about, and only that:    *)
(* nothing sleeps without a wake that will resume it, and a wake of a contact  *)
(* or a ceremony never loses its host.                                         *)
Asked(r) == IF r.wake.kind \in {"contact", "ceremony"} THEN {r.wake.route} ELSE {}
WakeHoldsRoute == saved.held = Asked(saved) /\ rt.held = Asked(rt)

(* No owner stays without its route for longer than the reconciliation cadence. *)
OwedWithinCadence ==
    \A r \in {saved, rt} : \A x \in DOMAIN r.owed : r.now - r.owed[x] <= ReconcileEvery

(* The scheduler implements the promise of CausalClock.                        *)
Open(r) == [x \in Live(r) |-> r.due[x]]
Clock == INSTANCE CausalClock WITH
    Obligations <- Routes, now <- rt.now, due <- Open(rt),
    mark <- [now |-> saved.now, due |-> Open(saved)]
ClockSpec == Clock!ClockSpec
=============================================================================
