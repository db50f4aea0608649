---------------------------- MODULE CampaignOrders ----------------------------
(***************************************************************************)
(* The order cycle of one campaign: Tang Wei's operation with its orders,   *)
(* the command cycle of the superior headquarters, and the couriers that    *)
(* carry reports up and orders down.  Issue and receipt of an order are      *)
(* different facts.  The documents are one record, camp, as every function  *)
(* of the source reads them, changes them and puts them back; an advance    *)
(* runs Prepare once and then settles the due hosts in the order of time.   *)
(*                                                                         *)
(* Orders are named by their place in operational_orders, which is only     *)
(* appended to.  Matters are what a report can carry: the report of an       *)
(* arrival <<"arrival", order, authorized>> and requests for a follow-on     *)
(* order <<"request", name, place it was made at>>.                         *)
(***************************************************************************)
EXTENDS Naturals, Sequences, SequencesExt, Ranks

CONSTANTS
    Places, Staging, Objective,     \* where people and the army are
    Requests,                   \* follow-on requests Tang Wei may make
    Travel,                     \* ticks a courier rides between two places
    Fords,                      \* places reached over a crossing that may become unusable
    Handling,                   \* ticks of staff handling of an order
    Recent,                     \* delivered orders and decisions kept (32)
    RecentReports,              \* delivered reports kept (48)
    MaxMoves,                   \* bound of journeys and of crossings lost
    None

ASSUME OrdersAssumption ==
    /\ {Staging, Objective} \subseteq Places /\ None \notin Places /\ Fords \subseteq Places
    /\ Travel \in Nat /\ Handling \in Nat
    /\ {Recent, RecentReports} \subseteq Nat \ {0} /\ MaxMoves \in Nat

VARIABLES
    camp,       \* the saved documents of the campaign
    mode,       \* "idle" between commands, "begun" or "ticked" in an advance
    saved,      \* what an advance falls back on when a callback raises; kept only
                \* while a place is cut off, for no callback raises otherwise
    moves,      \* journeys made and crossings lost
    heard,      \* history: matters put before the superior where he was
    brought     \* history: orders a courier or the council has brought

vars == <<camp, mode, saved, moves, heard, brought>>

Wei == "wei"
Superior == "superior"
Army == "army"

MaxAge == Travel + Handling
Ride(a, b) == IF a = b THEN 0 ELSE Travel

\* command_message_route: where none is usable, shortest_path raises.
Linked(c, a, b) == a = b \/ {a, b} \cap c.cut = {}

AtLeast(n, k) == IF n > k THEN n ELSE k
Less(n, k) == IF n > k THEN n - k ELSE 0

Newest(rows, n) == SubSeq(rows, AtLeast(1, Less(Len(rows) + 1, n)), Len(rows))

\* The rows that are not old, and the last n of those that are.
RetainNew(rows, old, n) ==
    AtPlaces(rows, {i \in DOMAIN rows :
                        i \in old => Cardinality({j \in old : j >= i}) <= n})

-----------------------------------------------------------------------------
(* Orders of the operation. *)

Kinds  == {"entry", "mission", "direction"}
Stands == {"open", "done", "pending", "active"}
Order(kind, base, matters, phase, stands, authorized) ==
    [kind |-> kind, base |-> base, matters |-> matters, phase |-> phase,
     stands |-> stands, authorized |-> authorized, age |-> 0]

Current(c) == c.orders[c.cur]

\* current order completed: by its actionability, by its status or the operation's.
Complete(c) == Current(c).stands = "done"

Destination(c) == IF Current(c).authorized THEN Objective ELSE Staging

\* reconcile_campaign_arrival: the packet is done when every formation is there.
Arrived(c) ==
    IF ~(/\ Current(c).kind = "entry" /\ Current(c).stands = "open"
         /\ c.place[Army] = Destination(c))
    THEN c
    ELSE [c EXCEPT
            !.orders[c.cur].stands = "done",
            !.status = IF Current(c).authorized THEN "arrived" ELSE "waiting",
            !.phase  = IF Current(c).authorized THEN "arrived" ELSE "waiting",
            !.site   = Destination(c),
            !.learnt = @ \union {<<"arrival", c.cur, Current(c).authorized>>}]

\* The operation waits for entry authority, by its phase, its status or its order.
Waits(c) ==
    \/ c.phase = "waiting" \/ c.status = "waiting"
    \/ Current(c).kind = "entry" /\ Current(c).stands = "done" /\ ~Current(c).authorized

\* ensure_actionable_mission_packet for an operation with entry authority: a packet
\* that is not open for the entry is written anew.  A phase that is set stays.
Briefed(c) ==
    Arrived(IF Current(c).stands = "open" /\ Current(c).authorized THEN c
            ELSE [c EXCEPT !.orders[c.cur].stands = "open",
                           !.orders[c.cur].authorized = TRUE,
                           !.status = "briefed"])

\* _reconcile_campaign_entry_authority.
Reopens(c) == Waits(c) /\ c.authority
Reopen(c)  == IF Reopens(c) THEN Briefed(c) ELSE c

\* materialize_reconciled_campaign_follow_on_orders: a delivered order that became
\* actionable in place is issued again under a name of its own.  It asks for the phase
\* of the concentration, which an operation that waited has left and Briefed does not
\* restore, so that in this cycle it is never met.
FollowOn(c, reopened) ==
    IF ~(/\ reopened /\ c.phase = "concentration" /\ c.status = "briefed"
         /\ Current(c).stands = "open" /\ Current(c).authorized
         /\ c.cur \in ToSet(c.delivered))
    THEN c
    ELSE [c EXCEPT
            !.orders = Append(@, Order("entry", c.cur, {}, c.phase, "open", TRUE)),
            !.cur = Len(c.orders) + 1]

-----------------------------------------------------------------------------
(* Reports to the superior. *)

Delivered(report) == report.status = "delivered"
Stranded(report) == report.status = "unresolved"
Carried(c) == UNION {r.matters : r \in ToSet(c.reports)}

\* retain_upward_reports.
KeptReports(rows) == RetainNew(rows, {i \in DOMAIN rows : Delivered(rows[i])}, RecentReports)

\* queue_upward_report: delivered at once to a superior in the same place; without a
\* route it is kept and never sent.
Queue(c, matters) ==
    LET ride == Ride(c.place[Wei], c.place[Superior])
        status == IF ~Linked(c, c.place[Wei], c.place[Superior]) THEN "unresolved"
                  ELSE IF ride = 0 THEN "delivered" ELSE "transit"
        report == [matters |-> matters, to |-> c.place[Superior], status |-> status,
                   left |-> IF status = "transit" THEN ride ELSE None]
    IN [c EXCEPT !.reports = KeptReports(Append(@, report)),
                 !.known   = IF status = "delivered" THEN @ \union matters ELSE @]

\* _requests_for_cycle: a request counts while there is a route from where it was made.
Routable(c, m) == m[1] = "arrival" \/ Linked(c, m[3], c.place[Superior])

\* _report_material_inputs: what is neither delivered nor in a kept report.
Report(c) ==
    LET new == {m \in c.learnt \ (c.known \union Carried(c)) : Routable(c, m)}
    IN IF new = {} THEN c ELSE Queue(c, new)

-----------------------------------------------------------------------------
(* Decisions of the superior. *)

Issued(decision) == decision.delivery = "delivered"

\* Mutant: the decisions are a plain tail.
TailOfDecisions(rows) == Newest(rows, Recent)

\* retain_campaign_command_decisions.
KeptDecisions(rows) == RetainNew(rows, {i \in DOMAIN rows : Issued(rows[i])}, Recent)

Pending(c) ==
    {o \in {d.order : d \in ToSet(c.decisions)} :
        o \notin ToSet(c.delivered)}

\* What was received, as far as it counts now.
Basis(c) == {m \in c.known : Routable(c, m)}

\* sync_campaign_command_decisions: report what is new; when the current order is
\* complete and something has been received, one mission per basis.  Issue is no
\* receipt: the current order stays.
Decide(c0) ==
    LET c == Report(c0)
        mission == Order("mission", c.cur, Basis(c), c.phase, "pending", Current(c).authorized)
        decided == \E o \in ToSet(c.orders) :
            /\ o.kind = "mission" /\ o.base = c.cur
            /\ o.matters = Basis(c) /\ o.phase = c.phase
    IN IF c0.council # "held" THEN c0
       ELSE IF ~Complete(c) \/ Basis(c) = {} \/ decided THEN c
       ELSE [c EXCEPT
               !.orders = Append(@, mission),
               !.decisions = KeptDecisions(Append(@,
                   [order |-> Len(c.orders) + 1, delivery |-> "pending",
                    prior |-> [cur |-> c.cur, status |-> c.status, phase |-> c.phase]]))]

\* The decisions with the delivery of those on the orders S rewritten.
Redelivered(c, S, how) ==
    [i \in DOMAIN c.decisions |->
        IF c.decisions[i].order \in S THEN [c.decisions[i] EXCEPT !.delivery = how]
        ELSE c.decisions[i]]

Stand(order, how) == [order EXCEPT !.stands = how]

\* reconcile_undelivered_campaign_decisions.
Demote(c) ==
    LET prior == (CHOOSE d \in ToSet(c.decisions) : d.order = c.cur).prior
        off == [c EXCEPT
            !.orders = [o \in DOMAIN c.orders |->
                IF o \in Pending(c) THEN Stand(c.orders[o], "pending") ELSE c.orders[o]],
            !.decisions = KeptDecisions(Redelivered(c, Pending(c), "pending"))]
    IN IF c.cur \notin Pending(c) THEN off
       ELSE [off EXCEPT !.cur = prior.cur, !.status = prior.status, !.phase = prior.phase,
                        !.shown = IF @ = c.cur THEN c.orders[c.cur].base ELSE @]

\* _register_host of phase superior_order: a courier that is on its way stays on it.
Dispatch(c, o, soonest) ==
    IF \E m \in c.mail : m.order = o THEN c
    ELSE [c EXCEPT !.mail = @ \union {[order |-> o, left |->
            AtLeast(Less(Ride(c.place[Superior], c.place[Wei]) + Handling,
                         c.orders[o].age), soonest)]}]

\* sync_campaign_decision_delivery_routes: an order without a route waits for the next one.
Routes(c) ==
    IF ~Linked(c, c.place[Superior], c.place[Wei]) THEN c
    ELSE [c EXCEPT
        !.mail = @ \union UNION {Dispatch(c, o, 1).mail : o \in Pending(c)},
        !.decisions = Redelivered(c, Pending(c), "transit")]

-----------------------------------------------------------------------------
(* The command cycle: council, daily briefings, reviews. *)

Suppressed == {"concentration", "waiting"}

\* _daily_cycle_enabled.
Daily(c) == c.phase \notin Suppressed

\* _ensure_cycle: the first time it summons the council, later it refreshes the venue.
\* Nobody waits for a superior who has no route to it.
Ensured(c) ==
    LET comes == Linked(c, c.place[Superior], c.site)
    IN IF c.council # "none" THEN [c EXCEPT !.venue = c.site]
       ELSE [c EXCEPT !.council = "summoned", !.venue = c.site,
                      !.origin = c.place[Superior], !.summoned = comes,
                      !.meet = IF comes THEN AtLeast(1, Ride(c.place[Superior], c.site)) ELSE 1]

\* sync_campaign_command_cycle: the current order, when it was not received, gets a
\* courier; battles their review; the daily briefings only in the field.  An order that
\* has no route ends the round of the operation.
Cycle(c0) ==
    LET c == Ensured(c0)
        waits == c.cur \notin ToSet(c.delivered)
        stuck == waits /\ ~Linked(c, c.place[Superior], c.place[Wei])
    IN IF c0.council # "held" \/ stuck THEN c
       ELSE [(IF waits THEN Dispatch(c, c.cur, 0) ELSE c) EXCEPT
                !.review = IF @ = "due" THEN "hosted" ELSE @,
                !.daily = Daily(c)]

\* _prepare_scheduler_for_advance, the whole chain of it.
Prepare(c) ==
    LET demoted  == Demote(c)
        arrived  == Arrived(Reopen(demoted))
        followed == FollowOn(arrived, Reopens(demoted))
        routed   == Routes(Demote(Decide(followed)))
    IN Cycle(Reopen(routed))

\* Mutant: the list of received orders only grows.
AllReceived(c, o) == IF o \in ToSet(c.delivered) THEN c.delivered ELSE Append(c.delivered, o)

\* delivered_superior_order_refs: each once, the last Recent.
Received(c, o) ==
    IF o \in ToSet(c.delivered) THEN c.delivered ELSE Newest(Append(c.delivered, o), Recent)

\* _settle_council: the superior travels without the army; the current order is
\* handed over in the council.
Council(c) ==
    LET comes == \/ c.place[Superior] = c.venue
                 \/ c.summoned /\ c.place[Superior] = c.origin
    IN [c EXCEPT
          !.place[Superior] = IF comes THEN c.venue ELSE @,
          !.council = "held", !.meet = None, !.back = 1,
          !.scene = c.place[Wei] = c.venue,
          !.delivered = Received(c, c.cur),
          !.shown = c.cur]

\* _settle_council_return: who is still at the venue returns to his origin.
Return(c) ==
    [c EXCEPT
        !.place[Superior] = IF @ = c.venue THEN c.origin ELSE @,
        !.back = None, !.scene = FALSE]

\* activate_delivered_campaign_decision.
Activate(c, o) ==
    IF \/ c.orders[o].kind # "mission" \/ o \notin ToSet(c.delivered)
       \/ c.orders[o].stands = "active" /\ c.cur = o
    THEN c
    ELSE [c EXCEPT
            !.orders[o].stands = "active", !.cur = o,
            !.status = "active", !.phase = "development", !.shown = o,
            !.decisions = KeptDecisions(Redelivered(c, {o}, "delivered"))]

\* Mutant: the courier hands over the latest decision.
LatestDecision(c, m) == IF c.decisions = <<>> THEN m.order ELSE Last(c.decisions).order

\* The host's phase_instance_ref.
Carries(c, m) == m.order

\* _settle_superior_order, then the activation of a mission.
Receive(c, m) ==
    LET o   == Carries(c, m)
        off == [c EXCEPT !.mail = @ \ {m}]
    IN Activate(IF o \in ToSet(c.delivered) THEN off
                ELSE [off EXCEPT !.delivered = Received(c, o), !.shown = c.cur], o)

\* Mutant: a report counts as delivered where its courier was sent.
DeliveredThere(c, r) == TRUE

\* ensure_recipient_message_delivery: only where the superior is.
Reaches(c, r) == c.place[Superior] = r.to

\* Mutant: the courier that missed the superior is not sent after him.
NotForwarded(c, r) == [r EXCEPT !.left = 0]

Forwarded(c, r) == [r EXCEPT !.to = c.place[Superior],
                             !.left = AtLeast(1, Ride(r.to, c.place[Superior]))]

\* The superior has left to a place the courier has no route to: the callback raises.
Raises(c, r) == ~Reaches(c, r) /\ ~Linked(c, r.to, c.place[Superior])

\* settle_upward_report_delivery.
Deliver(c, i) ==
    LET r == c.reports[i]
    IN IF Reaches(c, r)
       THEN [c EXCEPT !.reports = KeptReports([@ EXCEPT ![i].left = None,
                                                         ![i].status = "delivered"]),
                      !.known = @ \union r.matters]
       ELSE [c EXCEPT !.reports[i] = Forwarded(c, r)]

-----------------------------------------------------------------------------

Init ==
    /\ \E army \in {Staging, None}, superior \in Places :
        camp = [orders |-> <<Order("entry", None, {}, "concentration", "open", FALSE)>>,
                cur |-> 1, status |-> "briefed", phase |-> "concentration",
                site |-> Staging, authority |-> FALSE, learnt |-> {},
                place |-> [wei |-> Staging, superior |-> superior, army |-> army],
                cut |-> {},
                council |-> "none", venue |-> None, origin |-> None, summoned |-> FALSE,
                meet |-> None,
                back |-> None, scene |-> FALSE, delivered |-> <<>>, shown |-> None,
                decisions |-> <<>>, reports |-> <<>>, known |-> {}, mail |-> {},
                review |-> "none", daily |-> FALSE]
    /\ mode = "idle" /\ saved = None /\ moves = 0 /\ heard = {} /\ brought = {}

\* What was put before the superior in this step, and where he really is.
Hear(c, r) == IF r.to = c.place[Superior] THEN r.matters ELSE {}

Ask ==
    /\ mode = "idle"
    /\ \E r \in Requests :
        /\ \A p \in Places : <<"request", r, p>> \notin camp.learnt
        /\ camp' = [camp EXCEPT !.learnt = @ \union {<<"request", r, camp.place[Wei]>>}]
    /\ UNCHANGED <<mode, saved, moves, heard, brought>>

\* Journeys of Tang Wei, of the superior, marches of the army: by their own hosts.
Journey ==
    /\ moves < MaxMoves /\ moves' = moves + 1
    /\ \E who \in {Wei, Superior, Army}, p \in Places :
        /\ camp.place[who] # p
        /\ camp' = [camp EXCEPT !.place[who] = p]
    /\ UNCHANGED <<mode, saved, heard, brought>>

\* strategic_crossing_action: a bridge, a ferry or a ford becomes unusable, or usable.
Crossing ==
    /\ mode = "idle"
    /\ \E p \in Fords :
        \/ /\ p \notin camp.cut /\ moves < MaxMoves /\ moves' = moves + 1
           /\ camp' = [camp EXCEPT !.cut = @ \union {p}]
        \/ /\ p \in camp.cut /\ UNCHANGED moves
           /\ camp' = [camp EXCEPT !.cut = @ \ {p}]
    /\ UNCHANGED <<mode, saved, heard, brought>>

\* The sovereign authorizes the entry.
Authorize ==
    /\ ~camp.authority
    /\ camp' = [camp EXCEPT !.authority = TRUE]
    /\ UNCHANGED <<mode, saved, moves, heard, brought>>

\* A battle is concluded: the operation gets and takes a post-battle direction.
Battle ==
    /\ camp.phase \in {"arrived", "development"} /\ camp.review = "none"
    /\ camp' = [camp EXCEPT
        !.orders = Append(@, Order("direction", None, {}, camp.phase, "open", FALSE)),
        !.cur = Len(camp.orders) + 1,
        !.status = "postbattle", !.phase = "postbattle", !.review = "due"]
    /\ UNCHANGED <<mode, saved, moves, heard, brought>>

Begin ==
    /\ mode = "idle" /\ mode' = "begun"
    /\ camp' = Prepare(camp)
    /\ saved' = IF camp.cut = {} THEN None
                ELSE [camp |-> camp, heard |-> heard, brought |-> brought]
    /\ heard' = heard \union UNION {r.matters : r \in {x \in ToSet(camp'.reports) :
                    Delivered(x) /\ x.to = camp.place[Superior] /\ x \notin ToSet(camp.reports)}}
    /\ UNCHANGED <<moves, brought>>

HoldCouncil ==
    /\ mode # "idle" /\ camp.meet = 0
    /\ camp' = Council(camp)
    /\ brought' = brought \union {camp.cur}
    /\ UNCHANGED <<mode, saved, moves, heard>>

\* While the council is a scene Tang Wei is engaged in, the return is put off.
ReturnFromCouncil ==
    /\ mode # "idle" /\ camp.back = 0
    /\ \/ camp' = Return(camp)
       \/ /\ camp.scene /\ camp.place[Wei] = camp.venue
          /\ camp' = [camp EXCEPT !.back = 1]
    /\ UNCHANGED <<mode, saved, moves, heard, brought>>

OrderArrives ==
    /\ mode # "idle"
    /\ \E m \in {x \in camp.mail : x.left = 0} :
        /\ camp' = Receive(camp, m)
        /\ brought' = brought \union {m.order}
    /\ UNCHANGED <<mode, saved, moves, heard>>

ReportArrives ==
    /\ mode # "idle"
    /\ \E i \in {j \in DOMAIN camp.reports : camp.reports[j].left = 0} :
        /\ ~Raises(camp, camp.reports[i])
        /\ camp' = Deliver(camp, i)
        /\ heard' = heard \union Hear(camp, camp.reports[i])
    /\ UNCHANGED <<mode, saved, moves, brought>>

\* The whole advance is refused.
ReportFails ==
    /\ saved # None /\ mode' = "idle"
    /\ \E r \in ToSet(camp.reports) : r.left = 0 /\ Raises(camp, r)
    /\ camp' = saved.camp /\ heard' = saved.heard /\ brought' = saved.brought
    /\ saved' = None
    /\ UNCHANGED moves

\* _settle_daily, at dawn and at dusk: the standing order is read out.
Brief ==
    /\ mode # "idle" /\ camp.daily /\ Daily(camp)
    /\ camp.shown # camp.cur
    /\ camp' = [camp EXCEPT !.shown = camp.cur]
    /\ UNCHANGED <<mode, saved, moves, heard, brought>>

\* _settle_after_action_review.
Review ==
    /\ mode # "idle" /\ camp.review = "hosted"
    /\ camp' = [camp EXCEPT !.review = "reviewed", !.shown = camp.cur]
    /\ UNCHANGED <<mode, saved, moves, heard, brought>>

Later(n) == IF n = None THEN None ELSE n - 1
NothingDue ==
    /\ camp.meet # 0 /\ camp.back # 0
    /\ \A m \in camp.mail : m.left # 0
    /\ \A r \in ToSet(camp.reports) : r.left # 0

Older(o) == [o EXCEPT !.age = IF @ < MaxAge /\ o.stands = "pending" THEN @ + 1 ELSE @]

\* Time passes to the next instant something may be due.
Tick ==
    /\ mode # "idle" /\ NothingDue /\ mode' = "ticked"
    /\ camp' = [camp EXCEPT
        !.meet = Later(@), !.back = Later(@),
        !.mail = {[m EXCEPT !.left = @ - 1] : m \in camp.mail},
        !.reports = [i \in DOMAIN camp.reports |-> [camp.reports[i] EXCEPT !.left = Later(@)]],
        !.orders = [o \in DOMAIN camp.orders |-> Older(camp.orders[o])]]
    /\ UNCHANGED <<saved, moves, heard, brought>>

Finish ==
    /\ mode = "ticked" /\ NothingDue /\ mode' = "idle" /\ saved' = None
    /\ UNCHANGED <<camp, moves, heard, brought>>

Settle == HoldCouncil \/ ReturnFromCouncil \/ OrderArrives \/ ReportArrives \/ ReportFails

Next ==
    \/ Ask \/ Journey \/ Crossing \/ Authorize \/ Battle
    \/ Begin \/ Settle \/ Brief \/ Review \/ Tick \/ Finish

\* Tang Wei keeps advancing; an advance settles what is due and ends at its target.  Only
\* Begin changes the mode to "begun".
Spec ==
    /\ Init /\ [][Next]_vars
    /\ WF_mode(mode = "idle" /\ mode' = "begun")
    /\ WF_vars(Settle) /\ WF_vars(Tick) /\ SF_vars(Finish)

-----------------------------------------------------------------------------

(***************************************************************************)
(* The operation turns to a mission of the superior only after the mission  *)
(* was brought to Tang Wei, whatever other orders, battles and advances     *)
(* came between issue and receipt (campaign_command_delivery.py 129: the    *)
(* pointer stays at "the last delivered basis").                            *)
(***************************************************************************)
MissionReceived ==
    Current(camp).kind = "mission" => camp.cur \in brought

(***************************************************************************)
(* A mission that was issued and not yet brought is never forgotten: its    *)
(* decision is kept however many newer ones came, and while it counts as in *)
(* transit a courier is on the way (campaign_command_cycle.py 1893:         *)
(* "unresolved causal work is never a cache entry").                        *)
(***************************************************************************)
NoMissionLost ==
    \A o \in DOMAIN camp.orders :
        camp.orders[o].kind = "mission" /\ o \notin brought =>
            \E d \in ToSet(camp.decisions) :
                /\ d.order = o
                /\ d.delivery = "transit" => \E m \in camp.mail : m.order = o

(***************************************************************************)
(* The superior decides on what he has: every matter a mission rests on was *)
(* put before him at the place where he was, although he may have moved     *)
(* while the report was under way (campaign_communications.py 153-190).     *)
(***************************************************************************)
DecidedOnReceived ==
    \A o \in ToSet(camp.orders) : o.matters \subseteq heard

Passable == <>[](camp.cut = {})

(***************************************************************************)
(* Once the council is held, what Tang Wei learnt or requested reaches the  *)
(* superior in the end, if he keeps advancing, the superior stops           *)
(* travelling and the crossings become usable for good: reports follow him, *)
(* and an advance that is refused is made again.  A report that found no    *)
(* route when it was written is excepted: it is kept and nobody sends it    *)
(* (campaign_communications.py 269, 303; campaign_command_decision.py 228). *)
(***************************************************************************)
RequestsReach ==
    Passable => (camp.council = "held" ~>
        camp.learnt \subseteq camp.known \union
            UNION {r.matters : r \in {x \in ToSet(camp.reports) : Stranded(x)}})
==============================================================================
