# Formal model of the Sword runtime

A verification project for `runtime/sword_runtime`: the service that turns a
player's command into exactly one Git commit of a campaign repository, the
calls that reach it, the startup that selects and repairs that repository, the
scheduler that moves the campaign's clock, and three of the domains whose state
is spread over several documents: campaign orders, the personnel of a force, and
prisoners. TLA+ modules model the components, TLC checks them on
small instances, and TLAPS proves nearly all of their safety properties for every
value of the constants: that the coordinator implements an exactly-once ledger and
the scheduler a clock that passes no obligation, that no order is lost, and that no
soldier and no prisoner appears or vanishes.

Paths below are relative to `runtime/sword_runtime/`.

## 1. The system

### Components

| component | source | state it keeps | operations |
|---|---|---|---|
| transaction coordinator | `tx/coordinator.py`, `tx/manifest.py`, `tx/persistence.py` | none of its own; drives the stores below | `execute`, `_recover_locked`, `_abort_uncommitted`, `recover` |
| write-ahead log | `tx/wal.py` | `pending/`, `terminal/`: per transaction a status and its before and after images | `prepare`, `mark_applied`, `classify`, `rollback`, `mark_committed`, `archive_terminal` |
| receipts | `tx/receipts.py` | per request id, the command digest, commit and result | `lookup`, `put` |
| Git stager | `tx/git.py` | index, HEAD | `assert_pristine`, `stage`, `commit`, `unstage`, trailer lookup |
| remote durability | `tx/remote.py` | the remote branch | `verify_synchronized`, `ensure_commit_durable` |
| locks | `tx/locking.py`, `campaign_access.py` | an `flock` and per-thread leases | acquire with time-out, re-entry, release; recovery before every read |
| store | `store/` | the checkout's files, temporaries of atomic replacement | `atomic_replace_bytes`, revision checks, planning overlay |
| deployment bootstrap | `branch_bootstrap.py`, `bootstrap.py` | campaign branch, its baseline, retired stores | choose, seed, adopt, republish or change lineage; retire; merge the deployed source; publish |
| scheduler | `causal_living_world.py`, `time_integration.py`, `scheduler_frontier.py`, `downtime.py` | hosts, events, world time, settled frontier, pending wake, dirty flag; a heap in memory | advance time, settle a due host, reconcile routes, suspend and resume on a wake |
| service runtime and campaign access | `service_runtime.py`, `campaign_access.py`, `api/mcp.py`, `api/stable_operations.py` | the planner's cache and overlay, preview attestations | context, preview, execute, retry |
| campaign orders | `campaign_command_*.py`, `campaign_communications.py`, `campaign_briefing.py`, `sovereign_campaign_authority_mixin.py` | an operation's orders, the headquarters' cycle, couriers on the way | authorize, report, decide, dispatch, deliver, brief, review |
| geography and crossings | `geography.py`, `strategic_crossings.py` | bridges, ferries and fords | find a route; damage, repair, open, close a crossing |
| personnel | `cohort_personnel.py`, `cohort_tx_support.py`, `formation_replacement.py`, `engine.py` | force, cohort ledger, formations | recruit, muster, split, merge, dissolve, reinforce, lose, review |
| prisoners | `prisoner_system.py`, `political_depth.py` | groups, their slices, captives, review route | surrender, capture, detain, release, ransom, exchange, recruit, execute, review |
| other planners and domain mechanics | `engine.py`, `personal_combat.py`, `civil_world.py`, `warfare_depth.py`, ... | campaign documents | turn a command into a manifest; callbacks of the scheduler |
| interfaces | `api/` | none | HTTP and MCP operations, each inside the campaign lock |
| release attestation | `deployment_attestation.py`, `startup_integrity.py`, `release_*.py` | hashes of a release | compared once at startup |

### How they interact

`railway.toml` starts `branch_bootstrap`: it prepares the checkout, merges the
deployed source into the campaign branch, calls `bootstrap.ensure_checkout` and
starts the ASGI application, whose eager start calls `recover`. From then on
every public operation, reads included, takes the campaign lock and runs
`_recover_locked` before anything else. A mutating operation plans a manifest
on the staged overlay (the scheduler and its callbacks run here, in memory),
and `execute` takes it through WAL, file replacement, Git commit, push,
receipt and archive. The only state shared by processes is on disk and on the
remote; the only state shared by two deployments is the volume and the remote.

### What is hard

* a kill between any two file operations, with recovery by another process
  that knows nothing but what is on disk;
* a push whose answer is lost: never left, still on its way, landed;
* an exception after the point of no return, where the same handler also
  serves faults before it;
* one request id used again, before, during and after the first use's publication;
* a deployment that changes release, baseline or both while a transaction of
  the old one is pending; kills inside the startup itself;
* other writers: a push to the campaign branch, an edit in the checkout;
* an in-memory heap that must follow a registry which its own callbacks rewrite;
* calls that nest one lock several times, and let others in between its sections;
* orders that are issued, routed, delivered and overtaken by different functions;
* the same bodies counted in three to five documents, each with arithmetic of its
  own, written before or after the hours in which callbacks write them too.

### What makes each component correct

* coordinator: an answered command is durable for ever and recorded once; no
  rollback after the commit; every record is settled in the end;
* reads: no operation sees documents of two revisions;
* remote: nothing counts as durable that the remote has not confirmed;
* bootstrap: serve only the deployed baseline's lineage; keep answered
  commands and pending evidence through every deployment; receipts of one
  lineage never answer on another;
* scheduler: what is due is settled, once, in order, before the frontier
  passes it;
* calls: what is executed is what was previewed, and a retry is answered;
* orders: nobody acts on what no courier brought, and nothing is forgotten;
* personnel and prisoners: no body appears or vanishes, and all documents tell
  the same story.

## 2. The modules

| module | models |
|---|---|
| `TxCoordinator` | coordinator, WAL, receipts, stager, remote, lock and campaign access, step by step, for several processes |
| `ExactlyOnceLedger` | what clients are promised: an append-only list of commands, each request id at most once, each on its base revision, and answers only for what is in it |
| `MCTxCoordinator` | its instances |
| `TxCoordinatorProofs` | typing, exclusion, durability, no rollback after a commit; what the log, the files and the temporaries hold at every kill; the Git histories, and that the coordinator implements `ExactlyOnceLedger` |
| `BranchBootstrap` | startup and deployments, with a coarse gameplay (one transaction at a time, killed anywhere) and the coordinator's recovery at the handoff |
| `MCBranchBootstrap` | its instances |
| `BranchBootstrapProofs` | serving on the own lineage, evidence and answers kept |
| `CausalScheduler` | an advance of the campaign's clock: windows, heap, registry, wakes, reconciliation, refusal |
| `CausalClock` | what the scheduler promises: every obligation settled at its instant, in order, none passed, all of a command or nothing |
| `MCCausalScheduler` | its instances |
| `CausalSchedulerProofs` | the registry's typing, wakes that hold their route, heap, positions and clock in step, the refinement of `CausalClock` |
| `CampaignGateway`, `MCCampaignGateway` | reads, previews and executions as programs of re-entrant lock sections, for threads of several processes and releases |
| `CampaignGatewayProofs` | leases, current reads, honoured previews, answered retries |
| `CampaignOrders`, `MCCampaignOrders` | the order cycle of one campaign, couriers included |
| `CampaignOrdersProofs` | missions brought and not lost, decisions on what was heard |
| `Ranks` | finite sets of naturals in their order, as list comprehensions and `sorted()` make lists of them |
| `CountingProofs` | lemmas about ranks, about the sums and folds of the community modules, and about sums by row, by column and by group |
| `ForceLedger`, `MCForceLedger` | the personnel of one state's force in force, cohorts and formations |
| `ForceLedgerProofs` | sound ledgers, bodies conserved and accounted for, documents that agree |
| `PrisonerCustody`, `MCPrisonerCustody` | prisoners of one force in the hands of one captor |
| `PrisonerCustodyProofs` | captives conserved, named and reviewed, capacity shared |

### TxCoordinator

A *command* stands for its whole envelope, hence for its transaction id,
manifest and after images; a path holds the command that last wrote it (or
`Genesis`, the initial content, or `Alien`, foreign bytes); a history is the
sequence of its commits, so a head determines its ancestry.

`work`, `tmp`, `index`, `tree`, `local` are the checkout; `remote` and `inflight`
the remote and the pushes still travelling; `pending`, `terminal`, `before` the
WAL; `receipts` the receipt store; `lock` the flock. Each process has a phase
`pc`, an operation `op`, a transaction `tx`, a reason `why` (whether it executes,
recovers or aborts) and the paths `todo` it still has to replace. `acked`
records what clients were told.

One action is one externally visible effect: one file replaced, one WAL
status written, one commit, one push sent, one receipt. `Crash` may come
between any two, keeps what is on disk, may leave a temporary of a
half-finished replacement, and frees the lock as the kernel does. `Fault` is an
ordinary exception anywhere and takes the handler's path (`Raise`): before
the commit it rolls back, after it it leaves the record to recovery.
`PushTimeout` is a push that raises while the request may still land later.
`ExternalPush` and `AlienEdit` are the other writers.

The model is of the runtime process. In production `branch_bootstrap` runs
before it, and can refuse a checkout that recovery would have repaired (section 3).

### BranchBootstrap

A head is a sequence of release, merge and transaction commits; a release has
a baseline (`BaselineOf`) and a campaign state (`StateOf`), a baseline a
starting revision. `Start` to `EnsureCheckout` are the steps of
`prepare_campaign_branch` in order, each a separate step because the process
can be killed between them; `RecoverPending` is the coordinator's eager recovery,
and `Prepare` to `Finish` the life of one transaction. `Deploy` replaces the
image by any release, older or newer.

### CausalScheduler

A *route* is a host of the registry with its one event. Routes are naturals:
their order is the heap's order at one instant (priority, then event id). They
have roles, for what their callbacks do to the registry:

| role | hosts | what their settlement does |
|---|---|---|
| `Recon` | `scheduler_reconcile` | fails on an overdue route, else registers what is owed, drops marches without order and companies without contract, brings companies forward |
| `Ceremonies` | `war_closure_ceremony` | one-shot; may wake the player |
| `Marches` | campaign marches | the next leg, or the end |
| `Companies` | `mercenary` | the next deadline of a contract, or none |
| `Arrivals` | `population_mobility_arrival` | the next cohort, or none |
| `Reviews` | states, factions, staffs, command cycles, ... | again after their recurrence, or the end; new owners, orders, departures, offers |
| `Contacts` | `interstate` | a theater becomes engaged (a wake, when the player's formation is in it), stays so, or leaves it |

`saved` is the committed runtime document and `rt` the staged one: `now`
(`world_time`, always equal to `causal_settled_through`), `due`, the order `rows`
of the registry, `held` (suspended routes), `wake`, `ack`, `theater`, `dirty`, and
`owed`, the owners that should have a route and have none, with the instant
since when. `queue`, `known` and `pos` are the heap, the route generations and
the row positions of the window in progress.

`Begin` is the start of a command that takes time, with
`_prepare_scheduler_for_advance`; `StartWindow` the wake's resumption and the
building of the heap, up to the end of the window (seven days, or the next due
instant in event-bounded downtime); `Interrupt` and `Settle` are the loop's
turns (a battlefield report before the next instant; a callback with all the
bookkeeping after it); entries that no route answers to any more are popped on
the way; `Close` moves the clock to the window's end. `Commit` stands for the
transaction above; `Refuse` for any exception, which discards the staged
documents. `Respond` is a command that takes no time. The planner is sequential,
so what is open is what callbacks, battlefields and the player do.

Abstracted: the contents of owners and theaters (one theater, one acknowledged
contact); hours and days (one unit is the hour of a resumed wake, and the two
periods, both seven days in the code, are `Window` and `ReconcileEvery`); the changing
recurrence of the interstate review; routes that a player's command registers
or retimes by itself, which happens outside a window and is seen by the next
one. A callback that fails for reasons of its own is not distinguished from one
that is not legal at all. Two things callbacks really do are switched by
constants, because they break the properties: `RetimesRoutes` and
`SupersedesRoutes` (a march replaced by another one in one callback, which leaves
the registry as long as before). They are `FALSE` in `SchedAdvance`; what it shows
holds for campaigns in which they do not occur within a window.

### CampaignGateway

A call of a public operation is a program of instructions (`Program`): `in` and `out`
for every `with` block of the campaign lock, and the checks and effects between
them, in the order of `api/mcp.py`, `api/stable_operations.py` and
`service_runtime.py`. `depth` is a thread's re-entrant lease, `flock` the file lock,
`planner` the cache and the overlay of a process, `tokens` the attestations handed
out, `history` the campaign. `Enter` counts or takes the flock and forgets the
cache; `Exit` counts or unlocks; an exception unwinds all of a call (`End`);
`Replace` is a killed process and its successor, perhaps of the next release.
Between two outermost sections of one call anything else may run.

Abstracted: a transaction is one step (`TxCoordinator` opens it up); an
attestation may expire at any moment; the translation of interaction commands
and the projections' contents are left out.

### CampaignOrders

The documents are one record `camp`: the operation's `orders`, the pointer `cur` to
the current one, status, phase and authority; the headquarters' decisions and what
the superior has `known`; reports and orders on the way (`reports`, `mail`), each
with the ticks `left`; the council's meeting and return. `Begin` is the
reconciliation that precedes an advance (`Prepare`: entry authority, arrival,
packet, reports, decisions, demotion of undelivered ones, routes, cycle, in the
code's order); then what is due is settled (`HoldCouncil`, `ReturnFromCouncil`,
`OrderArrives`, `ReportArrives`, `Brief`, `Review`) and time passes (`Tick`). `Ask`
and `Crossing` happen between advances, `Journey`, `Authorize` and `Battle` in them too. `heard` and `brought` are history: what was put before the superior, which
orders reached Tang Wei.

`cut` is the set of places (of the constant `Fords`) that couriers cannot reach or leave
because a crossing is unusable. Only the internal command `strategic_crossing_action`
writes crossings, never a callback of an advance; of the four crossings of `routes.json`
two are the only way to `loc_chu_regional_03` and `loc_chu_ei`, and two the only ways to
`loc_retsubi`. What the code does without a route differs from step to
step: a report is stored as `unresolved` and never gets a courier (`Queue`), a request
made there counts neither as material nor as a basis (`Routable`, `Basis`), an order waits
for the next advance (`Routes`, `Cycle`), the superior is not summoned (`Ensured`), and a
courier who missed the superior and cannot follow him raises. `ReportFails` then undoes
the whole advance; `saved` is the document it falls back on, kept only while a place is
cut off because nothing raises otherwise. Every person has a place at all times.

Left out: the appointment of a supreme commander and his directives, contact
replies, routine reports of the day, council attendees other than the superior.
`FollowOn` is translated, though its guard is never met (a finding).

### ForceLedger

`ledger` is the saved documents: the population, the dead, the force's head count,
what is `free` by role and place, what each formation was `given`, the `cohort`s, the
persons, and the formations' documents `doc`. Every reducer is an operator from
ledgers to ledgers and clears `ok` where the code raises; `Check` is
`validate_cohort_ledger`. A command that writes before its hours pass is one
action; an order to a formation is `Begin` (or `Reconstitute`) and `End`, with
reviews, battles and deaths between them, because the code reads the document
before the hours and puts its copy back after them. `Diverged` stands for the commit's
comparison of the strength with the sheet of the formation's commander
(`engine.py` 835-867): the sheets are not state of the model, because reviews, battles,
deaths, training and reconstitution write them together with the strength, and only an
order that puts back another strength than the hours left can differ from them. Such an
order is refused when it mobilizes or supplies, and may be accepted as an assignment,
whose new officer was bound with the strength of the copy. Where the largest remainder has
ties, every way is taken; first-in-first-out order is by slot.

Left out: bodies lent for unit command (every formation has a named commander),
mounts, equipment and officers, several forces, transfers between forces, the
mobilisation of threats, and the wish that a formation be mobilised before it marches.

### PrisonerCustody

`w` is the saved documents: the groups, what the enemy's force has `lent` to each,
the review host's list, where each leader points (`ptr`) and is (`at`), the enemy's
formation with its offer, the captor's formations, and the free bodies, head counts
and populations of both sides. A reducer clears `ok` where the code raises. A
command is its checks and writes, then its hours (`Hours`: none or one daily review of
every routed group), then the validation of the commit (`ValidGroup` for every group
written or pointed to by a person written); a refusal is no step. A reconciliation
before the hours routes the active groups (`Pass`).

Abstracted: statuses other than held are one; one enemy formation; silver, guard
duty, provisions, interrogation and the numbers of care and escape are left out,
so who dies in a review is open. Ghost `twice` and `executed` name the captives for
whom the code breaks its own rule (section 3), and the properties except them.

## 3. The runs

| run | question | bounds |
|---|---|---|
| `TxFaults` | Do durability, read isolation and the exactly-once ledger survive kills, faults and other writers? | 2 processes, 3 commands (two share a request id, two share a base revision), 2 owners and the meta document; either 2 kills and 2 faults, or one of each with a foreign push and a foreign edit |
| `TxLive` | Is every lock released, every record settled, every commit finished? | 2 processes, 1 kill, 1 fault, fair |
| `Gateway` | Do leases and flock agree, are reads current, previews honoured, retries answered? | 2 processes of a thread each, 2 commands on successive revisions (one contested and waking the player, one a response), 2 releases, 1 kill |
| `BootDeploys` | Do kills in gameplay and in the startup, deployments, lost volumes and lost refs leave answers, evidence and lineage right? | 4 releases, 2 baselines, 2 requests; either 2 gameplay kills, 2 startup kills, 3 deployments, 1 refused rename, 1 lost volume, or on one lineage 2 gameplay kills, 1 startup kill, 2 deployments, 2 lost refs |
| `BootMergeOver`, `BootReceipts` | Two places where startup and the documents disagree (violations) | one or two hazards each |
| `SchedAdvance` | Do heap, positions, wakes and clock agree with the registry, and is nothing passed or settled out of order? | one route of each role but `Arrivals`, recurrences 2 and 3, period and window 2, legs of 1, until instant 3 |
| `SchedRetime` | Can a callback bring a route forward? (violation) | an arrival and a review, window 5, until 8 |
| `Orders` | Does everybody act on what was brought to him, is nothing forgotten, does a request arrive? | 2 places 2 ticks apart, one beyond a crossing, handling below a tick, 1 request, lists of length 1, 2 journeys or losses of the crossing |
| `Force` | Are bodies conserved, do the documents agree, is what the rules allow carried out? | 2 roles, 2 places, 2 formations, 1 person, 3 cohorts, 1 civilian and 2 free bodies, 1 order, 1 death |
| `ForceStale` | Do composition, cohorts and allocation stay in exact agreement? (violation) | as `Force` without deaths |
| `Custody` | Are captives conserved, their documents one fact, their reviews routed, capacity shared? | 2 custodians of 1 body, a garrison of 2, 1 leader, a camp for 2 and a field, eight alternative budgets |

Why the bounds are enough to meet the interesting cases: two kills let a
recovery be killed and recovered by a third attempt; two owners beside the
meta document let a manifest be half replaced in two ways; two commands on
one base race for it, and the third reuses the first one's request id on the
next revision; four releases over two baselines let a lineage change forth
and back, a release change without a lineage change, and one change `state/` without
a new baseline. A lost ref is kept to histories of one lineage: the answers of a
lineage that was left have no second copy to come back from. In the scheduler a
horizon of one and a half windows lets a command meet a window's boundary, a
reconciliation inside a window and at its end, and a wake that is resumed by
the next command. In `Orders` lists of length one make every second decision or
report push an older one out, two journeys let the superior leave a place while a report
rides there and come back, and a journey and a lost crossing cut him off before a report
is written or, over the two ticks of two advances, while it rides; a lost crossing may
come back at any time, unbounded. In `Force` three cohorts for two roles leave
room for one isolation or intake, so cohorts are emptied, pruned and taken again. In
`Custody` every custodian can hold two and so can the camp, so that groups of
different origins compete for both.

Bounds are `Budgets` (`TxCoordinator`, `BranchBootstrap`, `PrisonerCustody`: a set of
alternative functions from kinds of steps to numbers, one of which is chosen at the
start), `MaxTime` (scheduler), `MaxKills` (gateway), `MaxMoves` (orders), `MaxOrders`,
`MaxDead` and `Slots` (force); no other counter is cut. `Recent` and `RecentReports` are
limits of the code (32 and 48).

The `Tx`, `Sched`, `Gateway`, `Orders` and `Custody` runs check deadlock. The `Boot` and
`Force` runs say `CHECK_DEADLOCK FALSE`: the first system rests when every request is
answered and no deployment is left, and in the second an order cannot end while no
cohort is left to put its bodies in.

### What the violations show, and other findings

Findings without a run were met while translating: either a property would only
restate the guard in question, or the models carry them as named exceptions.

* The entry point refuses every dirty checkout (`branch_bootstrap.py`
  63 and 550) although the documents and `bootstrap.py` promise that
  WAL-owned dirt reaches recovery. After a kill between file replacements the
  service does not start again by itself.
* `BootMergeOver`: a new release is merged over a pushed commit whose record is
  still pending, and recovery then refuses it for ever (`transaction_not_local_head`).
* `BootReceipts`: a kill between the switch of lineage and the retirement leaves
  old receipts answering on the new baseline.
* A runtime-neutral push between a commit and its push leaves
  the transaction refused (`unexpected_remote_head`) by every recovery, although
  the same commit arriving at any other time is fast-forwarded over (`tx/remote.py` 387).
* `SchedRetime`: a population review brings the travelling cohorts' arrival
  forward in its existing row (`population_mobility.py` 154), as a broker's offer
  does to a company's route. The window looks only at appended rows, drops the
  old entry as stale, and closes beyond the new instant; from then on every
  advance is refused (`scheduler_frontier.py` 239). Event-bounded downtime is immune:
  its windows end at the next due instant.
* A battlefield report, or its acknowledgement, replaces the
  acknowledged contact of a theater that is still engaged
  (`causal_living_world.py` 461, 137); the battle that follows is refused (900) and
  no new contact is raised (759).
* `ForceStale`: an order to a formation puts back the copy it read before its hours
  (`engine.py` 6507, 6639), over what a state review or a battle wrote meanwhile; the
  force and the cohorts keep their part. `Force` therefore excepts `stale` formations. The
  commit catches some of it: it holds the strength against the commander's sheet (854)
  and refuses mobilization, supply and an unchanged assignment when they put back another
  strength. Not caught are marches (which put the old sheet back too), training and
  reconstitution (which write it anew), new appointments, and isolated cohorts, which
  leave the strength as it is.
* Validation refuses what the rules allow in these cases, which `LawfulAccepted` excepts
  by name, besides formations that are stale or being reconstituted: a formation with a materialized member is never
  dissolved (`engine.py` 6714); a blueprint formation of mixed roles makes its state's
  review raise (4179), and so does an open reconstitution (6570); the death of a
  formation's last, materialized member leaves an allocation of zero (2574), and the merge
  of formations that have lost everybody does too (6708); a battle does not trim a
  formation of materialized people alone (5999, 2375), whose allocation then does not
  follow its dead.
* Entry authority does not bring a waiting campaign's phase back
  (`campaign_briefing.py` 909), so its daily briefings stay off and the follow-on
  order is never written; a briefing or a review shows an order no courier has brought
  as the superior's current one (`campaign_command_cycle.py` 1752). `shown` of the
  model follows the code in this, and no property relies on it.
* A report to a superior who is cut off is stored without a courier
  (`campaign_communications.py` 269), and what it carries counts as reported for ever
  (`campaign_command_decision.py` 228), although the player is told to preserve the
  request until routing is established (`api/command_discovery.py` 766).
  `RequestsReach` therefore excepts what such a report carries; without the exception TLC
  finds a journey of the superior and a lost crossing before the report is written, and the
  request outside his knowledge for ever after the crossing is restored.
* A courier who missed the superior raises when he cannot follow him
  (`campaign_communications.py` 182), and every advance across his arrival is refused while
  the superior is cut off; the docstring (240) promises that unroutable endpoints fail closed.
* A custodian may be dissolved or retired with its prisoners (`engine.py` 6712,
  `warfare_depth.py` 735), and the review then stops the clock; a captive may be
  captured or detained a second time and is listed twice (`prisoner_system.py` 469);
  an executed captive points to a closed group, and the next start is refused
  (`startup_integrity.py` 218); ransom and exchange offers outlive the group (785).

### Fairness

`FairSpec` of `TxCoordinator` assumes that a running process takes its next step,
that the supervisor restarts a dead one, that a waiter eventually gets a lock
that is free again and again, and that a push in flight lands or is refused. The
first three are what the operating system and `railway.toml`
(`restartPolicyType = "ON_FAILURE"`) do as long as the retry limit is not spent; the
last is TCP's. Faults, kills, new operations and other writers have no
fairness. Recovery runs at the start of operations, so `PendingResolved` and
`CommittedIsFinished` assume that operations keep arriving
(`OperationsArrive`). The liveness run has whole temporaries only: a cut-short
temporary makes recovery refuse until it is removed, by design
(`_assert_recovery_paths_are_bounded`). It has no foreign pushes either: one of them at the
wrong moment leaves a commit that is never finished (the finding on `tx/remote.py` 387).

`Spec` of `CampaignOrders` assumes that Tang Wei keeps advancing, that an advance
settles what is due and lets time pass (the scheduler's loop), and that it ends at its
target however often something is due again (strong fairness of `Finish`). An advance that
was refused is made again. Journeys and crossings have no fairness; journeys are bounded, so
`RequestsReach` speaks of a superior who stops travelling in the end, and that crossings
are usable for good in the end is its premise `Passable`, which the game does not promise.

## 4. The proofs

Every theorem holds for every value of the constants that satisfies the modules'
`ASSUME`s: any number of processes, commands, releases, places and lists of any
length, any budget of kills and faults. An assumption says no more than that
sets of different things are disjoint, that a `None` is no member, that bounds
are naturals, that a recurrence is not zero, that there are finitely many routes, and
that a delivered report is kept at all (`RecentReports`, 48 in the code). Where bodies
are summed, the sets summed over are finite: captors, persons, surrenders, battles and
cases; roles, places, formations and people, and `Slots`, which has one cohort for each
role at least. TLC evaluates all of them on every run.

Sums (`SumFunctionOnSet`) and folds of the community modules choose one element after the
other by `CHOOSE`, through a recursive function over the subsets of a finite set.
`CountingProofs` shows that this function exists and is the same for any set that
contains the one summed over (`SumsExist`, `SumsAgree`, `FoldExists`), and from
that the arithmetic that the proofs about bodies rest on. Where a library theorem would need an
operator for a parameter, the induction is over a set of subsets that is shown to
contain the empty set and to be closed under adding one member.

### The coordinator

In `TxCoordinatorProofs`:

1. `TypeCorrect`: one lemma per group of actions, each phase of a process typed
   by what it holds (`Suits`).
2. `Exclusion`: `MutualExclusion` is inductive with the typing. `Locked` says
   that a step of a process keeps to its own slot and needs the lock.
3. `ReceiptsAreDurable` and `AckedAreDurable`: neither is inductive. `DurableInv`
   adds what a process on its way to an answer has already established: between
   commit and push its transaction is in the local history, after the verified
   push in the durable one. It is preserved because histories only grow
   (`HistoryGrows`: every assignment to a history appends to it or replaces it by
   an extension).
4. `NoRollback`: a rollback is entered only without a commit (`UndoInv`), and only
   the lock holder commits.

What a recovery finds on disk is proved in two layers:

* `WalInv`: there is one unsettled record at most, its status says how far its
  transaction came, and each phase knows the status of the record it works on. From it
  follows `ArchiveIsTrue`.
* `FilesInv`: outside the phases that write, the files are the committed tree but for
  a prefix of the touched record's replacements; during them exactly the paths
  still in `todo` differ. This is what makes each kill recoverable, and from it
  follow `MetaIsBehind` (a reader that sees the new metadata sees all owners),
  `RetryIsAccepted` and `AlienIsPreserved` (recovery touches no foreign bytes).

`GitInv` adds the histories: each base revision has its command at its place in
the history, the committed metadata counts the history, pushes under way and the
remote differ from the local history by neutral commits only, and what the remote
lacks is still pending. From it follow `UndeliveredPending`,
`ReadersSeeOnlyDurable` and the refinement `LedgerRefinement`: the durable history
without the commits that are nobody's command (`TxCommits`) grows by one command, on
its base revision and with a new request id, exactly in the step that makes the push land or
fast-forwards over it; every other step leaves the ledger as it is or
answers from it. A history with such gaps is spelt out by rank (`Ranks`), not with a
recursive filter, so that it can be reasoned about.

### The gateway

`CampaignGatewayProofs`: a lease has no invariant of its own, its depth follows from
where a thread is in its program. Every program is a sequence of balanced pieces
(`ProgramShape`), so it has a nesting (`Nesting`) in which the guarded instructions lie inside; `LeaseInv`
says that the depth is that nesting and that the flock belongs to the thread with depth
above zero. `ViewInv` adds what a thread has established in earlier instructions and
still holds although other calls ran in between: the revision it saw, the planner's, the
attestation it verified, the receipt it looked up. `ReadsAreCurrent`,
`PreviewedIsExecuted` and `RetryIsAnswered` follow.

### The bootstrap

`BranchBootstrapProofs`: `BootInv` says what each phase of startup has established
(the branch is the target's from `retire` on, the deployed source is merged from
`publish` on), that a branch only ever holds histories of its own baseline, and that a
checkout with a pending record is a campaign branch. `ServesOnOwnLineage` and the
action property `EvidenceIsKept` follow. `AnsweredIsKept` has the hypothesis
`SecondCopy`: within one history either remote refs are lost, or volumes are and
lineages change, but not both. Without it no code could keep an answer; it speaks of
the budgets of hazards only, and the budgets of `BootDeploys` satisfy it.

### Campaign orders

`CampaignOrdersProofs`: an order may become current again through the `prior` of a
decision taken back, so `MissionReceived` needs to know of the basis of every decision
that it was brought; a decision is pruned only when it is delivered, so
`NoMissionLost` needs to know that delivered ones were brought, and that a courier
outlives every rewriting of the registry; an advance that is refused falls back on the
document it began with, so the same is kept of `saved` (`SavedInv`); a decision copies all that is known, so
`DecidedOnReceived` needs that only what was heard is known. `OrdersInv` (`Held` and
`Heard`, over the typed document `Camp`, of the present and of the saved one) says so, and one lemma per function of the
chain of `Prepare` carries it through an advance. The lists kept short are the only
place where counting matters (`Retained`): the last row is never dropped, and
a row that is not old neither.

### The scheduler

`CausalSchedulerProofs` has two layers, because callbacks may or may not be steady.

* `Shape` holds whatever they do: the order of the registry lists the registered routes,
  each once (`Listed`), only ceremonies and contacts sleep, exactly the one the
  player is asked about does, a command under way has a reconciliation to meet.
  `TypeCorrect` and `WakeHolds` follow.
* `Pace` needs the hypothesis `Steady`: neither `RetimesRoutes` nor `SupersedesRoutes`,
  the two things callbacks do of which `SchedRetime` shows one to break the clock. It says that every
  live route is due now or later, that the reconciliation comes before anything
  has been owed for its cadence, and that the window is in step with the registry
  (`InStep`): each live generation is in the heap, positions are those of the
  registry, and a generation the window remembers is in the heap, asleep or past.
  The last conjunct is what `HeapCovers` lacks to be inductive: a new row whose
  generation the window believes to know is not put into the heap.

The proof follows a document through the code. `Follows` says what every operator of the
registry preserves (one lemma for each: register, drop, owe, synchronize, contract,
reconcile, prepare), `Answers` the same for the wake, `Settled` for every outcome of a
callback. `Grown` is what a steady callback other than the reconciliation does if the registry is
not shorter afterwards: old rows and instants stay, new rows are behind and due later.
From it `GrownSeen` shows that looking at the appended rows alone is enough, and
`ProceedInStep` that heap and positions remain right after the swap-delete. A
registry that is shorter is read again as a whole, so nothing is needed of it; a callback
that takes a route away and adds as many would go unnoticed, which is why the hypothesis
excludes it. `ClockRefinement` maps `Settle` to the clock's settlement of its first
obligation (`TopIsFirst`), `Interrupt` and `Close` to the passing of time, `Commit` and
`Respond` to a commit, `Refuse` to the return to the mark, everything else to an arrangement.

### Prisoners

`PrisonerCustodyProofs`: the properties of `PrisonerCustody` are not inductive because they
look at one document each. `Sound` is what every reducer keeps, of a world it will commit as
of one that is refused later: groups and persons point at each other (`Pointed`, `Known`),
each group that holds anybody is on the review host's list and each one on it exists
(`Routed`), what the enemy's force has lent to a group is what the group counts (`Lent`),
and the bodies of both sides balance (`Balanced`). `Fine` is the rest, which only the
validation of a commit establishes, of the groups that it looks at. `IInv` is both, with the
captives in `twice` and `executed` excepted where the code breaks its rule. Releases, escapes
and deaths are folds over groups, so `Sound` is carried through a fold (`FoldStays`), and
the sums change with one group at a time (`SumOne`). `BodiesLentAreBodies`, `NamedCustodyHolds`
and `NobodyIsForgotten` follow.

`CapacityIsShared` is an action property, and a capacity may be exceeded: by battle losses
of the custodian, for one. What is proved of each step is that where it leaves more
prisoners than fit, it has not added any (`Respects`). The groups under one custodian and at one
place are compared as weights (`Within`): a reducer that changes no place and no custodian
only makes groups lighter (`Lighter`), and one that does asks whether they fit first
(`FitsWithin`).

### The force

`ForceLedgerProofs`: `Sane` is what every reducer keeps of a ledger also when a later check
refuses it: its types, that a cohort without a role is empty (`Founded`), that who is in a
formation has a role (`Enrolled`), that what the force lists has a document and that nothing
was given to anything else (`Allotted`), and that civilians, dead and serving are those of
the start (`Souls`). `Tallied` is what `validate_cohort_ledger` demands, over the documents it
reads. `LedgerStaysSound` says that both hold of the ledger after every step, and of the
ledger that an open order would fall back on; the latter is what a refusal puts back.
There is one lemma for each reducer (`MusterSane`, `IsolateGood`, `PartitionGood`, ...), and the
reviews carry it through two folds over the formations. Forgetting an empty cohort changes
nothing that is counted (`Alike`).

`BodiesStayConserved` is then an account. The serving are counted by cohort; the free ones
among them again by role (`ReserveAccount`), those in formations by formation
(`HeldAccount`, an exchange of two sums), and the named ones by where they are
(`NamedAccount`). What the force says it gave to a formation is what validation found there
(`GivenIs`). So a ledger that passes validation in each of its parts accounts for every body as
a whole, which is what `engine._validate_invariants` checks when it commits.

`DocumentsStayAgreed` needs more, as validation compares the force with the cohorts and
never looks at what a formation's own document says: that it agrees is the reducers' work
alone. `Told` is the agreement of one document with the cohorts and the named members,
`Sure(L, U, W)` that of all outside `U`. It is not inductive under the property's own
exceptions. An order that ends in a refusal puts its `saved` ledger back, which must then
agree as well; and a reconstitution writes force and cohorts when it opens but its document
only when its hours are over, so between the two the document is *owed* something definite:
its slices are behind the cohorts by exactly what the reconstitution adds to them, however
many of its members battles or deaths take away meanwhile (`Awaits`). `JInv` says this of
the ledger, with `Debts` for the reconstitution that is open and `Doubtful` for the formations
that the property excepts, and of the ledger an order falls back on. A reducer changes a
few formations, for which there is a lemma each; of all others neither document, nor
allocation, nor slices change (`Framed`, `Mends`), and `FrameSure` puts the two together:
where validation accepted both ledgers, the role counts of the rest follow from what the
force says it gave them. The folds of a state's review carry `Sure` through (`SureOnes`).

`NoneAssumption` says that `None` is none of the values it stands beside: roles, formations,
documents, orders. `ForceAssumption` says that the sets are finite, that `Line`, `Home` and
`Standing` are among them, that there are no fewer cohorts than roles, and that the numbers a
force starts with are counts.

### Only model-checked

* The liveness properties (`LockReleased`, `PendingResolved`, `CommittedIsFinished`,
  `RequestsReach`): fairness and `ENABLED` are beyond the prover.
* `LawfulAccepted` of `ForceLedger`. It says that validation accepts what the rules allow,
  so it needs of each reducer that the numbers of force and cohorts come out right, where
  the theorems need only that wrong ones are refused.

## 5. What is not modelled

The runtime is 120 000 lines, of which most are sequential numeric mechanics over
large data tables (combat and anatomy, sieges, settlements, economy, households,
training, careers) inside one plan of one command: the coordinator takes any
manifest they produce, nothing runs beside them, and what could be wrong in them is
arithmetic, which unit tests reach better than a model. The models therefore cover
the parts whose state outlives a step and is written by several actors, and only a
small share of the lines. Interfaces, hashing, schemas, URL and credential checks,
the replacement of a foreign repository and the best-effort replication are left
out. `PROJECT.json` lists each component with its reason.

## 6. The plan

1. *Done*: `TxCoordinator`, `ExactlyOnceLedger`, `BranchBootstrap`, first theorems.
2. *Done*: `CausalScheduler` and `CausalClock`. Left: a run with superseded marches,
   the action property that a due route is not postponed, the termination of an
   advance under fairness of its loop, several theaters.
3. *Done*: `CampaignGateway`: re-entrant leases over the flock, previews, retries.
4. *Done*: `CampaignOrders`, `ForceLedger`, `PrisonerCustody`. Left: several forces and
   unit command in the second, guard duty in the third, their composition with the
   scheduler's rounds.
5. `BranchBootstrap` per file for the retirement of the recovery store.
6. Scene sessions across transactions; the order of a battlefield's reports.
7. Theorems. *Done*: coordinator with the ledger's refinement, gateway, bootstrap,
   orders, scheduler with the clock's refinement, custody, the force's bodies and
   documents. Left: `LawfulAccepted`.
