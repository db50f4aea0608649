--------------------------- MODULE BranchBootstrap ---------------------------
(***************************************************************************)
(* Startup of the deployed service: branch_bootstrap chooses the campaign  *)
(* durability branch of the deployed release, aligns the persistent        *)
(* checkout with it, merges the deployed source, and hands over to         *)
(* bootstrap and to the coordinator's eager recovery, while kills and new  *)
(* deployments may fall between any two steps.                             *)
(*                                                                         *)
(* Sources: branch_bootstrap.py, bootstrap.py, tx/campaign_coordinator.py. *)
(* Gameplay is the coarse life of one transaction; TxCoordinator has its   *)
(* detail.                                                                 *)
(*                                                                         *)
(* Abstractions.                                                           *)
(*  - A head is the sequence of commits that leads to it: releases of the  *)
(*    source branch, merges of a release, gameplay transactions.           *)
(*  - Every release carries a valid contract whose baseline verifies, and  *)
(*    a source merge has no textual conflict.                              *)
(*  - Not here: an explicit SWORD_CAMPAIGN_BRANCH, the legacy campaign/<id> *)
(*    branch name, and bootstrap's cases for a replaced Git history.       *)
(***************************************************************************)
EXTENDS Naturals, Sequences, FiniteSets, FiniteSetsExt

CONSTANTS
    Releases,       \* number of source releases
    Baselines,      \* certified release baselines, one durability branch each
    BaselineOf,     \* [1..Releases -> Baselines]
    StateOf,        \* [1..Releases -> Nat]: the tree of state/ in a release
    StartRevision,  \* [Baselines -> Nat]: revision of a baseline's state
    Requests,       \* request ids of gameplay commands
    SourceBranch,   \* the branch the image is built from
    NoBranch,       \* no checkout yet: a fresh volume
    None,
    Budgets         \* bounds: each says how often every hazard may strike

Hazards == {"play_kill", "startup_kill", "deploy", "lineage", "rename", "lost_ref", "volume"}

\* What a history consists of: releases, merges of a release, transactions.
Commits == [kind : {"release", "merge"}, id : 1..Releases] \union [kind : {"tx"}, id : Requests]

ASSUME ReleasesAssumption ==
    /\ Releases \in Nat \ {0}
    /\ BaselineOf \in [1..Releases -> Baselines]
    /\ StateOf \in [1..Releases -> Nat]
    /\ StartRevision \in [Baselines -> Nat]
    /\ Budgets \subseteq [Hazards -> Nat]
    /\ SourceBranch # NoBranch
    /\ {SourceBranch, NoBranch} \intersect Baselines = {}
    /\ None \notin Requests /\ None \notin Seq(Commits)

VARIABLES
    source,     \* head of the source branch on the remote, as a release
    image,      \* the release the running image was built from
    remote,     \* head of each campaign branch on the remote, or None
    branch,     \* the branch of the persistent checkout
    head,       \* its HEAD
    dirty,      \* whether it has uncommitted changes of a transaction
    wal,        \* the request whose WAL record is pending, or None
    receipts,   \* the receipt store: request, lineage and revision of each
    retired,    \* branch and head to return to while receipts are moved away
    answered,   \* requests answered, with their lineage (a history)
    pc,         \* phase of the process
    spent       \* how much of each bound has been used

git  == <<remote, branch, head, dirty>>
kept == <<wal, receipts, answered>>
vars == <<source, image, remote, branch, head, dirty, wal, receipts, retired,
          answered, pc, spent>>

Phases == {"down", "ensure", "select", "retire", "merge", "publish", "handoff",
           "recover", "serving", "failed"}

(***************************************************************************)
(* Histories.                                                              *)
(***************************************************************************)

Release(n) == [kind |-> "release", id |-> n]
Merge(n)   == [kind |-> "merge", id |-> n]
Tx(r)      == [kind |-> "tx", id |-> r]

SourceHistory(n) == [i \in 1..n |-> Release(i)]

IsPrefix(s, t) == Len(s) <= Len(t) /\ s = SubSeq(t, 1, Len(s))
Holds(h, x)    == \E i \in DOMAIN h : h[i] = x
TxsOf(h)       == SelectSeq(h, LAMBDA x : x.kind = "tx")

\* The releases in a history, and whether release n is an ancestor of it.
ReleasesIn(h, kinds) == {h[i].id : i \in {j \in DOMAIN h : h[j].kind \in kinds}}
Merged(h, n) == \E k \in ReleasesIn(h, {"release", "merge"}) : k >= n

LatestRelease(h) == Max(ReleasesIn(h, {"release", "merge"}))

\* The contract a head carries; the release its campaign state grew from, with
\* the lineage and the revision that gives.
Baseline(h) == BaselineOf[LatestRelease(h)]
Origin(h)   == Max(ReleasesIn(h, {"release"}))
Lineage(h)  == BaselineOf[Origin(h)]
Revision(h) == StartRevision[Lineage(h)] + Len(TxsOf(h))

\* _campaign_authority_matches: the trees of state/ are equal.
SameAuthority(g, h) == StateOf[Origin(g)] = StateOf[Origin(h)] /\ TxsOf(g) = TxsOf(h)

\* _source_changes_campaign_authority: state/ differs from the merge base.
SourceChangesAuthority(h, n) == StateOf[n] # StateOf[LatestRelease(h)]

Target == BaselineOf[image]

\* Mutant: a change of lineage ignores the WAL.
WalIgnored == TRUE

\* _has_recoverable_wal is false: nothing blocks a change of lineage.
WalSettled == wal = None

\* One more hazard of these kinds, as long as all of them together are in one bound.
Spend(kinds) ==
    /\ spent' = [h \in Hazards |-> IF h \in kinds THEN spent[h] + 1 ELSE spent[h]]
    /\ \E bound \in Budgets : \A h \in Hazards : spent'[h] <= bound[h]

-----------------------------------------------------------------------------

Init ==
    /\ source = 1 /\ image = 1
    /\ remote = [b \in Baselines |-> None]
    /\ branch = NoBranch
    /\ head = <<>>
    /\ dirty = FALSE
    /\ wal = None
    /\ receipts = {}
    /\ retired = None
    /\ answered = {}
    /\ pc = "down"
    /\ spent = [k \in Hazards |-> 0]

At(l)   == pc = l
Goto(l) == pc' = l

Start ==
    /\ pc \in {"down", "failed"}
    /\ Goto("ensure")
    /\ UNCHANGED <<source, image, git, kept, retired, spent>>

\* _ensure_repository: a fresh clone of the source branch, or a clean checkout.
EnsureRepository ==
    /\ At("ensure")
    /\ \/ /\ branch = NoBranch
          /\ branch' = SourceBranch
          /\ head' = SourceHistory(source)
          /\ Goto("select")
       \/ /\ branch # NoBranch
          /\ Goto(IF dirty THEN "failed" ELSE "select")
          /\ UNCHANGED <<branch, head>>
    /\ UNCHANGED <<source, image, remote, dirty, kept, retired, spent>>

(***************************************************************************)
(* The target branch exists on the remote: _adopt_remote_campaign.         *)
(***************************************************************************)

LineageChange ==
    /\ branch \notin {Target, SourceBranch}
    /\ Baseline(remote[Target]) = Target
    /\ Baseline(head) # Target

\* git checkout -B of another branch; the receipts of the old one must follow.
Leave(h) ==
    /\ branch' = Target
    /\ head' = h
    /\ retired' = [branch |-> branch, head |-> head]
    /\ Goto("retire")

AdoptNewLineage ==
    /\ At("select") /\ remote[Target] # None
    /\ LineageChange
    /\ IF WalSettled THEN Leave(remote[Target])
                     ELSE Goto("failed") /\ UNCHANGED <<branch, head, retired>>
    /\ UNCHANGED <<source, image, remote, dirty, kept, spent>>

AdoptSameLineage ==
    /\ At("select") /\ remote[Target] # None
    /\ branch # Target /\ ~LineageChange
    /\ IF \/ Revision(head) > Revision(remote[Target])
          \/ /\ Revision(head) = Revision(remote[Target])
             /\ ~SameAuthority(head, remote[Target])
         THEN Goto("failed") /\ UNCHANGED <<branch, head>>
         ELSE Goto("merge") /\ branch' = Target /\ head' = remote[Target]
    /\ UNCHANGED <<source, image, remote, dirty, kept, retired, spent>>

\* Mutant: a local head ahead of the remote is reset to it.
Comparable == IsPrefix(head, remote[Target]) \/ IsPrefix(remote[Target], head)

FastForwards == IsPrefix(head, remote[Target])

\* Mutant: a newer release need not be merged first.
LocallyAhead == IsPrefix(remote[Target], head)

LeftToRecovery == IsPrefix(remote[Target], head) /\ Merged(head, image)

\* A local head ahead of the remote is left to the coordinator, unless a newer
\* release waits to be merged; diverged histories are refused.
Align ==
    /\ At("select") /\ remote[Target] # None
    /\ branch = Target
    /\ IF FastForwards
         THEN head' = remote[Target] /\ Goto("merge")
         ELSE Goto(IF LeftToRecovery THEN "handoff" ELSE "failed") /\ UNCHANGED head
    /\ UNCHANGED <<source, image, remote, branch, dirty, kept, retired, spent>>

(***************************************************************************)
(* It does not: _restore_missing_remote_campaign.                          *)
(***************************************************************************)

SeedFirst ==
    /\ At("select") /\ remote[Target] = None
    /\ branch = SourceBranch
    /\ branch' = Target
    /\ head' = SourceHistory(image)
    /\ Goto("merge")
    /\ UNCHANGED <<source, image, remote, dirty, kept, retired, spent>>

SeedNewLineage ==
    /\ At("select") /\ remote[Target] = None
    /\ branch \notin {SourceBranch, Target}
    /\ IF WalSettled THEN Leave(SourceHistory(image))
                     ELSE Goto("failed") /\ UNCHANGED <<branch, head, retired>>
    /\ UNCHANGED <<source, image, remote, dirty, kept, spent>>

\* Mutant: a lost branch is seeded anew from the deployed release.
RepublishSource ==
    /\ At("select") /\ remote[Target] = None
    /\ branch = Target
    /\ remote' = [remote EXCEPT ![Target] = SourceHistory(image)]
    /\ head' = SourceHistory(image)
    /\ Goto("merge")
    /\ UNCHANGED <<source, image, branch, dirty, kept, retired, spent>>

RepublishLost ==
    /\ At("select") /\ remote[Target] = None
    /\ branch = Target
    /\ IF WalSettled
         THEN remote' = [remote EXCEPT ![Target] = head] /\ Goto("merge")
         ELSE Goto("failed") /\ UNCHANGED remote
    /\ UNCHANGED <<source, image, branch, head, dirty, kept, retired, spent>>

\* _retire_recovery_store: receipts leave with the lineage they belong to.
Retire ==
    /\ At("retire")
    /\ receipts' = {}
    /\ retired' = None
    /\ Goto("merge")
    /\ UNCHANGED <<source, image, git, wal, answered, spent>>

RetireFails ==
    /\ At("retire")
    /\ Spend({"rename"})
    /\ branch' = retired.branch
    /\ head' = retired.head
    /\ retired' = None
    /\ Goto("failed")
    /\ UNCHANGED <<source, image, remote, dirty, kept>>

(***************************************************************************)
(* Source reconciliation and hand-over.                                    *)
(***************************************************************************)

MergeSource ==
    /\ At("merge")
    /\ \/ /\ Merged(head, image)
          /\ Goto("publish")
          /\ UNCHANGED head
       \/ /\ ~Merged(head, image) /\ SourceChangesAuthority(head, image)
          /\ Goto("failed")
          /\ UNCHANGED head
       \/ /\ ~Merged(head, image) /\ ~SourceChangesAuthority(head, image)
          /\ head' = Append(head, Merge(image))
          /\ Goto("publish")
    /\ UNCHANGED <<source, image, remote, branch, dirty, kept, retired, spent>>

Publish ==
    /\ At("publish")
    /\ IF remote[Target] = None \/ IsPrefix(remote[Target], head)
         THEN remote' = [remote EXCEPT ![Target] = head] /\ Goto("handoff")
         ELSE Goto("failed") /\ UNCHANGED remote
    /\ UNCHANGED <<source, image, branch, head, dirty, kept, retired, spent>>

\* bootstrap.ensure_checkout on the campaign branch.
EnsureCheckout ==
    /\ At("handoff")
    /\ Goto(IF dirty /\ (head # remote[Target] \/ wal = None) THEN "failed" ELSE "recover")
    /\ head' = IF ~dirty /\ IsPrefix(head, remote[Target]) THEN remote[Target] ELSE head
    /\ UNCHANGED <<source, image, remote, branch, dirty, kept, retired, spent>>

\* coordinator.recover: finish what Git has, undo what it has not.
Answer(r) ==
    /\ receipts' = receipts \union
           {[request |-> r, lineage |-> branch, revision |-> Revision(head)]}
    /\ answered' = answered \union {[request |-> r, lineage |-> branch]}
    /\ wal' = None

Parent(h) == SubSeq(h, 1, Len(h) - 1)
IsHead(r) == head[Len(head)] = Tx(r)

Deliverable == IsHead(wal) /\ remote[branch] \in {head, Parent(head)}
Undoable    == ~Holds(head, Tx(wal)) /\ remote[branch] = head

RecoverPending ==
    /\ At("recover")
    /\ wal # None
    /\ \/ /\ Deliverable
          /\ remote' = [remote EXCEPT ![branch] = head]
          /\ Answer(wal)
          /\ UNCHANGED <<dirty, pc>>
       \/ /\ Undoable
          /\ dirty' = FALSE
          /\ wal' = None
          /\ UNCHANGED <<remote, receipts, answered, pc>>
       \/ /\ ~Deliverable /\ ~Undoable
          /\ Goto("failed")
          /\ UNCHANGED <<remote, dirty, kept>>
    /\ UNCHANGED <<source, image, branch, head, retired, spent>>

\* Then the checkout must be synchronized and no receipt may claim a revision
\* that the campaign has not reached (_assert_receipt_integrity).
RecoverDone ==
    /\ At("recover")
    /\ wal = None
    /\ Goto(IF /\ head = remote[branch] /\ ~dirty
               /\ \A x \in receipts : x.revision <= Revision(head)
              THEN "serving" ELSE "failed")
    /\ UNCHANGED <<source, image, git, kept, retired, spent>>

(***************************************************************************)
(* Gameplay while serving, coarsely.                                       *)
(***************************************************************************)

\* A request whose commit is in the history has a stale base revision.
Prepare(r) ==
    /\ At("serving")
    /\ wal = None /\ head = remote[branch]
    /\ \A x \in receipts : x.request # r
    /\ ~Holds(head, Tx(r))
    /\ wal' = r
    /\ UNCHANGED <<source, image, git, receipts, answered, retired, pc, spent>>

Apply ==
    /\ At("serving")
    /\ wal # None /\ ~dirty /\ ~Holds(head, Tx(wal))
    /\ dirty' = TRUE
    /\ UNCHANGED <<source, image, remote, branch, head, kept, retired, pc, spent>>

Commit ==
    /\ At("serving")
    /\ dirty
    /\ head' = Append(head, Tx(wal))
    /\ dirty' = FALSE
    /\ UNCHANGED <<source, image, remote, branch, kept, retired, pc, spent>>

Push ==
    /\ At("serving")
    /\ wal # None /\ IsHead(wal) /\ remote[branch] = Parent(head)
    /\ remote' = [remote EXCEPT ![branch] = head]
    /\ UNCHANGED <<source, image, branch, head, dirty, kept, retired, pc, spent>>

\* Mutant: the answer does not wait for the remote.
PushSent == TRUE

\* ensure_commit_durable has verified the remote head.
Delivered == remote[branch] = head

Finish ==
    /\ At("serving")
    /\ wal # None /\ IsHead(wal) /\ Delivered
    /\ Answer(wal)
    /\ UNCHANGED <<source, image, git, retired, pc, spent>>

(***************************************************************************)
(* Kills, deployments and the remote.                                      *)
(***************************************************************************)

Kill ==
    /\ pc \notin {"down", "failed"}
    /\ Spend({IF At("serving") THEN "play_kill" ELSE "startup_kill"})
    /\ Goto("down")
    /\ UNCHANGED <<source, image, git, kept, retired>>

NewRelease ==
    /\ source < Releases
    /\ source' = source + 1
    /\ UNCHANGED <<image, git, kept, retired, pc, spent>>

\* Another release is deployed, newer or older; the old process is stopped.
Deploy ==
    /\ pc \in {"serving", "failed", "down"}
    /\ \E n \in 1..source :
        /\ n # image /\ image' = n
        /\ Spend({"deploy"} \union IF BaselineOf[n] = Target THEN {} ELSE {"lineage"})
    /\ Goto("down")
    /\ UNCHANGED <<source, git, kept, retired>>

\* A campaign branch is deleted on the remote, not in the middle of a startup.
LoseRef ==
    /\ pc \in {"serving", "failed", "down"}
    /\ Spend({"lost_ref"})
    /\ \E b \in Baselines : remote' = [remote EXCEPT ![b] = None]
    /\ UNCHANGED <<source, image, branch, head, dirty, kept, retired, pc>>

\* The volume is replaced by an empty one (checkout, WAL and receipts).
LoseVolume ==
    /\ At("down") /\ branch # NoBranch
    /\ Spend({"volume"})
    /\ branch' = NoBranch
    /\ head' = <<>>
    /\ dirty' = FALSE
    /\ wal' = None
    /\ receipts' = {}
    /\ retired' = None
    /\ UNCHANGED <<source, image, remote, answered, pc>>

Startup ==
    \/ Start \/ EnsureRepository \/ AdoptNewLineage \/ AdoptSameLineage \/ Align
    \/ SeedFirst \/ SeedNewLineage \/ RepublishLost \/ Retire \/ MergeSource
    \/ Publish \/ EnsureCheckout \/ RecoverPending \/ RecoverDone

Gameplay == (\E r \in Requests : Prepare(r)) \/ Apply \/ Commit \/ Push \/ Finish

Next ==
    \/ Startup \/ Gameplay \/ RetireFails
    \/ Kill \/ NewRelease \/ Deploy \/ LoseRef \/ LoseVolume

Spec == Init /\ [][Next]_vars

(***************************************************************************)
(* Safety.                                                                 *)
(***************************************************************************)

\* Whatever was deployed, killed or lost before, the process serves on the
\* branch of its own release's baseline, with that release merged and with a
\* campaign that grew from that baseline (prepare_campaign_branch).
ServingOnOwnLineage ==
    pc = "serving" =>
        branch = Target /\ Merged(head, image) /\ Lineage(head) = Target

\* Every answered request stays in the remote history of the lineage it was
\* answered in, through redeployments and the loss of the volume.
AnsweredKept ==
    \A x \in answered :
        remote[x.lineage] # None => Holds(remote[x.lineage], Tx(x.request))

\* A pending transaction leaves the WAL only answered or undone, and its local
\* commit is never dropped or published under another branch meanwhile; startup
\* "must leave it untouched for the existing WAL/receipt coordinator".
Committed(r) == Holds(head, Tx(r))
EvidenceStep ==
    \A r \in Requests : wal = r =>
        \/ wal' = r /\ branch' = branch /\ (Committed(r) => Committed(r)')
        \/ wal' = None /\ Committed(r)' /\ \E x \in answered' : x.request = r
        \/ wal' = None /\ ~Committed(r) /\ ~Committed(r)' /\ ~dirty'
EvidenceKept == [][EvidenceStep \/ branch' = NoBranch]_vars

\* No receipt of another lineage is in the store while the process serves: "old
\* request IDs cannot answer inside the new baseline".
LineagesSeparate ==
    pc = "serving" => \A x \in receipts : x.lineage = branch

(***************************************************************************)
(* What the documentation says of startup, and the code does not do.       *)
(***************************************************************************)

\* "Once a matching Git trailer exists, rollback is forbidden and recovery must
\* finish the committed transaction": startup leaves it where recovery can.
CommittedStaysDeliverable ==
    pc = "recover" /\ wal # None /\ Committed(wal) => Deliverable
=============================================================================
