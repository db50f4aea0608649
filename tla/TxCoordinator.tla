---------------------------- MODULE TxCoordinator ----------------------------
(***************************************************************************)
(* The transaction coordinator of the Sword runtime: one gameplay command  *)
(* becomes one Git commit, exactly once, across process crashes, ordinary  *)
(* exceptions, lost push acknowledgements and concurrent callers.          *)
(*                                                                         *)
(* Sources: tx/coordinator.py, tx/campaign_coordinator.py, tx/wal.py,      *)
(* tx/receipts.py, tx/persistence.py, tx/git.py, tx/remote.py,             *)
(* tx/locking.py, campaign_access.py, store/repository.py.                 *)
(*                                                                         *)
(* Abstractions.                                                           *)
(*  - A command stands for its whole envelope: request id, digest, base    *)
(*    revision, and hence its transaction id, manifest and receipt draft.  *)
(*  - The content of a file is the command that wrote it, Genesis (the     *)
(*    content of the checkout at the start) or Alien (bytes that no        *)
(*    transaction wrote).                                                  *)
(*  - A commit hash is the history it names: a head is the sequence of     *)
(*    commits that leads to it.                                            *)
(***************************************************************************)
EXTENDS Naturals, Sequences, FiniteSets, Ranks

CONSTANTS
    Procs,          \* runtime threads and processes that share the checkout
    Commands,       \* command envelopes that clients may submit
    Requests,       \* external request ids (the idempotency keys)
    Owners,         \* campaign owner files other than state/meta.json
    MetaPath,       \* state/meta.json, which carries the revision
    RequestOf,      \* [Commands -> Requests]
    BaseOf,         \* [Commands -> Nat]: the expected revision
    WritesOf,       \* [Commands -> SUBSET Owners]: owners a command rewrites
    StartRevision,  \* revision of the checkout at the start
    RemoteRequired, \* TRUE when Git remote durability is configured
    Genesis, Alien, \* the two file contents that no command wrote
    Neutral, Foreign, \* commits others push: runtime-neutral paths, or not
    ReadOnly,       \* a public read: campaign_access around a projection
    Recover,        \* the eager recovery of a starting process
    None,
    Leftovers,      \* temporaries a kill can leave: "image" (whole) or "torn"
    Budgets         \* bounds: each says how often every hazard may strike

Paths    == Owners \union {MetaPath}
Versions == Commands \union {Genesis, Alien}
Commits  == Commands \union {Neutral, Foreign}
Hazards  == {"crash", "fault", "push", "edit"}

ASSUME CommandsAssumption ==
    /\ RequestOf \in [Commands -> Requests]
    /\ BaseOf \in [Commands -> Nat]
    /\ WritesOf \in [Commands -> SUBSET Owners]
    /\ StartRevision \in Nat
    /\ RemoteRequired \in BOOLEAN
    /\ Leftovers \subseteq {"image", "torn"}
    /\ Budgets \subseteq [Hazards -> Nat]

ASSUME DistinctAssumption ==
    /\ MetaPath \notin Owners
    /\ Genesis # Alien /\ Neutral # Foreign
    /\ {Genesis, Alien, Neutral, Foreign, ReadOnly, Recover, None}
         \intersect Commands = {}
    /\ ReadOnly # Recover /\ None \notin {ReadOnly, Recover}
    /\ None \notin Procs

VARIABLES
    work,       \* the bytes of each path in the checkout
    tmp,        \* per path, the same-directory temporary a crash left behind
    index,      \* the Git index
    tree,       \* the tree of the local HEAD
    local,      \* the local HEAD
    remote,     \* the head of the durability branch on the remote
    inflight,   \* heads of pushes that have left and may still land
    pending,    \* wal/pending: the status of each transaction's record
    terminal,   \* wal/terminal
    before,     \* the before images of each WAL record (Genesis: not in it)
    receipts,   \* per request id, the command whose receipt is stored
    lock,       \* the process that holds the campaign flock
    pc,         \* per process, the phase it is in
    op,         \* per process, the public operation it serves
    tx,         \* per process, the transaction it is working on
    why,        \* per process, on whose behalf: execute, recover or abort
    todo,       \* per process, the paths it still has to replace
    acked,      \* commands a client was told are committed (a history)
    spent       \* how much of each bound has been used

disk  == <<work, tmp>>
git   == <<index, tree, local>>
net   == <<remote, inflight>>
wal   == <<pending, terminal, before>>
ctx   == <<lock, pc, op, tx, why, todo>>
vars  == <<work, tmp, index, tree, local, remote, inflight, pending, terminal,
           before, receipts, lock, pc, op, tx, why, todo, acked, spent>>

Phases == {"down", "idle", "waiting", "recovering", "guard", "preflight",
           "lookup", "prepare", "validate", "apply", "mark_applied", "stage",
           "commit", "readback", "push", "pushing", "verify_push", "finalize",
           "receipt", "archive", "abort", "resync", "clear", "restore",
           "mark_rolled_back", "archive_rolled_back", "serving"}

Outside == {"down", "idle", "waiting"}

PathsOf(c) == WritesOf[c] \union {MetaPath}

IsPrefix(s, t) == Len(s) <= Len(t) /\ s = SubSeq(t, 1, Len(s))
Parent(h)      == SubSeq(h, 1, Len(h) - 1)

(***************************************************************************)
(* What the code reads off the checkout.                                   *)
(***************************************************************************)

\* git.assert_pristine: nothing staged, unstaged or untracked.
Pristine == work = index /\ index = tree /\ \A q \in Paths : tmp[q] = "none"

\* store.require_revision: Alien metadata has no revision to agree with.
AtRevision(n) ==
    \/ work[MetaPath] = Genesis /\ n = StartRevision
    \/ \E c \in Commands : work[MetaPath] = c /\ n = BaseOf[c] + 1

\* git.find_transaction_commit: the trailer of c is in the history.
Found(c) == \E i \in DOMAIN local : local[i] = c

\* Mutant: divergence from the two images goes unnoticed.
NeverDiverged(c) == FALSE

\* wal.classify, as three predicates; "partial" is what remains.
Diverged(c)   == \E q \in PathsOf(c) : work[q] \notin {before[c][q], c}
Applied(c)    == \A q \in PathsOf(c) : work[q] = c
NotApplied(c) == \A q \in PathsOf(c) : work[q] = before[c][q]

\* Mutant: the temporaries stay.
Unswept(c) == tmp

\* coordinator._assert_recovery_paths_are_bounded: whole temporaries of the
\* manifest are removed, and then only manifest paths may be dirty.
Swept(c) == [q \in Paths |-> IF q \in PathsOf(c) /\ tmp[q] = "image"
                               THEN "none" ELSE tmp[q]]
Bounded(c) ==
    /\ \A q \in Paths : Swept(c)[q] = "none"
    /\ \A q \in Paths \ PathsOf(c) : work[q] = index[q] /\ index[q] = tree[q]

\* remote.verify_synchronized succeeds in place, or by fast-forwarding a clean
\* checkout over commits that touch runtime-neutral paths only.
InSync == local = remote
NeutralAhead ==
    /\ IsPrefix(local, remote)
    /\ \A i \in Len(local) + 1 .. Len(remote) : remote[i] = Neutral
    /\ Pristine

\* A command is durable when the history that must hold it does.
Durable(c) == IF RemoteRequired THEN \E i \in DOMAIN remote : remote[i] = c
                                ELSE Found(c)

\* One more hazard of kind k, as long as all of them together are in one bound.
Spend(k) == /\ spent' = [spent EXCEPT ![k] = @ + 1]
            /\ \E bound \in Budgets : \A h \in Hazards : spent'[h] <= bound[h]

-----------------------------------------------------------------------------

Init ==
    /\ work = [q \in Paths |-> Genesis]
    /\ tmp = [q \in Paths |-> "none"]
    /\ index = work
    /\ tree = work
    /\ local = <<>>
    /\ remote = <<>>
    /\ inflight = {}
    /\ pending = [c \in Commands |-> "none"]
    /\ terminal = [c \in Commands |-> "none"]
    /\ before = [c \in Commands |-> [q \in Paths |-> Genesis]]
    /\ receipts = [r \in Requests |-> None]
    /\ lock = None
    /\ pc = [p \in Procs |-> "idle"]
    /\ op = [p \in Procs |-> None]
    /\ tx = [p \in Procs |-> None]
    /\ why = [p \in Procs |-> "none"]
    /\ todo = [p \in Procs |-> {}]
    /\ acked = {}
    /\ spent = [k \in Hazards |-> 0]

(***************************************************************************)
(* Control: moving between phases, and leaving the locked region.          *)
(***************************************************************************)

At(p, l) == pc[p] = l

\* The process moves to phase l and keeps everything else it has in hand.
Goto(p, l) ==
    /\ pc' = [pc EXCEPT ![p] = l]
    /\ UNCHANGED <<lock, op, tx, why, todo>>

\* It takes up transaction c on behalf of w, with paths qs to replace.
TakeUp(p, c, w, qs, l) ==
    /\ pc' = [pc EXCEPT ![p] = l]
    /\ tx' = [tx EXCEPT ![p] = c]
    /\ why' = [why EXCEPT ![p] = w]
    /\ todo' = [todo EXCEPT ![p] = qs]
    /\ UNCHANGED <<lock, op>>

\* Mutant: a process still acts as execute after it has left.
ReleaseAsExecute(p, l) ==
    /\ lock' = None
    /\ pc' = [pc EXCEPT ![p] = l]
    /\ op' = [op EXCEPT ![p] = None]
    /\ tx' = [tx EXCEPT ![p] = None]
    /\ todo' = [todo EXCEPT ![p] = {}]
    /\ UNCHANGED why

\* CampaignLock.__exit__: the operation ends, with an answer or an error.
Release(p, l) ==
    /\ lock' = None
    /\ pc' = [pc EXCEPT ![p] = l]
    /\ op' = [op EXCEPT ![p] = None]
    /\ tx' = [tx EXCEPT ![p] = None]
    /\ why' = [why EXCEPT ![p] = "none"]
    /\ todo' = [todo EXCEPT ![p] = {}]

\* An ordinary exception: execute's handler aborts once its WAL is prepared;
\* everywhere else the exception leaves the locked region.
Raise(p) == IF why[p] = "exec" /\ ~At(p, "abort") THEN Goto(p, "abort") ELSE Release(p, "idle")

Submit(p) ==
    /\ At(p, "idle")
    /\ \E o \in Commands \union {ReadOnly} : op' = [op EXCEPT ![p] = o]
    /\ pc' = [pc EXCEPT ![p] = "waiting"]
    /\ UNCHANGED <<disk, git, net, wal, receipts, lock, tx, why, todo, acked, spent>>

\* A starting process recovers before it serves anything.
Restart(p) ==
    /\ At(p, "down")
    /\ op' = [op EXCEPT ![p] = Recover]
    /\ pc' = [pc EXCEPT ![p] = "waiting"]
    /\ UNCHANGED <<disk, git, net, wal, receipts, lock, tx, why, todo, acked, spent>>

\* Mutant: the flock does not exclude anybody.
AcquireShared(p) ==
    /\ At(p, "waiting")
    /\ lock' = p
    /\ pc' = [pc EXCEPT ![p] = "recovering"]
    /\ UNCHANGED <<disk, git, net, wal, receipts, op, tx, why, todo, acked, spent>>

Acquire(p) ==
    /\ At(p, "waiting")
    /\ lock = None
    /\ lock' = p
    /\ pc' = [pc EXCEPT ![p] = "recovering"]
    /\ UNCHANGED <<disk, git, net, wal, receipts, op, tx, why, todo, acked, spent>>

\* SingleWriterLock.acquire gives up at its deadline (campaign_writer_busy).
LockTimeout(p) ==
    /\ At(p, "waiting")
    /\ lock # None
    /\ pc' = [pc EXCEPT ![p] = "idle"]
    /\ op' = [op EXCEPT ![p] = None]
    /\ UNCHANGED <<disk, git, net, wal, receipts, lock, tx, why, todo, acked, spent>>

(***************************************************************************)
(* Recovery: coordinator._recover_locked over wal/pending.                 *)
(***************************************************************************)

\* Mutant: operations start without recovery.
RecoverySkipped == TRUE

NothingPending == \A c \in Commands : pending[c] = "none"

RecoveryDone(p) ==
    /\ At(p, "recovering")
    /\ NothingPending
    /\ Goto(p, "guard")
    /\ UNCHANGED <<disk, git, net, wal, receipts, acked, spent>>

\* Mutant: the receipt of a committed record is not looked for.
SettledByStatus(c) == pending[c] \in {"rolled_back", "committed"}

\* A record that is already settled only has to leave the working set.
Settled(c) == \/ pending[c] = "rolled_back"
              \/ pending[c] = "committed" /\ receipts[RequestOf[c]] = c

RecoverSettled(p) ==
    /\ At(p, "recovering")
    /\ \E c \in Commands :
          /\ Settled(c)
          /\ terminal' = [terminal EXCEPT ![c] = pending[c]]
          /\ pending' = [pending EXCEPT ![c] = "none"]
    /\ UNCHANGED <<disk, git, net, before, receipts, ctx, acked, spent>>

Unsettled(c) == pending[c] # "none" /\ ~Settled(c)

\* Mutant: the remote must be synchronized before recovery finishes a commit.
FinishInSync(c) ==
    /\ Found(c) /\ InSync
    /\ receipts[RequestOf[c]] \in {None, c}
    /\ Applied(c) /\ Pristine /\ AtRevision(BaseOf[c] + 1)

\* Git has the commit: recovery may only finish it, never roll it back.
FinishAllowed(c) ==
    /\ Found(c)
    /\ receipts[RequestOf[c]] \in {None, c}
    /\ Applied(c)
    /\ Pristine
    /\ AtRevision(BaseOf[c] + 1)

RecoverCommitted(p) ==
    /\ At(p, "recovering")
    /\ \E c \in Commands :
          /\ Unsettled(c)
          /\ FinishAllowed(c)
          /\ TakeUp(p, c, "recover", {}, IF RemoteRequired THEN "push" ELSE "finalize")
    /\ UNCHANGED <<disk, git, net, wal, receipts, acked, spent>>

\* Git has no commit: the transaction never happened and is undone.
UndoAllowed(c) ==
    /\ ~Found(c)
    /\ receipts[RequestOf[c]] = None
    /\ pending[c] # "committed"
    /\ ~Diverged(c)

RecoverUncommitted(p) ==
    /\ At(p, "recovering")
    /\ \E c \in Commands :
          /\ Unsettled(c)
          /\ UndoAllowed(c)
          /\ TakeUp(p, c, "recover", PathsOf(c), IF RemoteRequired THEN "resync" ELSE "clear")
    /\ UNCHANGED <<disk, git, net, wal, receipts, acked, spent>>

\* Evidence that fits neither case stops the operation, unchanged.
RecoveryRefused(p) ==
    /\ At(p, "recovering")
    /\ \E c \in Commands : Unsettled(c) /\ ~FinishAllowed(c) /\ ~UndoAllowed(c)
    /\ Release(p, "idle")
    /\ UNCHANGED <<disk, git, net, wal, receipts, acked, spent>>

\* Before it undoes anything recovery fetches the required branch again.
Resync(p) ==
    /\ At(p, "resync")
    /\ \/ InSync /\ Goto(p, "clear") /\ UNCHANGED local
       \/ ~InSync /\ NeutralAhead /\ local' = remote /\ Goto(p, "clear")
       \/ ~InSync /\ ~NeutralAhead /\ Release(p, "idle") /\ UNCHANGED local
    /\ UNCHANGED <<disk, index, tree, net, wal, receipts, acked, spent>>

(***************************************************************************)
(* Rollback, shared by recovery and by execute's exception handler.        *)
(***************************************************************************)

\* Mutant: the abort trusts the status of the record and not Git.
AbortByStatus(p) ==
    /\ At(p, "abort")
    /\ IF pending[tx[p]] \in {"prepared", "applied"}
         THEN TakeUp(p, tx[p], "abort", PathsOf(tx[p]), "clear")
         ELSE Release(p, "idle")
    /\ UNCHANGED <<disk, git, net, wal, receipts, acked, spent>>

\* coordinator._abort_uncommitted: nothing to undo once Git has the commit.
Abort(p) ==
    /\ At(p, "abort")
    /\ IF pending[tx[p]] \in {"prepared", "applied"} /\ ~Found(tx[p])
         THEN TakeUp(p, tx[p], "abort", PathsOf(tx[p]), "clear")
         ELSE Release(p, "idle")
    /\ UNCHANGED <<disk, git, net, wal, receipts, acked, spent>>

\* Drop the manifest's temporaries, check that nothing else is dirty, unstage.
Clear(p) ==
    /\ At(p, "clear")
    /\ LET c == tx[p] IN
         /\ tmp' = Swept(c)
         /\ index' = [q \in Paths |-> IF Bounded(c) /\ q \in PathsOf(c)
                                        THEN tree[q] ELSE index[q]]
         /\ IF Bounded(c) /\ ~Diverged(c) THEN Goto(p, "restore") ELSE Release(p, "idle")
    /\ UNCHANGED <<work, tree, local, net, wal, receipts, acked, spent>>

\* Meta first, so that no reader sees the new revision over old owners.
RestoreNext(p, q) == q \in todo[p] /\ (MetaPath \in todo[p] => q = MetaPath)

Restore(p) ==
    /\ At(p, "restore")
    /\ \E q \in Paths :
          /\ RestoreNext(p, q)
          /\ work' = [work EXCEPT ![q] = before[tx[p]][q]]
          /\ todo' = [todo EXCEPT ![p] = @ \ {q}]
    /\ UNCHANGED <<tmp, git, net, wal, receipts, lock, pc, op, tx, why, acked, spent>>

Restored(p) ==
    /\ At(p, "restore")
    /\ todo[p] = {}
    /\ IF NotApplied(tx[p]) THEN Goto(p, "mark_rolled_back") ELSE Release(p, "idle")
    /\ UNCHANGED <<disk, git, net, wal, receipts, acked, spent>>

MarkRolledBack(p) ==
    /\ At(p, "mark_rolled_back")
    /\ pending' = [pending EXCEPT ![tx[p]] = "rolled_back"]
    /\ Goto(p, "archive_rolled_back")
    /\ UNCHANGED <<disk, git, net, terminal, before, receipts, acked, spent>>

ArchiveRolledBack(p) ==
    /\ At(p, "archive_rolled_back")
    /\ terminal' = [terminal EXCEPT ![tx[p]] = "rolled_back"]
    /\ pending' = [pending EXCEPT ![tx[p]] = "none"]
    /\ IF why[p] = "recover" /\ Pristine
         THEN TakeUp(p, None, "none", {}, "recovering")
         ELSE Release(p, "idle")
    /\ UNCHANGED <<disk, git, net, before, receipts, acked, spent>>

(***************************************************************************)
(* Execution.                                                              *)
(***************************************************************************)

\* Readers go no further than a pristine checkout.
Guard(p) ==
    /\ At(p, "guard")
    /\ IF ~Pristine THEN Release(p, "idle")
       ELSE IF op[p] = ReadOnly THEN Goto(p, "serving")
       ELSE IF RemoteRequired THEN Goto(p, "preflight")
       ELSE IF op[p] = Recover THEN Goto(p, "serving")
       ELSE Goto(p, "lookup")
    /\ UNCHANGED <<disk, git, net, wal, receipts, acked, spent>>

Serve(p) ==
    /\ At(p, "serving")
    /\ Release(p, "idle")
    /\ UNCHANGED <<disk, git, net, wal, receipts, acked, spent>>

Preflight(p) ==
    /\ At(p, "preflight")
    /\ LET next == IF op[p] = Recover THEN "serving" ELSE "lookup" IN
         \/ InSync /\ Goto(p, next) /\ UNCHANGED local
         \/ ~InSync /\ NeutralAhead /\ local' = remote /\ Goto(p, next)
         \/ ~InSync /\ ~NeutralAhead /\ Release(p, "idle") /\ UNCHANGED local
    /\ UNCHANGED <<disk, index, tree, net, wal, receipts, acked, spent>>

\* Mutant: receipts are not consulted.
LookupSkipped(p) ==
    /\ At(p, "lookup")
    /\ Goto(p, "prepare")
    /\ UNCHANGED <<disk, git, net, wal, receipts, acked, spent>>

\* receipts.lookup comes before the base revision is checked: an exact retry
\* is stale by construction and is answered from its receipt.
Lookup(p) ==
    /\ At(p, "lookup")
    /\ LET r == receipts[RequestOf[op[p]]] IN
         /\ IF r = None THEN Goto(p, "prepare") ELSE Release(p, "idle")
         /\ acked' = IF r = op[p] THEN acked \union {op[p]} ELSE acked
    /\ UNCHANGED <<disk, git, net, wal, receipts, spent>>

\* wal.load: a pending record hides a terminal one.
WalStatus(c) == IF pending[c] # "none" THEN pending[c] ELSE terminal[c]

Images(c) == [q \in Paths |-> IF q \in PathsOf(c) THEN work[q] ELSE Genesis]

\* Mutant: a rolled-back record is final.
PreparableOnce(c) == WalStatus(c) = "none"

\* wal.prepare: a new record, or a rolled-back one with the same manifest.
Preparable(c) ==
    \/ WalStatus(c) = "none"
    \/ WalStatus(c) \in {"prepared", "rolled_back"} /\ before[c] = Images(c)

Prepare(p) ==
    /\ At(p, "prepare")
    /\ LET c == op[p] IN
         IF AtRevision(BaseOf[c]) /\ Preparable(c)
           THEN /\ pending' = [pending EXCEPT ![c] = "prepared"]
                /\ before' = [before EXCEPT ![c] = Images(c)]
                /\ TakeUp(p, c, "exec", PathsOf(c), "validate")
           ELSE /\ Release(p, "idle")
                /\ UNCHANGED <<pending, before>>
    /\ UNCHANGED <<disk, git, net, terminal, receipts, acked, spent>>

\* The staged validator accepts and the base is still what was planned on.
Validate(p) ==
    /\ At(p, "validate")
    /\ IF Pristine /\ AtRevision(BaseOf[tx[p]]) /\ NotApplied(tx[p])
         THEN Goto(p, "apply") ELSE Raise(p)
    /\ UNCHANGED <<disk, git, net, wal, receipts, acked, spent>>

\* Mutant: the manifest order is kept.
ApplyAny(p, q) == q \in todo[p]

\* persistence._ordered: meta is replaced last.
ApplyNext(p, q) == q \in todo[p] /\ (q = MetaPath => todo[p] = {MetaPath})

Apply(p) ==
    /\ At(p, "apply")
    /\ \E q \in Paths :
          /\ ApplyNext(p, q)
          /\ work' = [work EXCEPT ![q] = tx[p]]
          /\ todo' = [todo EXCEPT ![p] = @ \ {q}]
          /\ pc' = [pc EXCEPT ![p] = IF todo[p] = {q} THEN "mark_applied" ELSE "apply"]
    /\ UNCHANGED <<tmp, git, net, wal, receipts, lock, op, tx, why, acked, spent>>

MarkApplied(p) ==
    /\ At(p, "mark_applied")
    /\ IF Applied(tx[p]) /\ pending[tx[p]] = "prepared"
         THEN pending' = [pending EXCEPT ![tx[p]] = "applied"] /\ Goto(p, "stage")
         ELSE Raise(p) /\ UNCHANGED pending
    /\ UNCHANGED <<disk, git, net, terminal, before, receipts, acked, spent>>

\* git.assert_manifest_worktree, then git add of exactly the manifest.
ManifestDirty(c) ==
    /\ index = tree
    /\ \A q \in Paths : tmp[q] = "none" /\ (work[q] # index[q] <=> q \in PathsOf(c))

Stage(p) ==
    /\ At(p, "stage")
    /\ IF ManifestDirty(tx[p])
         THEN /\ index' = [q \in Paths |-> IF q \in PathsOf(tx[p])
                                             THEN work[q] ELSE index[q]]
              /\ Goto(p, "commit")
         ELSE Raise(p) /\ UNCHANGED index
    /\ UNCHANGED <<disk, tree, local, net, wal, receipts, acked, spent>>

\* The point of no return: the commit carries the transaction trailer.
Commit(p) ==
    /\ At(p, "commit")
    /\ local' = Append(local, tx[p])
    /\ tree' = index
    /\ Goto(p, "readback")
    /\ UNCHANGED <<disk, index, net, wal, receipts, acked, spent>>

Readback(p) ==
    /\ At(p, "readback")
    /\ IF Applied(tx[p]) /\ AtRevision(BaseOf[tx[p]] + 1) /\ Pristine
         THEN Goto(p, IF RemoteRequired THEN "push" ELSE "finalize")
         ELSE Raise(p)
    /\ UNCHANGED <<disk, git, net, wal, receipts, acked, spent>>

(***************************************************************************)
(* Remote durability: remote.ensure_commit_durable.                        *)
(***************************************************************************)

IsHead(c) == local # <<>> /\ local[Len(local)] = c

Push(p) ==
    /\ At(p, "push")
    /\ \/ /\ IsHead(tx[p]) /\ remote = local
          /\ Goto(p, "finalize")
          /\ UNCHANGED inflight
       \/ /\ IsHead(tx[p]) /\ remote = Parent(local)
          /\ inflight' = inflight \union {local}
          /\ Goto(p, "pushing")
       \/ /\ ~(IsHead(tx[p]) /\ remote \in {local, Parent(local)})
          /\ Raise(p)
          /\ UNCHANGED inflight
    /\ UNCHANGED <<disk, git, remote, wal, receipts, acked, spent>>

\* Mutant: a rejected push is waited for.
PushAwaited(p) ==
    /\ At(p, "pushing")
    /\ local \notin inflight /\ IsPrefix(local, remote)
    /\ Goto(p, "verify_push")
    /\ UNCHANGED <<disk, git, net, wal, receipts, acked, spent>>

\* git push returns: it updated the ref, or it could not.
PushReturns(p) ==
    /\ At(p, "pushing")
    /\ local \notin inflight
    /\ IF IsPrefix(local, remote) THEN Goto(p, "verify_push") ELSE Raise(p)
    /\ UNCHANGED <<disk, git, net, wal, receipts, acked, spent>>

\* Mutant: a push whose answer is lost counts as done.
PushAssumed(p) ==
    /\ At(p, "pushing")
    /\ Spend("fault")
    /\ Goto(p, "finalize")
    /\ UNCHANGED <<disk, git, net, wal, receipts, acked>>

\* The push timed out or its answer was lost; it may have landed or still may.
PushTimeout(p) ==
    /\ At(p, "pushing")
    /\ Spend("fault")
    /\ Raise(p)
    /\ UNCHANGED <<disk, git, net, wal, receipts, acked>>

VerifyPush(p) ==
    /\ At(p, "verify_push")
    /\ IF remote = local THEN Goto(p, "finalize") ELSE Raise(p)
    /\ UNCHANGED <<disk, git, net, wal, receipts, acked, spent>>

(***************************************************************************)
(* Publication: WAL committed, receipt, archive, answer.                   *)
(***************************************************************************)

MarkCommitted(p) ==
    /\ At(p, "finalize")
    /\ LET c == tx[p] IN
         \/ /\ Applied(c) /\ pending[c] = "prepared" /\ why[p] = "recover"
            /\ pending' = [pending EXCEPT ![c] = "applied"]
            /\ UNCHANGED ctx
         \/ /\ Applied(c) /\ pending[c] \in {"applied", "committed"}
            /\ pending' = [pending EXCEPT ![c] = "committed"]
            /\ Goto(p, "receipt")
         \/ /\ ~Applied(c) \/ pending[c] \in {"none", "rolled_back"}
               \/ (pending[c] = "prepared" /\ why[p] # "recover")
            /\ Raise(p)
            /\ UNCHANGED pending
    /\ UNCHANGED <<disk, git, net, terminal, before, receipts, acked, spent>>

\* receipts.put links the receipt in once; an equal one is accepted.
PutReceipt(p) ==
    /\ At(p, "receipt")
    /\ LET r == RequestOf[tx[p]] IN
         IF receipts[r] \in {None, tx[p]}
           THEN receipts' = [receipts EXCEPT ![r] = tx[p]] /\ Goto(p, "archive")
           ELSE Raise(p) /\ UNCHANGED receipts
    /\ UNCHANGED <<disk, git, net, wal, acked, spent>>

ArchiveCommitted(p) ==
    /\ At(p, "archive")
    /\ terminal' = [terminal EXCEPT ![tx[p]] = "committed"]
    /\ pending' = [pending EXCEPT ![tx[p]] = "none"]
    /\ IF why[p] = "recover"
         THEN TakeUp(p, None, "none", {}, "recovering") /\ UNCHANGED acked
         ELSE Release(p, "idle") /\ acked' = acked \union {tx[p]}
    /\ UNCHANGED <<disk, git, net, before, receipts, spent>>

(***************************************************************************)
(* Failures and the outside world.                                         *)
(***************************************************************************)

\* An ordinary exception (I/O, Git, validator) in any locked phase.
Fault(p) ==
    /\ pc[p] \notin Outside
    /\ Spend("fault")
    /\ Raise(p)
    /\ UNCHANGED <<disk, git, net, wal, receipts, acked>>

\* A kill bypasses every handler; the kernel drops the flock.  In the middle of
\* a file replacement it leaves the temporary, whole or torn.
Crash(p) ==
    /\ pc[p] \notin Outside
    /\ Spend("crash")
    /\ Release(p, "down")
    /\ \/ UNCHANGED tmp
       \/ \E q \in Paths, t \in Leftovers :
             /\ \/ At(p, "apply") /\ ApplyNext(p, q)
                \/ At(p, "restore") /\ RestoreNext(p, q)
             /\ tmp' = [tmp EXCEPT ![q] = t]
    /\ UNCHANGED <<work, git, net, wal, receipts, acked>>

\* The remote applies a non-force push that left earlier.
Land ==
    /\ \E h \in inflight :
          /\ remote = Parent(h)
          /\ remote' = h
          /\ inflight' = inflight \ {h}
    /\ UNCHANGED <<disk, git, wal, receipts, ctx, acked, spent>>

\* The remote rejects a push whose parent is no longer the head.
Reject ==
    /\ \E h \in inflight : remote # Parent(h) /\ inflight' = inflight \ {h}
    /\ UNCHANGED <<disk, git, remote, wal, receipts, ctx, acked, spent>>

\* The network loses a push.
Lose ==
    /\ Spend("fault")
    /\ \E h \in inflight : inflight' = inflight \ {h}
    /\ UNCHANGED <<disk, git, remote, wal, receipts, ctx, acked>>

\* Someone else pushes to the durability branch.
ExternalPush ==
    /\ RemoteRequired
    /\ Spend("push")
    /\ \E k \in {Neutral, Foreign} : remote' = Append(remote, k)
    /\ UNCHANGED <<disk, git, inflight, wal, receipts, ctx, acked>>

\* An operator edits the checkout while no operation is under way.
AlienEdit ==
    /\ lock = None
    /\ Spend("edit")
    /\ \E q \in Paths : work' = [work EXCEPT ![q] = Alien]
    /\ UNCHANGED <<tmp, git, net, wal, receipts, ctx, acked>>

-----------------------------------------------------------------------------

RecoverStep(p) ==
    \/ RecoveryDone(p) \/ RecoverSettled(p) \/ RecoverCommitted(p)
    \/ RecoverUncommitted(p) \/ RecoveryRefused(p) \/ Resync(p)

RollbackStep(p) ==
    \/ Abort(p) \/ Clear(p) \/ Restore(p) \/ Restored(p)
    \/ MarkRolledBack(p) \/ ArchiveRolledBack(p)

ExecuteStep(p) ==
    \/ Guard(p) \/ Serve(p) \/ Preflight(p) \/ Lookup(p) \/ Prepare(p)
    \/ Validate(p) \/ Apply(p) \/ MarkApplied(p) \/ Stage(p) \/ Commit(p)
    \/ Readback(p)

PublishStep(p) ==
    \/ Push(p) \/ PushReturns(p) \/ VerifyPush(p) \/ MarkCommitted(p)
    \/ PutReceipt(p) \/ ArchiveCommitted(p)

\* What a scheduled process does by itself once it holds the lock.
Step(p) == RecoverStep(p) \/ RollbackStep(p) \/ ExecuteStep(p) \/ PublishStep(p)

Proc(p) ==
    \/ Submit(p) \/ Restart(p) \/ Acquire(p) \/ LockTimeout(p) \/ Step(p)
    \/ PushTimeout(p) \/ Fault(p) \/ Crash(p)

Environment == Land \/ Reject \/ Lose \/ ExternalPush \/ AlienEdit

Next == (\E p \in Procs : Proc(p)) \/ Environment

Spec == Init /\ [][Next]_vars

\* A process that runs keeps running and a supervisor restarts it when it dies;
\* a push that left is answered; a free lock is eventually taken by a waiter.
Fairness ==
    /\ \A p \in Procs : WF_vars(Step(p)) /\ WF_vars(Restart(p)) /\ WF_vars(Acquire(p))
    /\ WF_vars(Land \/ Reject)

FairSpec == Spec /\ Fairness

(***************************************************************************)
(* Type invariant.                                                         *)
(***************************************************************************)

TxPhases == Phases \ (Outside \union {"recovering", "guard", "preflight", "lookup",
                                       "prepare", "serving"})

InHand(p) ==
    /\ pc[p] \in TxPhases \/ why[p] = "exec" => tx[p] \in Commands
    /\ pc[p] \notin {"down", "idle"} => op[p] # None
    /\ pc[p] = "preflight" => op[p] # ReadOnly
    /\ pc[p] \in {"lookup", "prepare"} => op[p] \in Commands

DataOK ==
    /\ work \in [Paths -> Versions]
    /\ tmp \in [Paths -> {"none", "image", "torn"}]
    /\ index \in [Paths -> Versions]
    /\ tree \in [Paths -> Versions]
    /\ local \in Seq(Commits)
    /\ remote \in Seq(Commits)
    /\ inflight \subseteq Seq(Commits)
    /\ pending \in [Commands -> {"none", "prepared", "applied", "committed", "rolled_back"}]
    /\ terminal \in [Commands -> {"none", "committed", "rolled_back"}]
    /\ before \in [Commands -> [Paths -> Versions]]
    /\ receipts \in [Requests -> Commands \union {None}]
    /\ acked \subseteq Commands
    /\ spent \in [Hazards -> Nat]

ControlOK ==
    /\ lock \in Procs \union {None}
    /\ pc \in [Procs -> Phases]
    /\ op \in [Procs -> Commands \union {ReadOnly, Recover, None}]
    /\ tx \in [Procs -> Commands \union {None}]
    /\ why \in [Procs -> {"none", "exec", "recover", "abort"}]
    /\ todo \in [Procs -> SUBSET Paths]
    /\ \A p \in Procs : InHand(p)

\* Every variable holds what its declaration says, and a process in the locked
\* region has in hand the operation and the transaction its phase works on.
TypeOK == DataOK /\ ControlOK

(***************************************************************************)
(* Safety.                                                                 *)
(***************************************************************************)

\* CampaignLock (tx/locking.py): every phase between the lock and the answer is
\* run by the one process that holds the flock, through crashes and timeouts.
MutualExclusion == \A p \in Procs : pc[p] \notin Outside => lock = p

\* What execute or an exact retry tells a client is committed is in the history
\* that must hold it and keeps its receipt, whatever fails afterwards.
AckedIsDurable ==
    \A c \in acked : Durable(c) /\ receipts[RequestOf[c]] = c

\* A receipt is published only after the commit is where it has to be
\* (coordinator.py: "before its receipt can be finalized").
ReceiptIsDurable ==
    \A r \in Requests : receipts[r] # None => Durable(receipts[r])

\* The local history is never more than one transaction ahead of the remote,
\* and then the WAL record that lets recovery deliver it is still pending.
UndeliveredIsPending ==
    RemoteRequired =>
        \/ IsPrefix(local, remote)
        \/ /\ local # <<>>
           /\ IsPrefix(Parent(local), remote)
           /\ LET c == local[Len(local)] IN c \in Commands /\ pending[c] # "none"

\* A reader that campaign_access lets in sees only bytes of durable commands:
\* nothing that a crash or a lost push could still take back.
ReadersSeeDurable ==
    \A p \in Procs : At(p, "serving") =>
        \A q \in Paths : work[q] \in Commands => Durable(work[q])

\* state/meta.json is published last and withdrawn first: while it shows the
\* revision of c, each owner c wrote holds what c wrote or something newer.
MetaBehindOwners ==
    \A c \in Commands : work[MetaPath] = c =>
        \A q \in WritesOf[c] :
            \/ work[q] \in {c, Alien}
            \/ work[q] \in Commands /\ BaseOf[work[q]] > BaseOf[c]

\* Rollback never touches a transaction whose trailer is in Git.
NoRollbackAfterCommit ==
    \A p \in Procs :
        pc[p] \in {"clear", "restore", "mark_rolled_back", "archive_rolled_back"}
            => ~Found(tx[p])

\* At most one transaction is under way, and the receipts, the WAL and Git
\* agree: an archived record tells what happened to its transaction.
ArchivedIsTrue ==
    /\ \A c, d \in Commands : pending[c] # "none" /\ pending[d] # "none" => c = d
    /\ \A c \in Commands : pending[c] = "none" =>
          /\ terminal[c] = "committed" <=> Found(c)
          /\ terminal[c] = "committed" <=> receipts[RequestOf[c]] = c

\* A request that was rolled back can be sent again: the WAL accepts the same
\* manifest as long as the base revision still stands (wal.prepare's comment).
RetryAccepted ==
    \A p \in Procs :
        At(p, "prepare") /\ AtRevision(BaseOf[op[p]]) => Preparable(op[p])

\* Bytes that no transaction wrote are evidence: no step replaces them.
AlienPreserved ==
    [][\A q \in Paths : work[q] = Alien => work'[q] = Alien]_vars

(***************************************************************************)
(* Refinement: what clients see is a ledger of durable commands.           *)
(***************************************************************************)

\* The places of a history that hold a command, and the commands in their order.
Placed(h)    == {i \in DOMAIN h : h[i] \in Commands}
TxCommits(h) == AtPlaces(h, Placed(h))

DurableHistory == IF RemoteRequired THEN remote ELSE local

LedgerOf == INSTANCE ExactlyOnceLedger
              WITH ledger <- TxCommits(DurableHistory), answered <- acked

\* Every step of the coordinator records one command in the durable ledger,
\* answers for a recorded one, or changes nothing a client can see.
Ledger == LedgerOf!LedgerSpec

(***************************************************************************)
(* Liveness.  Recovery runs at the start of an operation, so each property *)
(* assumes that operations keep arriving.                                  *)
(***************************************************************************)

OperationsArrive == []<>(\E p \in Procs : At(p, "recovering"))

\* No phase blocks: whoever takes the campaign lock lets go of it.
LockReleased == \A p \in Procs : (lock = p) ~> (lock # p)

\* No transaction stays in doubt: its WAL record is finished or rolled back.
PendingResolved ==
    OperationsArrive =>
        \A c \in Commands : (pending[c] # "none") ~> (pending[c] = "none")

\* "recovery must finish the committed transaction" (_abort_uncommitted).
CommittedIsFinished ==
    OperationsArrive =>
        \A c \in Commands : Found(c) ~> (receipts[RequestOf[c]] = c)
=============================================================================
