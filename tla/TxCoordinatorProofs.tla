------------------------- MODULE TxCoordinatorProofs -------------------------
(***************************************************************************)
(* Proofs about TxCoordinator for every set of processes, commands, owners *)
(* and every budget: types, mutual exclusion, the durability of what       *)
(* clients are told, and what recovery finds: the write-ahead log, the     *)
(* receipts and the Git history agree (WalInv), every file of the checkout *)
(* holds what the record says it may hold (FilesInv), and the history is   *)
(* the ledger that clients were promised (GitInv).                         *)
(***************************************************************************)
EXTENDS TxCoordinator, CountingProofs

(***************************************************************************)
(* How the control operators keep ControlOK.                               *)
(***************************************************************************)

\* Phase l suits what process p has in hand.
Suits(p, l) ==
    /\ l \in Phases
    /\ l \in TxPhases => tx[p] \in Commands
    /\ l \notin {"down", "idle"} => op[p] # None
    /\ l = "preflight" => op[p] # ReadOnly
    /\ l \in {"lookup", "prepare"} => op[p] \in Commands

LEMMA GotoControl ==
  ASSUME ControlOK, NEW p \in Procs, NEW l, Suits(p, l), Goto(p, l)
  PROVE  ControlOK'
  BY DEF ControlOK, InHand, Suits, Goto

LEMMA TakeUpControl ==
  ASSUME ControlOK, NEW p \in Procs, NEW c \in Commands, NEW l \in TxPhases,
         NEW w \in {"exec", "recover", "abort"}, NEW qs \in SUBSET Paths,
         op[p] # None, TakeUp(p, c, w, qs, l)
  PROVE  ControlOK'
  BY DEF ControlOK, InHand, TakeUp, TxPhases, Phases, Outside

LEMMA DropControl ==
  ASSUME ControlOK, NEW p \in Procs, op[p] # None,
         TakeUp(p, None, "none", {}, "recovering")
  PROVE  ControlOK'
  BY DEF ControlOK, InHand, TakeUp, TxPhases, Phases, Outside

LEMMA ReleaseControl ==
  ASSUME ControlOK, NEW p \in Procs, NEW l \in {"idle", "down"}, Release(p, l)
  PROVE  ControlOK'
  BY DEF ControlOK, InHand, Release, TxPhases, Phases, Outside

LEMMA RaiseControl ==
  ASSUME ControlOK, NEW p \in Procs, op[p] # None, Raise(p)
  PROVE  ControlOK'
<1>1. CASE why[p] = "exec" /\ ~At(p, "abort")
  <2>1. Goto(p, "abort")
    BY <1>1 DEF Raise
  <2>2. Suits(p, "abort")
    BY <1>1 DEF Suits, ControlOK, InHand, Phases
  <2> QED BY <2>1, <2>2, GotoControl
<1>2. CASE ~(why[p] = "exec" /\ ~At(p, "abort"))
  BY <1>2, ReleaseControl DEF Raise
<1> QED BY <1>1, <1>2

LEMMA TypeInit == Init => TypeOK
  BY CommandsAssumption, DistinctAssumption
     DEF Init, TypeOK, DataOK, ControlOK, InHand, TxPhases, Phases, Outside,
         Versions, Paths, Commits, Hazards

\* A process in a transaction's phase has an operation and that transaction.
LEMMA InPhase ==
  ASSUME ControlOK, NEW p \in Procs
  PROVE  /\ pc[p] \notin {"down", "idle"} => op[p] # None
         /\ pc[p] \in TxPhases => tx[p] \in Commands
  BY DEF ControlOK, InHand

LEMMA TypeRecoverStep ==
  ASSUME TypeOK, NEW p \in Procs, RecoverStep(p)
  PROVE  TypeOK'
<1> USE CommandsAssumption, DistinctAssumption DEF TypeOK
<1>1. CASE RecoveryDone(p)
  <2>1. DataOK'
    BY <1>1 DEF RecoveryDone, DataOK, disk, git, net, wal
  <2>2. ControlOK'
    BY <1>1, InPhase, GotoControl DEF RecoveryDone, At, TxPhases, Phases, Outside, Suits
  <2> QED BY <2>1, <2>2
<1>2. CASE RecoverSettled(p)
  <2>1. DataOK'
    BY <1>2 DEF RecoverSettled, Settled, DataOK, disk, git, net
  <2>2. ControlOK'
    BY <1>2, InPhase DEF RecoverSettled, At, TxPhases, Phases, Outside, Suits, ctx, ControlOK, InHand
  <2> QED BY <2>1, <2>2
<1>3. CASE RecoverCommitted(p)
  <2>1. DataOK'
    BY <1>3 DEF RecoverCommitted, DataOK, disk, git, net, wal
  <2>2. ControlOK'
    BY <1>3, InPhase, TakeUpControl DEF RecoverCommitted, At, TxPhases, Phases, Outside, Suits, PathsOf, Paths
  <2> QED BY <2>1, <2>2
<1>4. CASE RecoverUncommitted(p)
  <2>1. DataOK'
    BY <1>4 DEF RecoverUncommitted, DataOK, disk, git, net, wal, PathsOf
  <2>2. ControlOK'
    BY <1>4, InPhase, TakeUpControl DEF RecoverUncommitted, At, TxPhases, Phases, Outside, Suits, PathsOf, Paths
  <2> QED BY <2>1, <2>2
<1>5. CASE RecoveryRefused(p)
  <2>1. DataOK'
    BY <1>5 DEF RecoveryRefused, DataOK, disk, git, net, wal
  <2>2. ControlOK'
    BY <1>5, InPhase, ReleaseControl DEF RecoveryRefused, At, TxPhases, Phases, Outside, Suits
  <2> QED BY <2>1, <2>2
<1>6. CASE Resync(p)
  <2>1. DataOK'
    BY <1>6 DEF Resync, DataOK, disk, net, wal
  <2>2. ControlOK'
    BY <1>6, InPhase, GotoControl, ReleaseControl DEF Resync, At, TxPhases, Phases, Outside, Suits
  <2> QED BY <2>1, <2>2
<1> QED BY <1>1, <1>2, <1>3, <1>4, <1>5, <1>6 DEF RecoverStep

LEMMA TypeRollbackStep ==
  ASSUME TypeOK, NEW p \in Procs, RollbackStep(p)
  PROVE  TypeOK'
<1> USE CommandsAssumption, DistinctAssumption DEF TypeOK
<1>1. CASE Abort(p)
  <2>1. DataOK'
    BY <1>1, InPhase DEF Abort, DataOK, disk, git, net, wal, PathsOf, At, TxPhases, Phases, Outside
  <2>2. ControlOK'
    BY <1>1, InPhase, TakeUpControl, ReleaseControl DEF Abort, At, TxPhases, Phases, Outside, Suits, PathsOf, Paths
  <2> QED BY <2>1, <2>2
<1>2. CASE Clear(p)
  <2>1. DataOK'
    BY <1>2, InPhase DEF Clear, DataOK, net, wal, Swept, PathsOf, At, TxPhases, Phases, Outside
  <2>2. ControlOK'
    BY <1>2, InPhase, GotoControl, ReleaseControl DEF Clear, At, TxPhases, Phases, Outside, Suits
  <2> QED BY <2>1, <2>2
<1>3. CASE Restore(p)
  <2>1. DataOK'
    <3>1. tx[p] \in Commands
      BY <1>3, InPhase DEF Restore, At, TxPhases, Phases, Outside
    <3>2. before[tx[p]] \in [Paths -> Versions]
      BY <3>1 DEF DataOK
    <3> QED BY <1>3, <3>2 DEF Restore, DataOK, git, net, wal
  <2>2. ControlOK'
    BY <1>3, InPhase DEF Restore, At, TxPhases, Phases, Outside, Suits, ControlOK, InHand
  <2> QED BY <2>1, <2>2
<1>4. CASE Restored(p)
  <2>1. DataOK'
    BY <1>4, InPhase DEF Restored, DataOK, disk, git, net, wal, At, TxPhases, Phases, Outside
  <2>2. ControlOK'
    BY <1>4, InPhase, GotoControl, ReleaseControl DEF Restored, At, TxPhases, Phases, Outside, Suits
  <2> QED BY <2>1, <2>2
<1>5. CASE MarkRolledBack(p)
  <2>1. DataOK'
    BY <1>5, InPhase DEF MarkRolledBack, DataOK, disk, git, net, At, TxPhases, Phases, Outside
  <2>2. ControlOK'
    BY <1>5, InPhase, GotoControl DEF MarkRolledBack, At, TxPhases, Phases, Outside, Suits
  <2> QED BY <2>1, <2>2
<1>6. CASE ArchiveRolledBack(p)
  <2>1. DataOK'
    BY <1>6, InPhase DEF ArchiveRolledBack, DataOK, disk, git, net, At, TxPhases, Phases, Outside
  <2>2. ControlOK'
    BY <1>6, InPhase, DropControl, ReleaseControl DEF ArchiveRolledBack, At, TxPhases, Phases, Outside, Suits
  <2> QED BY <2>1, <2>2
<1> QED BY <1>1, <1>2, <1>3, <1>4, <1>5, <1>6 DEF RollbackStep

LEMMA TypeExecuteStep ==
  ASSUME TypeOK, NEW p \in Procs, ExecuteStep(p)
  PROVE  TypeOK'
<1> USE CommandsAssumption, DistinctAssumption DEF TypeOK
<1>1. CASE Guard(p)
  <2>1. DataOK'
    BY <1>1 DEF Guard, DataOK, disk, git, net, wal
  <2>2. ControlOK'
    <3>1. op[p] # None
      BY <1>1, InPhase DEF Guard, At
    <3>2. op[p] \in Commands \union {ReadOnly, Recover}
      BY <3>1 DEF ControlOK
    <3>3. \A l \in {"serving", "preflight", "lookup"} : Goto(p, l) /\ Suits(p, l) => ControlOK'
      BY GotoControl
    <3>4. op[p] = ReadOnly => Suits(p, "serving")
      BY <3>1 DEF Suits, TxPhases, Phases, Outside
    <3>5. op[p] = Recover => Suits(p, "serving") /\ Suits(p, "preflight")
      BY <3>1 DEF Suits, TxPhases, Phases, Outside
    <3>6. op[p] \in Commands => Suits(p, "preflight") /\ Suits(p, "lookup")
      BY <3>1 DEF Suits, TxPhases, Phases, Outside
    <3> QED BY <1>1, <3>2, <3>3, <3>4, <3>5, <3>6, ReleaseControl DEF Guard
  <2> QED BY <2>1, <2>2
<1>2. CASE Serve(p)
  <2>1. DataOK'
    BY <1>2 DEF Serve, DataOK, disk, git, net, wal
  <2>2. ControlOK'
    BY <1>2, InPhase, ReleaseControl DEF Serve, At, TxPhases, Phases, Outside, Suits
  <2> QED BY <2>1, <2>2
<1>3. CASE Preflight(p)
  <2>1. DataOK'
    BY <1>3 DEF Preflight, DataOK, disk, net, wal
  <2>2. ControlOK'
    <3>1. op[p] # None /\ op[p] # ReadOnly
      BY <1>3 DEF Preflight, At, ControlOK, InHand
    <3>2. op[p] \in Commands \union {Recover}
      BY <3>1 DEF ControlOK
    <3>3. op[p] = Recover => Suits(p, "serving")
      BY <3>1 DEF Suits, TxPhases, Phases, Outside
    <3>4. op[p] \in Commands => Suits(p, "lookup")
      BY <3>1 DEF Suits, TxPhases, Phases, Outside
    <3>5. \A l \in {"serving", "lookup"} : Goto(p, l) /\ Suits(p, l) => ControlOK'
      BY GotoControl
    <3> QED BY <1>3, <3>2, <3>3, <3>4, <3>5, ReleaseControl DEF Preflight
  <2> QED BY <2>1, <2>2
<1>4. CASE Lookup(p)
  <2>1. DataOK'
    <3>1. op[p] \in Commands
      BY <1>4 DEF Lookup, At, ControlOK, InHand
    <3>2. acked' \subseteq Commands
      BY <1>4, <3>1 DEF Lookup, DataOK
    <3> QED BY <1>4, <3>2 DEF Lookup, DataOK, disk, git, net, wal
  <2>2. ControlOK'
    <3>1. op[p] # None /\ op[p] \in Commands
      BY <1>4 DEF Lookup, At, ControlOK, InHand
    <3>2. Suits(p, "prepare")
      BY <3>1 DEF Suits, TxPhases, Phases, Outside
    <3> QED BY <1>4, <3>2, GotoControl, ReleaseControl DEF Lookup
  <2> QED BY <2>1, <2>2
<1>5. CASE Prepare(p)
  <2>1. DataOK'
    <3>1. op[p] \in Commands
      BY <1>5 DEF Prepare, At, ControlOK, InHand
    <3>2. Images(op[p]) \in [Paths -> Versions]
      BY DEF Images, DataOK, Versions
    <3>3. pending' \in [Commands -> {"none", "prepared", "applied", "committed", "rolled_back"}]
      BY <1>5, <3>1 DEF Prepare, DataOK
    <3>4. before' \in [Commands -> [Paths -> Versions]]
      <4>1. before' = before \/ before' = [before EXCEPT ![op[p]] = Images(op[p])]
        BY <1>5 DEF Prepare
      <4>2. before \in [Commands -> [Paths -> Versions]]
        BY DEF DataOK
      <4> QED BY <4>1, <4>2, <3>1, <3>2
    <3> QED BY <1>5, <3>3, <3>4 DEF Prepare, DataOK, disk, git, net
  <2>2. ControlOK'
    <3>1. op[p] # None /\ op[p] \in Commands
      BY <1>5 DEF Prepare, At, ControlOK, InHand
    <3>2. PathsOf(op[p]) \in SUBSET Paths
      BY <3>1 DEF PathsOf, Paths
    <3>3. "validate" \in TxPhases
      BY DEF TxPhases, Phases, Outside
    <3>4. CASE TakeUp(p, op[p], "exec", PathsOf(op[p]), "validate")
      BY <3>1, <3>2, <3>3, <3>4, TakeUpControl
    <3>5. CASE Release(p, "idle")
      BY <3>5, ReleaseControl
    <3> QED BY <1>5, <3>4, <3>5 DEF Prepare
  <2> QED BY <2>1, <2>2
<1>6. CASE Validate(p)
  <2>1. DataOK'
    BY <1>6, InPhase DEF Validate, DataOK, disk, git, net, wal, At, TxPhases, Phases, Outside
  <2>2. ControlOK'
    BY <1>6, InPhase, GotoControl, RaiseControl DEF Validate, At, TxPhases, Phases, Outside, Suits
  <2> QED BY <2>1, <2>2
<1>7. CASE Apply(p)
  <2>1. DataOK'
    BY <1>7, InPhase DEF Apply, DataOK, git, net, wal, At, TxPhases, Phases, Outside, Versions
  <2>2. ControlOK'
    BY <1>7, InPhase DEF Apply, At, TxPhases, Phases, Outside, Suits, ControlOK, InHand
  <2> QED BY <2>1, <2>2
<1>8. CASE MarkApplied(p)
  <2>1. DataOK'
    BY <1>8, InPhase DEF MarkApplied, DataOK, disk, git, net, At, TxPhases, Phases, Outside
  <2>2. ControlOK'
    BY <1>8, InPhase, GotoControl, RaiseControl DEF MarkApplied, At, TxPhases, Phases, Outside, Suits
  <2> QED BY <2>1, <2>2
<1>9. CASE Stage(p)
  <2>1. DataOK'
    <3>1. index' \in [Paths -> Versions]
      BY <1>9 DEF Stage, DataOK
    <3> QED BY <1>9, <3>1 DEF Stage, DataOK, disk, net, wal
  <2>2. ControlOK'
    BY <1>9, InPhase, GotoControl, RaiseControl DEF Stage, At, TxPhases, Phases, Outside, Suits
  <2> QED BY <2>1, <2>2
<1>10. CASE Commit(p)
  <2>1. DataOK'
    <3>1. tx[p] \in Commits
      BY <1>10, InPhase DEF Commit, At, TxPhases, Phases, Outside, Commits
    <3>2. local' \in Seq(Commits)
      BY <1>10, <3>1 DEF Commit, DataOK
    <3> QED BY <1>10, <3>2 DEF Commit, DataOK, disk, net, wal
  <2>2. ControlOK'
    BY <1>10, InPhase, GotoControl DEF Commit, At, TxPhases, Phases, Outside, Suits
  <2> QED BY <2>1, <2>2
<1>11. CASE Readback(p)
  <2>1. DataOK'
    BY <1>11, InPhase DEF Readback, DataOK, disk, git, net, wal, At, TxPhases, Phases, Outside
  <2>2. ControlOK'
    BY <1>11, InPhase, GotoControl, RaiseControl DEF Readback, At, TxPhases, Phases, Outside, Suits
  <2> QED BY <2>1, <2>2
<1> QED BY <1>1, <1>2, <1>3, <1>4, <1>5, <1>6, <1>7, <1>8, <1>9, <1>10, <1>11 DEF ExecuteStep

LEMMA TypePublishStep ==
  ASSUME TypeOK, NEW p \in Procs, PublishStep(p)
  PROVE  TypeOK'
<1> USE CommandsAssumption, DistinctAssumption DEF TypeOK
<1>1. CASE Push(p)
  <2>1. DataOK'
    BY <1>1, InPhase DEF Push, DataOK, disk, git, wal, At, TxPhases, Phases, Outside
  <2>2. ControlOK'
    BY <1>1, InPhase, GotoControl, RaiseControl DEF Push, At, TxPhases, Phases, Outside, Suits
  <2> QED BY <2>1, <2>2
<1>2. CASE PushReturns(p)
  <2>1. DataOK'
    BY <1>2 DEF PushReturns, DataOK, disk, git, net, wal
  <2>2. ControlOK'
    BY <1>2, InPhase, GotoControl, RaiseControl DEF PushReturns, At, TxPhases, Phases, Outside, Suits
  <2> QED BY <2>1, <2>2
<1>3. CASE VerifyPush(p)
  <2>1. DataOK'
    BY <1>3 DEF VerifyPush, DataOK, disk, git, net, wal
  <2>2. ControlOK'
    BY <1>3, InPhase, GotoControl, RaiseControl DEF VerifyPush, At, TxPhases, Phases, Outside, Suits
  <2> QED BY <2>1, <2>2
<1>4. CASE MarkCommitted(p)
  <2>1. DataOK'
    BY <1>4, InPhase DEF MarkCommitted, DataOK, disk, git, net, At, TxPhases, Phases, Outside
  <2>2. ControlOK'
    BY <1>4, InPhase, GotoControl, RaiseControl DEF MarkCommitted, At, TxPhases, Phases, Outside, Suits, ctx, ControlOK, InHand
  <2> QED BY <2>1, <2>2
<1>5. CASE PutReceipt(p)
  <2>1. DataOK'
    BY <1>5, InPhase DEF PutReceipt, DataOK, disk, git, net, wal, At, TxPhases, Phases, Outside
  <2>2. ControlOK'
    BY <1>5, InPhase, GotoControl, RaiseControl DEF PutReceipt, At, TxPhases, Phases, Outside, Suits
  <2> QED BY <2>1, <2>2
<1>6. CASE ArchiveCommitted(p)
  <2>1. DataOK'
    <3>1. tx[p] \in Commands
      BY <1>6, InPhase DEF ArchiveCommitted, At, TxPhases, Phases, Outside
    <3>2. acked' \subseteq Commands
      BY <1>6, <3>1 DEF ArchiveCommitted, DataOK
    <3> QED BY <1>6, <3>2 DEF ArchiveCommitted, DataOK, disk, git, net
  <2>2. ControlOK'
    BY <1>6, InPhase, DropControl, ReleaseControl DEF ArchiveCommitted, At, TxPhases, Phases, Outside, Suits
  <2> QED BY <2>1, <2>2
<1> QED BY <1>1, <1>2, <1>3, <1>4, <1>5, <1>6 DEF PublishStep

LEMMA SpendType ==
  ASSUME spent \in [Hazards -> Nat], NEW k \in Hazards, Spend(k)
  PROVE  spent' \in [Hazards -> Nat]
  BY DEF Spend

LEMMA TypeEdge ==
  ASSUME TypeOK, NEW p \in Procs,
         \/ Submit(p) \/ Restart(p) \/ Acquire(p) \/ LockTimeout(p)
         \/ PushTimeout(p) \/ Fault(p) \/ Crash(p)
  PROVE  TypeOK'
<1> USE CommandsAssumption, DistinctAssumption DEF TypeOK
<1>1. CASE Submit(p)
  <2>1. DataOK'
    BY <1>1 DEF Submit, DataOK, disk, git, net, wal
  <2>2. ControlOK'
    BY <1>1 DEF Submit, At, ControlOK, InHand, TxPhases, Phases, Outside
  <2> QED BY <2>1, <2>2
<1>2. CASE Restart(p)
  <2>1. DataOK'
    BY <1>2 DEF Restart, DataOK, disk, git, net, wal
  <2>2. ControlOK'
    BY <1>2 DEF Restart, At, ControlOK, InHand, TxPhases, Phases, Outside
  <2> QED BY <2>1, <2>2
<1>3. CASE Acquire(p)
  <2>1. DataOK'
    BY <1>3 DEF Acquire, DataOK, disk, git, net, wal
  <2>2. ControlOK'
    BY <1>3 DEF Acquire, At, ControlOK, InHand, TxPhases, Phases, Outside
  <2> QED BY <2>1, <2>2
<1>4. CASE LockTimeout(p)
  <2>1. DataOK'
    BY <1>4 DEF LockTimeout, DataOK, disk, git, net, wal
  <2>2. ControlOK'
    BY <1>4 DEF LockTimeout, At, ControlOK, InHand, TxPhases, Phases, Outside
  <2> QED BY <2>1, <2>2
<1>5. CASE PushTimeout(p)
  <2>1. DataOK'
    BY <1>5, SpendType DEF PushTimeout, Hazards, DataOK, disk, git, net, wal
  <2>2. ControlOK'
    BY <1>5, InPhase, RaiseControl DEF PushTimeout, At
  <2> QED BY <2>1, <2>2
<1>6. CASE Fault(p)
  <2>1. DataOK'
    BY <1>6, SpendType DEF Fault, Hazards, DataOK, disk, git, net, wal
  <2>2. ControlOK'
    BY <1>6, InPhase, RaiseControl DEF Fault, Outside
  <2> QED BY <2>1, <2>2
<1>7. CASE Crash(p)
  <2>1. DataOK'
    <3>1. tmp' \in [Paths -> {"none", "image", "torn"}]
      BY <1>7, CommandsAssumption DEF Crash, DataOK
    <3>2. spent' \in [Hazards -> Nat]
      BY <1>7, SpendType DEF Crash, DataOK, Hazards
    <3> QED BY <1>7, <3>1, <3>2 DEF Crash, DataOK, git, net, wal
  <2>2. ControlOK'
    BY <1>7, ReleaseControl DEF Crash
  <2> QED BY <2>1, <2>2
<1> QED BY <1>1, <1>2, <1>3, <1>4, <1>5, <1>6, <1>7

LEMMA TypeEnvironment ==
  ASSUME TypeOK, Environment
  PROVE  TypeOK'
<1> USE CommandsAssumption, DistinctAssumption DEF TypeOK
<1>1. ASSUME UNCHANGED ctx PROVE ControlOK'
  BY <1>1 DEF ctx, ControlOK, InHand
<1>2. CASE Land
  BY <1>1, <1>2 DEF Land, DataOK, disk, git, wal
<1>3. CASE Reject
  BY <1>1, <1>3 DEF Reject, DataOK, disk, git, wal
<1>4. CASE Lose
  BY <1>1, <1>4, SpendType DEF Lose, Hazards, DataOK, disk, git, wal
<1>5. CASE ExternalPush
  <2>1. PICK k \in {Neutral, Foreign} : remote' = Append(remote, k)
    BY <1>5 DEF ExternalPush
  <2>2. remote' \in Seq(Commits)
    BY <2>1 DEF DataOK, Commits
  <2>3. spent' \in [Hazards -> Nat]
    BY <1>5, SpendType DEF ExternalPush, DataOK, Hazards
  <2> QED BY <1>1, <1>5, <2>2, <2>3 DEF ExternalPush, DataOK, disk, git, wal
<1>6. CASE AlienEdit
  <2>1. work' \in [Paths -> Versions]
    BY <1>6 DEF AlienEdit, DataOK, Versions
  <2>2. spent' \in [Hazards -> Nat]
    BY <1>6, SpendType DEF AlienEdit, DataOK, Hazards
  <2> QED BY <1>1, <1>6, <2>1, <2>2 DEF AlienEdit, DataOK, git, net, wal
<1> QED BY <1>2, <1>3, <1>4, <1>5, <1>6 DEF Environment

LEMMA TypeStutter ==
  ASSUME TypeOK, UNCHANGED vars
  PROVE  TypeOK'
  BY DEF TypeOK, DataOK, ControlOK, InHand, vars

LEMMA TypeStep ==
  ASSUME TypeOK, [Next]_vars
  PROVE  TypeOK'
<1>1. CASE Environment
  BY <1>1, TypeEnvironment
<1>2. ASSUME NEW p \in Procs, Proc(p) PROVE TypeOK'
  BY <1>2, TypeRecoverStep, TypeRollbackStep, TypeExecuteStep, TypePublishStep,
     TypeEdge DEF Proc, Step
<1>3. CASE UNCHANGED vars
  BY <1>3, TypeStutter
<1> QED BY <1>1, <1>2, <1>3 DEF Next

\* Type correctness: with it the proofs below may rely on what each phase has
\* in hand, in every reachable state of every instance.
THEOREM TypeCorrect == Spec => []TypeOK
<1>1. TypeOK /\ [Next]_vars => TypeOK'
  BY TypeStep
<1> QED BY TypeInit, <1>1, PTL DEF Spec

(***************************************************************************)
(* Mutual exclusion.                                                       *)
(***************************************************************************)

\* A step of the locked region moves only the process that takes it, and lets
\* go of the lock exactly when that process leaves the region.
Moved(p) ==
    /\ \A q \in Procs \ {p} : pc'[q] = pc[q] /\ tx'[q] = tx[q] /\ why'[q] = why[q]
    /\ \/ lock' = lock
       \/ lock' = None /\ pc'[p] \in Outside

Locked(p) == pc[p] \notin Outside /\ Moved(p)

LEMMA GotoMoved ==
  ASSUME ControlOK, NEW p \in Procs, NEW l, Goto(p, l)
  PROVE  Moved(p)
  BY DEF ControlOK, Goto, Moved

LEMMA TakeUpMoved ==
  ASSUME ControlOK, NEW p \in Procs, NEW c, NEW w, NEW qs, NEW l, TakeUp(p, c, w, qs, l)
  PROVE  Moved(p)
  BY DEF ControlOK, TakeUp, Moved

LEMMA ReleaseMoved ==
  ASSUME ControlOK, NEW p \in Procs, NEW l \in {"idle", "down"}, Release(p, l)
  PROVE  Moved(p)
  BY DEF ControlOK, Release, Moved, Outside

LEMMA RaiseMoved ==
  ASSUME ControlOK, NEW p \in Procs, Raise(p)
  PROVE  Moved(p)
  BY GotoMoved, ReleaseMoved DEF Raise

LEMMA LockedStep ==
  ASSUME TypeOK, NEW p \in Procs,
         Step(p) \/ PushTimeout(p) \/ Fault(p) \/ Crash(p)
  PROVE  Locked(p)
<1> USE GotoMoved, TakeUpMoved, ReleaseMoved, RaiseMoved DEF TypeOK, Locked, Outside, At
<1>1. ASSUME UNCHANGED ctx PROVE Moved(p)
  BY <1>1 DEF ctx, Moved
<1>2. CASE RecoverStep(p)
  BY <1>1, <1>2 DEF RecoverStep, RecoveryDone, RecoverSettled, RecoverCommitted,
                    RecoverUncommitted, RecoveryRefused, Resync
<1>3. CASE RollbackStep(p)
  <2>1. CASE Restore(p)
    BY <2>1 DEF Restore, Moved
  <2> QED BY <1>3, <2>1 DEF RollbackStep, Abort, Clear, Restored, MarkRolledBack,
                            ArchiveRolledBack
<1>4. CASE ExecuteStep(p)
  <2>1. CASE Apply(p)
    BY <2>1 DEF Apply, Moved, ControlOK
  <2>2. CASE Guard(p) \/ Serve(p) \/ Preflight(p) \/ Lookup(p) \/ Prepare(p)
    BY <2>2 DEF Guard, Serve, Preflight, Lookup, Prepare
  <2>3. CASE Validate(p) \/ MarkApplied(p) \/ Stage(p) \/ Commit(p) \/ Readback(p)
    BY <2>3 DEF Validate, MarkApplied, Stage, Commit, Readback
  <2> QED BY <1>4, <2>1, <2>2, <2>3 DEF ExecuteStep
<1>5. CASE PublishStep(p)
  BY <1>1, <1>5 DEF PublishStep, Push, PushReturns, VerifyPush, MarkCommitted,
                    PutReceipt, ArchiveCommitted
<1>6. CASE PushTimeout(p) \/ Fault(p) \/ Crash(p)
  BY <1>6 DEF PushTimeout, Fault, Crash
<1> QED BY <1>2, <1>3, <1>4, <1>5, <1>6 DEF Step

LEMMA ExclusionStep ==
  ASSUME TypeOK, MutualExclusion, [Next]_vars
  PROVE  MutualExclusion'
<1> USE DistinctAssumption DEF MutualExclusion, TypeOK, ControlOK
<1>1. ASSUME NEW p \in Procs, Step(p) \/ PushTimeout(p) \/ Fault(p) \/ Crash(p)
      PROVE  MutualExclusion'
  BY <1>1, LockedStep DEF Locked, Moved
<1>2. ASSUME NEW p \in Procs, Submit(p) \/ Restart(p) \/ Acquire(p) \/ LockTimeout(p)
      PROVE  MutualExclusion'
  BY <1>2 DEF Submit, Restart, Acquire, LockTimeout, At, Outside
<1>3. CASE Environment \/ UNCHANGED vars
  BY <1>3 DEF Environment, Land, Reject, Lose, ExternalPush, AlienEdit, ctx, vars
<1> QED BY <1>1, <1>2, <1>3 DEF Next, Proc

\* The campaign lock works for any number of processes, whatever combination of
\* kills, exceptions and lock timeouts they meet.
THEOREM Exclusion == Spec => []MutualExclusion
<1>1. Init => MutualExclusion
  BY DEF Init, MutualExclusion, Outside
<1>2. TypeOK /\ MutualExclusion /\ [Next]_vars => MutualExclusion'
  BY ExclusionStep
<1> QED BY <1>1, <1>2, TypeCorrect, PTL DEF Spec

(***************************************************************************)
(* Durability.                                                             *)
(***************************************************************************)

\* The history t keeps everything that the history s holds.
Extends(s, t) == \A i \in DOMAIN s : i \in DOMAIN t /\ t[i] = s[i]

LEMMA PrefixExtends ==
  ASSUME NEW S, NEW s \in Seq(S), NEW t \in Seq(S), IsPrefix(s, t)
  PROVE  Extends(s, t)
  BY DEF IsPrefix, Extends

LEMMA ParentExtends ==
  ASSUME NEW S, NEW h \in Seq(S)
  PROVE  Extends(Parent(h), h)
<1>1. CASE h = <<>>
  BY <1>1 DEF Parent, Extends
<1>2. CASE h # <<>>
  BY <1>2 DEF Parent, Extends
<1> QED BY <1>1, <1>2

LEMMA AppendExtends ==
  ASSUME NEW S, NEW s \in Seq(S), NEW x \in S
  PROVE  Extends(s, Append(s, x)) /\ Append(s, x)[Len(s) + 1] = x
  BY DEF Extends

\* No step rewrites the history on either side: no reset, no forced push.
LEMMA HistoryGrows ==
  ASSUME TypeOK, [Next]_vars
  PROVE  Extends(local, local') /\ Extends(remote, remote')
<1> USE DEF TypeOK, DataOK
<1>1. \A s \in Seq(Commits) : Extends(s, s)
  BY DEF Extends
<1>2. ASSUME NEW p \in Procs, Step(p)
      PROVE  Extends(local, local') /\ remote' = remote
  <2>1. CASE Commit(p)
    <3>1. tx[p] \in Commits
      BY <2>1, InPhase DEF Commit, At, TxPhases, Phases, Outside, Commits
    <3> QED BY <2>1, <3>1, AppendExtends DEF Commit, net
  <2>2. CASE Resync(p) \/ Preflight(p)
    BY <2>2, <1>1, PrefixExtends DEF Resync, Preflight, NeutralAhead, net
  <2>3. CASE RecoveryDone(p) \/ RecoverSettled(p) \/ RecoverCommitted(p)
             \/ RecoverUncommitted(p) \/ RecoveryRefused(p) \/ RollbackStep(p)
    BY <2>3, <1>1 DEF RecoveryDone, RecoverSettled, RecoverCommitted,
         RecoverUncommitted, RecoveryRefused, RollbackStep, Abort, Clear, Restore,
         Restored, MarkRolledBack, ArchiveRolledBack, git, net
  <2>4. CASE PublishStep(p)
    BY <2>4, <1>1 DEF PublishStep, Push, PushReturns, VerifyPush, MarkCommitted,
         PutReceipt, ArchiveCommitted, git, net
  <2> QED BY <1>2, <1>1, <2>1, <2>2, <2>3, <2>4 DEF Step, RecoverStep, ExecuteStep,
         Guard, Serve, Lookup, Prepare, Validate, Apply, MarkApplied, Stage, Readback,
         git, net
<1>3. ASSUME NEW p \in Procs,
             \/ Submit(p) \/ Restart(p) \/ Acquire(p) \/ LockTimeout(p)
             \/ PushTimeout(p) \/ Fault(p) \/ Crash(p)
      PROVE  local' = local /\ remote' = remote
  BY <1>3 DEF Submit, Restart, Acquire, LockTimeout, PushTimeout, Fault, Crash, git, net
<1>4. CASE Land
  <2>1. PICK h \in inflight : remote = Parent(h) /\ remote' = h
    BY <1>4 DEF Land
  <2>2. Extends(remote, remote')
    BY <2>1, ParentExtends
  <2> QED BY <1>1, <1>4, <2>2 DEF Land, git
<1>5. CASE ExternalPush
  <2>1. PICK k \in {Neutral, Foreign} : remote' = Append(remote, k)
    BY <1>5 DEF ExternalPush
  <2>2. Extends(remote, remote')
    BY <2>1, AppendExtends DEF Commits
  <2> QED BY <1>1, <1>5, <2>2 DEF ExternalPush, git
<1>6. CASE Reject \/ Lose \/ AlienEdit \/ UNCHANGED vars
  BY <1>1, <1>6 DEF Reject, Lose, AlienEdit, git, net, vars
<1> QED BY <1>1, <1>2, <1>3, <1>4, <1>5, <1>6 DEF Next, Proc, Environment

\* What was committed stays committed; what was durable stays durable.
LEMMA DurableGrows ==
  ASSUME TypeOK, [Next]_vars, NEW c \in Commands
  PROVE  (Found(c) => Found(c)') /\ (Durable(c) => Durable(c)')
  BY HistoryGrows DEF Extends, Found, Durable

\* The inductive invariant behind durability: what a process on its way to an
\* answer has already established about its transaction, phase by phase.
Established(p) ==
    /\ pc[p] \in {"readback", "push", "pushing", "verify_push"} => Found(tx[p])
    /\ pc[p] \in {"finalize", "receipt", "archive"} => Durable(tx[p])
    /\ pc[p] = "archive" => receipts[RequestOf[tx[p]]] = tx[p]

DurableInv ==
    /\ ReceiptIsDurable
    /\ \A c \in acked : receipts[RequestOf[c]] = c
    /\ \A p \in Procs : Established(p)

Publishing == {"readback", "push", "pushing", "verify_push", "finalize", "receipt",
               "archive"}

LEMMA DurableInit == Init => DurableInv
  BY DEF Init, DurableInv, ReceiptIsDurable, Established

\* Of all actions only PutReceipt stores a receipt, and it never replaces one.
LEMMA ReceiptsKept ==
  ASSUME TypeOK, [Next]_vars
  PROVE  /\ \A r \in Requests : receipts[r] # None => receipts'[r] = receipts[r]
         /\ \/ receipts' = receipts
            \/ \E p \in Procs : PutReceipt(p)
<1> USE DEF TypeOK, DataOK
<1>1. ASSUME NEW p \in Procs, PutReceipt(p)
      PROVE  \A r \in Requests : receipts[r] # None => receipts'[r] = receipts[r]
  BY <1>1 DEF PutReceipt
<1>2. ASSUME NEW p \in Procs, Step(p), ~PutReceipt(p)
      PROVE  receipts' = receipts
  <2>1. CASE RecoverStep(p)
    BY <2>1 DEF RecoverStep, RecoveryDone, RecoverSettled, RecoverCommitted,
                RecoverUncommitted, RecoveryRefused, Resync
  <2>2. CASE RollbackStep(p)
    BY <2>2 DEF RollbackStep, Abort, Clear, Restore, Restored, MarkRolledBack,
                ArchiveRolledBack
  <2>3. CASE ExecuteStep(p)
    BY <2>3 DEF ExecuteStep, Guard, Serve, Preflight, Lookup, Prepare, Validate,
                Apply, MarkApplied, Stage, Commit, Readback
  <2>4. CASE PublishStep(p)
    BY <1>2, <2>4 DEF PublishStep, Push, PushReturns, VerifyPush, MarkCommitted,
                ArchiveCommitted
  <2> QED BY <1>2, <2>1, <2>2, <2>3, <2>4 DEF Step
<1>3. ASSUME NEW p \in Procs,
             \/ Submit(p) \/ Restart(p) \/ Acquire(p) \/ LockTimeout(p)
             \/ PushTimeout(p) \/ Fault(p) \/ Crash(p)
      PROVE  receipts' = receipts
  BY <1>3 DEF Submit, Restart, Acquire, LockTimeout, PushTimeout, Fault, Crash
<1>4. CASE Environment \/ UNCHANGED vars
  BY <1>4 DEF Environment, Land, Reject, Lose, ExternalPush, AlienEdit, vars
<1> QED BY <1>1, <1>2, <1>3, <1>4 DEF Next, Proc

\* A process that did not move keeps what it had established.
LEMMA EstablishedKept ==
  ASSUME TypeOK, DurableInv, [Next]_vars, NEW q \in Procs,
         pc'[q] = pc[q], tx'[q] = tx[q]
  PROVE  Established(q)'
<1>1. CASE pc[q] \notin Publishing
  BY <1>1 DEF Established, Publishing
<1>2. CASE pc[q] \in Publishing
  <2>1. tx[q] \in Commands
    BY <1>2, InPhase DEF TypeOK, Publishing, TxPhases, Phases, Outside
  <2>2. RequestOf[tx[q]] \in Requests /\ tx[q] # None
    BY <2>1, CommandsAssumption, DistinctAssumption
  <2>3. /\ Found(tx[q]) => Found(tx[q])'
        /\ Durable(tx[q]) => Durable(tx[q])'
    BY <2>1, HistoryGrows DEF Found, Durable, Extends
  <2>4. pc[q] = "archive" => receipts'[RequestOf[tx[q]]] = tx[q]
    BY <2>2, ReceiptsKept DEF DurableInv, Established
  <2> QED BY <2>3, <2>4 DEF DurableInv, Established
<1> QED BY <1>1, <1>2

\* The process that moves establishes what its next phase relies on.
LEMMA EstablishedStep ==
  ASSUME TypeOK, DurableInv, [Next]_vars, NEW p \in Procs, Step(p)
  PROVE  Established(p)'
<1> USE DEF TypeOK
<1>1. ASSUME pc'[p] \notin Publishing PROVE Established(p)'
  BY <1>1 DEF Established, Publishing
<1>2. ASSUME NEW l, Goto(p, l) PROVE pc'[p] = l /\ tx'[p] = tx[p]
  BY <1>2 DEF Goto, ControlOK
<1>3. ASSUME NEW c, NEW w, NEW qs, NEW l, TakeUp(p, c, w, qs, l)
      PROVE  pc'[p] = l /\ tx'[p] = c
  BY <1>3 DEF TakeUp, ControlOK
<1>4. ASSUME Raise(p) PROVE pc'[p] \notin Publishing
  BY <1>4, <1>2 DEF Raise, Release, ControlOK, Publishing
<1>5. ASSUME NEW l \in {"idle", "down"}, Release(p, l) PROVE pc'[p] \notin Publishing
  BY <1>5 DEF Release, ControlOK, Publishing
<1>6. pc[p] \in Publishing => tx[p] \in Commands
  BY InPhase DEF Publishing, TxPhases, Phases, Outside
<1>7. Durable(tx[p]) = IF RemoteRequired THEN \E i \in DOMAIN remote : remote[i] = tx[p]
                                         ELSE Found(tx[p])
  BY DEF Durable
<1>8. CASE RecoverCommitted(p)
  <2>1. PICK c \in Commands :
           /\ Found(c)
           /\ TakeUp(p, c, "recover", {}, IF RemoteRequired THEN "push" ELSE "finalize")
    BY <1>8 DEF RecoverCommitted, FinishAllowed
  <2>2. Found(c)' /\ (~RemoteRequired => Durable(c)')
    BY <2>1, DurableGrows DEF Durable
  <2>3. tx'[p] = c /\ pc'[p] = IF RemoteRequired THEN "push" ELSE "finalize"
    BY <2>1, <1>3
  <2>4. Found(tx[p])' /\ (~RemoteRequired => Durable(tx[p])')
    BY <2>2, <2>3 DEF Found, Durable
  <2> QED BY <2>3, <2>4 DEF Established
<1>9. CASE RecoverStep(p) /\ ~RecoverCommitted(p)
  <2>1. CASE RecoverSettled(p)
    BY <2>1, <1>1 DEF RecoverSettled, At, ctx, Publishing
  <2>2. CASE RecoveryDone(p) \/ RecoverUncommitted(p) \/ RecoveryRefused(p) \/ Resync(p)
    <3>1. pc'[p] \notin Publishing
      BY <2>2, <1>2, <1>3, <1>5
         DEF RecoveryDone, RecoverUncommitted, RecoveryRefused, Resync, Publishing
    <3> QED BY <3>1, <1>1
  <2> QED BY <1>9, <2>1, <2>2 DEF RecoverStep
<1>10. CASE RollbackStep(p)
  <2>1. CASE Restore(p)
    BY <2>1, <1>1 DEF Restore, At, Publishing
  <2>2. CASE Abort(p) \/ Clear(p) \/ Restored(p) \/ MarkRolledBack(p) \/ ArchiveRolledBack(p)
    <3>1. pc'[p] \notin Publishing
      BY <2>2, <1>2, <1>3, <1>5
         DEF Abort, Clear, Restored, MarkRolledBack, ArchiveRolledBack, Publishing
    <3> QED BY <3>1, <1>1
  <2> QED BY <1>10, <2>1, <2>2 DEF RollbackStep
<1>11. CASE Commit(p)
  <2>1. tx[p] \in Commands
    BY <1>11, InPhase DEF Commit, At, TxPhases, Phases, Outside
  <2>2. local' = Append(local, tx[p]) /\ pc'[p] = "readback" /\ tx'[p] = tx[p]
    BY <1>11, <1>2 DEF Commit
  <2>3. local \in Seq(Commits) /\ tx[p] \in Commits
    BY <2>1 DEF DataOK, Commits
  <2>4. Found(tx[p])'
    BY <2>2, <2>3 DEF Found
  <2> QED BY <2>2, <2>4 DEF Established
<1>12. CASE Readback(p)
  <2>1. Found(tx[p])
    BY <1>12 DEF Readback, At, DurableInv, Established
  <2>2. CASE Raise(p)
    BY <2>2, <1>4, <1>1
  <2>3. CASE Goto(p, IF RemoteRequired THEN "push" ELSE "finalize")
    <3>1. tx'[p] = tx[p] /\ pc'[p] = IF RemoteRequired THEN "push" ELSE "finalize"
      BY <2>3, <1>2
    <3>2. Found(tx[p])' /\ (~RemoteRequired => Durable(tx[p])')
      BY <1>12, <2>1, <3>1 DEF Readback, Found, Durable, git
    <3> QED BY <3>1, <3>2 DEF Established
  <2> QED BY <1>12, <2>2, <2>3 DEF Readback
<1>13. CASE /\ ExecuteStep(p) /\ ~Commit(p) /\ ~Readback(p)
  <2>1. CASE Apply(p)
    BY <2>1, <1>1 DEF Apply, At, Publishing, ControlOK
  <2>2. CASE Guard(p) \/ Serve(p) \/ Preflight(p) \/ Lookup(p) \/ Prepare(p)
    <3>1. pc'[p] \notin Publishing
      BY <2>2, <1>2, <1>3, <1>5 DEF Guard, Serve, Preflight, Lookup, Prepare, Publishing
    <3> QED BY <3>1, <1>1
  <2>3. CASE Validate(p) \/ MarkApplied(p) \/ Stage(p)
    <3>1. pc'[p] \notin Publishing
      BY <2>3, <1>2, <1>4 DEF Validate, MarkApplied, Stage, Publishing
    <3> QED BY <3>1, <1>1
  <2> QED BY <1>13, <2>1, <2>2, <2>3 DEF ExecuteStep
<1>14. CASE Push(p) \/ PushReturns(p) \/ VerifyPush(p)
  <2>1. Found(tx[p]) /\ local' = local /\ remote' = remote
    BY <1>14 DEF Push, PushReturns, VerifyPush, At, DurableInv, Established, git, net
  <2>2. CASE Raise(p)
    BY <2>2, <1>4, <1>1
  <2>3. CASE Goto(p, "pushing") \/ Goto(p, "verify_push")
    BY <2>1, <2>3, <1>2 DEF Established, Found
  <2>4. CASE Goto(p, "finalize") /\ remote = local
    BY <2>1, <2>4, <1>2 DEF Established, Found, Durable
  <2> QED BY <1>14, <2>2, <2>3, <2>4 DEF Push, PushReturns, VerifyPush
<1>15. CASE MarkCommitted(p)
  <2>1. Durable(tx[p]) /\ local' = local /\ remote' = remote
    BY <1>15 DEF MarkCommitted, At, DurableInv, Established, git, net
  <2>2. CASE Raise(p)
    BY <2>2, <1>4, <1>1
  <2>3. CASE Goto(p, "receipt") \/ UNCHANGED ctx
    <3>1. tx'[p] = tx[p] /\ pc'[p] \in {"receipt", "finalize"}
      BY <1>15, <2>3, <1>2 DEF MarkCommitted, At, ctx
    <3> QED BY <2>1, <3>1 DEF Established, Durable, Found
  <2> QED BY <1>15, <2>2, <2>3 DEF MarkCommitted
<1>16. CASE PutReceipt(p)
  <2>1. Durable(tx[p]) /\ local' = local /\ remote' = remote
    BY <1>16 DEF PutReceipt, At, DurableInv, Established, git, net
  <2>2. CASE Raise(p)
    BY <2>2, <1>4, <1>1
  <2>3. CASE Goto(p, "archive") /\ receipts' = [receipts EXCEPT ![RequestOf[tx[p]]] = tx[p]]
    <3>1. tx'[p] = tx[p] /\ pc'[p] = "archive"
      BY <2>3, <1>2
    <3>2. RequestOf[tx[p]] \in Requests
      BY <1>6, <1>16, CommandsAssumption DEF PutReceipt, At, Publishing
    <3>3. receipts'[RequestOf[tx[p]]] = tx[p]
      BY <2>3, <3>2 DEF DataOK
    <3> QED BY <2>1, <3>1, <3>3 DEF Established, Durable, Found
  <2> QED BY <1>16, <2>2, <2>3 DEF PutReceipt
<1>17. CASE ArchiveCommitted(p)
  <2>1. pc'[p] \notin Publishing
    BY <1>17, <1>3, <1>5 DEF ArchiveCommitted, Publishing
  <2> QED BY <2>1, <1>1
<1> QED BY <1>8, <1>9, <1>10, <1>11, <1>12, <1>13, <1>14, <1>15, <1>16, <1>17
        DEF Step, PublishStep

\* Only a commit that reached its history gets a receipt, and only what has a
\* receipt is acknowledged.
LEMMA DurableStep ==
  ASSUME TypeOK, DurableInv, [Next]_vars
  PROVE  DurableInv'
<1> USE DEF TypeOK
<1>1. ReceiptIsDurable'
  <2>1. ASSUME NEW r \in Requests, receipts[r] # None PROVE Durable(receipts[r])'
    <3>1. receipts[r] \in Commands /\ receipts'[r] = receipts[r]
      BY <2>1, ReceiptsKept DEF DataOK
    <3>2. Durable(receipts[r])
      BY <2>1 DEF DurableInv, ReceiptIsDurable
    <3> QED BY <3>1, <3>2, HistoryGrows DEF Durable, Found, Extends
  <2>2. CASE receipts' = receipts
    BY <2>1, <2>2 DEF ReceiptIsDurable
  <2>3. ASSUME NEW p \in Procs, PutReceipt(p) PROVE ReceiptIsDurable'
    <3>1. Durable(tx[p]) /\ local' = local /\ remote' = remote
      BY <2>3 DEF PutReceipt, At, DurableInv, Established, git, net
    <3>2. \A r \in Requests : receipts'[r] = receipts[r] \/ receipts'[r] = tx[p]
      BY <2>3 DEF PutReceipt, DataOK
    <3> QED BY <2>1, <3>1, <3>2 DEF ReceiptIsDurable, Durable, Found
  <2> QED BY <2>2, <2>3, ReceiptsKept
<1>2. \A c \in acked' : receipts'[RequestOf[c]] = c
  <2>1. ASSUME NEW c \in Commands, receipts[RequestOf[c]] = c
        PROVE  receipts'[RequestOf[c]] = c
    BY <2>1, ReceiptsKept, CommandsAssumption, DistinctAssumption
  <2>2. \A c \in acked : receipts'[RequestOf[c]] = c
    BY <2>1 DEF DataOK, DurableInv
  <2>3. ASSUME NEW p \in Procs, Lookup(p) PROVE \A c \in acked' : receipts'[RequestOf[c]] = c
    BY <2>2, <2>3 DEF Lookup
  <2>4. ASSUME NEW p \in Procs, ArchiveCommitted(p)
        PROVE  \A c \in acked' : receipts'[RequestOf[c]] = c
    <3>1. receipts[RequestOf[tx[p]]] = tx[p]
      BY <2>4 DEF ArchiveCommitted, At, DurableInv, Established
    <3>2. acked' \subseteq acked \union {tx[p]} /\ receipts' = receipts
      BY <2>4 DEF ArchiveCommitted
    <3> QED BY <2>2, <3>1, <3>2
  <2>5. \/ acked' = acked
        \/ \E p \in Procs : Lookup(p) \/ ArchiveCommitted(p)
    <3>1. ASSUME NEW p \in Procs, Step(p), ~Lookup(p), ~ArchiveCommitted(p)
          PROVE  acked' = acked
      <4>1. CASE RecoverStep(p) \/ RollbackStep(p)
        BY <4>1 DEF RecoverStep, RecoveryDone, RecoverSettled, RecoverCommitted,
             RecoverUncommitted, RecoveryRefused, Resync, RollbackStep, Abort, Clear,
             Restore, Restored, MarkRolledBack, ArchiveRolledBack
      <4>2. CASE ExecuteStep(p)
        BY <3>1, <4>2 DEF ExecuteStep, Guard, Serve, Preflight, Prepare, Validate,
             Apply, MarkApplied, Stage, Commit, Readback
      <4>3. CASE PublishStep(p)
        BY <3>1, <4>3 DEF PublishStep, Push, PushReturns, VerifyPush, MarkCommitted,
             PutReceipt
      <4> QED BY <3>1, <4>1, <4>2, <4>3 DEF Step
    <3>2. ASSUME NEW p \in Procs,
                 \/ Submit(p) \/ Restart(p) \/ Acquire(p) \/ LockTimeout(p)
                 \/ PushTimeout(p) \/ Fault(p) \/ Crash(p)
          PROVE  acked' = acked
      BY <3>2 DEF Submit, Restart, Acquire, LockTimeout, PushTimeout, Fault, Crash
    <3>3. CASE Environment \/ UNCHANGED vars
      BY <3>3 DEF Environment, Land, Reject, Lose, ExternalPush, AlienEdit, vars
    <3> QED BY <3>1, <3>2, <3>3 DEF Next, Proc
  <2> QED BY <2>2, <2>3, <2>4, <2>5
<1>3. ASSUME NEW q \in Procs PROVE Established(q)'
  <2>1. ASSUME NEW p \in Procs, Step(p) \/ PushTimeout(p) \/ Fault(p) \/ Crash(p), p # q
        PROVE  Established(q)'
    BY <2>1, LockedStep, EstablishedKept DEF Locked, Moved
  <2>2. CASE Step(q)
    BY <2>2, EstablishedStep
  <2>3. CASE PushTimeout(q) \/ Fault(q) \/ Crash(q)
    BY <2>3 DEF PushTimeout, Fault, Crash, Raise, Goto, Release, ControlOK, Established
  <2>4. ASSUME NEW p \in Procs, Submit(p) \/ Restart(p) \/ Acquire(p) \/ LockTimeout(p)
        PROVE  Established(q)'
    <3>1. CASE p = q
      BY <2>4, <3>1 DEF Submit, Restart, Acquire, LockTimeout, ControlOK, Established
    <3>2. CASE p # q
      <4>1. pc'[q] = pc[q] /\ tx'[q] = tx[q]
        BY <2>4, <3>2 DEF Submit, Restart, Acquire, LockTimeout, ControlOK
      <4> QED BY <4>1, EstablishedKept
    <3> QED BY <3>1, <3>2
  <2>5. CASE Environment \/ UNCHANGED vars
    <3>1. pc'[q] = pc[q] /\ tx'[q] = tx[q]
      BY <2>5 DEF Environment, Land, Reject, Lose, ExternalPush, AlienEdit, ctx, vars
    <3> QED BY <3>1, EstablishedKept
  <2> QED BY <2>1, <2>2, <2>3, <2>4, <2>5 DEF Next, Proc
<1> QED BY <1>1, <1>2, <1>3 DEF DurableInv

\* The inductive invariant behind the two theorems below: receipts and answers name
\* durable commits, and so does every process past its push (coordinator.py, execute
\* and _recover_locked).
THEOREM DurableInvariant == Spec => []DurableInv
<1>1. TypeOK /\ DurableInv /\ [Next]_vars => DurableInv'
  BY DurableStep
<1> QED BY DurableInit, <1>1, TypeCorrect, PTL DEF Spec

\* A receipt exists only for a commit in the history that must hold it: the
\* local one, or the remote one when remote durability is configured.
THEOREM ReceiptsAreDurable == Spec => []ReceiptIsDurable
  BY DurableInvariant, PTL DEF DurableInv

\* What a client was told is committed stays committed and keeps its receipt,
\* through every later kill, exception, lost push or foreign push.
THEOREM AckedAreDurable == Spec => []AckedIsDurable
<1>1. TypeOK /\ DurableInv => AckedIsDurable
  BY CommandsAssumption, DistinctAssumption
     DEF TypeOK, DataOK, DurableInv, ReceiptIsDurable, AckedIsDurable
<1> QED BY <1>1, TypeCorrect, DurableInvariant, PTL

(***************************************************************************)
(* Rollback.                                                               *)
(***************************************************************************)

Undoing == {"resync", "clear", "restore", "mark_rolled_back", "archive_rolled_back"}

\* NoRollbackAfterCommit is not inductive: it also has to hold of a recovery
\* that is still synchronizing, before it undoes anything.
UndoInv == \A p \in Procs : pc[p] \in Undoing => ~Found(tx[p])

\* The process that moves: it starts to undo only what Git does not have, and
\* commits that others pushed, which it may adopt meanwhile, are no commands.
LEMMA UndoMove ==
  ASSUME TypeOK, UndoInv, NEW p \in Procs, Step(p)
  PROVE  pc'[p] \in Undoing => ~Found(tx[p])'
<1> USE DEF TypeOK
<1>1. ASSUME NEW l, Goto(p, l) PROVE pc'[p] = l /\ tx'[p] = tx[p]
  BY <1>1 DEF Goto, ControlOK
<1>2. ASSUME NEW c, NEW w, NEW qs, NEW l, TakeUp(p, c, w, qs, l)
      PROVE  pc'[p] = l /\ tx'[p] = c
  BY <1>2 DEF TakeUp, ControlOK
<1>3. ASSUME Raise(p) PROVE pc'[p] \notin Undoing
  BY <1>1, <1>3 DEF Raise, Release, ControlOK, Undoing
<1>4. ASSUME NEW l \in {"idle", "down"}, Release(p, l) PROVE pc'[p] \notin Undoing
  BY <1>4 DEF Release, ControlOK, Undoing
<1>5. CASE RecoverUncommitted(p) \/ Abort(p)
  <2>1. CASE RecoverUncommitted(p)
    BY <2>1, <1>2 DEF RecoverUncommitted, UndoAllowed, Found, git
  <2>2. CASE Abort(p)
    BY <2>2, <1>2, <1>4 DEF Abort, Found, git
  <2> QED BY <1>5, <2>1, <2>2
<1>6. CASE Resync(p)
  <2>1. tx[p] \in Commands /\ ~Found(tx[p])
    BY <1>6, InPhase DEF Resync, At, UndoInv, Undoing, TxPhases, Phases, Outside
  <2>2. CASE local' = local
    BY <2>1, <2>2, <1>6, <1>1, <1>4 DEF Resync, Found
  <2>3. CASE NeutralAhead /\ local' = remote
    <3>1. \A i \in DOMAIN remote : remote[i] = Neutral \/ (i \in DOMAIN local /\ remote[i] = local[i])
      BY <2>3 DEF NeutralAhead, IsPrefix, DataOK
    <3>2. ~(\E i \in DOMAIN remote : remote[i] = tx[p])
      BY <2>1, <3>1, DistinctAssumption DEF Found
    <3> QED BY <1>6, <2>3, <3>2, <1>1, <1>4 DEF Resync, Found
  <2> QED BY <1>6, <2>2, <2>3 DEF Resync
<1>7. CASE RollbackStep(p) /\ ~Abort(p)
  <2>1. CASE Restore(p)
    BY <2>1 DEF Restore, At, UndoInv, Undoing, Found, git
  <2>2. CASE Clear(p) \/ Restored(p) \/ MarkRolledBack(p)
    BY <2>2, <1>1, <1>4 DEF Clear, Restored, MarkRolledBack, At, UndoInv, Undoing, Found, git
  <2>3. CASE ArchiveRolledBack(p)
    BY <2>3, <1>2, <1>4 DEF ArchiveRolledBack, Undoing
  <2> QED BY <1>7, <2>1, <2>2, <2>3 DEF RollbackStep
<1>8. CASE RecoveryDone(p) \/ RecoverSettled(p) \/ RecoverCommitted(p) \/ RecoveryRefused(p)
  BY <1>8, <1>1, <1>2, <1>4
     DEF RecoveryDone, RecoverSettled, RecoverCommitted, RecoveryRefused, At, ctx, Undoing
<1>9. CASE ExecuteStep(p)
  <2>1. CASE Apply(p)
    BY <2>1 DEF Apply, Undoing, ControlOK
  <2>2. CASE Guard(p) \/ Serve(p) \/ Preflight(p) \/ Lookup(p) \/ Prepare(p)
    BY <2>2, <1>1, <1>2, <1>4 DEF Guard, Serve, Preflight, Lookup, Prepare, Undoing
  <2>3. CASE Validate(p) \/ MarkApplied(p) \/ Stage(p) \/ Commit(p) \/ Readback(p)
    BY <2>3, <1>1, <1>3 DEF Validate, MarkApplied, Stage, Commit, Readback, Undoing
  <2> QED BY <1>9, <2>1, <2>2, <2>3 DEF ExecuteStep
<1>10. CASE PublishStep(p)
  <2>1. CASE MarkCommitted(p)
    BY <2>1, <1>1, <1>3 DEF MarkCommitted, At, ctx, Undoing
  <2>2. CASE Push(p) \/ PushReturns(p) \/ VerifyPush(p) \/ PutReceipt(p) \/ ArchiveCommitted(p)
    BY <2>2, <1>1, <1>2, <1>3, <1>4
       DEF Push, PushReturns, VerifyPush, PutReceipt, ArchiveCommitted, Undoing
  <2> QED BY <1>10, <2>1, <2>2 DEF PublishStep
<1> QED BY <1>5, <1>6, <1>7, <1>8, <1>9, <1>10 DEF Step, RecoverStep, RollbackStep

LEMMA UndoStep ==
  ASSUME TypeOK, MutualExclusion, UndoInv, [Next]_vars
  PROVE  UndoInv'
<1> SUFFICES ASSUME NEW q \in Procs, pc'[q] \in Undoing PROVE ~Found(tx[q])'
  BY DEF UndoInv
<1> USE DEF TypeOK
<1>1. pc[q] \in Undoing /\ pc'[q] = pc[q] /\ tx'[q] = tx[q] /\ local' = local
         => ~Found(tx[q])'
  BY DEF UndoInv, Found
<1>2. CASE Step(q)
  BY <1>2, UndoMove
<1>3. ASSUME NEW p \in Procs, p # q, Step(p) PROVE ~Found(tx[q])'
  <2>1. pc[p] \notin Outside /\ pc'[q] = pc[q]
    BY <1>3, LockedStep DEF Locked, Moved
  <2>2. pc[q] \notin Outside
    BY <2>1 DEF Undoing, Outside
  <2> QED BY <1>3, <2>1, <2>2 DEF MutualExclusion
<1>4. ASSUME NEW p \in Procs,
             \/ Submit(p) \/ Restart(p) \/ Acquire(p) \/ LockTimeout(p)
             \/ PushTimeout(p) \/ Fault(p) \/ Crash(p)
      PROVE  ~Found(tx[q])'
  <2>1. local' = local
    BY <1>4 DEF Submit, Restart, Acquire, LockTimeout, PushTimeout, Fault, Crash, git
  <2>2. pc'[q] = pc[q] /\ tx'[q] = tx[q]
    BY <1>4 DEF Submit, Restart, Acquire, LockTimeout, PushTimeout, Fault, Crash, Raise,
                Goto, Release, ControlOK, Undoing
  <2> QED BY <1>1, <2>1, <2>2
<1>5. CASE Environment \/ UNCHANGED vars
  BY <1>1, <1>5 DEF Environment, Land, Reject, Lose, ExternalPush, AlienEdit, git, ctx, vars
<1> QED BY <1>2, <1>3, <1>4, <1>5 DEF Next, Proc

LEMMA UndoInvariant == Spec => []UndoInv
<1>1. Init => UndoInv
  BY DEF Init, UndoInv, Undoing
<1>2. TypeOK /\ MutualExclusion /\ UndoInv /\ [Next]_vars => UndoInv'
  BY UndoStep
<1> QED BY <1>1, <1>2, TypeCorrect, Exclusion, PTL DEF Spec

\* "Once a matching Git trailer exists, rollback is forbidden": no schedule of
\* processes, kills and exceptions makes any of them undo a committed command.
THEOREM NoRollback == Spec => []NoRollbackAfterCommit
<1>1. UndoInv => NoRollbackAfterCommit
  BY DEF UndoInv, NoRollbackAfterCommit, Undoing
<1> QED BY <1>1, UndoInvariant, PTL

-----------------------------------------------------------------------------
(***************************************************************************)
(* Where the process that moves ends up.                                   *)
(***************************************************************************)

LEMMA GotoMoves ==
  ASSUME ControlOK, NEW p \in Procs, NEW l, Goto(p, l)
  PROVE  /\ pc'[p] = l /\ op'[p] = op[p] /\ tx'[p] = tx[p]
         /\ why'[p] = why[p] /\ todo'[p] = todo[p]
  BY DEF ControlOK, Goto

LEMMA TakeUpMoves ==
  ASSUME ControlOK, NEW p \in Procs, NEW c, NEW w, NEW qs, NEW l, TakeUp(p, c, w, qs, l)
  PROVE  pc'[p] = l /\ tx'[p] = c /\ why'[p] = w /\ todo'[p] = qs
  BY DEF ControlOK, TakeUp

LEMMA ReleaseMoves ==
  ASSUME ControlOK, NEW p \in Procs, NEW l, Release(p, l)
  PROVE  pc'[p] = l /\ why'[p] = "none"
  BY DEF ControlOK, Release

LEMMA RaiseMoves ==
  ASSUME ControlOK, NEW p \in Procs, Raise(p)
  PROVE  \/ pc'[p] = "abort" /\ why[p] = "exec" /\ why'[p] = why[p] /\ tx'[p] = tx[p]
         \/ pc'[p] = "idle" /\ why'[p] = "none"
  BY GotoMoves, ReleaseMoves DEF Raise

\* While one process works in the locked region, all others are outside of it.
LEMMA Alone ==
  ASSUME TypeOK, MutualExclusion, NEW p \in Procs,
         Step(p) \/ PushTimeout(p) \/ Fault(p) \/ Crash(p),
         NEW q \in Procs, q # p
  PROVE  pc'[q] \in Outside /\ why'[q] = why[q]
  BY LockedStep DEF Locked, Moved, MutualExclusion

\* What recovery and the preflight adopt from the remote holds no command.
LEMMA FoundKept ==
  ASSUME TypeOK, local' = local \/ (NeutralAhead /\ local' = remote), NEW c \in Commands
  PROVE  Found(c)' <=> Found(c)
<1> USE DEF TypeOK, DataOK
<1>1. CASE local' = local
  BY <1>1 DEF Found
<1>2. CASE NeutralAhead /\ local' = remote
  <2>1. \A i \in DOMAIN remote :
           remote[i] = Neutral \/ (i \in DOMAIN local /\ remote[i] = local[i])
    BY <1>2 DEF NeutralAhead, IsPrefix
  <2>2. \A i \in DOMAIN local : i \in DOMAIN remote /\ remote[i] = local[i]
    BY <1>2, PrefixExtends DEF NeutralAhead, Extends
  <2> QED BY <1>2, <2>1, <2>2, DistinctAssumption DEF Found
<1> QED BY <1>1, <1>2

\* A commit adds its transaction to the history and nothing else.
LEMMA FoundCommit ==
  ASSUME TypeOK, NEW p \in Procs, Commit(p), NEW c \in Commands
  PROVE  Found(c)' <=> Found(c) \/ c = tx[p]
<1> USE DEF TypeOK, DataOK
<1>1. tx[p] \in Commits /\ local' = Append(local, tx[p])
  BY InPhase DEF Commit, At, TxPhases, Phases, Outside, Commits
<1>2. Len(local') = Len(local) + 1 /\ local'[Len(local) + 1] = tx[p]
      /\ \A i \in 1 .. Len(local) : local'[i] = local[i]
  BY <1>1
<1>3. DOMAIN local = 1 .. Len(local) /\ DOMAIN local' = 1 .. Len(local')
      /\ Len(local) \in Nat
  BY <1>1
<1>4. Found(c) => Found(c)'
  BY <1>2, <1>3 DEF Found
<1>5. c = tx[p] => Found(c)'
  <2>1. Len(local) + 1 \in DOMAIN local'
    BY <1>2, <1>3
  <2> QED BY <2>1, <1>2 DEF Found
<1>6. Found(c)' => Found(c) \/ c = tx[p]
  <2>1. \A i \in DOMAIN local' : i = Len(local) + 1 \/ i \in DOMAIN local
    BY <1>2, <1>3
  <2> QED BY <2>1, <1>2, <1>3 DEF Found
<1> QED BY <1>4, <1>5, <1>6

(***************************************************************************)
(* The write-ahead log.                                                    *)
(***************************************************************************)

\* Phases an operation reaches only with an empty wal/pending.
Cleared == {"guard", "preflight", "lookup", "prepare", "serving"}

\* Phases of execute between the WAL record and the commit.
Building == {"validate", "apply", "mark_applied", "stage", "commit"}

OneRecord == \A c, d \in Commands : pending[c] # "none" /\ pending[d] # "none" => c = d

\* What the record of c, wherever it is, says of Git and of the receipts.
RecordTrue(c) ==
    /\ terminal[c] = "committed" =>
          Found(c) /\ receipts[RequestOf[c]] = c /\ pending[c] = "none"
    /\ Found(c) => terminal[c] = "committed" \/ pending[c] # "none"
    /\ pending[c] = "rolled_back" => ~Found(c)
    /\ pending[c] = "committed" => Found(c)

ReceiptsFound == \A r \in Requests : receipts[r] # None => Found(receipts[r])

\* What each phase knows of the records.
WalAt(p) ==
    /\ pc[p] \notin TxPhases => why[p] = "none"
    /\ pc[p] \in Cleared => NothingPending
    /\ pc[p] = "prepare" => receipts[RequestOf[op[p]]] = None
    /\ pc[p] \in TxPhases => pending[tx[p]] # "none"
    /\ pc[p] \in Building => /\ pending[tx[p]] \in {"prepared", "applied"}
                             /\ ~Found(tx[p])
                             /\ receipts[RequestOf[tx[p]]] = None
    /\ pc[p] \in Publishing => Found(tx[p])
    /\ pc[p] \in {"resync", "clear", "restore", "mark_rolled_back"} =>
          pending[tx[p]] \in {"prepared", "applied"}
    /\ pc[p] = "archive_rolled_back" => pending[tx[p]] = "rolled_back"
    /\ pc[p] \in {"receipt", "archive"} => pending[tx[p]] = "committed"

WalData == OneRecord /\ (\A c \in Commands : RecordTrue(c)) /\ ReceiptsFound

\* ArchivedIsTrue is not inductive: it has to say what the pending record says,
\* and what the process that works on the record relies on.
WalInv == WalData /\ \A p \in Procs : WalAt(p)

LEMMA WalInit == Init => WalInv
  BY DistinctAssumption
     DEF Init, WalInv, WalData, OneRecord, RecordTrue, ReceiptsFound, WalAt, Found,
         Cleared, Building, Publishing, TxPhases, Phases, Outside

\* A step that leaves the log, the receipts and what Git has of commands alone
\* keeps WalData.
LEMMA WalDataKept ==
  ASSUME WalData, pending' = pending, terminal' = terminal, receipts' = receipts,
         TypeOK, \A c \in Commands : Found(c)' <=> Found(c)
  PROVE  WalData'
  BY DEF WalData, OneRecord, RecordTrue, ReceiptsFound, TypeOK, DataOK

\* What a phase is entered with, when log, receipts and commits stand still.
LEMMA WalRaise ==
  ASSUME TypeOK, WalInv, NEW p \in Procs, Raise(p), pending' = pending
  PROVE  WalAt(p)'
<1>1. why[p] = "exec" => tx[p] \in Commands /\ pending[tx[p]] # "none"
  BY DEF WalInv, WalAt, TypeOK, ControlOK, InHand
<1> QED BY <1>1, RaiseMoves
        DEF TypeOK, WalAt, Cleared, Building, Publishing, TxPhases, Phases, Outside

LEMMA WalRelease ==
  ASSUME TypeOK, NEW p \in Procs, NEW l \in {"idle", "down"}, Release(p, l)
  PROVE  WalAt(p)'
  BY ReleaseMoves DEF TypeOK, WalAt, Cleared, Building, Publishing, TxPhases, Outside

LEMMA WalRecoverStep ==
  ASSUME TypeOK, WalInv, UndoInv, NEW p \in Procs, RecoverStep(p)
  PROVE  WalData' /\ WalAt(p)'
<1> USE DEF TypeOK, WalInv
<1>1. \A c \in Commands : Found(c)' <=> Found(c)
  BY FoundKept DEF RecoverStep, RecoveryDone, RecoverSettled, RecoverCommitted,
                   RecoverUncommitted, RecoveryRefused, Resync, git
<1>2. CASE RecoverSettled(p)
  <2>1. PICK c \in Commands : /\ Settled(c)
                              /\ terminal' = [terminal EXCEPT ![c] = pending[c]]
                              /\ pending' = [pending EXCEPT ![c] = "none"]
    BY <1>2 DEF RecoverSettled
  <2>2. receipts' = receipts /\ pc' = pc /\ why' = why
    BY <1>2 DEF RecoverSettled, ctx
  <2>3. OneRecord'
    BY <2>1 DEF OneRecord, WalData, DataOK
  <2>4. RecordTrue(c)'
    BY <1>1, <2>1, <2>2 DEF RecordTrue, WalData, Settled, DataOK
  <2>5. \A d \in Commands : d # c => RecordTrue(d)'
    BY <1>1, <2>1, <2>2 DEF RecordTrue, WalData, DataOK
  <2>6. ReceiptsFound'
    BY <1>1, <2>2 DEF ReceiptsFound, WalData, DataOK
  <2>7. WalAt(p)'
    BY <1>2, <2>2 DEF RecoverSettled, At, WalAt, Cleared, Building, Publishing,
                      TxPhases, Phases, Outside
  <2> QED BY <2>3, <2>4, <2>5, <2>6, <2>7 DEF WalData
<1>3. CASE RecoveryDone(p) \/ RecoverCommitted(p) \/ RecoverUncommitted(p)
           \/ RecoveryRefused(p) \/ Resync(p)
  <2>1. pending' = pending /\ terminal' = terminal /\ receipts' = receipts
    BY <1>3 DEF RecoveryDone, RecoverCommitted, RecoverUncommitted, RecoveryRefused,
                Resync, wal
  <2>2. WalData'
    BY <1>1, <2>1, WalDataKept
  <2>3. CASE Release(p, "idle")
    BY <2>2, <2>3, WalRelease
  <2>4. CASE RecoveryDone(p)
    <3>1. pc'[p] = "guard" /\ why'[p] = why[p] /\ NothingPending /\ why[p] = "none"
      BY <2>4, GotoMoves DEF RecoveryDone, At, WalAt, TxPhases, Phases, Outside
    <3>2. NothingPending'
      BY <2>1, <3>1 DEF NothingPending
    <3>3. WalAt(p)'
      BY <3>1, <3>2 DEF WalAt, Cleared, Building, Publishing, TxPhases, Phases, Outside
    <3> QED BY <2>2, <3>3
  <2>5. CASE RecoverCommitted(p)
    <3>1. PICK c \in Commands :
             /\ Unsettled(c) /\ FinishAllowed(c)
             /\ TakeUp(p, c, "recover", {}, IF RemoteRequired THEN "push" ELSE "finalize")
      BY <2>5 DEF RecoverCommitted
    <3>2. tx'[p] = c /\ pc'[p] \in {"push", "finalize"}
      BY <3>1, TakeUpMoves
    <3>3. pending'[c] # "none" /\ Found(c)'
      BY <1>1, <2>1, <3>1 DEF Unsettled, FinishAllowed
    <3>4. WalAt(p)'
      BY <3>2, <3>3 DEF WalAt, Cleared, Building, Publishing, TxPhases, Phases, Outside
    <3> QED BY <2>2, <3>4
  <2>6. CASE RecoverUncommitted(p)
    <3>1. PICK c \in Commands :
             /\ Unsettled(c) /\ UndoAllowed(c)
             /\ TakeUp(p, c, "recover", PathsOf(c),
                       IF RemoteRequired THEN "resync" ELSE "clear")
      BY <2>6 DEF RecoverUncommitted
    <3>2. tx'[p] = c /\ pc'[p] \in {"resync", "clear"}
      BY <3>1, TakeUpMoves
    <3>3. pending'[c] \in {"prepared", "applied"}
      BY <2>1, <3>1 DEF Unsettled, UndoAllowed, Settled, DataOK
    <3>4. WalAt(p)'
      BY <3>2, <3>3 DEF WalAt, Cleared, Building, Publishing, TxPhases, Phases, Outside
    <3> QED BY <2>2, <3>4
  <2>7. CASE Resync(p) /\ Goto(p, "clear")
    <3>1. pc'[p] = "clear" /\ tx'[p] = tx[p]
      BY <2>7, GotoMoves
    <3>2. pending[tx[p]] \in {"prepared", "applied"}
      BY <2>7 DEF Resync, At, WalAt
    <3>3. WalAt(p)'
      BY <2>1, <3>1, <3>2 DEF WalAt, Cleared, Building, Publishing, TxPhases, Phases, Outside
    <3> QED BY <2>2, <3>3
  <2> QED BY <1>3, <2>3, <2>4, <2>5, <2>6, <2>7 DEF RecoveryRefused, Resync
<1> QED BY <1>2, <1>3 DEF RecoverStep

LEMMA WalRollbackStep ==
  ASSUME TypeOK, WalInv, UndoInv, NEW p \in Procs, RollbackStep(p)
  PROVE  WalData' /\ WalAt(p)'
<1> USE DEF TypeOK, WalInv
<1>1. \A c \in Commands : Found(c)' <=> Found(c)
  BY FoundKept DEF RollbackStep, Abort, Clear, Restore, Restored, MarkRolledBack,
                   ArchiveRolledBack, git
<1>2. tx[p] \in Commands /\ pending[tx[p]] # "none"
  BY InPhase DEF RollbackStep, Abort, Clear, Restore, Restored, MarkRolledBack,
                 ArchiveRolledBack, At, WalAt, TxPhases, Phases, Outside
<1>3. CASE Abort(p) \/ Clear(p) \/ Restore(p) \/ Restored(p)
  <2>1. pending' = pending /\ terminal' = terminal /\ receipts' = receipts
    BY <1>3 DEF Abort, Clear, Restore, Restored, wal
  <2>2. WalData'
    BY <1>1, <2>1, WalDataKept
  <2>3. CASE Release(p, "idle")
    BY <2>2, <2>3, WalRelease
  <2>4. CASE Restore(p) \/ Goto(p, "restore") \/ Goto(p, "mark_rolled_back")
             \/ TakeUp(p, tx[p], "abort", PathsOf(tx[p]), "clear")
    <3>1. tx'[p] = tx[p] /\ pc'[p] \in {"clear", "restore", "mark_rolled_back"}
      BY <2>4, GotoMoves, TakeUpMoves DEF Restore, At
    <3>2. CASE ~Abort(p)
      BY <1>3, <2>1, <2>2, <3>1, <3>2
         DEF Clear, Restore, Restored, At, WalAt, Cleared, Building, Publishing, TxPhases,
             Phases, Outside
    <3>3. CASE Abort(p) /\ pending[tx[p]] \in {"prepared", "applied"}
      BY <2>1, <2>2, <3>1, <3>3
         DEF WalAt, Cleared, Building, Publishing, TxPhases, Phases, Outside
    <3>4. CASE Abort(p) /\ Release(p, "idle")
      BY <2>2, <3>4, WalRelease
    <3> QED BY <3>2, <3>3, <3>4 DEF Abort
  <2> QED BY <1>3, <2>3, <2>4 DEF Abort, Clear, Restored
<1>4. CASE MarkRolledBack(p)
  <2>1. /\ pending' = [pending EXCEPT ![tx[p]] = "rolled_back"]
        /\ terminal' = terminal /\ receipts' = receipts
        /\ pc'[p] = "archive_rolled_back" /\ tx'[p] = tx[p]
    BY <1>4, GotoMoves DEF MarkRolledBack
  <2>2. ~Found(tx[p])
    BY <1>4 DEF MarkRolledBack, At, UndoInv, Undoing
  <2>3. OneRecord' /\ ReceiptsFound'
    BY <1>1, <1>2, <2>1 DEF OneRecord, ReceiptsFound, WalData, DataOK
  <2>4. \A c \in Commands : RecordTrue(c)'
    BY <1>1, <1>2, <2>1, <2>2 DEF RecordTrue, WalData, DataOK
  <2>5. WalAt(p)'
    BY <1>2, <2>1 DEF WalAt, Cleared, Building, Publishing, TxPhases, Phases, Outside, DataOK
  <2> QED BY <2>3, <2>4, <2>5 DEF WalData
<1>5. CASE ArchiveRolledBack(p)
  <2>1. /\ pending' = [pending EXCEPT ![tx[p]] = "none"]
        /\ terminal' = [terminal EXCEPT ![tx[p]] = "rolled_back"]
        /\ receipts' = receipts
    BY <1>5 DEF ArchiveRolledBack
  <2>2. ~Found(tx[p])
    BY <1>5 DEF ArchiveRolledBack, At, UndoInv, Undoing
  <2>3. OneRecord' /\ ReceiptsFound'
    BY <1>1, <1>2, <2>1 DEF OneRecord, ReceiptsFound, WalData, DataOK
  <2>4. \A c \in Commands : RecordTrue(c)'
    BY <1>1, <1>2, <2>1, <2>2 DEF RecordTrue, WalData, DataOK
  <2>5. CASE TakeUp(p, None, "none", {}, "recovering")
    BY <2>3, <2>4, <2>5, TakeUpMoves
       DEF WalData, WalAt, Cleared, Building, Publishing, TxPhases, Phases, Outside
  <2>6. CASE Release(p, "idle")
    BY <2>3, <2>4, <2>6, WalRelease DEF WalData
  <2> QED BY <1>5, <2>5, <2>6 DEF ArchiveRolledBack
<1> QED BY <1>3, <1>4, <1>5 DEF RollbackStep

LEMMA WalExecuteStep ==
  ASSUME TypeOK, WalInv, NEW p \in Procs, ExecuteStep(p)
  PROVE  WalData' /\ WalAt(p)'
<1> USE DEF TypeOK, WalInv
<1>1. CASE Guard(p) \/ Serve(p) \/ Preflight(p) \/ Lookup(p)
  <2>1. /\ pending' = pending /\ terminal' = terminal /\ receipts' = receipts
        /\ local' = local \/ (NeutralAhead /\ local' = remote)
    BY <1>1 DEF Guard, Serve, Preflight, Lookup, wal, git
  <2>2. WalData'
    BY <2>1, WalDataKept, FoundKept
  <2>3. CASE Release(p, "idle")
    BY <2>2, <2>3, WalRelease
  <2>4. NothingPending' /\ why[p] = "none"
    BY <1>1, <2>1 DEF Guard, Serve, Preflight, Lookup, At, WalAt, Cleared, NothingPending,
                      TxPhases, Phases, Outside
  <2>5. ASSUME NEW l \in Cleared, Goto(p, l),
               l = "prepare" => receipts[RequestOf[op[p]]] = None
        PROVE  WalAt(p)'
    BY <2>1, <2>4, <2>5, GotoMoves
       DEF WalAt, Cleared, Building, Publishing, TxPhases, Phases, Outside
  <2>6. CASE Lookup(p) /\ receipts[RequestOf[op[p]]] = None /\ Goto(p, "prepare")
    BY <2>2, <2>5, <2>6 DEF Cleared
  <2>7. CASE \E l \in {"serving", "preflight", "lookup"} : Goto(p, l)
    BY <2>2, <2>5, <2>7 DEF Cleared
  <2> QED BY <1>1, <2>3, <2>6, <2>7 DEF Guard, Serve, Preflight, Lookup
<1>2. CASE Prepare(p)
  <2>1. op[p] \in Commands /\ NothingPending /\ receipts[RequestOf[op[p]]] = None
    BY <1>2 DEF Prepare, At, ControlOK, InHand, WalAt, Cleared
  <2>2. terminal' = terminal /\ receipts' = receipts /\ local' = local
    BY <1>2 DEF Prepare, git
  <2>3. \A c \in Commands : Found(c)' <=> Found(c)
    BY <2>2, FoundKept
  <2>4. CASE Release(p, "idle") /\ pending' = pending
    BY <2>2, <2>3, <2>4, WalDataKept, WalRelease
  <2>5. CASE /\ Preparable(op[p])
             /\ pending' = [pending EXCEPT ![op[p]] = "prepared"]
             /\ TakeUp(p, op[p], "exec", PathsOf(op[p]), "validate")
    <3>1. terminal[op[p]] # "committed"
      BY <2>1, <2>5 DEF Preparable, WalStatus, NothingPending
    <3>2. ~Found(op[p])
      BY <2>1, <3>1 DEF WalData, RecordTrue, NothingPending
    <3>3. OneRecord' /\ ReceiptsFound'
      BY <2>1, <2>2, <2>3, <2>5 DEF OneRecord, ReceiptsFound, NothingPending, WalData, DataOK
    <3>4. \A c \in Commands : RecordTrue(c)'
      BY <2>1, <2>2, <2>3, <2>5, <3>1 DEF RecordTrue, WalData, DataOK
    <3>5. tx'[p] = op[p] /\ pc'[p] = "validate"
      BY <2>5, TakeUpMoves
    <3>6. WalAt(p)'
      BY <2>1, <2>2, <2>3, <2>5, <3>2, <3>5
         DEF WalAt, Cleared, Building, Publishing, TxPhases, Phases, Outside, DataOK
    <3> QED BY <3>3, <3>4, <3>6 DEF WalData
  <2> QED BY <1>2, <2>4, <2>5 DEF Prepare
<1>3. CASE Validate(p) \/ Apply(p) \/ Stage(p) \/ Readback(p)
  <2>1. /\ pending' = pending /\ terminal' = terminal /\ receipts' = receipts
        /\ local' = local
    BY <1>3 DEF Validate, Apply, Stage, Readback, wal, git
  <2>2. WalData' /\ \A c \in Commands : Found(c)' <=> Found(c)
    BY <2>1, WalDataKept, FoundKept
  <2>3. CASE Raise(p)
    BY <2>1, <2>2, <2>3, WalRaise
  <2>4. tx[p] \in Commands
    BY <1>3, InPhase DEF Validate, Apply, Stage, Readback, At, TxPhases, Phases, Outside
  <2>5. CASE (Validate(p) \/ Apply(p) \/ Stage(p)) /\ tx'[p] = tx[p] /\ pc'[p] \in Building
    BY <1>3, <2>1, <2>2, <2>4, <2>5
       DEF Validate, Apply, Stage, At, WalAt, Cleared, Building, Publishing, TxPhases,
           Phases, Outside
  <2>6. CASE Readback(p) /\ tx'[p] = tx[p] /\ pc'[p] \in {"push", "finalize"}
    BY <2>1, <2>2, <2>4, <2>6
       DEF Readback, At, WalAt, Cleared, Building, Publishing, TxPhases, Phases, Outside
  <2>7. CASE Apply(p)
    BY <2>2, <2>5, <2>7 DEF Apply, Building, ControlOK
  <2>8. CASE Validate(p) \/ Stage(p)
    BY <2>3, <2>5, <2>8, GotoMoves DEF Validate, Stage, Building
  <2>9. CASE Readback(p)
    BY <2>3, <2>6, <2>9, GotoMoves DEF Readback
  <2> QED BY <1>3, <2>7, <2>8, <2>9
<1>4. CASE MarkApplied(p)
  <2>1. terminal' = terminal /\ receipts' = receipts /\ local' = local
    BY <1>4 DEF MarkApplied, git
  <2>2. \A c \in Commands : Found(c)' <=> Found(c)
    BY <2>1, FoundKept
  <2>3. CASE Raise(p) /\ pending' = pending
    BY <2>1, <2>2, <2>3, WalDataKept, WalRaise
  <2>4. CASE pending' = [pending EXCEPT ![tx[p]] = "applied"] /\ Goto(p, "stage")
    <3>1. /\ tx[p] \in Commands /\ pending[tx[p]] # "none" /\ ~Found(tx[p])
          /\ receipts[RequestOf[tx[p]]] = None
      BY <1>4, InPhase DEF MarkApplied, At, WalAt, Building, TxPhases, Phases, Outside
    <3>2. OneRecord' /\ ReceiptsFound'
      BY <2>1, <2>2, <2>4, <3>1 DEF OneRecord, ReceiptsFound, WalData, DataOK
    <3>3. \A c \in Commands : RecordTrue(c)'
      BY <2>1, <2>2, <2>4, <3>1 DEF RecordTrue, WalData, DataOK
    <3>4. tx'[p] = tx[p] /\ pc'[p] = "stage"
      BY <2>4, GotoMoves
    <3>5. WalAt(p)'
      BY <2>1, <2>2, <2>4, <3>1, <3>4
         DEF WalAt, Cleared, Building, Publishing, TxPhases, Phases, Outside, DataOK
    <3> QED BY <3>2, <3>3, <3>5 DEF WalData
  <2> QED BY <1>4, <2>3, <2>4 DEF MarkApplied
<1>5. CASE Commit(p)
  <2>1. pending' = pending /\ terminal' = terminal /\ receipts' = receipts
    BY <1>5 DEF Commit, wal
  <2>2. \A c \in Commands : Found(c)' <=> Found(c) \/ c = tx[p]
    BY <1>5, FoundCommit
  <2>3. tx[p] \in Commands /\ pending[tx[p]] \in {"prepared", "applied"}
    BY <1>5, InPhase DEF Commit, At, WalAt, Building, TxPhases, Phases, Outside
  <2>4. OneRecord' /\ ReceiptsFound'
    BY <2>1, <2>2 DEF OneRecord, ReceiptsFound, WalData, DataOK
  <2>5. \A c \in Commands : RecordTrue(c)'
    BY <2>1, <2>2, <2>3 DEF RecordTrue, WalData, DataOK
  <2>6. tx'[p] = tx[p] /\ pc'[p] = "readback"
    BY <1>5, GotoMoves DEF Commit
  <2>7. WalAt(p)'
    BY <2>1, <2>2, <2>3, <2>6 DEF WalAt, Cleared, Building, Publishing, TxPhases, Phases, Outside
  <2> QED BY <2>4, <2>5, <2>7 DEF WalData
<1> QED BY <1>1, <1>2, <1>3, <1>4, <1>5 DEF ExecuteStep

LEMMA WalPublishStep ==
  ASSUME TypeOK, WalInv, DurableInv, NEW p \in Procs, PublishStep(p)
  PROVE  WalData' /\ WalAt(p)'
<1> USE DEF TypeOK, WalInv
<1>1. \A c \in Commands : Found(c)' <=> Found(c)
  BY FoundKept DEF PublishStep, Push, PushReturns, VerifyPush, MarkCommitted, PutReceipt,
                   ArchiveCommitted, git
<1>2. tx[p] \in Commands /\ pending[tx[p]] # "none" /\ Found(tx[p]) /\ pc[p] \in Publishing
  BY InPhase DEF PublishStep, Push, PushReturns, VerifyPush, MarkCommitted, PutReceipt,
                 ArchiveCommitted, At, WalAt, Publishing, TxPhases, Phases, Outside
<1>3. CASE Push(p) \/ PushReturns(p) \/ VerifyPush(p)
  <2>1. pending' = pending /\ terminal' = terminal /\ receipts' = receipts
    BY <1>3 DEF Push, PushReturns, VerifyPush, wal
  <2>2. WalData'
    BY <1>1, <2>1, WalDataKept
  <2>3. CASE Raise(p)
    BY <2>1, <2>2, <2>3, WalRaise
  <2>4. CASE \E l \in {"finalize", "pushing", "verify_push"} : Goto(p, l)
    <3>1. tx'[p] = tx[p] /\ pc'[p] \in {"finalize", "pushing", "verify_push"}
      BY <2>4, GotoMoves
    <3> QED BY <1>1, <1>2, <2>1, <2>2, <3>1
            DEF WalAt, Cleared, Building, Publishing, TxPhases, Phases, Outside
  <2> QED BY <1>3, <2>3, <2>4 DEF Push, PushReturns, VerifyPush
<1>4. CASE MarkCommitted(p)
  <2>1. terminal' = terminal /\ receipts' = receipts
    BY <1>4 DEF MarkCommitted
  <2>2. CASE Raise(p) /\ pending' = pending
    BY <1>1, <2>1, <2>2, WalDataKept, WalRaise
  <2>3. CASE \E s \in {"applied", "committed"} :
                /\ pending' = [pending EXCEPT ![tx[p]] = s]
                /\ tx'[p] = tx[p]
                /\ pc'[p] = IF s = "applied" THEN "finalize" ELSE "receipt"
    <3>1. PICK s \in {"applied", "committed"} :
             /\ pending' = [pending EXCEPT ![tx[p]] = s]
             /\ pc'[p] = IF s = "applied" THEN "finalize" ELSE "receipt"
      BY <2>3
    <3>2. OneRecord' /\ ReceiptsFound'
      BY <1>1, <1>2, <2>1, <3>1 DEF OneRecord, ReceiptsFound, WalData, DataOK
    <3>3. \A c \in Commands : RecordTrue(c)'
      BY <1>1, <1>2, <2>1, <3>1 DEF RecordTrue, WalData, DataOK
    <3>4. WalAt(p)'
      BY <1>1, <1>2, <2>3, <3>1
         DEF WalAt, Cleared, Building, Publishing, TxPhases, Phases, Outside, DataOK
    <3> QED BY <3>2, <3>3, <3>4 DEF WalData
  <2> QED BY <1>4, <2>2, <2>3, GotoMoves DEF MarkCommitted, At, ctx
<1>5. CASE PutReceipt(p)
  <2>1. pending' = pending /\ terminal' = terminal
    BY <1>5 DEF PutReceipt, wal
  <2>2. CASE Raise(p) /\ receipts' = receipts
    BY <1>1, <2>1, <2>2, WalDataKept, WalRaise
  <2>3. CASE /\ receipts[RequestOf[tx[p]]] \in {None, tx[p]}
             /\ receipts' = [receipts EXCEPT ![RequestOf[tx[p]]] = tx[p]]
             /\ Goto(p, "archive")
    <3>1. RequestOf[tx[p]] \in Requests
      BY <1>2, CommandsAssumption
    <3>2. OneRecord' /\ ReceiptsFound'
      BY <1>1, <1>2, <2>1, <2>3, <3>1 DEF OneRecord, ReceiptsFound, WalData, DataOK
    <3>3. \A c \in Commands : RecordTrue(c)'
      <4> SUFFICES ASSUME NEW c \in Commands PROVE RecordTrue(c)'
        OBVIOUS
      <4>1. RequestOf[c] \in Requests /\ c # None
        BY CommandsAssumption, DistinctAssumption
      <4>2. receipts[RequestOf[c]] = c => receipts'[RequestOf[c]] = c
        BY <2>3, <3>1, <4>1 DEF DataOK
      <4> QED BY <1>1, <2>1, <4>2 DEF RecordTrue, WalData
    <3>4. tx'[p] = tx[p] /\ pc'[p] = "archive"
      BY <2>3, GotoMoves
    <3>5. pending[tx[p]] = "committed"
      BY <1>5 DEF PutReceipt, At, WalAt
    <3>6. WalAt(p)'
      BY <1>1, <1>2, <2>1, <3>4, <3>5
         DEF WalAt, Cleared, Building, Publishing, TxPhases, Phases, Outside
    <3> QED BY <3>2, <3>3, <3>6 DEF WalData
  <2> QED BY <1>5, <2>2, <2>3 DEF PutReceipt
<1>6. CASE ArchiveCommitted(p)
  <2>1. /\ pending' = [pending EXCEPT ![tx[p]] = "none"]
        /\ terminal' = [terminal EXCEPT ![tx[p]] = "committed"]
        /\ receipts' = receipts
    BY <1>6 DEF ArchiveCommitted
  <2>2. receipts[RequestOf[tx[p]]] = tx[p]
    BY <1>6 DEF ArchiveCommitted, At, DurableInv, Established
  <2>3. OneRecord' /\ ReceiptsFound'
    BY <1>1, <1>2, <2>1 DEF OneRecord, ReceiptsFound, WalData, DataOK
  <2>4. \A c \in Commands : RecordTrue(c)'
    BY <1>1, <1>2, <2>1, <2>2 DEF RecordTrue, WalData, DataOK
  <2>5. CASE TakeUp(p, None, "none", {}, "recovering")
    BY <2>3, <2>4, <2>5, TakeUpMoves
       DEF WalData, WalAt, Cleared, Building, Publishing, TxPhases, Phases, Outside
  <2>6. CASE Release(p, "idle")
    BY <2>3, <2>4, <2>6, WalRelease DEF WalData
  <2> QED BY <1>6, <2>5, <2>6 DEF ArchiveCommitted
<1> QED BY <1>3, <1>4, <1>5, <1>6 DEF PublishStep

LEMMA WalStep ==
  ASSUME TypeOK, MutualExclusion, DurableInv, UndoInv, WalInv, [Next]_vars
  PROVE  WalInv'
<1> USE DEF TypeOK
<1>1. ASSUME NEW p \in Procs, Step(p) \/ PushTimeout(p) \/ Fault(p) \/ Crash(p)
      PROVE  \A q \in Procs \ {p} : WalAt(q)'
  <2> SUFFICES ASSUME NEW q \in Procs, q # p PROVE WalAt(q)'
    OBVIOUS
  <2>1. pc'[q] \in Outside /\ why'[q] = why[q] /\ pc'[q] = pc[q]
    BY <1>1, Alone, LockedStep DEF Locked, Moved
  <2>2. why[q] = "none"
    BY <2>1 DEF WalInv, WalAt, TxPhases
  <2> QED BY <2>1, <2>2 DEF WalAt, Outside, Cleared, Building, Publishing, TxPhases
<1>2. ASSUME NEW p \in Procs, Step(p) PROVE WalInv'
  <2>1. WalData' /\ WalAt(p)'
    BY <1>2, WalRecoverStep, WalRollbackStep, WalExecuteStep, WalPublishStep DEF Step
  <2> QED BY <1>1, <1>2, <2>1 DEF WalInv
<1>3. ASSUME NEW p \in Procs, PushTimeout(p) \/ Fault(p) \/ Crash(p) PROVE WalInv'
  <2>1. /\ pending' = pending /\ terminal' = terminal /\ receipts' = receipts
        /\ local' = local
    BY <1>3 DEF PushTimeout, Fault, Crash, wal, git
  <2>2. WalData'
    BY <2>1, WalDataKept, FoundKept DEF WalInv
  <2>3. WalAt(p)'
    BY <1>3, <2>1, WalRaise, WalRelease DEF PushTimeout, Fault, Crash
  <2> QED BY <1>1, <1>3, <2>2, <2>3 DEF WalInv
<1>4. ASSUME UNCHANGED <<wal, receipts, local>> PROVE WalData'
  BY <1>4, WalDataKept, FoundKept DEF WalInv, wal
<1>5. ASSUME NEW p \in Procs, Submit(p) \/ Restart(p) \/ Acquire(p) \/ LockTimeout(p)
      PROVE  WalInv'
  <2>1. WalData'
    BY <1>4, <1>5 DEF Submit, Restart, Acquire, LockTimeout, git
  <2>2. /\ \A q \in Procs \ {p} : pc'[q] = pc[q] /\ op'[q] = op[q]
        /\ tx' = tx /\ why' = why /\ receipts' = receipts /\ pending' = pending
        /\ local' = local
    BY <1>5 DEF Submit, Restart, Acquire, LockTimeout, ControlOK, wal, git
  <2>3. \A q \in Procs \ {p} : WalAt(q)'
    BY <2>2 DEF WalInv, WalAt, NothingPending, Found
  <2>4. why[p] = "none" /\ pc'[p] \in {"idle", "waiting", "recovering"}
    BY <1>5 DEF Submit, Restart, Acquire, LockTimeout, At, WalInv, WalAt, ControlOK,
                TxPhases, Phases, Outside
  <2>5. WalAt(p)'
    BY <2>2, <2>4 DEF WalAt, Cleared, Building, Publishing, TxPhases, Phases, Outside
  <2> QED BY <2>1, <2>3, <2>5 DEF WalInv
<1>6. CASE Environment \/ UNCHANGED vars
  <2>1. UNCHANGED <<wal, receipts, local, ctx>>
    BY <1>6 DEF Environment, Land, Reject, Lose, ExternalPush, AlienEdit, git, wal, ctx, vars
  <2>2. WalData'
    BY <1>4, <2>1
  <2>3. \A q \in Procs : WalAt(q)'
    BY <2>1 DEF WalInv, WalAt, NothingPending, Found, ctx, wal
  <2> QED BY <2>2, <2>3 DEF WalInv
<1> QED BY <1>2, <1>3, <1>5, <1>6 DEF Next, Proc

\* The write-ahead log never lies: whatever is killed or fails, at most one record
\* is pending, and record, receipts and Git tell one story (wal.py, receipts.py and
\* _recover_locked of coordinator.py).
THEOREM WalInvariant == Spec => []WalInv
<1>1. TypeOK /\ MutualExclusion /\ DurableInv /\ UndoInv /\ WalInv /\ [Next]_vars => WalInv'
  BY WalStep
<1> QED BY WalInit, <1>1, TypeCorrect, Exclusion, DurableInvariant, UndoInvariant, PTL DEF Spec

\* An archived record tells what happened to its transaction: it says committed
\* exactly when Git has the commit, and exactly when the receipt is stored.
THEOREM ArchiveIsTrue == Spec => []ArchivedIsTrue
<1>1. WalInv => ArchivedIsTrue
  <2> SUFFICES ASSUME WalInv PROVE ArchivedIsTrue
    OBVIOUS
  <2>1. \A c, d \in Commands : pending[c] # "none" /\ pending[d] # "none" => c = d
    BY DEF WalInv, WalData, OneRecord
  <2>2. ASSUME NEW c \in Commands, pending[c] = "none"
        PROVE  /\ terminal[c] = "committed" <=> Found(c)
               /\ terminal[c] = "committed" <=> receipts[RequestOf[c]] = c
    <3>1. receipts[RequestOf[c]] = c => Found(c)
      BY CommandsAssumption, DistinctAssumption DEF WalInv, WalData, ReceiptsFound
    <3> QED BY <2>2, <3>1 DEF WalInv, WalData, RecordTrue
  <2> QED BY <2>1, <2>2 DEF ArchivedIsTrue
<1> QED BY <1>1, WalInvariant, PTL

(***************************************************************************)
(* The files.                                                              *)
(***************************************************************************)

\* The revision that metadata with content v shows, and the committed one.
RevisionOf(v) == IF v \in Commands THEN BaseOf[v] + 1 ELSE StartRevision
Revision == RevisionOf(tree[MetaPath])

\* A transaction whose record still allows both outcomes.
Touched(c) == pending[c] \in {"prepared", "applied"} /\ ~Found(c)

\* The before images of c as the committed tree has them.
TreeImages(c) == [q \in Paths |-> IF q \in PathsOf(c) THEN tree[q] ELSE Genesis]

\* The committed tree holds what committed transactions wrote, all owners of the
\* last one included; records were made on its revision or on an earlier one.
TreeInv ==
    /\ \A q \in Paths : tree[q] = Genesis \/ (tree[q] \in Commands /\ Found(tree[q]))
    /\ \A c \in Commands : tree[MetaPath] = c => \A q \in WritesOf[c] : tree[q] = c
    /\ \A c \in Commands : WalStatus(c) # "none" =>
          /\ BaseOf[c] <= Revision
          /\ BaseOf[c] = Revision => before[c] = TreeImages(c)
    /\ \A c \in Commands : Touched(c) => BaseOf[c] = Revision

\* Checkout, index and temporaries differ from the tree only where the touched
\* transaction writes (or where an operator edited a file).
FileInv ==
    /\ \A q \in Paths :
          \/ work[q] \in {tree[q], Alien}
          \/ \E c \in Commands : Touched(c) /\ q \in PathsOf(c) /\ work[q] = c
    /\ \A q \in Paths :
          \/ index[q] = tree[q]
          \/ \E c \in Commands : Touched(c) /\ q \in PathsOf(c) /\ index[q] = c
    /\ \A q \in Paths : tmp[q] = "none" \/ \E c \in Commands : Touched(c) /\ q \in PathsOf(c)
    /\ \A c \in Commands : Touched(c) /\ work[MetaPath] = c =>
          \A q \in WritesOf[c] : work[q] \in {c, Alien}

Untorn == \A q \in Paths : tmp[q] = "none"

\* The paths in qs hold what c writes and all others what is committed.
Written(c, qs) == \A q \in Paths : work[q] = IF q \in qs THEN c ELSE tree[q]

\* Phases in which the checkout is exactly what is committed.
Settling == Publishing \union {"preflight", "lookup", "prepare", "serving", "validate",
                               "mark_rolled_back", "archive_rolled_back"}

\* What each phase knows of the files.
FileAt(p) ==
    /\ pc[p] \in Settling => Pristine
    /\ pc[p] \in {"validate", "resync", "clear"} => todo[p] = PathsOf(tx[p])
    /\ pc[p] = "apply" =>
          /\ Untorn /\ index = tree
          /\ MetaPath \in todo[p] /\ todo[p] \subseteq PathsOf(tx[p])
          /\ Written(tx[p], PathsOf(tx[p]) \ todo[p])
    /\ pc[p] \in {"mark_applied", "stage", "commit"} =>
          /\ Untorn /\ index = IF pc[p] = "commit" THEN work ELSE tree
          /\ Written(tx[p], PathsOf(tx[p]))
    /\ pc[p] = "restore" =>
          /\ Untorn /\ index = tree /\ todo[p] \subseteq PathsOf(tx[p])
          /\ (MetaPath \in todo[p] => todo[p] = PathsOf(tx[p]))
          /\ \A q \in Paths : work[q] = tree[q] \/ (q \in todo[p] /\ work[q] = tx[p])

FilesInv == TreeInv /\ FileInv /\ \A p \in Procs : FileAt(p)

LEMMA FilesInit == Init => FilesInv
  BY CommandsAssumption, DistinctAssumption
     DEF Init, FilesInv, TreeInv, FileInv, FileAt, Touched, WalStatus, Paths, Settling,
         Publishing

\* The phases that write files work on the one touched transaction.
LEMMA TouchedOne ==
  ASSUME TypeOK, WalInv, UndoInv, NEW p \in Procs,
         pc[p] \in Building \union {"resync", "clear", "restore", "mark_rolled_back"}
  PROVE  /\ tx[p] \in Commands /\ Touched(tx[p])
         /\ \A d \in Commands : pending[d] # "none" => d = tx[p]
<1>1. tx[p] \in Commands
  BY InPhase DEF TypeOK, Building, TxPhases, Phases, Outside
<1>2. Touched(tx[p])
  BY <1>1 DEF WalInv, WalAt, Touched, UndoInv, Undoing, Building
<1> QED BY <1>1, <1>2 DEF Touched, WalInv, WalData, OneRecord

\* Nothing a touched transaction writes is in the tree, nor are bytes of nobody.
LEMMA TreeApart ==
  ASSUME TreeInv, NEW q \in Paths
  PROVE  /\ tree[q] # Alien
         /\ \A c \in Commands : Touched(c) => tree[q] # c
  BY DistinctAssumption DEF TreeInv, Touched

\* What rollback restores is what is committed.
LEMMA BeforeIsTree ==
  ASSUME TreeInv, NEW c \in Commands, Touched(c)
  PROVE  \A q \in PathsOf(c) : before[c][q] = tree[q]
<1>1. before[c] = TreeImages(c)
  BY DEF TreeInv, Touched, WalStatus
<1>2. PathsOf(c) \subseteq Paths
  BY CommandsAssumption DEF PathsOf, Paths
<1> QED BY <1>1, <1>2 DEF TreeImages

\* Steps that leave the files, the images and what is touched alone.
LEMMA FilesKept ==
  ASSUME TreeInv, FileInv, UNCHANGED <<work, tmp, index, tree, before>>,
         \A c \in Commands : Touched(c)' <=> Touched(c),
         \A c \in Commands : Found(c) => Found(c)',
         \A c \in Commands : WalStatus(c)' # "none" => WalStatus(c) # "none"
  PROVE  TreeInv' /\ FileInv'
  BY DEF TreeInv, FileInv, Revision, RevisionOf, TreeImages, PathsOf

\* FileAt concerns the locked region only.
LEMMA FilesOutside ==
  ASSUME NEW p \in Procs, pc[p] \in Outside \union {"recovering", "guard", "abort"}
  PROVE  FileAt(p)
  BY DEF FileAt, Outside, Settling, Publishing

LEMMA FilesLeave ==
  ASSUME TypeOK, NEW p \in Procs, Raise(p) \/ \E l \in {"idle", "down"} : Release(p, l)
  PROVE  FileAt(p)'
<1>1. pc'[p] \in {"abort", "idle", "down"}
  BY RaiseMoves, ReleaseMoves DEF TypeOK
<1> QED BY <1>1 DEF FileAt, Settling, Publishing

\* Steps that change neither the files nor the log.
LEMMA FilesQuiet ==
  ASSUME TypeOK, TreeInv, FileInv, UNCHANGED <<disk, index, tree, wal>>,
         local' = local \/ (NeutralAhead /\ local' = remote)
  PROVE  /\ TreeInv' /\ FileInv' /\ (Pristine => Pristine')
         /\ \A c \in Commands : Touched(c)' <=> Touched(c)
<1>1. \A c \in Commands : Found(c)' <=> Found(c)
  BY FoundKept
<1>2. \A c \in Commands : /\ Touched(c)' <=> Touched(c)
                          /\ WalStatus(c)' = WalStatus(c)
  BY <1>1 DEF Touched, WalStatus, wal
<1> QED BY <1>1, <1>2, FilesKept DEF disk, wal, Pristine

LEMMA FilesRecoverStep ==
  ASSUME TypeOK, WalInv, FilesInv, NEW p \in Procs, RecoverStep(p)
  PROVE  TreeInv' /\ FileInv' /\ FileAt(p)'
<1> USE DEF TypeOK, FilesInv
<1>1. CASE RecoverSettled(p)
  <2>1. PICK c \in Commands : /\ Settled(c)
                              /\ terminal' = [terminal EXCEPT ![c] = pending[c]]
                              /\ pending' = [pending EXCEPT ![c] = "none"]
    BY <1>1 DEF RecoverSettled
  <2>2. UNCHANGED <<work, tmp, index, tree, before, local, pc>>
    BY <1>1 DEF RecoverSettled, disk, git, ctx
  <2>3. \A d \in Commands : Found(d)' <=> Found(d)
    BY <2>2, FoundKept
  <2>4. ~Touched(c) /\ ~Touched(c)'
    BY <2>1 DEF Settled, Touched, DataOK
  <2>5. \A d \in Commands : Touched(d)' <=> Touched(d)
    BY <2>1, <2>3, <2>4 DEF Touched, DataOK
  <2>6. \A d \in Commands : WalStatus(d)' # "none" => WalStatus(d) # "none"
    BY <2>1 DEF WalStatus, DataOK, Settled
  <2>7. TreeInv' /\ FileInv'
    BY <2>2, <2>3, <2>5, <2>6, FilesKept
  <2> QED BY <1>1, <2>2, <2>7, FilesOutside DEF RecoverSettled, At, FileAt, Settling, Publishing
<1>2. CASE RecoveryDone(p) \/ RecoverCommitted(p) \/ RecoverUncommitted(p)
           \/ RecoveryRefused(p) \/ Resync(p)
  <2>1. TreeInv' /\ FileInv' /\ (Pristine => Pristine')
    BY <1>2, FilesQuiet DEF RecoveryDone, RecoverCommitted, RecoverUncommitted,
                            RecoveryRefused, Resync, git
  <2>2. CASE Release(p, "idle")
    BY <2>1, <2>2, FilesLeave
  <2>3. CASE RecoveryDone(p)
    BY <2>1, <2>3, GotoMoves DEF RecoveryDone, FileAt, Settling, Publishing
  <2>4. CASE RecoverCommitted(p)
    <3>1. Pristine /\ pc'[p] \in {"push", "finalize"}
      BY <2>4, TakeUpMoves DEF RecoverCommitted, FinishAllowed
    <3> QED BY <2>1, <3>1 DEF FileAt, Settling, Publishing
  <2>5. CASE RecoverUncommitted(p)
    <3>1. PICK c \in Commands : TakeUp(p, c, "recover", PathsOf(c),
                                       IF RemoteRequired THEN "resync" ELSE "clear")
      BY <2>5 DEF RecoverUncommitted
    <3>2. tx'[p] = c /\ todo'[p] = PathsOf(c) /\ pc'[p] \in {"resync", "clear"}
      BY <3>1, TakeUpMoves
    <3> QED BY <2>1, <3>2 DEF FileAt, Settling, Publishing, PathsOf
  <2>6. CASE Resync(p) /\ Goto(p, "clear")
    <3>1. pc'[p] = "clear" /\ tx'[p] = tx[p] /\ todo'[p] = todo[p]
      BY <2>6, GotoMoves
    <3>2. todo[p] = PathsOf(tx[p])
      BY <2>6 DEF Resync, At, FileAt
    <3> QED BY <2>1, <3>1, <3>2 DEF FileAt, Settling, Publishing, PathsOf
  <2> QED BY <1>2, <2>2, <2>3, <2>4, <2>5, <2>6 DEF RecoveryRefused, Resync
<1> QED BY <1>1, <1>2 DEF RecoverStep

LEMMA FilesRollbackStep ==
  ASSUME TypeOK, WalInv, UndoInv, FilesInv, NEW p \in Procs, RollbackStep(p)
  PROVE  TreeInv' /\ FileInv' /\ FileAt(p)'
<1> USE DEF TypeOK, FilesInv
<1>1. \A c \in Commands : Found(c)' <=> Found(c)
  BY FoundKept DEF RollbackStep, Abort, Clear, Restore, Restored, MarkRolledBack,
                   ArchiveRolledBack, git
<1>2. ASSUME UNCHANGED wal
      PROVE  \A c \in Commands : /\ Touched(c)' <=> Touched(c)
                                 /\ WalStatus(c)' = WalStatus(c)
  BY <1>1, <1>2 DEF Touched, WalStatus, wal
<1>3. CASE Abort(p) \/ Restored(p)
  <2>1. TreeInv' /\ FileInv' /\ (Pristine => Pristine')
    BY <1>3, FilesQuiet DEF Abort, Restored, git
  <2>2. CASE Release(p, "idle")
    BY <2>1, <2>2, FilesLeave
  <2>3. CASE TakeUp(p, tx[p], "abort", PathsOf(tx[p]), "clear")
    BY <2>1, <2>3, TakeUpMoves DEF FileAt, Settling, Publishing, PathsOf
  <2>4. CASE Restored(p) /\ Goto(p, "mark_rolled_back")
    <3>1. Untorn /\ index = tree /\ \A q \in Paths : work[q] = tree[q]
      BY <2>4 DEF Restored, At, FileAt
    <3>2. Pristine
      BY <3>1 DEF Pristine, Untorn, DataOK
    <3>3. pc'[p] = "mark_rolled_back"
      BY <2>4, GotoMoves
    <3> QED BY <2>1, <3>2, <3>3 DEF FileAt
  <2> QED BY <1>3, <2>2, <2>3, <2>4 DEF Abort, Restored
<1>4. CASE Clear(p)
  <2> DEFINE c == tx[p]
  <2>1. /\ UNCHANGED <<work, tree, wal>>
        /\ tmp' = Swept(c)
        /\ index' = [q \in Paths |-> IF Bounded(c) /\ q \in PathsOf(c)
                                       THEN tree[q] ELSE index[q]]
    BY <1>4 DEF Clear
  <2>2. c \in Commands /\ Touched(c)
    BY <1>4, TouchedOne DEF Clear, At
  <2>3. \A d \in Commands : Touched(d)' <=> Touched(d)
    BY <1>2, <2>1
  <2>4. TreeInv'
    BY <1>1, <1>2, <2>1 DEF TreeInv, Revision, RevisionOf, TreeImages, PathsOf, wal
  <2>5. FileInv'
    <3>1. \A q \in Paths : tmp'[q] = "none" \/ tmp'[q] = tmp[q]
      BY <2>1 DEF Swept
    <3>2. \A q \in Paths : index'[q] = tree[q] \/ index'[q] = index[q]
      BY <2>1
    <3> QED BY <2>1, <2>3, <3>1, <3>2 DEF FileInv, PathsOf
  <2>6. CASE Release(p, "idle")
    BY <2>4, <2>5, <2>6, FilesLeave
  <2>7. CASE Bounded(c) /\ ~Diverged(c) /\ Goto(p, "restore")
    <3>1. pc'[p] = "restore" /\ tx'[p] = c /\ todo'[p] = PathsOf(c)
      BY <1>4, <2>7, GotoMoves DEF Clear, At, FileAt
    <3>2. Untorn'
      BY <2>1, <2>7 DEF Untorn, Bounded, Swept
    <3>3. index' = tree
      BY <2>1, <2>7 DEF Bounded, DataOK
    <3>4. \A q \in Paths : work[q] = tree[q] \/ (q \in PathsOf(c) /\ work[q] = c)
      BY <2>2, <2>7, BeforeIsTree DEF Bounded, Diverged
    <3> QED BY <2>1, <2>4, <2>5, <3>1, <3>2, <3>3, <3>4
            DEF FileAt, Settling, Publishing, PathsOf
  <2> QED BY <1>4, <2>6, <2>7 DEF Clear
<1>5. CASE Restore(p)
  <2> DEFINE c == tx[p]
  <2>1. PICK r \in Paths : /\ RestoreNext(p, r)
                           /\ work' = [work EXCEPT ![r] = before[c][r]]
                           /\ todo' = [todo EXCEPT ![p] = @ \ {r}]
    BY <1>5 DEF Restore
  <2>2. UNCHANGED <<tmp, index, tree, wal, pc, tx>>
    BY <1>5 DEF Restore, git
  <2>3. /\ Untorn /\ index = tree /\ todo[p] \subseteq PathsOf(c)
        /\ (MetaPath \in todo[p] => todo[p] = PathsOf(c))
        /\ \A q \in Paths : work[q] = tree[q] \/ (q \in todo[p] /\ work[q] = c)
    BY <1>5 DEF Restore, At, FileAt
  <2>4. c \in Commands /\ Touched(c)
    BY <1>5, TouchedOne DEF Restore, At
  <2>5. work' = [work EXCEPT ![r] = tree[r]]
    BY <2>1, <2>3, <2>4, BeforeIsTree DEF RestoreNext
  <2>6. \A d \in Commands : Touched(d)' <=> Touched(d)
    BY <1>2, <2>2
  <2>7. TreeInv'
    BY <1>1, <1>2, <2>2 DEF TreeInv, Revision, RevisionOf, TreeImages, PathsOf, wal
  <2>8. FileInv'
    <3>1. \A q \in Paths : work'[q] = tree[q] \/ work'[q] = work[q]
      BY <2>5 DEF DataOK
    <3>2. \A d \in Commands : Touched(d) => work'[MetaPath] # d
      <4>1. MetaPath \in Paths
        BY DEF Paths
      <4>2. work'[MetaPath] = tree[MetaPath]
        BY <2>1, <2>3, <2>5, <4>1 DEF RestoreNext, DataOK
      <4> QED BY <4>1, <4>2, TreeApart
    <3> QED BY <2>2, <2>6, <3>1, <3>2 DEF FileInv, PathsOf
  <2>9. FileAt(p)'
    <3>1. todo'[p] = todo[p] \ {r} /\ pc'[p] = "restore" /\ tx'[p] = c
      BY <1>5, <2>1, <2>2 DEF Restore, At, ControlOK
    <3>2. MetaPath \notin todo'[p]
      BY <2>1, <3>1 DEF RestoreNext
    <3>3. \A q \in Paths : work'[q] = tree[q] \/ (q \in todo'[p] /\ work'[q] = c)
      BY <2>3, <2>5, <3>1 DEF DataOK
    <3> QED BY <2>2, <2>3, <3>1, <3>2, <3>3 DEF FileAt, Settling, Publishing, PathsOf, Untorn
  <2> QED BY <2>7, <2>8, <2>9
<1>6. CASE MarkRolledBack(p)
  <2>1. /\ pending' = [pending EXCEPT ![tx[p]] = "rolled_back"]
        /\ UNCHANGED <<work, tmp, index, tree, terminal, before>>
        /\ pc'[p] = "archive_rolled_back"
    BY <1>6, GotoMoves DEF MarkRolledBack, disk, git
  <2>2. Pristine
    BY <1>6 DEF MarkRolledBack, At, FileAt, Settling
  <2>3. /\ tx[p] \in Commands /\ Touched(tx[p])
        /\ \A d \in Commands : pending[d] # "none" => d = tx[p]
    BY <1>6, TouchedOne DEF MarkRolledBack, At
  <2>4. \A d \in Commands : ~Touched(d)'
    BY <2>1, <2>3 DEF Touched, DataOK
  <2>5. \A d \in Commands : WalStatus(d)' # "none" => WalStatus(d) # "none"
    BY <2>1, <2>3 DEF WalStatus, Touched, DataOK
  <2>6. TreeInv'
    BY <1>1, <2>1, <2>4, <2>5 DEF TreeInv, Revision, RevisionOf, TreeImages, PathsOf
  <2>7. FileInv'
    BY <2>1, <2>2, <2>4 DEF FileInv, Pristine
  <2>8. FileAt(p)'
    BY <2>1, <2>2 DEF FileAt, Settling, Publishing, Pristine
  <2> QED BY <2>6, <2>7, <2>8
<1>7. CASE ArchiveRolledBack(p)
  <2>1. /\ pending' = [pending EXCEPT ![tx[p]] = "none"]
        /\ terminal' = [terminal EXCEPT ![tx[p]] = "rolled_back"]
        /\ UNCHANGED <<work, tmp, index, tree, before>>
    BY <1>7 DEF ArchiveRolledBack, disk, git
  <2>2. tx[p] \in Commands /\ pending[tx[p]] = "rolled_back"
    BY <1>7, InPhase DEF ArchiveRolledBack, At, WalInv, WalAt, TxPhases, Phases, Outside
  <2>3. \A d \in Commands : Touched(d)' <=> Touched(d)
    BY <1>1, <2>1, <2>2 DEF Touched, DataOK
  <2>4. \A d \in Commands : WalStatus(d)' # "none" => WalStatus(d) # "none"
    BY <2>1, <2>2 DEF WalStatus, DataOK
  <2>5. TreeInv' /\ FileInv'
    BY <1>1, <2>1, <2>3, <2>4, FilesKept
  <2>6. pc'[p] \in {"recovering", "idle"}
    BY <1>7, TakeUpMoves, ReleaseMoves DEF ArchiveRolledBack
  <2> QED BY <2>5, <2>6 DEF FileAt, Settling, Publishing
<1> QED BY <1>3, <1>4, <1>5, <1>6, <1>7 DEF RollbackStep

LEMMA FilesExecuteStep ==
  ASSUME TypeOK, WalInv, UndoInv, FilesInv, NEW p \in Procs, ExecuteStep(p)
  PROVE  TreeInv' /\ FileInv' /\ FileAt(p)'
<1> USE DEF TypeOK, FilesInv
<1>1. CASE Guard(p) \/ Serve(p) \/ Preflight(p) \/ Lookup(p)
  <2>1. TreeInv' /\ FileInv' /\ (Pristine => Pristine')
    BY <1>1, FilesQuiet DEF Guard, Serve, Preflight, Lookup, git
  <2>2. CASE Release(p, "idle")
    BY <2>1, <2>2, FilesLeave
  <2>3. CASE Pristine /\ \E l \in {"serving", "preflight", "lookup", "prepare"} : Goto(p, l)
    BY <2>1, <2>3, GotoMoves DEF FileAt, Settling, Publishing
  <2>4. ~Guard(p) => Pristine
    BY <1>1 DEF Serve, Preflight, Lookup, At, FileAt, Settling
  <2> QED BY <1>1, <2>2, <2>3, <2>4 DEF Guard, Serve, Preflight, Lookup
<1>2. CASE Prepare(p)
  <2> DEFINE c == op[p]
  <2>1. c \in Commands /\ NothingPending /\ Pristine
    BY <1>2 DEF Prepare, At, ControlOK, InHand, WalInv, WalAt, Cleared, FileAt, Settling
  <2>2. UNCHANGED <<work, tmp, index, tree, local, terminal>>
    BY <1>2 DEF Prepare, disk, git
  <2>3. CASE Release(p, "idle") /\ UNCHANGED <<pending, before>>
    BY <2>2, <2>3, FilesQuiet, FilesLeave DEF disk, wal
  <2>4. CASE /\ AtRevision(BaseOf[c]) /\ Preparable(c)
             /\ pending' = [pending EXCEPT ![c] = "prepared"]
             /\ before' = [before EXCEPT ![c] = Images(c)]
             /\ TakeUp(p, c, "exec", PathsOf(c), "validate")
    <3>1. \A d \in Commands : Found(d)' <=> Found(d)
      BY <2>2, FoundKept
    <3>2. BaseOf[c] = Revision
      <4>1. work[MetaPath] = tree[MetaPath] /\ MetaPath \in Paths
        BY <2>1 DEF Pristine, Paths
      <4>2. tree[MetaPath] = Genesis \/ tree[MetaPath] \in Commands
        BY <4>1 DEF TreeInv
      <4> QED BY <2>1, <2>4, <4>1, <4>2, CommandsAssumption, DistinctAssumption
              DEF AtRevision, Revision, RevisionOf
    <3>3. before' = [before EXCEPT ![c] = TreeImages(c)]
      BY <2>1, <2>4 DEF Images, TreeImages, Pristine
    <3>4. \A d \in Commands : Touched(d)' => d = c
      BY <2>1, <2>4 DEF Touched, NothingPending, DataOK
    <3>5. TreeInv'
      <4>1. Revision' = Revision /\ \A d \in Commands : TreeImages(d)' = TreeImages(d)
        BY <2>2 DEF Revision, RevisionOf, TreeImages, PathsOf
      <4>2. \A d \in Commands : d # c => WalStatus(d)' = WalStatus(d) /\ before'[d] = before[d]
        BY <2>1, <2>2, <2>4 DEF WalStatus, DataOK
      <4>3. before'[c] = TreeImages(c)
        BY <2>1, <3>3 DEF DataOK
      <4>4. BaseOf[c] \in Nat
        BY <2>1, CommandsAssumption
      <4>5. \A d \in Commands : WalStatus(d)' # "none" =>
               BaseOf[d] <= Revision /\ (BaseOf[d] = Revision => before'[d] = TreeImages(d))
        BY <3>2, <4>2, <4>3, <4>4 DEF TreeInv
      <4> QED BY <2>2, <3>1, <3>2, <3>4, <4>1, <4>5 DEF TreeInv
    <3>6. FileInv'
      BY <2>1, <2>2, <3>4, <3>1 DEF FileInv, Touched, NothingPending, Pristine, TreeInv
    <3>7. FileAt(p)'
      <4>1. pc'[p] = "validate" /\ tx'[p] = c /\ todo'[p] = PathsOf(c)
        BY <2>4, TakeUpMoves
      <4> QED BY <2>1, <2>2, <4>1 DEF FileAt, Settling, Publishing, Pristine, PathsOf
    <3> QED BY <3>5, <3>6, <3>7
  <2> QED BY <1>2, <2>3, <2>4 DEF Prepare
<1>3. CASE Validate(p)
  <2>1. TreeInv' /\ FileInv' /\ (Pristine => Pristine')
    BY <1>3, FilesQuiet DEF Validate, git
  <2>2. CASE Raise(p)
    BY <2>1, <2>2, FilesLeave
  <2>3. CASE Goto(p, "apply")
    <3>1. Pristine /\ todo[p] = PathsOf(tx[p])
      BY <1>3 DEF Validate, At, FileAt, Settling
    <3>2. pc'[p] = "apply" /\ tx'[p] = tx[p] /\ todo'[p] = todo[p]
      BY <2>3, GotoMoves
    <3>3. UNCHANGED <<work, tmp, index, tree>>
      BY <1>3 DEF Validate, disk, git
    <3> QED BY <2>1, <3>1, <3>2, <3>3
            DEF FileAt, Settling, Publishing, Pristine, Untorn, Written, PathsOf
  <2> QED BY <1>3, <2>2, <2>3 DEF Validate
<1>4. CASE Apply(p)
  <2> DEFINE c == tx[p]
  <2>1. PICK r \in Paths :
           /\ ApplyNext(p, r)
           /\ work' = [work EXCEPT ![r] = c]
           /\ todo' = [todo EXCEPT ![p] = @ \ {r}]
           /\ pc' = [pc EXCEPT ![p] = IF todo[p] = {r} THEN "mark_applied" ELSE "apply"]
    BY <1>4 DEF Apply
  <2>2. UNCHANGED <<tmp, index, tree, local, wal, tx>>
    BY <1>4 DEF Apply, git
  <2>3. /\ Untorn /\ index = tree
        /\ MetaPath \in todo[p] /\ todo[p] \subseteq PathsOf(c)
        /\ Written(c, PathsOf(c) \ todo[p])
    BY <1>4 DEF Apply, At, FileAt
  <2>4. c \in Commands /\ Touched(c) /\ \A d \in Commands : pending[d] # "none" => d = c
    BY <1>4, TouchedOne DEF Apply, At, Building
  <2>5. \A d \in Commands : /\ Found(d)' <=> Found(d)
                            /\ Touched(d)' <=> Touched(d)
                            /\ WalStatus(d)' = WalStatus(d)
    BY <2>2, FoundKept DEF Touched, WalStatus, wal
  <2>6. TreeInv'
    BY <2>2, <2>5 DEF TreeInv, Revision, RevisionOf, TreeImages, PathsOf, wal
  <2>7. todo'[p] = todo[p] \ {r}
        /\ pc'[p] = (IF todo[p] = {r} THEN "mark_applied" ELSE "apply")
    BY <2>1 DEF ControlOK
  <2>8. \A q \in Paths : work'[q] = IF q \in PathsOf(c) \ todo'[p] THEN c ELSE tree[q]
    BY <2>1, <2>2, <2>3, <2>7 DEF Written, ApplyNext, DataOK, PathsOf
  <2>9. \/ todo[p] = {r} /\ r = MetaPath /\ PathsOf(c) \ todo'[p] = PathsOf(c)
        \/ MetaPath \in todo'[p] /\ todo[p] # {r}
    BY <2>1, <2>3, <2>7 DEF ApplyNext
  <2>10. FileInv'
    <3>1. \A q \in Paths : work'[q] = work[q] \/ (q \in PathsOf(c) /\ work'[q] = c)
      BY <2>1, <2>3 DEF ApplyNext, DataOK
    <3>2. \A q \in Paths :
             \/ work'[q] \in {tree[q], Alien}
             \/ \E d \in Commands : Touched(d) /\ q \in PathsOf(d) /\ work'[q] = d
      BY <2>4, <3>1 DEF FileInv
    <3>3. ASSUME work'[MetaPath] = c PROVE \A q \in WritesOf[c] : work'[q] = c
      <4>1. MetaPath \in Paths
        BY DEF Paths
      <4>2. MetaPath \notin todo'[p]
        BY <2>4, <2>8, <3>3, <4>1, TreeApart
      <4>3. PathsOf(c) \ todo'[p] = PathsOf(c)
        BY <2>9, <4>2
      <4>4. \A q \in Paths : q \in PathsOf(c) => work'[q] = c
        BY <2>8, <4>3
      <4> QED BY <2>4, <4>4, CommandsAssumption DEF PathsOf, Paths
    <3>4. \A d \in Commands : Touched(d) => d = c
      BY <2>4 DEF Touched
    <3> QED BY <2>2, <2>5, <3>2, <3>3, <3>4 DEF FileInv, PathsOf
  <2>11. FileAt(p)'
    BY <2>2, <2>3, <2>7, <2>8, <2>9
       DEF FileAt, Settling, Publishing, PathsOf, Untorn, Written
  <2> QED BY <2>6, <2>10, <2>11
<1>5. CASE MarkApplied(p)
  <2>1. UNCHANGED <<work, tmp, index, tree, local, terminal, before>>
    BY <1>5 DEF MarkApplied, disk, git
  <2>2. CASE Raise(p) /\ UNCHANGED pending
    BY <2>1, <2>2, FilesQuiet, FilesLeave DEF disk, wal
  <2>3. CASE pending' = [pending EXCEPT ![tx[p]] = "applied"] /\ Goto(p, "stage")
    <3>1. tx[p] \in Commands /\ Touched(tx[p])
      BY <1>5, TouchedOne DEF MarkApplied, At, Building
    <3>2. \A d \in Commands : Found(d)' <=> Found(d)
      BY <2>1, FoundKept
    <3>3. \A d \in Commands : /\ Touched(d)' <=> Touched(d)
                              /\ WalStatus(d)' # "none" => WalStatus(d) # "none"
      BY <2>1, <2>3, <3>1, <3>2 DEF Touched, WalStatus, DataOK
    <3>4. TreeInv' /\ FileInv'
      BY <2>1, <3>2, <3>3, FilesKept
    <3>5. pc'[p] = "stage" /\ tx'[p] = tx[p]
      BY <2>3, GotoMoves
    <3>6. Untorn /\ index = tree /\ Written(tx[p], PathsOf(tx[p]))
      BY <1>5 DEF MarkApplied, At, FileAt
    <3>7. FileAt(p)'
      BY <2>1, <3>5, <3>6 DEF FileAt, Settling, Publishing, Untorn, Written, PathsOf
    <3> QED BY <3>4, <3>7
  <2> QED BY <1>5, <2>2, <2>3 DEF MarkApplied
<1>6. CASE Stage(p)
  <2> DEFINE c == tx[p]
  <2>1. UNCHANGED <<work, tmp, tree, local, wal>>
    BY <1>6 DEF Stage, disk
  <2>2. CASE Raise(p) /\ UNCHANGED index
    BY <2>1, <2>2, FilesQuiet, FilesLeave DEF disk
  <2>3. CASE /\ index' = [q \in Paths |-> IF q \in PathsOf(c) THEN work[q] ELSE index[q]]
             /\ Goto(p, "commit")
    <3>1. c \in Commands /\ Touched(c)
      BY <1>6, TouchedOne DEF Stage, At, Building
    <3>2. \A d \in Commands : /\ Found(d)' <=> Found(d)
                              /\ Touched(d)' <=> Touched(d)
                              /\ WalStatus(d)' = WalStatus(d)
      BY <2>1, FoundKept DEF Touched, WalStatus, wal
    <3>3. TreeInv'
      BY <2>1, <3>2 DEF TreeInv, Revision, RevisionOf, TreeImages, PathsOf, wal
    <3>4. Untorn /\ index = tree /\ Written(c, PathsOf(c))
      BY <1>6 DEF Stage, At, FileAt
    <3>5. index' = work
      BY <2>3, <3>4 DEF Written, DataOK
    <3>6. FileInv'
      <4>1. \A q \in Paths : index'[q] = tree[q] \/ (q \in PathsOf(c) /\ index'[q] = c)
        BY <3>4, <3>5 DEF Written
      <4> QED BY <2>1, <3>1, <3>2, <4>1 DEF FileInv, PathsOf
    <3>7. pc'[p] = "commit" /\ tx'[p] = c
      BY <2>3, GotoMoves
    <3>8. FileAt(p)'
      BY <2>1, <3>4, <3>5, <3>7 DEF FileAt, Settling, Publishing, Untorn, Written, PathsOf
    <3> QED BY <3>3, <3>6, <3>8
  <2> QED BY <1>6, <2>2, <2>3 DEF Stage
<1>7. CASE Commit(p)
  <2> DEFINE c == tx[p]
  <2>1. UNCHANGED <<work, tmp, index, wal>> /\ tree' = index /\ pc'[p] = "readback"
    BY <1>7, GotoMoves DEF Commit, disk
  <2>2. /\ c \in Commands /\ Touched(c)
        /\ \A d \in Commands : pending[d] # "none" => d = c
    BY <1>7, TouchedOne DEF Commit, At, Building
  <2>3. \A d \in Commands : Found(d)' <=> Found(d) \/ d = c
    BY <1>7, FoundCommit
  <2>4. Untorn /\ index = work /\ Written(c, PathsOf(c))
    BY <1>7 DEF Commit, At, FileAt
  <2>5. \A d \in Commands : ~Touched(d)'
    BY <2>1, <2>2, <2>3 DEF Touched, wal
  <2>6. \A q \in Paths : tree'[q] = IF q \in PathsOf(c) THEN c ELSE tree[q]
    BY <2>1, <2>4 DEF Written
  <2>7. tree'[MetaPath] = c
    BY <2>6 DEF Paths, PathsOf
  <2>8. Revision' = BaseOf[c] + 1 /\ Revision = BaseOf[c] /\ BaseOf[c] \in Nat
    BY <2>2, <2>7, CommandsAssumption DEF Revision, RevisionOf, TreeInv
  <2>9. TreeInv'
    <3>1. \A q \in Paths : tree'[q] = Genesis \/ (tree'[q] \in Commands /\ Found(tree[q])')
      BY <2>2, <2>3, <2>6 DEF TreeInv, Found
    <3>2. \A d \in Commands : tree'[MetaPath] = d => \A q \in WritesOf[d] : tree'[q] = d
      BY <2>6, <2>7, CommandsAssumption DEF PathsOf, Paths
    <3>3. \A d \in Commands : WalStatus(d)' # "none" =>
             BaseOf[d] <= Revision' /\ BaseOf[d] # Revision'
      BY <2>1, <2>8, CommandsAssumption DEF TreeInv, WalStatus, wal
    <3> QED BY <2>5, <3>1, <3>2, <3>3 DEF TreeInv
  <2>10. FileInv' /\ Pristine'
    BY <2>1, <2>4, <2>5 DEF FileInv, Pristine, Untorn
  <2>11. FileAt(p)'
    BY <2>1, <2>10 DEF FileAt, Settling, Publishing
  <2> QED BY <2>9, <2>10, <2>11
<1>8. CASE Readback(p)
  <2>1. TreeInv' /\ FileInv' /\ (Pristine => Pristine')
    BY <1>8, FilesQuiet DEF Readback, git
  <2>2. CASE Raise(p)
    BY <2>1, <2>2, FilesLeave
  <2>3. CASE Pristine /\ \E l \in {"push", "finalize"} : Goto(p, l)
    BY <2>1, <2>3, GotoMoves DEF FileAt, Settling, Publishing
  <2> QED BY <1>8, <2>2, <2>3 DEF Readback
<1> QED BY <1>1, <1>2, <1>3, <1>4, <1>5, <1>6, <1>7, <1>8 DEF ExecuteStep

LEMMA FilesPublishStep ==
  ASSUME TypeOK, WalInv, FilesInv, NEW p \in Procs, PublishStep(p)
  PROVE  TreeInv' /\ FileInv' /\ FileAt(p)'
<1> USE DEF TypeOK, FilesInv
<1>1. UNCHANGED <<work, tmp, index, tree, local, before>>
  BY DEF PublishStep, Push, PushReturns, VerifyPush, MarkCommitted, PutReceipt,
         ArchiveCommitted, disk, git, wal
<1>2. tx[p] \in Commands /\ pending[tx[p]] # "none" /\ Found(tx[p]) /\ Pristine
  BY InPhase DEF PublishStep, Push, PushReturns, VerifyPush, MarkCommitted, PutReceipt,
                 ArchiveCommitted, At, WalInv, WalAt, Publishing, FileAt, Settling,
                 TxPhases, Phases, Outside
<1>3. \A d \in Commands : Found(d)' <=> Found(d)
  BY <1>1, FoundKept
<1>4. /\ \A d \in Commands : Touched(d)' <=> Touched(d)
      /\ \A d \in Commands : WalStatus(d)' # "none" => WalStatus(d) # "none"
  <2>1. CASE Push(p) \/ PushReturns(p) \/ VerifyPush(p) \/ PutReceipt(p)
    BY <1>3, <2>1 DEF Push, PushReturns, VerifyPush, PutReceipt, wal, Touched, WalStatus
  <2>2. CASE MarkCommitted(p)
    BY <1>2, <1>3, <2>2 DEF MarkCommitted, Touched, WalStatus, DataOK
  <2>3. CASE ArchiveCommitted(p)
    BY <1>2, <1>3, <2>3 DEF ArchiveCommitted, Touched, WalStatus, DataOK
  <2> QED BY <2>1, <2>2, <2>3 DEF PublishStep
<1>5. TreeInv' /\ FileInv' /\ Pristine'
  BY <1>1, <1>2, <1>3, <1>4, FilesKept DEF Pristine
<1>6. pc'[p] \in Publishing \union {"recovering", "idle", "abort"}
  BY GotoMoves, TakeUpMoves, ReleaseMoves, RaiseMoves
     DEF PublishStep, Push, PushReturns, VerifyPush, MarkCommitted, PutReceipt,
         ArchiveCommitted, Publishing, At, ctx
<1> QED BY <1>5, <1>6 DEF FileAt, Settling, Publishing

LEMMA FilesStep ==
  ASSUME TypeOK, MutualExclusion, WalInv, UndoInv, FilesInv, [Next]_vars
  PROVE  FilesInv'
<1> USE DEF TypeOK
<1>1. ASSUME NEW p \in Procs, Step(p) \/ PushTimeout(p) \/ Fault(p) \/ Crash(p)
      PROVE  \A q \in Procs \ {p} : FileAt(q)'
  <2> SUFFICES ASSUME NEW q \in Procs, q # p PROVE FileAt(q)'
    OBVIOUS
  <2>1. pc'[q] \in Outside
    BY <1>1, Alone
  <2> QED BY <2>1 DEF FileAt, Outside, Settling, Publishing
<1>2. ASSUME NEW p \in Procs, Step(p) PROVE FilesInv'
  <2>1. TreeInv' /\ FileInv' /\ FileAt(p)'
    BY <1>2, FilesRecoverStep, FilesRollbackStep, FilesExecuteStep, FilesPublishStep DEF Step
  <2> QED BY <1>1, <1>2, <2>1 DEF FilesInv
<1>3. ASSUME NEW p \in Procs, PushTimeout(p) \/ Fault(p) PROVE FilesInv'
  <2>1. TreeInv' /\ FileInv'
    BY <1>3, FilesQuiet DEF PushTimeout, Fault, git, FilesInv
  <2>2. FileAt(p)'
    BY <1>3, FilesLeave DEF PushTimeout, Fault
  <2> QED BY <1>1, <1>3, <2>1, <2>2 DEF FilesInv
<1>4. ASSUME NEW p \in Procs, Crash(p) PROVE FilesInv'
  <2>1. UNCHANGED <<work, index, tree, local, wal>> /\ FileAt(p)'
    BY <1>4, FilesLeave DEF Crash, git
  <2>2. \A d \in Commands : /\ Found(d)' <=> Found(d)
                            /\ Touched(d)' <=> Touched(d)
                            /\ WalStatus(d)' = WalStatus(d)
    BY <2>1, FoundKept DEF Touched, WalStatus, wal
  <2>3. TreeInv'
    BY <2>1, <2>2 DEF FilesInv, TreeInv, Revision, RevisionOf, TreeImages, PathsOf, wal
  <2>4. ASSUME \A q \in Paths : tmp'[q] = "none" \/ \E c \in Commands : Touched(c) /\ q \in PathsOf(c)
        PROVE  FileInv'
    <3>1. /\ \A q \in Paths :
                \/ work'[q] \in {tree'[q], Alien}
                \/ \E c \in Commands : Touched(c)' /\ q \in PathsOf(c) /\ work'[q] = c
          /\ \A q \in Paths :
                \/ index'[q] = tree'[q]
                \/ \E c \in Commands : Touched(c)' /\ q \in PathsOf(c) /\ index'[q] = c
      BY <2>1, <2>2 DEF FilesInv, FileInv
    <3>2. \A q \in Paths : tmp'[q] = "none" \/ \E c \in Commands : Touched(c)' /\ q \in PathsOf(c)
      BY <2>2, <2>4
    <3>3. \A c \in Commands : Touched(c)' /\ work'[MetaPath] = c =>
             \A q \in WritesOf[c] : work'[q] \in {c, Alien}
      BY <2>1, <2>2 DEF FilesInv, FileInv
    <3> QED BY <3>1, <3>2, <3>3 DEF FileInv, PathsOf
  <2>5. ASSUME NEW r \in Paths, NEW t \in Leftovers, tmp' = [tmp EXCEPT ![r] = t],
               \/ At(p, "apply") /\ ApplyNext(p, r)
               \/ At(p, "restore") /\ RestoreNext(p, r)
        PROVE  FileInv'
    <3>1. r \in PathsOf(tx[p])
      BY <2>5 DEF FilesInv, FileAt, At, ApplyNext, RestoreNext
    <3>2. tx[p] \in Commands /\ Touched(tx[p])
      BY <2>5, TouchedOne DEF At, Building
    <3>3. \A q \in Paths : tmp'[q] = tmp[q] \/ q = r
      BY <2>5 DEF DataOK
    <3> QED BY <2>4, <3>1, <3>2, <3>3 DEF FilesInv, FileInv
  <2>6. ASSUME UNCHANGED tmp PROVE FileInv'
    <3>1. \A q \in Paths : tmp[q] = "none" \/ \E c \in Commands : Touched(c) /\ q \in PathsOf(c)
      BY DEF FilesInv, FileInv
    <3> QED BY <2>4, <2>6, <3>1
  <2>7. FileInv'
    <3>1. \/ UNCHANGED tmp
          \/ \E r \in Paths, t \in Leftovers :
                /\ \/ At(p, "apply") /\ ApplyNext(p, r)
                   \/ At(p, "restore") /\ RestoreNext(p, r)
                /\ tmp' = [tmp EXCEPT ![r] = t]
      BY <1>4 DEF Crash
    <3> QED BY <2>5, <2>6, <3>1
  <2> QED BY <1>1, <1>4, <2>1, <2>3, <2>7 DEF FilesInv
<1>5. ASSUME NEW p \in Procs, Submit(p) \/ Restart(p) \/ Acquire(p) \/ LockTimeout(p)
      PROVE  FilesInv'
  <2>1. UNCHANGED <<disk, git, wal, tx, todo>>
        /\ pc'[p] \in {"idle", "waiting", "recovering"}
        /\ \A q \in Procs \ {p} : pc'[q] = pc[q]
    BY <1>5 DEF Submit, Restart, Acquire, LockTimeout, ControlOK
  <2>2. TreeInv' /\ FileInv'
    BY <2>1, FilesQuiet DEF git, FilesInv
  <2>3. \A q \in Procs : FileAt(q)'
    BY <2>1 DEF FilesInv, FileAt, Settling, Publishing, Pristine, Untorn, Written, PathsOf,
                disk, git
  <2> QED BY <2>2, <2>3 DEF FilesInv
<1>6. CASE Land \/ Reject \/ Lose \/ ExternalPush \/ UNCHANGED vars
  <2>1. UNCHANGED <<disk, git, wal, tx, todo, pc>>
    BY <1>6 DEF Land, Reject, Lose, ExternalPush, ctx, vars, disk, git, wal
  <2>2. TreeInv' /\ FileInv'
    BY <2>1, FilesQuiet DEF git, FilesInv
  <2>3. \A q \in Procs : FileAt(q)'
    BY <2>1 DEF FilesInv, FileAt, Settling, Publishing, Pristine, Untorn, Written, PathsOf,
                disk, git
  <2> QED BY <2>2, <2>3 DEF FilesInv
<1>7. CASE AlienEdit
  <2>1. PICK r \in Paths : work' = [work EXCEPT ![r] = Alien]
    BY <1>7 DEF AlienEdit
  <2>2. UNCHANGED <<tmp, index, tree, local, wal, pc>> /\ lock = None
    BY <1>7 DEF AlienEdit, git, ctx
  <2>3. \A d \in Commands : /\ Found(d)' <=> Found(d)
                            /\ Touched(d)' <=> Touched(d)
                            /\ WalStatus(d)' = WalStatus(d)
    BY <2>2, FoundKept DEF Touched, WalStatus, wal
  <2>4. TreeInv'
    BY <2>2, <2>3 DEF FilesInv, TreeInv, Revision, RevisionOf, TreeImages, PathsOf, wal
  <2>5. \A q \in Paths : work'[q] = work[q] \/ work'[q] = Alien
    BY <2>1 DEF DataOK
  <2>6. FileInv'
    <3>1. MetaPath \in Paths /\ \A d \in Commands : WritesOf[d] \subseteq Paths /\ d # Alien
      BY CommandsAssumption, DistinctAssumption DEF Paths
    <3> QED BY <2>2, <2>3, <2>5, <3>1 DEF FilesInv, FileInv, PathsOf
  <2>7. \A q \in Procs : pc'[q] \in Outside
    BY <2>2, DistinctAssumption DEF MutualExclusion
  <2>8. \A q \in Procs : FileAt(q)'
    BY <2>7 DEF FileAt, Outside, Settling, Publishing
  <2> QED BY <2>4, <2>6, <2>8 DEF FilesInv
<1> QED BY <1>2, <1>3, <1>4, <1>5, <1>6, <1>7 DEF Next, Proc, Environment

\* Every file holds what record and tree allow, in every phase and after every kill
\* (wal.py, persistence.py and the checks of _recover_locked in coordinator.py).
THEOREM FilesInvariant == Spec => []FilesInv
<1>1. TypeOK /\ MutualExclusion /\ WalInv /\ UndoInv /\ FilesInv /\ [Next]_vars => FilesInv'
  BY FilesStep
<1> QED BY FilesInit, <1>1, TypeCorrect, Exclusion, WalInvariant, UndoInvariant, PTL DEF Spec

\* No reader and no recovery ever meets the new revision over an owner that is older
\* than it: meta is published last and withdrawn first, through every kill.
THEOREM MetaIsBehind == Spec => []MetaBehindOwners
<1>1. TypeOK /\ FilesInv => MetaBehindOwners
  <2> SUFFICES ASSUME TypeOK, FilesInv, NEW c \in Commands, work[MetaPath] = c,
                      NEW q \in WritesOf[c], work[q] # Alien, work[q] # c
               PROVE  work[q] \in Commands /\ BaseOf[work[q]] > BaseOf[c]
    BY DEF MetaBehindOwners
  <2>1. MetaPath \in Paths /\ q \in Paths /\ c # Alien
    BY CommandsAssumption, DistinctAssumption DEF Paths
  <2>2. ~Touched(c)
    BY DEF FilesInv, FileInv
  <2>3. tree[MetaPath] = c
    BY <2>1, <2>2 DEF FilesInv, FileInv
  <2>4. tree[q] = c /\ Revision = BaseOf[c] + 1
    BY <2>3 DEF FilesInv, TreeInv, Revision, RevisionOf
  <2>5. PICK d \in Commands : Touched(d) /\ work[q] = d
    BY <2>1, <2>4 DEF FilesInv, FileInv
  <2>6. BaseOf[d] = BaseOf[c] + 1 /\ BaseOf[c] \in Nat
    BY <2>4, <2>5, CommandsAssumption DEF FilesInv, TreeInv
  <2> QED BY <2>5, <2>6
<1> QED BY <1>1, TypeCorrect, FilesInvariant, PTL

\* A request whose transaction was rolled back, by an abort or by recovery, is taken
\* up again as long as its base revision stands (wal.prepare).
THEOREM RetryIsAccepted == Spec => []RetryAccepted
<1>1. TypeOK /\ WalInv /\ FilesInv => RetryAccepted
  <2> SUFFICES ASSUME TypeOK, WalInv, FilesInv, NEW p \in Procs, At(p, "prepare"),
                      AtRevision(BaseOf[op[p]])
               PROVE  Preparable(op[p])
    BY DEF RetryAccepted
  <2> DEFINE c == op[p]
  <2>1. /\ c \in Commands /\ NothingPending /\ Pristine
        /\ receipts[RequestOf[c]] = None
    BY DEF TypeOK, At, ControlOK, InHand, WalInv, WalAt, Cleared, FilesInv, FileAt, Settling
  <2>2. terminal[c] \in {"none", "rolled_back"}
    <3>1. c # None
      BY <2>1, DistinctAssumption
    <3> QED BY <2>1, <3>1 DEF TypeOK, DataOK, WalInv, WalData, RecordTrue
  <2>3. BaseOf[c] = Revision
    <3>1. work[MetaPath] = tree[MetaPath] /\ MetaPath \in Paths
      BY <2>1 DEF Pristine, Paths
    <3>2. tree[MetaPath] = Genesis \/ tree[MetaPath] \in Commands
      BY <3>1 DEF FilesInv, TreeInv
    <3> QED BY <2>1, <3>1, <3>2, CommandsAssumption, DistinctAssumption
            DEF AtRevision, Revision, RevisionOf
  <2>4. CASE terminal[c] = "none"
    BY <2>1, <2>4 DEF Preparable, WalStatus, NothingPending
  <2>5. CASE terminal[c] = "rolled_back"
    <3>1. WalStatus(c) = "rolled_back"
      BY <2>1, <2>5 DEF WalStatus, NothingPending
    <3>2. before[c] = TreeImages(c)
      BY <2>1, <2>3, <3>1 DEF FilesInv, TreeInv
    <3>3. TreeImages(c) = Images(c)
      BY <2>1 DEF TreeImages, Images, Pristine
    <3> QED BY <3>1, <3>2, <3>3 DEF Preparable
  <2> QED BY <2>2, <2>4, <2>5
<1> QED BY <1>1, TypeCorrect, WalInvariant, FilesInvariant, PTL

\* Bytes that no transaction wrote are never replaced, by no rollback and by no
\* command: every one of them stops the operation that meets it.
THEOREM AlienIsPreserved == Spec => AlienPreserved
<1>1. TypeOK /\ WalInv /\ UndoInv /\ FilesInv /\ [Next]_vars =>
         \A q \in Paths : work[q] = Alien => work'[q] = Alien
  <2> SUFFICES ASSUME TypeOK, WalInv, UndoInv, FilesInv, [Next]_vars,
                      NEW q \in Paths, work[q] = Alien
               PROVE  work'[q] = Alien
    OBVIOUS
  <2> USE DEF TypeOK
  <2>1. ASSUME NEW p \in Procs, Apply(p) PROVE work'[q] = Alien
    <3>1. tx[p] \in Commands
      BY <2>1, TouchedOne DEF Apply, At, Building
    <3>2. tree[q] # Alien /\ tx[p] # Alien
      BY <3>1, TreeApart, DistinctAssumption DEF FilesInv
    <3> QED BY <2>1, <3>2 DEF Apply, At, FilesInv, FileAt, Written
  <2>2. ASSUME NEW p \in Procs, Restore(p) PROVE work'[q] = Alien
    <3>1. tx[p] \in Commands
      BY <2>2, TouchedOne DEF Restore, At
    <3>2. tree[q] # Alien /\ tx[p] # Alien
      BY <3>1, TreeApart, DistinctAssumption DEF FilesInv
    <3> QED BY <2>2, <3>2 DEF Restore, At, FilesInv, FileAt
  <2>3. ASSUME NEW p \in Procs, Step(p), ~Apply(p), ~Restore(p) PROVE work' = work
    <3>1. CASE RecoverStep(p)
      BY <3>1 DEF RecoverStep, RecoveryDone, RecoverSettled, RecoverCommitted,
                  RecoverUncommitted, RecoveryRefused, Resync, disk
    <3>2. CASE RollbackStep(p)
      BY <2>3, <3>2 DEF RollbackStep, Abort, Clear, Restored, MarkRolledBack,
                  ArchiveRolledBack, disk
    <3>3. CASE ExecuteStep(p)
      BY <2>3, <3>3 DEF ExecuteStep, Guard, Serve, Preflight, Lookup, Prepare, Validate,
                  MarkApplied, Stage, Commit, Readback, disk
    <3>4. CASE PublishStep(p)
      BY <3>4 DEF PublishStep, Push, PushReturns, VerifyPush, MarkCommitted, PutReceipt,
                  ArchiveCommitted, disk
    <3> QED BY <2>3, <3>1, <3>2, <3>3, <3>4 DEF Step
  <2>4. ASSUME NEW p \in Procs,
               \/ Submit(p) \/ Restart(p) \/ Acquire(p) \/ LockTimeout(p)
               \/ PushTimeout(p) \/ Fault(p) \/ Crash(p)
        PROVE  work' = work
    BY <2>4 DEF Submit, Restart, Acquire, LockTimeout, PushTimeout, Fault, Crash, disk
  <2>5. CASE AlienEdit
    BY <2>5 DEF AlienEdit, DataOK
  <2>6. CASE Land \/ Reject \/ Lose \/ ExternalPush \/ UNCHANGED vars
    BY <2>6 DEF Land, Reject, Lose, ExternalPush, disk, vars
  <2> QED BY <2>1, <2>2, <2>3, <2>4, <2>5, <2>6 DEF Next, Proc, Environment
<1>2. TypeOK /\ WalInv /\ UndoInv /\ FilesInv /\ [Next]_vars =>
         [\A q \in Paths : work[q] = Alien => work'[q] = Alien]_vars
  BY <1>1
<1> QED BY <1>2, TypeCorrect, WalInvariant, UndoInvariant, FilesInvariant, PTL
        DEF Spec, AlienPreserved

(***************************************************************************)
(* The Git histories: what is local, on the wire and on the remote agree    *)
(* (GitInv), readers see only what is durable, and the coordinator           *)
(* implements ExactlyOnceLedger.                                           *)
(***************************************************************************)

LEMMA PlacedType ==
  ASSUME NEW h \in Seq(Commits)
  PROVE  /\ Placed(h) \in SUBSET Nat /\ Placed(h) \subseteq 1 .. Len(h)
         /\ IsFiniteSet(Placed(h)) /\ Cardinality(Placed(h)) \in Nat
<1>1. Placed(h) \in SUBSET (1 .. Len(h))
  BY DEF Placed
<1>2. IsFiniteSet(1 .. Len(h))
  BY FS_Interval
<1> QED BY <1>1, <1>2, FS_Subset, FS_CardinalityType

(***************************************************************************)
(* The commands of a history.                                              *)
(***************************************************************************)

\* Histories with the same commands at the same places show the same ledger.
LEMMA CommitsSame ==
  ASSUME NEW g \in Seq(Commits), NEW h \in Seq(Commits), Placed(h) = Placed(g),
         \A i \in Placed(g) : h[i] = g[i]
  PROVE  TxCommits(h) = TxCommits(g)
<1>1. \A k \in 1 .. Cardinality(Placed(g)) : h[Nth(Placed(g), k)] = g[Nth(Placed(g), k)]
  BY PlacedType, NthPlace
<1> QED BY <1>1 DEF TxCommits, AtPlaces

LEMMA CommitsLen ==
  ASSUME NEW h \in Seq(Commits)
  PROVE  /\ TxCommits(h) \in Seq(Commands)
         /\ Len(TxCommits(h)) = Cardinality(Placed(h))
         /\ \A k \in 1 .. Len(TxCommits(h)) :
               \E i \in Placed(h) : TxCommits(h)[k] = h[i]
<1>1. Cardinality(Placed(h)) \in Nat
  BY PlacedType
<1>2. \A k \in 1 .. Cardinality(Placed(h)) : Nth(Placed(h), k) \in Placed(h)
  BY PlacedType, NthPlace
<1>3. \A i \in Placed(h) : h[i] \in Commands
  BY DEF Placed
<1>4. TxCommits(h) \in [1 .. Cardinality(Placed(h)) -> Commands]
  BY <1>2, <1>3 DEF TxCommits, AtPlaces
<1>5. TxCommits(h) \in Seq(Commands) /\ Len(TxCommits(h)) = Cardinality(Placed(h))
  BY <1>1, <1>4
<1> QED BY <1>2, <1>5 DEF TxCommits, AtPlaces

\* A command in a history is in its ledger.
LEMMA CommitsAll ==
  ASSUME NEW h \in Seq(Commits), NEW i \in Placed(h)
  PROVE  \E k \in 1 .. Len(TxCommits(h)) : TxCommits(h)[k] = h[i]
<1> DEFINE k == Cardinality(Below(Placed(h), i)) + 1
<1>1. k \in 1 .. Cardinality(Placed(h)) /\ k - 1 = Cardinality(Below(Placed(h), i))
  BY PlacedType, BelowFinite
<1>2. Nth(Placed(h), k) = i
  BY <1>1, PlacedType, NthPlace
<1>3. TxCommits(h)[k] = h[i]
  BY <1>1, <1>2 DEF TxCommits, AtPlaces
<1> QED BY <1>1, <1>3, CommitsLen

\* One more command behind all others is one more entry of the ledger.
LEMMA CommitsAppend ==
  ASSUME NEW g \in Seq(Commits), NEW h \in Seq(Commits), NEW n \in Nat,
         Placed(h) = Placed(g) \union {n}, h[n] \in Commands,
         \A i \in Placed(g) : i < n /\ h[i] = g[i]
  PROVE  TxCommits(h) = Append(TxCommits(g), h[n])
<1> DEFINE P == Placed(g)
           m == Cardinality(P)
<1>1. P \in SUBSET Nat /\ IsFiniteSet(P) /\ m \in Nat /\ n \notin P
  BY PlacedType
<1>2. IsFiniteSet(Placed(h)) /\ Placed(h) \in SUBSET Nat /\ Cardinality(Placed(h)) = m + 1
  BY <1>1, FS_AddElement
<1>3. ASSUME NEW k \in 1 .. m PROVE TxCommits(h)[k] = TxCommits(g)[k]
  <2>1. Nth(P, k) \in P /\ Cardinality(Below(P, Nth(P, k))) = k - 1
    BY <1>1, NthPlace
  <2>2. Below(Placed(h), Nth(P, k)) = Below(P, Nth(P, k))
    BY <1>1, <2>1 DEF Below
  <2>3. k \in 1 .. Cardinality(Placed(h)) /\ Nth(P, k) \in Placed(h)
    BY <1>1, <1>2, <2>1
  <2>4. Nth(Placed(h), k) = Nth(P, k)
    BY <1>2, <2>1, <2>2, <2>3, NthPlace
  <2> QED BY <2>1, <2>3, <2>4 DEF TxCommits, AtPlaces
<1>4. TxCommits(h)[m + 1] = h[n]
  <2>1. Below(Placed(h), n) = P
    BY <1>1 DEF Below
  <2>2. m + 1 \in 1 .. Cardinality(Placed(h)) /\ n \in Placed(h) /\ m = (m + 1) - 1
    BY <1>1, <1>2
  <2>3. Nth(Placed(h), m + 1) = n
    BY <1>2, <2>1, <2>2, NthPlace
  <2> QED BY <2>2, <2>3 DEF TxCommits, AtPlaces
<1>5. /\ TxCommits(g) \in Seq(Commands) /\ Len(TxCommits(g)) = m
      /\ TxCommits(h) \in Seq(Commands) /\ Len(TxCommits(h)) = m + 1
  BY <1>2, CommitsLen
<1>6. /\ Append(TxCommits(g), h[n]) \in Seq(Commands)
      /\ Len(Append(TxCommits(g), h[n])) = m + 1
      /\ \A k \in 1 .. m : Append(TxCommits(g), h[n])[k] = TxCommits(g)[k]
      /\ Append(TxCommits(g), h[n])[m + 1] = h[n]
  BY <1>1, <1>5
<1>7. \A k \in 1 .. m + 1 : TxCommits(h)[k] = Append(TxCommits(g), h[n])[k]
  BY <1>1, <1>3, <1>4, <1>6
<1> QED BY <1>1, <1>5, <1>6, <1>7

(***************************************************************************)
(* The local history, the pushes in flight and the remote.                 *)
(***************************************************************************)

\* Each command stands on the revision it was planned for, with a request of its own.
InOrder(h) ==
    \A i \in Placed(h) :
       /\ BaseOf[h[i]] = StartRevision + Cardinality(Below(Placed(h), i))
       /\ \A j \in Placed(h) : j # i => RequestOf[h[j]] # RequestOf[h[i]]

\* Up to its last command the remote is a prefix of the local history.
RemoteBehind ==
    \A i \in Placed(remote) : i \in DOMAIN local /\ \A j \in 1 .. i : local[j] = remote[j]

\* What travels is a prefix of the local history, so that a push that lands late
\* brings no other command and no other order.
InflightBehind == \A h \in inflight : IsPrefix(h, local)

\* The committed metadata shows the revision that the history adds up to.
RevisionIsLength == Revision = StartRevision + Cardinality(Placed(local))

GitInv == /\ InOrder(local) /\ RevisionIsLength
          /\ InflightBehind /\ RemoteBehind /\ UndeliveredIsPending

LEMMA PrefixPoints ==
  ASSUME NEW S, NEW s \in Seq(S), NEW t \in Seq(S)
  PROVE  IsPrefix(s, t) <=> Len(s) <= Len(t) /\ \A i \in 1 .. Len(s) : s[i] = t[i]
  BY DEF IsPrefix

LEMMA GitInit == Init => GitInv
<1> SUFFICES ASSUME Init PROVE GitInv
  OBVIOUS
<1>1. local = <<>> /\ remote = <<>> /\ inflight = {}
  BY DEF Init
<1>2. Placed(local) = {} /\ Placed(remote) = {}
  BY <1>1 DEF Placed
<1>3. Revision = StartRevision
  BY DistinctAssumption DEF Init, Revision, RevisionOf, Paths
<1>4. RevisionIsLength
  BY <1>2, <1>3, FS_EmptySet, CommandsAssumption DEF RevisionIsLength
<1>5. UndeliveredIsPending
  BY <1>1 DEF UndeliveredIsPending, IsPrefix
<1> QED BY <1>1, <1>2, <1>4, <1>5 DEF GitInv, InOrder, InflightBehind, RemoteBehind

\* Two places of one command are one place.
LEMMA PlaceUnique ==
  ASSUME GitInv, NEW i \in DOMAIN local, NEW j \in DOMAIN local,
         local[i] \in Commands, local[j] = local[i]
  PROVE  i = j
  BY DEF GitInv, InOrder, Placed

\* When the last local command has reached the remote, all of the history has.
LEMMA DeliveredWhole ==
  ASSUME TypeOK, GitInv, local # <<>>, NEW i \in DOMAIN remote,
         remote[i] = local[Len(local)], remote[i] \in Commands
  PROVE  IsPrefix(local, remote)
<1> USE DEF TypeOK, DataOK
<1>1. i \in DOMAIN local /\ \A j \in 1 .. i : local[j] = remote[j]
  BY DEF GitInv, RemoteBehind, Placed
<1>2. local[i] = local[Len(local)] /\ Len(local) \in DOMAIN local
  <2>1. i \in Nat /\ 1 <= i /\ i \in 1 .. i
    OBVIOUS
  <2>2. Len(local) \in Nat /\ Len(local) # 0
    OBVIOUS
  <2> QED BY <1>1, <2>1, <2>2
<1>3. i = Len(local)
  <2>1. local[i] \in Commands
    BY <1>2
  <2> QED BY <1>1, <1>2, <2>1, PlaceUnique
<1>4. Len(local) <= Len(remote)
  BY <1>3
<1> QED BY <1>1, <1>3, <1>4, PrefixPoints

\* A record leaves wal/pending only when its command is delivered or was never there.
LEMMA StillPending ==
  ASSUME TypeOK, DurableInv, WalInv, [Next]_vars,
         NEW c \in Commands, pending[c] # "none", Found(c)
  PROVE  pending'[c] # "none" \/ Durable(c)
<1> USE DEF TypeOK
<1>1. pending[c] # "rolled_back"
  BY DEF WalInv, WalData, RecordTrue
<1>2. ASSUME NEW p \in Procs, RecoverStep(p) PROVE pending'[c] # "none" \/ Durable(c)
  <2>1. CASE RecoverSettled(p)
    <3>1. PICK d \in Commands : Settled(d) /\ pending' = [pending EXCEPT ![d] = "none"]
      BY <2>1 DEF RecoverSettled
    <3>2. CASE d = c
      <4>1. receipts[RequestOf[c]] = c
        BY <1>1, <3>1, <3>2 DEF Settled
      <4> QED BY <4>1, CommandsAssumption, DistinctAssumption DEF DurableInv, ReceiptIsDurable
    <3>3. CASE d # c
      BY <3>1, <3>3 DEF DataOK
    <3> QED BY <3>2, <3>3
  <2>2. CASE pending' = pending
    BY <2>2
  <2> QED BY <1>2, <2>1, <2>2 DEF RecoverStep, RecoveryDone, RecoverCommitted,
          RecoverUncommitted, RecoveryRefused, Resync, wal
<1>3. ASSUME NEW p \in Procs, RollbackStep(p) PROVE pending'[c] # "none" \/ Durable(c)
  <2>1. CASE MarkRolledBack(p)
    BY <2>1 DEF MarkRolledBack, DataOK
  <2>2. CASE ArchiveRolledBack(p)
    <3>1. tx[p] # c
      BY <1>1, <2>2 DEF ArchiveRolledBack, At, WalInv, WalAt
    <3> QED BY <2>2, <3>1 DEF ArchiveRolledBack, DataOK
  <2>3. CASE pending' = pending
    BY <2>3
  <2> QED BY <1>3, <2>1, <2>2, <2>3 DEF RollbackStep, Abort, Clear, Restore, Restored, wal
<1>4. ASSUME NEW p \in Procs, ExecuteStep(p) PROVE pending'[c] # "none" \/ Durable(c)
  <2>1. CASE Prepare(p) \/ MarkApplied(p)
    BY <2>1 DEF Prepare, MarkApplied, DataOK
  <2>2. CASE pending' = pending
    BY <2>2
  <2> QED BY <1>4, <2>1, <2>2 DEF ExecuteStep, Guard, Serve, Preflight, Lookup, Validate,
          Apply, Stage, Commit, Readback, wal
<1>5. ASSUME NEW p \in Procs, PublishStep(p) PROVE pending'[c] # "none" \/ Durable(c)
  <2>1. CASE MarkCommitted(p)
    BY <2>1 DEF MarkCommitted, DataOK
  <2>2. CASE ArchiveCommitted(p)
    <3>1. Durable(tx[p])
      BY <2>2 DEF ArchiveCommitted, At, DurableInv, Established
    <3>2. tx[p] # c => pending'[c] = pending[c]
      BY <2>2 DEF ArchiveCommitted, DataOK
    <3> QED BY <3>1, <3>2
  <2>3. CASE pending' = pending
    BY <2>3
  <2> QED BY <1>5, <2>1, <2>2, <2>3 DEF PublishStep, Push, PushReturns, VerifyPush,
          PutReceipt, wal
<1>6. ASSUME NEW p \in Procs,
             \/ Submit(p) \/ Restart(p) \/ Acquire(p) \/ LockTimeout(p)
             \/ PushTimeout(p) \/ Fault(p) \/ Crash(p)
      PROVE  pending' = pending
  BY <1>6 DEF Submit, Restart, Acquire, LockTimeout, PushTimeout, Fault, Crash, wal
<1>7. CASE Environment \/ UNCHANGED vars
  BY <1>7 DEF Environment, Land, Reject, Lose, ExternalPush, AlienEdit, wal, vars
<1> QED BY <1>2, <1>3, <1>4, <1>5, <1>6, <1>7 DEF Next, Proc, Step

\* The local history stays behind what is pending while the remote only grows.
LEMMA UndeliveredKept ==
  ASSUME TypeOK, DurableInv, WalInv, GitInv, [Next]_vars, local' = local
  PROVE  UndeliveredIsPending'
<1> USE DEF TypeOK, DataOK
<1> SUFFICES ASSUME RemoteRequired PROVE UndeliveredIsPending'
  BY DEF UndeliveredIsPending
<1>1. Extends(remote, remote') /\ remote' \in Seq(Commits)
  <2>1. TypeOK'
    BY TypeStep
  <2> QED BY <2>1, HistoryGrows
<1>2. ASSUME NEW s \in Seq(Commits), IsPrefix(s, remote) PROVE IsPrefix(s, remote')
  <2>1. \A i \in 1 .. Len(remote) : i \in 1 .. Len(remote') /\ remote'[i] = remote[i]
    BY <1>1 DEF Extends
  <2>2. Len(s) <= Len(remote) /\ \A i \in 1 .. Len(s) : s[i] = remote[i]
    BY <1>2, PrefixPoints
  <2>3. Len(s) <= Len(remote')
    <3>1. CASE Len(s) = 0
      BY <1>1, <3>1
    <3>2. CASE Len(s) # 0
      BY <1>1, <2>1, <2>2, <3>2
    <3> QED BY <3>1, <3>2
  <2>4. \A i \in 1 .. Len(s) : s[i] = remote'[i]
    BY <2>1, <2>2
  <2> QED BY <1>1, <2>3, <2>4, PrefixPoints
<1>3. CASE IsPrefix(local, remote)
  BY <1>2, <1>3 DEF UndeliveredIsPending
<1>4. CASE ~IsPrefix(local, remote)
  <2> DEFINE c == local[Len(local)]
  <2>1. local # <<>> /\ IsPrefix(Parent(local), remote) /\ c \in Commands /\ pending[c] # "none"
    BY <1>4 DEF GitInv, UndeliveredIsPending
  <2>2. Found(c)
    BY <2>1 DEF Found
  <2>3. ~Durable(c)
    BY <1>4, <2>1, DeliveredWhole DEF Durable
  <2>4. pending'[c] # "none"
    BY <2>1, <2>2, <2>3, StillPending
  <2>5. Parent(local) \in Seq(Commits)
    BY <2>1 DEF Parent
  <2> QED BY <1>2, <2>1, <2>4, <2>5 DEF UndeliveredIsPending, Parent
<1> QED BY <1>3, <1>4

\* Histories with the same commands at the same places are equally in order.
LEMMA InOrderSame ==
  ASSUME NEW g, NEW h, Placed(h) = Placed(g), \A i \in Placed(g) : h[i] = g[i], InOrder(g)
  PROVE  InOrder(h)
  BY DEF InOrder

\* Commits that carry no trailer show at no place.
LEMMA PlacedAppend ==
  ASSUME NEW h \in Seq(Commits), NEW k \in Commits
  PROVE  /\ Append(h, k) \in Seq(Commits)
         /\ \A i \in DOMAIN h : i < Len(h) + 1 /\ Append(h, k)[i] = h[i]
         /\ Append(h, k)[Len(h) + 1] = k /\ Len(Append(h, k)) = Len(h) + 1
         /\ k \in Commands => Placed(Append(h, k)) = Placed(h) \union {Len(h) + 1}
         /\ k \notin Commands => Placed(Append(h, k)) = Placed(h)
<1>1. /\ Append(h, k) \in Seq(Commits) /\ Len(Append(h, k)) = Len(h) + 1
      /\ \A i \in 1 .. Len(h) : i < Len(h) + 1 /\ Append(h, k)[i] = h[i]
      /\ Append(h, k)[Len(h) + 1] = k
  OBVIOUS
<1>2. DOMAIN h = 1 .. Len(h) /\ DOMAIN Append(h, k) = 1 .. Len(h) \union {Len(h) + 1}
  BY <1>1
<1> QED BY <1>1, <1>2 DEF Placed

LEMMA InOrderAppend ==
  ASSUME NEW h \in Seq(Commits), NEW c \in Commands, InOrder(h),
         BaseOf[c] = StartRevision + Cardinality(Placed(h)),
         \A i \in Placed(h) : RequestOf[h[i]] # RequestOf[c]
  PROVE  /\ InOrder(Append(h, c))
         /\ Cardinality(Placed(Append(h, c))) = Cardinality(Placed(h)) + 1
<1> DEFINE g == Append(h, c)
           n == Len(h) + 1
<1>1. /\ Placed(g) = Placed(h) \union {n} /\ g[n] = c
      /\ \A i \in Placed(h) : i < n /\ g[i] = h[i]
  BY PlacedAppend DEF Placed, Commits
<1>2. Placed(h) \in SUBSET Nat /\ n \in Nat /\ IsFiniteSet(Placed(h))
  BY PlacedType
<1>3. Below(Placed(g), n) = Placed(h)
  BY <1>1, <1>2 DEF Below
<1>4. \A i \in Placed(h) : Below(Placed(g), i) = Below(Placed(h), i)
  BY <1>1, <1>2 DEF Below
<1>5. ASSUME NEW i \in Placed(g), NEW j \in Placed(g), j # i
      PROVE  RequestOf[g[j]] # RequestOf[g[i]]
  BY <1>1, <1>5 DEF InOrder
<1>6. \A i \in Placed(g) : BaseOf[g[i]] = StartRevision + Cardinality(Below(Placed(g), i))
  <2>1. BaseOf[g[n]] = StartRevision + Cardinality(Below(Placed(g), n))
    BY <1>1, <1>3
  <2>2. \A i \in Placed(h) :
           BaseOf[g[i]] = StartRevision + Cardinality(Below(Placed(g), i))
    BY <1>1, <1>4 DEF InOrder
  <2> QED BY <1>1, <2>1, <2>2
<1>7. InOrder(g)
  BY <1>5, <1>6 DEF InOrder
<1>8. n \notin Placed(h)
  BY <1>1, <1>2
<1>9. Cardinality(Placed(h) \union {n}) = Cardinality(Placed(h)) + 1
  BY <1>2, <1>8, FS_AddElement
<1> QED BY <1>1, <1>7, <1>9

\* What holds in the phase of the commit: the transaction is the next of the history.
LEMMA CommitNext ==
  ASSUME TypeOK, WalInv, UndoInv, FilesInv, GitInv, NEW p \in Procs, At(p, "commit")
  PROVE  /\ tx[p] \in Commands /\ ~Found(tx[p]) /\ pending[tx[p]] # "none"
         /\ BaseOf[tx[p]] = StartRevision + Cardinality(Placed(local))
         /\ \A i \in Placed(local) : RequestOf[local[i]] # RequestOf[tx[p]]
         /\ index[MetaPath] = tx[p]
         /\ RemoteRequired => IsPrefix(local, remote)
<1> DEFINE c == tx[p]
<1>1. c \in Commands /\ Touched(c) /\ \A d \in Commands : pending[d] # "none" => d = c
  BY TouchedOne DEF At, Building
<1>2. receipts[RequestOf[c]] = None
  BY DEF WalInv, WalAt, At, Building
<1>3. BaseOf[c] = Revision
  BY <1>1 DEF FilesInv, TreeInv
<1>4. ASSUME NEW d \in Commands, Found(d) PROVE RequestOf[d] # RequestOf[c]
  <2>1. d # c /\ pending[d] = "none"
    BY <1>1, <1>4 DEF Touched
  <2>2. receipts[RequestOf[d]] = d
    BY <1>4, <2>1 DEF WalInv, WalData, RecordTrue
  <2>3. d # None
    BY DistinctAssumption
  <2> QED BY <1>2, <2>2, <2>3
<1>5. \A i \in Placed(local) : local[i] \in Commands /\ Found(local[i])
  BY DEF Placed, Found
<1>6. index[MetaPath] = c
  <2>1. MetaPath \in PathsOf(c) /\ MetaPath \in Paths
    BY DEF PathsOf, Paths
  <2> QED BY <2>1 DEF FilesInv, FileAt, At, Written
<1>7. ASSUME RemoteRequired, ~IsPrefix(local, remote) PROVE FALSE
  <2>1. local # <<>> /\ local[Len(local)] \in Commands /\ pending[local[Len(local)]] # "none"
    BY <1>7 DEF GitInv, UndeliveredIsPending
  <2>2. Len(local) \in DOMAIN local
    BY <2>1 DEF TypeOK, DataOK
  <2>3. Found(c)
    BY <1>1, <2>1, <2>2 DEF Found
  <2> QED BY <1>1, <2>3 DEF Touched
<1> QED BY <1>1, <1>3, <1>4, <1>5, <1>6, <1>7 DEF Touched, GitInv, RevisionIsLength

LEMMA GitCommit ==
  ASSUME TypeOK, WalInv, UndoInv, FilesInv, GitInv, NEW p \in Procs, Commit(p)
  PROVE  GitInv'
<1> USE DEF TypeOK, DataOK
<1> DEFINE c == tx[p]
<1>1. /\ c \in Commands /\ ~Found(c) /\ pending[c] # "none"
      /\ BaseOf[c] = StartRevision + Cardinality(Placed(local))
      /\ \A i \in Placed(local) : RequestOf[local[i]] # RequestOf[c]
      /\ index[MetaPath] = c
      /\ RemoteRequired => IsPrefix(local, remote)
  BY CommitNext DEF Commit
<1>2. /\ local' = Append(local, c) /\ tree' = index /\ c \in Commits
      /\ UNCHANGED <<remote, inflight, pending>>
  BY <1>1 DEF Commit, net, wal, Commits
<1>3. InOrder(local)
  BY DEF GitInv
<1>4. /\ InOrder(local') /\ Cardinality(Placed(local')) = Cardinality(Placed(local)) + 1
  BY <1>1, <1>2, <1>3, InOrderAppend
<1>5. RevisionIsLength'
  <2>1. Revision' = BaseOf[c] + 1
    BY <1>1, <1>2 DEF Revision, RevisionOf
  <2>2. Cardinality(Placed(local)) \in Nat /\ StartRevision \in Nat
    BY PlacedType, CommandsAssumption
  <2> QED BY <1>1, <1>4, <2>1, <2>2 DEF RevisionIsLength
<1>6. /\ \A i \in DOMAIN local : i \in DOMAIN local' /\ local'[i] = local[i]
      /\ Len(local') = Len(local) + 1 /\ local'[Len(local')] = c
      /\ local' \in Seq(Commits)
  BY <1>2
<1>7. ASSUME NEW h \in Seq(Commits), IsPrefix(h, local) PROVE IsPrefix(h, local')
  <2>1. Len(h) <= Len(local) /\ \A i \in 1 .. Len(h) : h[i] = local[i]
    BY <1>7, PrefixPoints
  <2>2. \A i \in 1 .. Len(h) : i \in DOMAIN local
    BY <2>1
  <2>3. Len(h) <= Len(local')
    BY <1>6, <2>1
  <2>4. \A i \in 1 .. Len(h) : h[i] = local'[i]
    BY <1>6, <2>1, <2>2
  <2> QED BY <1>6, <2>3, <2>4, PrefixPoints
<1>8. InflightBehind'
  BY <1>2, <1>7 DEF GitInv, InflightBehind
<1>9. RemoteBehind'
  <2> SUFFICES ASSUME NEW i \in Placed(remote)
               PROVE  i \in DOMAIN local' /\ \A j \in 1 .. i : local'[j] = remote[j]
    BY <1>2 DEF RemoteBehind
  <2>1. i \in DOMAIN local /\ \A j \in 1 .. i : local[j] = remote[j]
    BY DEF GitInv, RemoteBehind
  <2>2. \A j \in 1 .. i : j \in DOMAIN local
    BY <2>1
  <2> QED BY <1>6, <2>1, <2>2
<1>10. UndeliveredIsPending'
  <2>1. Parent(local') = local
    BY <1>2, <1>6 DEF Parent
  <2>2. local' # <<>>
    BY <1>6
  <2> QED BY <1>1, <1>2, <1>6, <2>1, <2>2 DEF UndeliveredIsPending
<1> QED BY <1>4, <1>5, <1>8, <1>9, <1>10 DEF GitInv

\* The fast-forward over commits of others leaves the ledger alone.
LEMMA AdoptSame ==
  ASSUME TypeOK, NeutralAhead
  PROVE  Placed(remote) = Placed(local) /\ \A i \in Placed(local) : remote[i] = local[i]
<1> USE DEF TypeOK, DataOK
<1>1. \A i \in DOMAIN remote : i \in DOMAIN local \/ remote[i] = Neutral
  BY DEF NeutralAhead
<1>2. \A i \in DOMAIN local : i \in DOMAIN remote /\ remote[i] = local[i]
  BY PrefixExtends DEF NeutralAhead, Extends
<1>3. Neutral \notin Commands
  BY DistinctAssumption
<1>4. \A i \in Placed(remote) : i \in Placed(local)
  BY <1>1, <1>2, <1>3 DEF Placed
<1>5. \A i \in Placed(local) : i \in Placed(remote) /\ remote[i] = local[i]
  BY <1>2 DEF Placed
<1> QED BY <1>4, <1>5

LEMMA PrefixTrans ==
  ASSUME NEW S, NEW s \in Seq(S), NEW t \in Seq(S), NEW u \in Seq(S),
         IsPrefix(s, t), IsPrefix(t, u)
  PROVE  IsPrefix(s, u)
<1>1. /\ Len(s) <= Len(t) /\ \A i \in 1 .. Len(s) : s[i] = t[i]
      /\ Len(t) <= Len(u) /\ \A i \in 1 .. Len(t) : t[i] = u[i]
  BY PrefixPoints
<1>2. Len(s) <= Len(u) /\ \A i \in 1 .. Len(s) : s[i] = u[i]
  BY <1>1
<1> QED BY <1>2, PrefixPoints

LEMMA PrefixSelf ==
  ASSUME NEW S, NEW s \in Seq(S)
  PROVE  IsPrefix(s, s)
  BY PrefixPoints

LEMMA GitAdopt ==
  ASSUME TypeOK, GitInv, NeutralAhead, local' = remote,
         UNCHANGED <<tree, remote, inflight>>
  PROVE  GitInv'
<1> USE DEF TypeOK, DataOK
<1>1. Placed(local') = Placed(local) /\ \A i \in Placed(local) : local'[i] = local[i]
  BY AdoptSame
<1>2. InOrder(local')
  BY <1>1, InOrderSame DEF GitInv
<1>3. RevisionIsLength'
  BY <1>1 DEF GitInv, RevisionIsLength, Revision
<1>4. InflightBehind'
  BY PrefixTrans DEF GitInv, InflightBehind, NeutralAhead
<1>5. RemoteBehind'
  BY DEF RemoteBehind, Placed
<1>6. UndeliveredIsPending'
  BY PrefixSelf DEF UndeliveredIsPending
<1> QED BY <1>2, <1>3, <1>4, <1>5, <1>6 DEF GitInv

\* Every other step leaves the local history and its tree alone.
LEMMA GitQuiet ==
  ASSUME TypeOK, DurableInv, WalInv, GitInv, [Next]_vars, UNCHANGED <<tree, local, remote>>,
         \A h \in inflight' : h \in inflight \/ h = local
  PROVE  GitInv'
<1>1. InOrder(local') /\ RevisionIsLength' /\ RemoteBehind'
  BY DEF GitInv, RevisionIsLength, Revision, RemoteBehind
<1>2. InflightBehind'
  BY PrefixSelf DEF GitInv, InflightBehind, TypeOK, DataOK
<1>3. UndeliveredIsPending'
  BY UndeliveredKept
<1> QED BY <1>1, <1>2, <1>3 DEF GitInv

LEMMA GitRemote ==
  ASSUME TypeOK, DurableInv, WalInv, GitInv, Land \/ ExternalPush
  PROVE  GitInv'
<1> USE DEF TypeOK, DataOK
<1>1. UNCHANGED <<tree, local>> /\ \A h \in inflight' : h \in inflight
  BY DEF Land, ExternalPush, git
<1>2. InOrder(local') /\ RevisionIsLength' /\ InflightBehind'
  BY <1>1 DEF GitInv, RevisionIsLength, Revision, InflightBehind
<1>3. UndeliveredIsPending'
  BY <1>1, UndeliveredKept DEF Next, Environment
<1>4. RemoteBehind'
  <2>1. CASE Land
    <3>1. PICK h \in inflight : remote' = h
      BY <2>1 DEF Land
    <3>2. h \in Seq(Commits) /\ IsPrefix(h, local)
      BY <3>1 DEF GitInv, InflightBehind
    <3>3. Len(h) <= Len(local) /\ \A i \in 1 .. Len(h) : h[i] = local[i]
      BY <3>2, PrefixPoints
    <3>4. ASSUME NEW i \in DOMAIN h
          PROVE  i \in DOMAIN local /\ \A j \in 1 .. i : local[j] = h[j]
      <4>1. i \in Nat /\ 1 <= i /\ i <= Len(h) /\ Len(h) \in Nat /\ Len(local) \in Nat
        BY <3>2
      <4>2. i \in 1 .. Len(local) /\ \A j \in 1 .. i : j \in 1 .. Len(h)
        BY <3>3, <4>1
      <4> QED BY <3>3, <4>2
    <3> QED BY <1>1, <3>1, <3>4 DEF RemoteBehind, Placed
  <2>2. CASE ExternalPush
    <3>1. PICK k \in {Neutral, Foreign} : remote' = Append(remote, k)
      BY <2>2 DEF ExternalPush
    <3>2. /\ Placed(remote') = Placed(remote)
          /\ \A i \in DOMAIN remote : remote'[i] = remote[i]
      BY <3>1, PlacedAppend, DistinctAssumption DEF Commits
    <3>3. \A i \in Placed(remote) : \A j \in 1 .. i : j \in DOMAIN remote
      BY DEF Placed
    <3> QED BY <1>1, <3>2, <3>3 DEF GitInv, RemoteBehind
  <2> QED BY <2>1, <2>2
<1> QED BY <1>2, <1>3, <1>4 DEF GitInv

LEMMA GitStep ==
  ASSUME TypeOK, DurableInv, UndoInv, WalInv, FilesInv, GitInv, [Next]_vars
  PROVE  GitInv'
<1>1. ASSUME NEW p \in Procs, RecoverStep(p), ~Resync(p)
      PROVE  UNCHANGED <<tree, local, remote, inflight>>
  BY <1>1 DEF RecoverStep, RecoveryDone, RecoverSettled, RecoverCommitted,
              RecoverUncommitted, RecoveryRefused, git, net
<1>2. ASSUME NEW p \in Procs, RollbackStep(p)
      PROVE  UNCHANGED <<tree, local, remote, inflight>>
  BY <1>2 DEF RollbackStep, Abort, Clear, Restore, Restored, MarkRolledBack,
              ArchiveRolledBack, git, net
<1>3. ASSUME NEW p \in Procs, ExecuteStep(p), ~Preflight(p), ~Commit(p)
      PROVE  UNCHANGED <<tree, local, remote, inflight>>
  BY <1>3 DEF ExecuteStep, Guard, Serve, Lookup, Prepare, Validate, Apply, MarkApplied,
              Stage, Readback, git, net
<1>4. ASSUME NEW p \in Procs, PublishStep(p)
      PROVE  UNCHANGED <<tree, local, remote>> /\ inflight' \subseteq inflight \union {local}
  BY <1>4 DEF PublishStep, Push, PushReturns, VerifyPush, MarkCommitted, PutReceipt,
              ArchiveCommitted, git, net
<1>5. ASSUME NEW p \in Procs,
             \/ Submit(p) \/ Restart(p) \/ Acquire(p) \/ LockTimeout(p)
             \/ PushTimeout(p) \/ Fault(p) \/ Crash(p)
      PROVE  UNCHANGED <<tree, local, remote, inflight>>
  BY <1>5 DEF Submit, Restart, Acquire, LockTimeout, PushTimeout, Fault, Crash, git, net
<1>6. ASSUME Reject \/ Lose \/ AlienEdit \/ UNCHANGED vars
      PROVE  UNCHANGED <<tree, local, remote>> /\ inflight' \subseteq inflight
  BY <1>6 DEF Reject, Lose, AlienEdit, git, net, vars
<1>7. ASSUME NEW p \in Procs, Resync(p) \/ Preflight(p)
      PROVE  GitInv'
  <2>1. UNCHANGED <<tree, remote, inflight>>
    BY <1>7 DEF Resync, Preflight, net
  <2>2. local' = local \/ (NeutralAhead /\ local' = remote)
    BY <1>7 DEF Resync, Preflight
  <2> QED BY <2>1, <2>2, GitQuiet, GitAdopt
<1>8. ASSUME NEW p \in Procs, Commit(p) PROVE GitInv'
  BY <1>8, GitCommit
<1>9. CASE Land \/ ExternalPush
  BY <1>9, GitRemote
<1>10. ASSUME UNCHANGED <<tree, local, remote>>, inflight' \subseteq inflight \union {local}
       PROVE  GitInv'
  BY <1>10, GitQuiet
<1> QED BY <1>1, <1>2, <1>3, <1>4, <1>5, <1>6, <1>7, <1>8, <1>9, <1>10
        DEF Next, Proc, Step, RecoverStep, ExecuteStep, Environment

\* What is local, on the wire and on the remote agree on the commands, their order and
\* their revisions (git.py and remote.py as coordinator.py uses them).
THEOREM GitInvariant == Spec => []GitInv
<1>1. /\ TypeOK /\ DurableInv /\ UndoInv /\ WalInv /\ FilesInv /\ GitInv /\ [Next]_vars
      => GitInv'
  BY GitStep
<1> QED BY GitInit, <1>1, TypeCorrect, DurableInvariant, UndoInvariant, WalInvariant,
           FilesInvariant, PTL DEF Spec

\* The local history is at most one transaction ahead of the remote, and recovery still
\* has the record it needs to deliver it (remote.verify_synchronized before a commit).
THEOREM UndeliveredPending == Spec => []UndeliveredIsPending
<1>1. GitInv => UndeliveredIsPending
  BY DEF GitInv
<1> QED BY <1>1, GitInvariant, PTL

\* What a projection reads can no longer be taken back: with an empty wal/pending and a
\* pristine checkout every byte is of a command that the remote has (campaign_access).
THEOREM ReadersSeeOnlyDurable == Spec => []ReadersSeeDurable
<1>1. TypeOK /\ WalInv /\ FilesInv /\ GitInv => ReadersSeeDurable
  <2> SUFFICES ASSUME TypeOK, WalInv, FilesInv, GitInv, NEW p \in Procs, At(p, "serving"),
                      NEW q \in Paths, work[q] \in Commands
               PROVE  Durable(work[q])
    BY DEF ReadersSeeDurable
  <2> USE DEF TypeOK, DataOK
  <2>1. NothingPending /\ Pristine
    BY DEF At, WalInv, WalAt, Cleared, FilesInv, FileAt, Settling
  <2>2. work[q] = tree[q]
    BY <2>1 DEF Pristine
  <2>3. Found(work[q])
    BY <2>2, DistinctAssumption DEF FilesInv, TreeInv
  <2>4. RemoteRequired => IsPrefix(local, remote)
    BY <2>1 DEF NothingPending, GitInv, UndeliveredIsPending
  <2>5. RemoteRequired => Extends(local, remote)
    BY <2>4, PrefixExtends
  <2> QED BY <2>3, <2>5 DEF Durable, Found, Extends
<1> QED BY <1>1, TypeCorrect, WalInvariant, FilesInvariant, GitInvariant, PTL

(***************************************************************************)
(* The refinement of ExactlyOnceLedger.                                    *)
(***************************************************************************)

LEMMA InOrderPrefix ==
  ASSUME NEW h \in Seq(Commits), NEW g \in Seq(Commits), IsPrefix(h, g), InOrder(g)
  PROVE  InOrder(h)
<1>1. Len(h) <= Len(g) /\ \A i \in 1 .. Len(h) : h[i] = g[i]
  BY PrefixPoints
<1>2. /\ \A i \in Placed(h) : i \in Placed(g) /\ h[i] = g[i] /\ i \in 1 .. Len(h)
      /\ \A i \in Placed(g) : i <= Len(h) => i \in Placed(h)
  BY <1>1 DEF Placed
<1>3. ASSUME NEW i \in Placed(h) PROVE Below(Placed(h), i) = Below(Placed(g), i)
  <2>1. \A j \in Placed(g) : j \in Nat
    BY PlacedType
  <2>2. i \in Nat /\ i <= Len(h) /\ Len(h) \in Nat
    BY <1>2
  <2>3. \A j \in Placed(g) : j < i => j \in Placed(h)
    BY <1>2, <2>1, <2>2
  <2> QED BY <1>2, <2>3 DEF Below
<1> QED BY <1>2, <1>3 DEF InOrder

\* A history in order that grows by a command records that command in the ledger.
LEMMA NextEntry ==
  ASSUME NEW g \in Seq(Commits), NEW c \in Commands, InOrder(Append(g, c))
  PROVE  /\ TxCommits(Append(g, c)) = Append(TxCommits(g), c)
         /\ BaseOf[c] = StartRevision + Len(TxCommits(g))
         /\ \A k \in DOMAIN TxCommits(g) : RequestOf[TxCommits(g)[k]] # RequestOf[c]
<1> DEFINE h == Append(g, c)
           n == Len(g) + 1
<1>1. /\ h \in Seq(Commits) /\ Placed(h) = Placed(g) \union {n} /\ h[n] = c
      /\ \A i \in Placed(g) : i < n /\ h[i] = g[i]
  BY PlacedAppend DEF Placed, Commits
<1>2. Placed(g) \in SUBSET Nat /\ n \in Nat /\ n \notin Placed(g)
  BY <1>1, PlacedType
<1>3. TxCommits(h) = Append(TxCommits(g), h[n])
  BY <1>1, <1>2, CommitsAppend
<1>4. Below(Placed(h), n) = Placed(g)
  BY <1>1, <1>2 DEF Below
<1>5. BaseOf[c] = StartRevision + Len(TxCommits(g))
  BY <1>1, <1>4, CommitsLen DEF InOrder
<1>6. ASSUME NEW k \in DOMAIN TxCommits(g) PROVE RequestOf[TxCommits(g)[k]] # RequestOf[c]
  <2>1. k \in 1 .. Len(TxCommits(g))
    BY CommitsLen
  <2>2. PICK i \in Placed(g) : TxCommits(g)[k] = g[i]
    BY <2>1, CommitsLen
  <2>3. i \in Placed(h) /\ n \in Placed(h) /\ i # n /\ h[i] = g[i]
    BY <1>1, <1>2
  <2>4. RequestOf[h[i]] # RequestOf[h[n]]
    BY <2>3 DEF InOrder
  <2> QED BY <1>1, <2>2, <2>3, <2>4
<1> QED BY <1>1, <1>3, <1>5, <1>6

LEMMA LedgerBegins == Init => LedgerOf!LedgerInit
<1> SUFFICES ASSUME Init PROVE LedgerOf!LedgerInit
  OBVIOUS
<1>1. DurableHistory = <<>> /\ acked = {}
  BY DEF Init, DurableHistory
<1>2. DurableHistory \in Seq(Commits) /\ Placed(DurableHistory) = {}
  BY <1>1 DEF Placed
<1>3. Len(TxCommits(DurableHistory)) = 0 /\ TxCommits(DurableHistory) \in Seq(Commands)
  BY <1>2, CommitsLen, FS_EmptySet
<1> QED BY <1>1, <1>3 DEF LedgerOf!LedgerInit

\* Every step is a step of the ledger or changes nothing of it.
LedgerStutters == TxCommits(DurableHistory)' = TxCommits(DurableHistory) /\ acked' = acked
LedgerMoves    == LedgerOf!LedgerNext \/ LedgerStutters

LEMMA LedgerCommit ==
  ASSUME TypeOK, WalInv, UndoInv, FilesInv, GitInv, NEW p \in Procs, Commit(p)
  PROVE  LedgerMoves
<1> USE DEF TypeOK, DataOK
<1>1. tx[p] \in Commands /\ local' = Append(local, tx[p]) /\ remote' = remote /\ acked' = acked
  BY CommitNext DEF Commit, net
<1>2. CASE RemoteRequired
  BY <1>1, <1>2 DEF LedgerMoves, LedgerStutters, DurableHistory
<1>3. CASE ~RemoteRequired
  <2>1. InOrder(Append(local, tx[p]))
    BY <1>1, GitCommit DEF GitInv
  <2>2. LedgerOf!Record(tx[p])
    BY <1>1, <1>3, <2>1, NextEntry DEF LedgerOf!Record, DurableHistory
  <2> QED BY <1>1, <2>2 DEF LedgerMoves, LedgerOf!LedgerNext
<1> QED BY <1>2, <1>3

LEMMA LedgerLand ==
  ASSUME TypeOK, GitInv, Land
  PROVE  LedgerMoves
<1> USE DEF TypeOK, DataOK
<1>1. PICK h \in inflight : remote = Parent(h) /\ remote' = h
  BY DEF Land
<1>2. h \in Seq(Commits) /\ InOrder(h) /\ local' = local /\ acked' = acked
  BY <1>1, InOrderPrefix DEF Land, GitInv, InflightBehind, git
<1>3. CASE ~RemoteRequired
  BY <1>2, <1>3 DEF LedgerMoves, LedgerStutters, DurableHistory
<1>4. CASE RemoteRequired /\ h = <<>>
  <2>1. remote = <<>>
    BY <1>1, <1>4 DEF Parent
  <2> QED BY <1>1, <1>2, <1>4, <2>1 DEF LedgerMoves, LedgerStutters, DurableHistory
<1>5. CASE RemoteRequired /\ h # <<>>
  <2>1. PICK k \in Commits : h = Append(remote, k)
    <3>1. h[Len(h)] \in Commits /\ h = Append(remote, h[Len(h)])
      BY <1>1, <1>2, <1>5 DEF Parent
    <3> QED BY <3>1
  <2>2. CASE k \in Commands
    <3>1. /\ TxCommits(h) = Append(TxCommits(remote), k)
          /\ BaseOf[k] = StartRevision + Len(TxCommits(remote))
          /\ \A i \in DOMAIN TxCommits(remote) : RequestOf[TxCommits(remote)[i]] # RequestOf[k]
      BY <1>2, <2>1, <2>2, NextEntry
    <3>2. LedgerOf!Record(k)
      BY <1>1, <1>2, <1>5, <3>1 DEF LedgerOf!Record, DurableHistory
    <3> QED BY <2>2, <3>2 DEF LedgerMoves, LedgerOf!LedgerNext
  <2>3. CASE k \notin Commands
    <3>1. Placed(h) = Placed(remote) /\ \A i \in Placed(remote) : h[i] = remote[i]
      BY <2>1, <2>3, PlacedAppend DEF Placed
    <3>2. TxCommits(h) = TxCommits(remote)
      BY <1>2, <2>1, <3>1, CommitsSame
    <3> QED BY <1>1, <1>2, <1>5, <3>2 DEF LedgerMoves, LedgerStutters, DurableHistory
  <2> QED BY <2>2, <2>3
<1> QED BY <1>3, <1>4, <1>5

\* Others push what is no command, and what recovery adopts from them is none.
LEMMA LedgerOthers ==
  ASSUME TypeOK,
         \/ ExternalPush
         \/ \E p \in Procs : Resync(p) \/ Preflight(p)
  PROVE  LedgerMoves
<1> USE DEF TypeOK, DataOK
<1>1. CASE ExternalPush
  <2>1. PICK k \in {Neutral, Foreign} : remote' = Append(remote, k)
    BY <1>1 DEF ExternalPush
  <2>2. /\ Placed(remote') = Placed(remote) /\ remote' \in Seq(Commits)
        /\ \A i \in Placed(remote) : remote'[i] = remote[i]
    BY <2>1, PlacedAppend, DistinctAssumption DEF Commits, Placed
  <2>3. TxCommits(remote') = TxCommits(remote)
    BY <2>2, CommitsSame
  <2> QED BY <1>1, <2>3 DEF ExternalPush, git, LedgerMoves, LedgerStutters, DurableHistory
<1>2. ASSUME NEW p \in Procs, Resync(p) \/ Preflight(p) PROVE LedgerMoves
  <2>1. remote' = remote /\ acked' = acked /\ (local' = local \/ (NeutralAhead /\ local' = remote))
    BY <1>2 DEF Resync, Preflight, net
  <2>2. NeutralAhead => TxCommits(remote) = TxCommits(local)
    BY AdoptSame, CommitsSame
  <2> QED BY <2>1, <2>2 DEF LedgerMoves, LedgerStutters, DurableHistory
<1> QED BY <1>1, <1>2

\* What is answered is in the ledger.
LEMMA LedgerAnswer ==
  ASSUME TypeOK, DurableInv, NEW p \in Procs, Lookup(p) \/ ArchiveCommitted(p)
  PROVE  LedgerMoves
<1> USE DEF TypeOK, DataOK
<1>1. UNCHANGED <<local, remote>>
  BY DEF Lookup, ArchiveCommitted, git, net
<1>2. acked' = acked \/ \E c \in Commands : Durable(c) /\ acked' = acked \union {c}
  <2>1. CASE Lookup(p)
    <3>1. op[p] \in Commands /\ op[p] # None
      BY <2>1, DistinctAssumption DEF Lookup, At, ControlOK, InHand
    <3>2. receipts[RequestOf[op[p]]] = op[p] => Durable(op[p])
      BY <3>1, CommandsAssumption DEF DurableInv, ReceiptIsDurable
    <3> QED BY <2>1, <3>1, <3>2 DEF Lookup
  <2>2. CASE ArchiveCommitted(p)
    <3>1. tx[p] \in Commands
      BY <2>2, InPhase DEF ArchiveCommitted, At, TxPhases, Phases, Outside
    <3> QED BY <2>2, <3>1 DEF ArchiveCommitted, At, DurableInv, Established
  <2> QED BY <2>1, <2>2
<1>3. CASE acked' = acked
  BY <1>1, <1>3 DEF LedgerMoves, LedgerStutters, DurableHistory
<1>4. ASSUME NEW c \in Commands, Durable(c), acked' = acked \union {c}
      PROVE  LedgerMoves
  <2>1. DurableHistory \in Seq(Commits)
    BY DEF DurableHistory
  <2>2. PICK i \in Placed(DurableHistory) : DurableHistory[i] = c
    BY <1>4 DEF DurableHistory, Durable, Found, Placed
  <2>3. PICK k \in 1 .. Len(TxCommits(DurableHistory)) : TxCommits(DurableHistory)[k] = c
    BY <2>1, <2>2, CommitsAll
  <2>4. k \in DOMAIN TxCommits(DurableHistory)
    BY <2>1, <2>3, CommitsLen
  <2>5. TxCommits(DurableHistory)' = TxCommits(DurableHistory)
    BY <1>1 DEF DurableHistory
  <2>6. LedgerOf!Answer(c)
    BY <1>4, <2>3, <2>4, <2>5 DEF LedgerOf!Answer
  <2> QED BY <2>6 DEF LedgerMoves, LedgerOf!LedgerNext
<1> QED BY <1>2, <1>3, <1>4

LEMMA LedgerStep ==
  ASSUME TypeOK, DurableInv, UndoInv, WalInv, FilesInv, GitInv, [Next]_vars
  PROVE  LedgerMoves
<1>1. ASSUME UNCHANGED <<local, remote, acked>> PROVE LedgerMoves
  BY <1>1 DEF LedgerMoves, LedgerStutters, DurableHistory
<1>2. ASSUME NEW p \in Procs, RecoverStep(p), ~Resync(p)
      PROVE  UNCHANGED <<local, remote, acked>>
  BY <1>2 DEF RecoverStep, RecoveryDone, RecoverSettled, RecoverCommitted,
              RecoverUncommitted, RecoveryRefused, git, net
<1>3. ASSUME NEW p \in Procs, RollbackStep(p)
      PROVE  UNCHANGED <<local, remote, acked>>
  BY <1>3 DEF RollbackStep, Abort, Clear, Restore, Restored, MarkRolledBack,
              ArchiveRolledBack, git, net
<1>4. ASSUME NEW p \in Procs, ExecuteStep(p), ~Preflight(p), ~Commit(p), ~Lookup(p)
      PROVE  UNCHANGED <<local, remote, acked>>
  BY <1>4 DEF ExecuteStep, Guard, Serve, Prepare, Validate, Apply, MarkApplied,
              Stage, Readback, git, net
<1>5. ASSUME NEW p \in Procs, PublishStep(p), ~ArchiveCommitted(p)
      PROVE  UNCHANGED <<local, remote, acked>>
  BY <1>5 DEF PublishStep, Push, PushReturns, VerifyPush, MarkCommitted, PutReceipt, git, net
<1>6. ASSUME NEW p \in Procs,
             \/ Submit(p) \/ Restart(p) \/ Acquire(p) \/ LockTimeout(p)
             \/ PushTimeout(p) \/ Fault(p) \/ Crash(p)
      PROVE  UNCHANGED <<local, remote, acked>>
  BY <1>6 DEF Submit, Restart, Acquire, LockTimeout, PushTimeout, Fault, Crash, git, net
<1>7. ASSUME Reject \/ Lose \/ AlienEdit \/ UNCHANGED vars
      PROVE  UNCHANGED <<local, remote, acked>>
  BY <1>7 DEF Reject, Lose, AlienEdit, git, net, vars
<1> QED BY <1>1, <1>2, <1>3, <1>4, <1>5, <1>6, <1>7, LedgerCommit, LedgerLand, LedgerOthers,
           LedgerAnswer
        DEF Next, Proc, Step, RecoverStep, ExecuteStep, PublishStep, Environment

\* The coordinator implements the ledger: whatever crashes, lost answers and pushes of
\* others come between, the durable history grows by one command at a time, each on the
\* revision it was planned for and each request at most once, and "committed" is said
\* only of what it holds (coordinator.execute, _recover_locked, ensure_commit_durable).
THEOREM LedgerRefinement == Spec => Ledger
<1>1. /\ TypeOK /\ DurableInv /\ UndoInv /\ WalInv /\ FilesInv /\ GitInv /\ [Next]_vars
      => [LedgerOf!LedgerNext]_<<TxCommits(DurableHistory), acked>>
  BY LedgerStep DEF LedgerMoves, LedgerStutters
<1> QED BY LedgerBegins, <1>1, TypeCorrect, DurableInvariant, UndoInvariant, WalInvariant,
           FilesInvariant, GitInvariant, PTL DEF Spec, Ledger, LedgerOf!LedgerSpec

=============================================================================
