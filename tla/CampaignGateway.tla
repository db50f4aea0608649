--------------------------- MODULE CampaignGateway ---------------------------
(***************************************************************************)
(* The public surface of the runtime: threads of one or several processes   *)
(* serve reads, previews and executions of commands.  One call takes the    *)
(* campaign lock several times, and nests it: every layer (the operation,   *)
(* the runtime, the coordinator) guards itself with the same re-entrant     *)
(* CampaignLock, so a call is a program of instructions and between two     *)
(* outermost sections of it other threads run.                              *)
(*                                                                         *)
(* A transaction is one step here (TxCoordinator opens it up).              *)
(***************************************************************************)
EXTENDS Integers, Sequences

CONSTANTS
    Procs, Threads,
    ProcOf,         \* [Threads -> Procs]
    Commands,
    BaseOf,         \* [Commands -> Nat]: expected_revision, as commits since the start
    Contested,      \* commands whose outcome a preview hides
    Waking,         \* commands that end with the player being woken
    Responses,      \* commands that answer a pending wake
    Releases,       \* 1..Releases: contract token of the packaged skill
    MaxKills,       \* bound of process deaths
    None

Operations == {"context", "preview", "execute", "post"}
Executions == {"execute", "post"}

ASSUME GatewayAssumption ==
    /\ ProcOf \in [Threads -> Procs]
    /\ BaseOf \in [Commands -> Nat]
    /\ Contested \subseteq Commands /\ Waking \subseteq Commands
    /\ Responses \subseteq Commands
    /\ Releases \in Nat \ {0} /\ MaxKills \in Nat
    /\ None \notin Threads \union Commands \union Operations

VARIABLES
    history,    \* the campaign: committed commands
    flock,      \* the thread whose file handle holds the flock, or None
    depth,      \* per thread, how often it has entered its lease
    planner,    \* per process, the planner's cache: what revision, what is staged
    release,    \* per process, the release it runs
    call,       \* per thread, operation, command, next instruction, what it saw
    tokens,     \* preview attestations handed out
    kills

vars == <<history, flock, depth, planner, release, call, tokens, kills>>

Section(body) == <<"in">> \o body \o <<"out">>

\* play_context behind isolated_public_operation, as every bound operation.
Context == Section(<<"read">>)

\* preview_for_execution: recovery once more, then for a command whose outcome may
\* be shown a plan and its validation, for a contested one its readiness.
Preview(c) == Section(Section(
    Section(<<>>) \o IF c \in Contested THEN <<"ready">>
                     ELSE Section(<<"plan">>) \o Section(<<"bless">>)))

\* ProductionSwordRuntime.execute inside the operation, SwordRuntime.execute inside
\* that, the coordinator innermost: each looks the receipt up again.
Execute == Section(Section(<<"lookup">>) \o
    Section(<<"lookup">> \o Section(<<"lookup", "plan">> \o Section(<<"commit">>))))

Program(op, c) ==
    CASE op = "context" -> Context
      [] op = "preview" -> Section(Context) \o Context \o Preview(c) \o <<"attest">>
      [] op = "execute" -> Section(<<"lookup">>) \o <<"verify">> \o Execute
      [] op = "post"    -> Execute

Idle == [op |-> None, cmd |-> None, at |-> 1, known |-> FALSE, saw |-> None]
Clean == [rev |-> None, staged |-> None]

Revision  == Len(history)
Done(c)   == \E i \in DOMAIN history : history[i] = c
WakePending == history # <<>> /\ history[Len(history)] \in Waking

Running(t) == call[t].op # None
Next_(t)   == Program(call[t].op, call[t].cmd)[call[t].at]
Doing(t, i) == Running(t) /\ Next_(t) = i

\* The thread goes on; with the last instruction its call ends.
Step(t, saw) ==
    LET c == call[t] IN
    call' = [call EXCEPT ![t] =
                IF c.at = Len(Program(c.op, c.cmd)) THEN Idle
                ELSE [c EXCEPT !.at = c.at + 1, !.saw = saw]]

\* The call ends here; with-blocks unwind, so no lease and no flock is left.
End(t) ==
    /\ call' = [call EXCEPT ![t] = Idle]
    /\ depth' = [depth EXCEPT ![t] = 0]
    /\ flock' = IF flock = t THEN None ELSE flock

-----------------------------------------------------------------------------

Init ==
    /\ history = <<>> /\ flock = None
    /\ depth = [t \in Threads |-> 0]
    /\ planner = [p \in Procs |-> Clean]
    /\ release = [p \in Procs |-> 1]
    /\ call = [t \in Threads |-> Idle]
    /\ tokens = {} /\ kills = 0

Start(t) ==
    /\ ~Running(t)
    /\ \E op \in Operations, c \in Commands :
        /\ op = "context" => c = CHOOSE d \in Commands : TRUE
        /\ call' = [call EXCEPT ![t] = [Idle EXCEPT !.op = op, !.cmd = c,
                                        !.known = op \in Executions /\ Done(c)]]
    /\ UNCHANGED <<history, flock, depth, planner, release, tokens, kills>>

\* Mutant: an operation keeps the documents an earlier one cached.
KeptCache(p) == planner[p]

\* campaign_access: the outermost entry forgets every cached owner.
Fresh(p) == Clean

\* CampaignLock.__enter__: a thread that has the lease only counts; another one
\* needs the flock.
Enter(t) ==
    /\ Doing(t, "in")
    /\ \/ /\ depth[t] > 0
          /\ UNCHANGED <<flock, planner>>
       \/ /\ depth[t] = 0 /\ flock = None
          /\ flock' = t
          /\ planner' = [planner EXCEPT ![ProcOf[t]] = Fresh(ProcOf[t])]
    /\ depth' = [depth EXCEPT ![t] = @ + 1]
    /\ Step(t, None)
    /\ UNCHANGED <<history, release, tokens, kills>>

\* The time-out of the flock while another thread works.
Busy(t) ==
    /\ Doing(t, "in") /\ depth[t] = 0 /\ flock # None
    /\ End(t)
    /\ UNCHANGED <<history, planner, release, tokens, kills>>

\* Mutant: every exit unlocks.
UnlockAlways(t) == None

\* Only the exit that takes the count to zero unlocks.
Unlock(t) == IF depth[t] = 1 THEN None ELSE flock

\* CampaignLock.__exit__.
Exit(t) ==
    /\ Doing(t, "out")
    /\ depth' = [depth EXCEPT ![t] = @ - 1]
    /\ flock' = Unlock(t)
    /\ Step(t, None)
    /\ UNCHANGED <<history, planner, release, tokens, kills>>

\* A projection that consults planner helpers: cached owners and staged writes win
\* over the files.
Read(t) ==
    LET p    == ProcOf[t]
        seen == IF planner[p].rev = None THEN Revision ELSE planner[p].rev
    IN
    /\ Doing(t, "read")
    /\ planner' = [planner EXCEPT ![p].rev = seen]
    /\ Step(t, IF planner[p].staged = None THEN seen ELSE seen + 1)
    /\ UNCHANGED <<history, flock, depth, release, tokens, kills>>

\* require_revision: the base is the current revision.
OnBase(c) == BaseOf[c] = Revision

Awake(c) == WakePending => c \in Responses

\* RepositoryCommandPlanner.preview: forget everything, check, dispatch, stage.
Plan(t) ==
    LET c == call[t].cmd IN
    /\ Doing(t, "plan")
    /\ Awake(c) /\ OnBase(c)
    /\ planner' = [planner EXCEPT ![ProcOf[t]] = [rev |-> Revision, staged |-> c]]
    /\ Step(t, None)
    /\ UNCHANGED <<history, flock, depth, release, tokens, kills>>

\* A contested command is checked and not dispatched; validate_preview_plan.
Ready(t) ==
    LET c == call[t].cmd IN
    /\ Doing(t, "ready") \/ Doing(t, "bless")
    /\ Awake(c) /\ OnBase(c)
    /\ Step(t, None)
    /\ UNCHANGED <<history, flock, depth, planner, release, tokens, kills>>

\* The attestation of a successful preview is made outside the lock.
Attest(t) ==
    /\ Doing(t, "attest")
    /\ tokens' = tokens \union {[cmd |-> call[t].cmd, release |-> release[ProcOf[t]]]}
    /\ Step(t, None)
    /\ UNCHANGED <<history, flock, depth, planner, release, kills>>

\* Mutant: a receipt is only looked for by the transaction itself.
FoundLate(t) == Done(call[t].cmd) /\ depth[t] > 2

Found(t) == Done(call[t].cmd)

\* lookup_receipt: a command that is recorded is answered, whatever else holds now.
Lookup(t) ==
    /\ Doing(t, "lookup")
    /\ \/ Found(t) /\ End(t)
       \/ ~Found(t) /\ Step(t, None) /\ UNCHANGED <<depth, flock>>
    /\ UNCHANGED <<history, planner, release, tokens, kills>>

\* Mutant: the attestation of another release will do.
LooselyAttested(t) == \E k \in tokens : k.cmd = call[t].cmd

\* _verify_preview_attestation.
Attested(t) == [cmd |-> call[t].cmd, release |-> release[ProcOf[t]]] \in tokens

Verify(t) ==
    /\ Doing(t, "verify")
    /\ Attested(t) /\ Step(t, None)
    /\ UNCHANGED <<history, flock, depth, planner, release, tokens, kills>>

Commit(t) ==
    LET c == call[t].cmd IN
    /\ Doing(t, "commit")
    /\ OnBase(c)
    /\ history' = Append(history, c)
    /\ Step(t, None)
    /\ UNCHANGED <<flock, depth, planner, release, tokens, kills>>

\* A check that fails is an exception and unwinds the call.  An attestation expires,
\* so it may be refused at any time.
Refuse(t) ==
    LET c == call[t].cmd IN
    /\ Running(t)
    /\ \/ Next_(t) \in {"plan", "ready", "bless"} /\ ~(Awake(c) /\ OnBase(c))
       \/ Next_(t) = "verify"
       \/ Next_(t) = "commit" /\ ~OnBase(c)
    /\ End(t)
    /\ UNCHANGED <<history, planner, release, tokens, kills>>

\* A process dies, its leases with it, and the kernel drops its flock; another one
\* takes its place, of the same release or of the next.
Replace(p) ==
    /\ kills < MaxKills /\ kills' = kills + 1
    /\ depth' = [t \in Threads |-> IF ProcOf[t] = p THEN 0 ELSE depth[t]]
    /\ call' = [t \in Threads |-> IF ProcOf[t] = p THEN Idle ELSE call[t]]
    /\ flock' = IF flock # None /\ ProcOf[flock] = p THEN None ELSE flock
    /\ planner' = [planner EXCEPT ![p] = Clean]
    /\ \E r \in release[p]..Releases : release' = [release EXCEPT ![p] = r]
    /\ UNCHANGED <<history, tokens>>

Work(t) ==
    \/ Start(t) \/ Enter(t) \/ Busy(t) \/ Exit(t) \/ Read(t) \/ Plan(t) \/ Ready(t)
    \/ Attest(t) \/ Lookup(t) \/ Verify(t) \/ Commit(t) \/ Refuse(t)

Next ==
    \/ \E t \in Threads : Work(t)
    \/ \E p \in Procs : Replace(p)

Spec == Init /\ [][Next]_vars

-----------------------------------------------------------------------------

(***************************************************************************)
(* A thread works in the campaign exactly while it holds the flock: leaving *)
(* an inner section does not end the outer one (CampaignLock, locking.py    *)
(* 99-124), and a call that was refused or killed holds nothing.            *)
(***************************************************************************)
LeaseHeld ==
    /\ \A t \in Threads : depth[t] > 0 <=> flock = t
    /\ \A t \in Threads : ~Running(t) => depth[t] = 0

(***************************************************************************)
(* What a public read shows is the committed state at that moment: neither  *)
(* an earlier revision that another process has replaced nor the staged     *)
(* writes of a preview or of a refused command (campaign_access.py 19).     *)
(***************************************************************************)
ReadsCurrent ==
    \A t \in Threads : call[t].saw # None => call[t].saw = Revision

(***************************************************************************)
(* A command that the MCP surface executed had been previewed by the same   *)
(* release, and ran on the revision that the preview was of (mcp.py 692:    *)
(* "Requires the exact complete previewed command"), although any number    *)
(* of calls ran between the two.                                            *)
(***************************************************************************)
ExecutedAsPreviewed ==
    [][\A t \in Threads : Commit(t) /\ call[t].op = "execute" =>
            /\ BaseOf[call[t].cmd] = Revision
            /\ \E k \in tokens : k.cmd = call[t].cmd /\ k.release = release[ProcOf[t]]]_vars

(***************************************************************************)
(* A retry is never refused: an execution that ends in refusal is of a      *)
(* command that was not recorded when the call came in, even when its base  *)
(* is stale by then, its attestation expired or a wake pending              *)
(* (service_runtime.py 348: "Retries remain valid").                        *)
(***************************************************************************)
RetryAnswered ==
    [][\A t \in Threads : Refuse(t) => ~call[t].known]_vars
=============================================================================
