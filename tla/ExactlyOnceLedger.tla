-------------------------- MODULE ExactlyOnceLedger --------------------------
(***************************************************************************)
(* What the transaction coordinator promises its clients, with nothing of  *)
(* how: a ledger of gameplay commands that grows by one command at a time, *)
(* each on exactly the revision it was planned for and each request id at  *)
(* most once, and an answer "committed" only for what the ledger holds.    *)
(* TxCoordinator implements it (property Ledger there).                    *)
(***************************************************************************)
EXTENDS Naturals, Sequences

CONSTANTS
    Commands,       \* command envelopes
    Requests,       \* their request ids
    RequestOf,      \* [Commands -> Requests]
    BaseOf,         \* [Commands -> Nat]: the revision a command expects
    StartRevision   \* the revision of the empty ledger

VARIABLES
    ledger,         \* the committed commands, oldest first
    answered        \* the commands some client was told are committed

LedgerInit ==
    /\ ledger = <<>>
    /\ answered = {}

Record(c) ==
    /\ BaseOf[c] = StartRevision + Len(ledger)
    /\ \A i \in DOMAIN ledger : RequestOf[ledger[i]] # RequestOf[c]
    /\ ledger' = Append(ledger, c)
    /\ UNCHANGED answered

Answer(c) ==
    /\ \E i \in DOMAIN ledger : ledger[i] = c
    /\ answered' = answered \union {c}
    /\ UNCHANGED ledger

LedgerNext == \E c \in Commands : Record(c) \/ Answer(c)

LedgerSpec == LedgerInit /\ [][LedgerNext]_<<ledger, answered>>
=============================================================================
