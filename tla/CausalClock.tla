----------------------------- MODULE CausalClock -----------------------------
(* What the scheduler promises.  The campaign's clock stands at an instant;    *)
(* every obligation of the world falls due at an instant of its own.  An       *)
(* obligation is settled when the clock stands at its instant, each instant of *)
(* it once, earlier ones first and, at one instant, by rank; the clock never   *)
(* passes one that is not settled.  A command that advances the clock works on *)
(* a draft: either all of it becomes the mark, or nothing does.                *)
EXTENDS Naturals

CONSTANT Obligations            \* ranked: a subset of Nat

VARIABLES
    now,                        \* the clock of the draft
    due,                        \* of each open obligation, its instant
    mark                        \* clock and obligations that are committed

cvars == <<now, due, mark>>

NonePassed(clock, open) ==
    /\ DOMAIN open \subseteq Obligations
    /\ \A x \in DOMAIN open : open[x] \in Nat /\ open[x] >= clock

ClockInit ==
    /\ now \in Nat
    /\ NonePassed(now, due)
    /\ mark = [now |-> now, due |-> due]

First(x) ==
    /\ x \in DOMAIN due
    /\ \A y \in DOMAIN due : due[x] < due[y] \/ (due[x] = due[y] /\ x <= y)

(* The first obligation is settled at its instant, and may open and close      *)
(* others; it is done, or due again strictly later.                            *)
Settle(x) ==
    /\ First(x)
    /\ now' = due[x]
    /\ NonePassed(now', due')
    /\ x \in DOMAIN due' => due'[x] > due[x]
    /\ UNCHANGED mark

(* Nothing falls due before the instant the clock moves to.                    *)
Pass ==
    /\ now' > now
    /\ due' = due
    /\ NonePassed(now', due')
    /\ UNCHANGED mark

(* Between settlements obligations are opened, closed and suspended.           *)
Arrange ==
    /\ now' = now
    /\ NonePassed(now', due')
    /\ UNCHANGED mark

Commit ==
    /\ now' = now
    /\ NonePassed(now', due')
    /\ mark' = [now |-> now', due |-> due']

Abandon ==
    /\ now' = mark.now
    /\ due' = mark.due
    /\ UNCHANGED mark

ClockNext == (\E x \in Obligations : Settle(x)) \/ Pass \/ Arrange \/ Commit \/ Abandon

ClockSpec == ClockInit /\ [][ClockNext]_cvars
=============================================================================
