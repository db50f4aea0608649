--------------------------- MODULE MCTxCoordinator ---------------------------
(***************************************************************************)
(* Instances of TxCoordinator for TLC.  c1 and c2 are two clients' commands *)
(* on the first revision, c2 writing one more owner; c3 reuses c1's request *)
(* id with other bytes on the next revision.                               *)
(***************************************************************************)
EXTENDS TxCoordinator, TLC

CONSTANTS p1, p2, c1, c2, c3, r1, r2, a, b

\* The request id, the base revision and the owners of each command.
MCRequestOf == [c \in Commands |-> IF c = c2 THEN r2 ELSE r1]
MCBaseOf    == [c \in Commands |-> IF c = c3 THEN 2 ELSE 1]
MCWritesOf  == [c \in Commands |-> IF c = c1 THEN {a} ELSE IF c = c2 THEN {a, b} ELSE {b}]

Symmetric == Permutations(Procs)

\* Bounds: kills, ordinary faults (with lost and timed-out pushes), pushes by
\* others, edits by an operator.
Bounds(crash, fault, push, edit) ==
    [k \in Hazards |-> CASE k = "crash" -> crash [] k = "fault" -> fault
                         [] k = "push" -> push [] k = "edit" -> edit]
AllHazards == {Bounds(2, 2, 0, 0), Bounds(1, 1, 1, 1)}
OneOfEach == {Bounds(1, 1, 0, 0)}
=============================================================================
