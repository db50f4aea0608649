--------------------------- MODULE MCBranchBootstrap ---------------------------
(***************************************************************************)
(* Instances of BranchBootstrap for TLC.  Release 3 changes state/ and forgets *)
(* to certify a new baseline; the last one certifies it.                    *)
(***************************************************************************)
EXTENDS BranchBootstrap, TLC

CONSTANTS B1, B2, r1, r2

MCBaselineOf == [n \in 1..Releases |-> IF n < Releases THEN B1 ELSE B2]
MCStateOf    == [n \in 1..Releases |-> IF n < 3 THEN 1 ELSE IF n = 3 THEN 2 ELSE 3]
MCStartRevision == [b \in Baselines |-> IF b = B1 THEN 1 ELSE 3]

Symmetric == Permutations(Requests)

\* Bounds: kills while serving, kills while starting, deployments (those that
\* change the lineage among them), failed renames of the recovery store, lost
\* remote refs, lost volumes.  A ref is lost only in histories of one lineage: the
\* branch of a lineage that was left has no second copy to come back from.
Bounds(play, startup, deploy, lineage, rename, ref, volume) ==
    [k \in Hazards |-> CASE k = "play_kill" -> play [] k = "startup_kill" -> startup
                         [] k = "deploy" -> deploy [] k = "lineage" -> lineage
                         [] k = "rename" -> rename
                         [] k = "lost_ref" -> ref [] k = "volume" -> volume]
AllHazards    == {Bounds(2, 2, 3, 3, 1, 0, 1), Bounds(2, 1, 2, 0, 0, 2, 0)}
OneSwitch     == {Bounds(0, 1, 1, 1, 0, 0, 0)}
KillAndDeploy == {Bounds(1, 0, 1, 1, 0, 0, 0)}
=============================================================================
