-------------------------- MODULE MCCampaignGateway --------------------------
(***************************************************************************)
(* Two processes with a thread each.  Command c1 is on the first revision,  *)
(* contested, and wakes the player; c2 is on the next and is a response.    *)
(***************************************************************************)
EXTENDS CampaignGateway, TLC

CONSTANTS p1, p2, t1, t2, c1, c2

MCProcOf == (t1 :> p1) @@ (t2 :> p2)
MCBaseOf == (c1 :> 0) @@ (c2 :> 1)

\* The two processes, each with its thread, are interchangeable.
MCSwap == {(p1 :> p1) @@ (p2 :> p2) @@ (t1 :> t1) @@ (t2 :> t2),
           (p1 :> p2) @@ (p2 :> p1) @@ (t1 :> t2) @@ (t2 :> t1)}
=============================================================================
