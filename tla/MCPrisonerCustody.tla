-------------------------- MODULE MCPrisonerCustody --------------------------
(***************************************************************************)
(* Two custodians of a body each and a garrison of two; a camp with room for *)
(* two and an open field.  The budgets combine what groups come from with    *)
(* what may become of them.                                                 *)
(***************************************************************************)
EXTENDS PrisonerCustody, TLC

CONSTANTS u1, u2, camp, field

MCStrength == (u1 :> 1) @@ (u2 :> 1)
MCRoom     == (camp :> 2) @@ (field :> 9)

MCKinds == {"surrender", "battle", "case", "offer", "move", "death", "dissolve"}

Budget(surrenders, battles, cases, offers, moves, deaths, dissolved) ==
    [k \in MCKinds |->
        CASE k = "surrender" -> surrenders [] k = "battle" -> battles
          [] k = "case" -> cases [] k = "offer" -> offers [] k = "move" -> moves
          [] k = "death" -> deaths [] k = "dissolve" -> dissolved]

MCBudgets ==
    {Budget(2, 1, 0, 0, 0, 1, 0), Budget(1, 1, 0, 1, 0, 1, 0), Budget(1, 1, 0, 0, 1, 0, 0),
     Budget(0, 1, 1, 0, 1, 0, 0), Budget(0, 0, 2, 0, 2, 0, 0), Budget(1, 0, 0, 2, 1, 1, 0),
     Budget(1, 0, 1, 1, 0, 1, 1), Budget(1, 1, 0, 0, 0, 0, 1)}

\* The custodians are alike.
MCSymmetry == Permutations({u1, u2})
=============================================================================
