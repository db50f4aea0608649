---------------------------- MODULE MCForceLedger ----------------------------
(***************************************************************************)
(* A force of two roles with one civilian left to recruit.                  *)
(***************************************************************************)
EXTENDS ForceLedger, TLC

CONSTANTS inf, cav

MCReserve == (inf :> 1) @@ (cav :> 1)
=============================================================================
