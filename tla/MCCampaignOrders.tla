--------------------------- MODULE MCCampaignOrders ---------------------------
(***************************************************************************)
(* One request, and the two ends of the campaign axis, two ticks' ride      *)
(* apart, the front beyond a crossing.                                     *)
(***************************************************************************)
EXTENDS CampaignOrders
CONSTANTS camp_, front, request
=============================================================================
