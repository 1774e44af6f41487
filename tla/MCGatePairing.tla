--------------------------- MODULE MCGatePairing ---------------------------
(* Gates for TLC: the list holds fewer than there are. *)
EXTENDS GatePairing, TLC

CONSTANTS g1, g2, g3
=============================================================================
