--------------------------- MODULE MCGateCallers ---------------------------
(***************************************************************************)
(* The gate for TLC; MCGateCallers.cfg gives the lanes and the bounds.     *)
(***************************************************************************)
EXTENDS GateCallers
=============================================================================
