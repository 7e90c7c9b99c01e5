------------------------------ MODULE MCStorage ------------------------------
(***************************************************************************)
(* Instances of Storage for TLC.                                           *)
(***************************************************************************)
EXTENDS Storage
=============================================================================
