----------------------------- MODULE MCCatchUp ------------------------------
(***************************************************************************)
(* Instances of CatchUp for TLC; the constants are numbers.                *)
(***************************************************************************)
EXTENDS CatchUp
=============================================================================
