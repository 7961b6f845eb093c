----------------------------- MODULE MCObserver -----------------------------
(***************************************************************************)
(* An instance of Observer for TLC.  The static address is one no          *)
(* coordinator has, like the default of COORDINATOR_ADDRS.                 *)
(***************************************************************************)
EXTENDS Observer

CONSTANT Localhost

MCStaticAddrs == <<Localhost>>
=============================================================================
