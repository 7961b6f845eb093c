----------------------------- MODULE MCDispatch -----------------------------
(***************************************************************************)
(* Instances of Dispatch for TLC.                                          *)
(***************************************************************************)
EXTENDS Dispatch, TLC

\* Bound of the run without liveness: a wait is given up in behaviours without
\* restarts and snapshots.
WaitsAlone == used["timeouts"] = 0 \/ used["crashes"] + used["snapshots"] = 0

Symmetric == Permutations(Node) \cup Permutations(Task)
=============================================================================
