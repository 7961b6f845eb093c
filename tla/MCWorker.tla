------------------------------ MODULE MCWorker ------------------------------
(***************************************************************************)
(* Instances of Worker for TLC; workers and tasks are model values.        *)
(***************************************************************************)
EXTENDS Worker
=============================================================================
