---------------------------- MODULE Experiments ----------------------------
(***************************************************************************)
(* The fault side of the chaos bench: one program at a time.  The          *)
(* redelivery loop of exp3 shares nothing with the other threads of the    *)
(* program and is followed by itself ("redeliver"); so is the load of any  *)
(* of them, which is in Bench ("load").                                    *)
(***************************************************************************)
EXTENDS Chaos, Recovery, Redelivery

vars == <<fleetVars, chaosVars, recoveryVars, redeliveryVars>>

Init ==
    /\ experiment \in {"exp1", "repeat", "exp3", "exp4", "redeliver", "load"}
    /\ FleetInit /\ ChaosInit /\ RedeliveryInit
    /\ RecoveryInit /\ (experiment # "exp4" => before = {})
    /\ experiment \in {"redeliver", "load"} => leads = {} /\ proc = [n \in Node |-> "up"]

Next ==
    \/ /\ experiment \in {"exp1", "repeat", "exp3"}
       /\ ChaosNext /\ UNCHANGED <<recoveryVars, redeliveryVars>>
    \/ /\ experiment = "exp4"
       /\ RecoveryNext /\ UNCHANGED <<chaosVars, redeliveryVars>>
    \/ /\ experiment = "redeliver"
       /\ RedeliveryNext /\ UNCHANGED <<fleetVars, chaosVars, recoveryVars>>

\* Heartbeats, scans and the clock go on.
Fairness ==
    /\ WF_vars(experiment = "exp1" /\ Scan /\ UNCHANGED <<recoveryVars, redeliveryVars>>)
    /\ WF_vars(experiment = "exp1" /\ Pass /\ UNCHANGED <<recoveryVars, redeliveryVars>>)
    /\ \A n \in Node :
        WF_vars(experiment = "exp1" /\ Beat(n) /\ UNCHANGED <<chaosVars, recoveryVars, redeliveryVars>>)

Spec == Init /\ [][Next]_vars /\ Fairness
=============================================================================
