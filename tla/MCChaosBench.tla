---------------------------- MODULE MCChaosBench ----------------------------
(***************************************************************************)
(* Instances of Bench and of Experiments for TLC: the load generators or   *)
(* one of the fault programs, each by itself.  The two share the AWS       *)
(* account and no state of the bench, and no property is about both.       *)
(***************************************************************************)
EXTENDS Bench, Experiments, TLC

allVars == <<benchVars, vars>>

\* The load generators are started, or they have nothing to do.
MCLoad ==
    IF experiment = "load" THEN BenchInit ELSE NoLoad /\ exp = "bench" /\ phase = "closed"

\* Nodes differ only by name, so one of each pair of initial states that differ
\* only in the names is enough: the node that is not up, or else the leader, is
\* always the same.
MCInit ==
    /\ Init /\ MCLoad
    /\ LET first == CHOOSE n \in Node : TRUE
       IN  IF \A n \in Node : proc[n] = "up" THEN leads \subseteq {first}
                                             ELSE proc[first] # "up"

MCNext ==
    \/ experiment = "load" /\ BenchNext /\ UNCHANGED vars
    \/ Next /\ UNCHANGED benchVars

MCSpec == MCInit /\ [][MCNext]_allVars /\ Fairness /\ BenchFairness
=============================================================================
