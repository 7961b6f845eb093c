-------------------------------- MODULE Fleet --------------------------------
(***************************************************************************)
(* The coordinators as the chaos bench sees and handles them: one ECS      *)
(* service each, whose task is stopped and replaced, and one row each in   *)
(* the peers table, which tells leadership as of the last heartbeat        *)
(* (raft/peers/peers.go); find_leader (chaos-bench/leader_detect.py) and   *)
(* the stop of a task (chaos-bench/chaos.py).                              *)
(*                                                                         *)
(* Time is counted in ticks and kept as ages; an age past Stale makes no   *)
(* further difference.  Who is elected and when is left open: the bench    *)
(* takes what Raft gives it, two leaders at a time included.               *)
(***************************************************************************)
EXTENDS Integers, FiniteSets

CONSTANTS
    Node,   \* the coordinators, each with its service
    Nobody, \* no node
    Stale,  \* three seconds, in ticks
    MaxElections, MaxKills, \* bounds
    MaxLapses               \* bound: calls that fail and late heartbeats

ASSUME FleetAssumption ==
    /\ IsFiniteSet(Node) /\ Nobody \notin Node
    /\ Stale \in Nat \ {0} /\ {MaxElections, MaxKills, MaxLapses} \subseteq Nat

VARIABLES
    proc,   \* each node's task: "up", "stopping", "down", "starting" or "doomed"
    leads,  \* the nodes that lead, or believe they do
    row,    \* the peers table: is_leader and the age of heartbeat_ts
    used    \* how much of each bound has been used

fleetVars == <<proc, leads, row, used>>

Old == Stale + 1
Older(a) == IF a < Old THEN a + 1 ELSE a

\* A cluster that has a leader or not, and may be short of a coordinator that
\* is being replaced and has left a row of any kind.
FleetInit ==
    /\ \E n \in Node, p \in {"up", "down", "starting"}, mark \in BOOLEAN, a \in {0, Old} :
        /\ proc = [m \in Node |-> IF m = n THEN p ELSE "up"]
        /\ leads \in {{}} \cup {{m} : m \in {m \in Node : proc[m] = "up"}}
        /\ p = "up" => a = 0 /\ mark = (n \in leads)
        /\ row = [m \in Node |-> IF m = n THEN [mark |-> mark, age |-> a]
                                 ELSE [mark |-> m \in leads, age |-> 0]]
    /\ used = [b \in {"elections", "kills", "lapses"} |-> 0]

Spend(b, max) ==
    /\ used[b] < max
    /\ used' = [used EXCEPT ![b] = @ + 1]

\* A task that was told to stop runs on until it gets its SIGTERM.
Running == {n \in Node : proc[n] \in {"up", "stopping"}}

SetProc(n, p) == proc' = [proc EXCEPT ![n] = p]
Write(n, mark) == row' = [row EXCEPT ![n] = [mark |-> mark, age |-> 0]]

-----------------------------------------------------------------------------
(***************************************************************************)
(* Coordinators and ECS                                                    *)
(***************************************************************************)
Elect(n) ==
    /\ n \in Running \ leads /\ Spend("elections", MaxElections)
    /\ leads' = leads \cup {n}
    /\ UNCHANGED <<proc, row>>

StepDown(n) ==
    /\ n \in leads
    /\ leads' = leads \ {n}
    /\ UNCHANGED <<proc, row, used>>

\* The row stays as it was.
Exit(n) ==
    /\ proc[n] \in {"stopping", "doomed"}
    /\ SetProc(n, "down") /\ leads' = leads \ {n}
    /\ UNCHANGED <<row, used>>

\* The service starts another task, which ECS lists from now on.
Replace(n) ==
    /\ proc[n] = "down"
    /\ SetProc(n, "starting")
    /\ UNCHANGED <<leads, row, used>>

\* The task is up and Registers; it may have been told to stop by now.
Boot(n) ==
    /\ proc[n] \in {"starting", "doomed"}
    /\ SetProc(n, IF proc[n] = "starting" THEN "up" ELSE "stopping")
    /\ Write(n, FALSE)
    /\ UNCHANGED <<leads, used>>

\* StartHeartbeat, when the PutItem succeeds.
Beat(n) ==
    /\ n \in Running
    /\ Write(n, n \in leads)
    /\ UNCHANGED <<proc, leads, used>>

\* The table's TTL drops a row; one that is gone reads as an old unmarked one.
Expire(n) ==
    /\ row[n].mark /\ row[n].age = Old
    /\ row' = [row EXCEPT ![n].mark = FALSE]
    /\ UNCHANGED <<proc, leads, used>>

\* Heartbeats are six to a Stale; to miss them all is a fault.
FleetTick ==
    /\ IF \E n \in Running : row[n].age >= Stale
       THEN Spend("lapses", MaxLapses)
       ELSE UNCHANGED used
    /\ row' = [n \in Node |-> [row[n] EXCEPT !.age = Older(@)]]
    /\ UNCHANGED <<proc, leads>>

FleetChange(n) ==
    StepDown(n) \/ Exit(n) \/ Replace(n) \/ Beat(n) \/ Expire(n)

-----------------------------------------------------------------------------
(***************************************************************************)
(* leader_detect.py and chaos.py                                           *)
(***************************************************************************)
Marked == {n \in Node : row[n].mark}

\* find_leader: the first row that is marked, whatever its age, in an order
\* the table chooses; without one, a node that says so itself at /state, if
\* the bench runs where that can be reached; else None.
FindLeader ==
    IF Marked # {} THEN Marked ELSE leads \cup {Nobody}

\* _running_tasks: desiredStatus RUNNING.
Listed(n) == proc[n] \in {"up", "starting"}

\* What stop_task makes of a task.
Told(p) ==
    CASE p = "up" -> "stopping" [] p = "starting" -> "doomed" [] OTHER -> p

\* stop_random_task of n's service.
StopTask(n) ==
    /\ Listed(n) /\ Spend("kills", MaxKills)
    /\ SetProc(n, Told(proc[n]))
    /\ UNCHANGED <<leads, row>>
=============================================================================
