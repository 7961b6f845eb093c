------------------------------ MODULE TaskLife ------------------------------
(***************************************************************************)
(* What the tasks table promises its readers: the life of a task's row, as *)
(* the task ingest API, the dispatcher and the workers write it together.  *)
(* Worker is shown to implement it; the load generators and the checkers   *)
(* of the chaos bench, which read the table, stand on it (module Bench).   *)
(***************************************************************************)
CONSTANT Task

VARIABLES
    status,  \* the row's status, "none" before there is a row
    stored   \* the tasks that have a result in S3

lifeVars == <<status, stored>>

LifeInit ==
    /\ status \in [Task -> {"none", "PENDING"}]
    /\ stored = {}

Set(t, s) == status' = [status EXCEPT ![t] = s]

\* The row is put once, PENDING.
Create(t) ==
    /\ status[t] = "none"
    /\ Set(t, "PENDING")
    /\ UNCHANGED stored

\* By the dispatcher or by a worker that starts, restarts or retries the task.
Assign(t) ==
    /\ status[t] \notin {"none", "COMPLETED"}
    /\ Set(t, "ASSIGNED")
    /\ UNCHANGED stored

Fail(t) ==
    /\ status[t] \in {"ASSIGNED", "FAILED"}
    /\ Set(t, "FAILED")
    /\ UNCHANGED stored

PutResult(t) ==
    /\ status[t] # "none"
    /\ stored' = stored \cup {t}
    /\ UNCHANGED status

\* Mutant: the row is updated before the result is put.
CompleteEarly(t) ==
    /\ status[t] \in {"ASSIGNED", "FAILED"}
    /\ Set(t, "COMPLETED")
    /\ UNCHANGED stored

\* Only of a task whose result is there; nothing follows it.
Complete(t) ==
    /\ status[t] \in {"ASSIGNED", "FAILED"} /\ t \in stored
    /\ Set(t, "COMPLETED")
    /\ UNCHANGED stored

\* The steps of the cluster, which does not create rows by itself.
Work(t) == Assign(t) \/ Fail(t) \/ PutResult(t) \/ Complete(t)

LifeNext == \E t \in Task : Create(t) \/ Work(t)

LifeSpec == LifeInit /\ [][LifeNext]_lifeVars
=============================================================================
