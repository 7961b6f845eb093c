-------------------------------- MODULE Bench --------------------------------
(***************************************************************************)
(* The load generators of the chaos bench and what their reports say       *)
(* (chaos-bench/: submitter.py, recorder.py, bench.py, exp1.py, exp3.py,   *)
(* exp4.py, divergence_scan.py; experiments/lincheck).  A pool of threads  *)
(* submits tasks, another polls each one until it is settled or overdue,   *)
(* all write to one history file, and the main thread closes the file and  *)
(* draws its conclusions from it and from the tasks table.                 *)
(*                                                                         *)
(* The cluster behind the table does what TaskLife says.                   *)
(***************************************************************************)
EXTENDS TaskLife, Integers, FiniteSets

CONSTANTS
    PollThreads,  \* max_workers of poll_pool
    MaxFaults     \* bound: S3, DynamoDB and SQS calls of the bench that fail

ASSUME BenchAssumption ==
    PollThreads \in Nat \ {0} /\ MaxFaults \in Nat

VARIABLES
    exp,      \* the program: "bench", "exp1", "exp3" or "exp4"
    phase,    \* the main thread: "load", "drain", "closed" or "scanned"
    job,      \* how far the submission and the polling of each task are
    submits,  \* the history: the tasks with a submit line
    outcome,  \*   the status of each task's complete or timeout line, or "none"
    code,     \*   the highest status code of each task's poll_observe lines
    backward, \*   the tasks with a line of a lower code after a higher one
    cut,      \* history: the tasks that were being submitted or polled at close
    scanned,  \* divergence_scan: the status read of each task, or "unread"
    faults

historyVars == <<submits, outcome, code, backward>>
benchVars == <<lifeVars, exp, phase, job, historyVars, cut, scanned, faults>>

\* Nothing is submitted and the history is empty.
NoLoad ==
    /\ status = [t \in Task |-> "none"] /\ stored = {}
    /\ job = [t \in Task |-> "new"]
    /\ submits = {} /\ outcome = [t \in Task |-> "none"]
    /\ code = [t \in Task |-> 0] /\ backward = {}
    /\ cut = {} /\ scanned = [t \in Task |-> "unread"]
    /\ faults = 0

BenchInit ==
    /\ NoLoad
    /\ exp \in {"bench", "exp1", "exp3", "exp4"} /\ phase = "load"

Closed == phase \in {"closed", "scanned"}

Goto(t, pc) == job' = [job EXCEPT ![t] = pc]

\* An exception in a pool's thread ends its call and is seen by nobody.
Raise(t) ==
    /\ faults < MaxFaults /\ faults' = faults + 1
    /\ Goto(t, "raised")

ClusterWorks(t) ==
    /\ Work(t)
    /\ UNCHANGED <<exp, phase, job, historyVars, cut, scanned, faults>>

-----------------------------------------------------------------------------
(***************************************************************************)
(* do_submit, with Submitter.submit                                        *)
(***************************************************************************)

\* The payload goes to S3, for as long as the load lasts.
PutPayload(t) ==
    /\ job[t] = "new" /\ phase = "load"
    /\ Goto(t, "payload")
    /\ UNCHANGED <<lifeVars, exp, phase, historyVars, cut, scanned, faults>>

PutRow(t) ==
    /\ job[t] = "payload"
    /\ Create(t)
    /\ Goto(t, "row")
    /\ UNCHANGED <<exp, phase, historyVars, cut, scanned, faults>>

SendMessage(t) ==
    /\ job[t] = "row"
    /\ Goto(t, "sent")
    /\ UNCHANGED <<lifeVars, exp, phase, historyVars, cut, scanned, faults>>

\* A call of submit raises.  Whether it is caught (submit_error) or not
\* (run_bench), the task is not polled.
SubmitFails(t) ==
    /\ job[t] \in {"payload", "row"} \/ (job[t] = "new" /\ phase = "load")
    /\ Raise(t)
    /\ UNCHANGED <<lifeVars, exp, phase, historyVars, cut, scanned>>

\* record, then a call for the poll pool; record raises once the file is closed.
RecordSubmit(t) ==
    /\ job[t] = "sent"
    /\ IF Closed THEN Goto(t, "raised") /\ UNCHANGED submits
                 ELSE Goto(t, "waiting") /\ submits' = submits \cup {t}
    /\ UNCHANGED <<lifeVars, exp, phase, outcome, code, backward, cut, scanned, faults>>

-----------------------------------------------------------------------------
(***************************************************************************)
(* _poll_to_completion and _poll_to_completion_traced                      *)
(***************************************************************************)

\* A thread of the pool is free; the deadline counts from here.
StartPolling(t) ==
    /\ job[t] = "waiting"
    /\ Cardinality({u \in Task : job[u] = "polling"}) < PollThreads
    /\ Goto(t, "polling")
    /\ UNCHANGED <<lifeVars, exp, phase, historyVars, cut, scanned, faults>>

\* statusCode of lincheck
StatusCode(s) ==
    IF s = "PENDING" THEN 1 ELSE IF s = "ASSIGNED" THEN 2 ELSE 3

\* The poller's last line; record raises once the file is closed.
RecordOutcome(t, s) ==
    IF Closed THEN Goto(t, "raised") /\ UNCHANGED outcome
              ELSE Goto(t, "done") /\ outcome' = [outcome EXCEPT ![t] = s]

\* Mutant: a failed task is not settled, because it is retried.
OnlyCompleted(s) == s = "COMPLETED"

Settled(s) == s \in {"COMPLETED", "FAILED"}

\* poll_observe, in the traced version; as lincheck's monotone model folds the
\* lines of a task: the highest code so far, and whether one was lower.
PollObserve(t) ==
    IF exp = "exp3" /\ ~Closed
    THEN /\ code' = [code EXCEPT ![t] = IF StatusCode(status[t]) > @
                                        THEN StatusCode(status[t]) ELSE @]
         /\ backward' = IF StatusCode(status[t]) < code[t]
                        THEN backward \cup {t} ELSE backward
    ELSE UNCHANGED <<code, backward>>

\* poll_status, and its line if it settles the task.
Poll(t) ==
    /\ job[t] = "polling"
    /\ PollObserve(t)
    /\ IF Settled(status[t]) THEN RecordOutcome(t, status[t])
                             ELSE UNCHANGED <<job, outcome>>
    /\ UNCHANGED <<lifeVars, exp, phase, submits, cut, scanned, faults>>

\* poll_status raises: the poller is gone without a line.
PollFails(t) ==
    /\ job[t] = "polling"
    /\ Raise(t)
    /\ UNCHANGED <<lifeVars, exp, phase, historyVars, cut, scanned>>

\* Mutant: there is no deadline.
NoDeadline(t) == FALSE /\ UNCHANGED benchVars

\* completion_timeout_s is over.
Deadline(t) ==
    /\ job[t] = "polling"
    /\ RecordOutcome(t, "TIMEOUT")
    /\ UNCHANGED <<lifeVars, exp, phase, submits, code, backward, cut, scanned, faults>>

-----------------------------------------------------------------------------
(***************************************************************************)
(* The main thread                                                         *)
(***************************************************************************)

\* The duration is over, or the target count of exp3 is reached.
StopLoad ==
    /\ phase = "load"
    /\ exp = "exp3" => \A t \in Task : job[t] # "new"
    /\ phase' = "drain"
    /\ UNCHANGED <<lifeVars, exp, job, historyVars, cut, scanned, faults>>

\* Mutant: the submit pool is shut down, the poll pool is not.
SubmitsEnded(t) == job[t] \in {"new", "waiting", "polling", "done", "raised"}

\* shutdown(wait=True) of both pools has nothing of the task to wait for.
Ended(t) == job[t] \in {"new", "done", "raised"}

\* exp1 and exp4 join the bench thread for a limited time only.
JoinTimesOut == exp \in {"exp1", "exp4"}

\* run_end and close.
Close ==
    /\ phase = "drain"
    /\ (\A t \in Task : Ended(t)) \/ JoinTimesOut
    /\ phase' = "closed"
    /\ cut' = {t \in Task : ~(job[t] \in {"new", "done", "raised"})}
    /\ UNCHANGED <<lifeVars, exp, job, historyVars, scanned, faults>>

\* Mutant: UnprocessedKeys are not asked for again.
AfterOneBatch(left) == "scanned"

\* The loop of scan ends when there is nothing to_fetch.
AfterBatch(left) == IF left = {} THEN "scanned" ELSE "closed"

\* analyze of exp3, divergence_scan: one batch_get_item for the tasks of the
\* history that are still to fetch; the ones it leaves out come with the next.
ScanBatch ==
    /\ exp = "exp3" /\ phase = "closed"
    /\ LET toFetch == {t \in submits : scanned[t] = "unread"}
       IN  \E got \in SUBSET toFetch :
            /\ got # {} \/ toFetch = {}
            /\ scanned' = [t \in Task |-> IF t \in got THEN status[t] ELSE scanned[t]]
            /\ phase' = AfterBatch(toFetch \ got)
    /\ UNCHANGED <<lifeVars, exp, job, historyVars, cut, faults>>

-----------------------------------------------------------------------------
Submitting(t) == PutPayload(t) \/ PutRow(t) \/ SendMessage(t) \/ RecordSubmit(t)

MainThread == StopLoad \/ Close \/ ScanBatch

BenchNext ==
    \/ MainThread
    \/ \E t \in Task :
        \/ ClusterWorks(t) \/ Submitting(t) \/ SubmitFails(t)
        \/ StartPolling(t) \/ Poll(t) \/ PollFails(t) \/ Deadline(t)

\* The main thread runs, and as long as a thread of a pool has something to do,
\* or a deadline to reach, one of them gets on.
BenchFairness ==
    /\ WF_benchVars(MainThread)
    /\ WF_benchVars(\E t \in Task : Submitting(t) \/ StartPolling(t) \/ Deadline(t))

BenchSpec == BenchInit /\ [][BenchNext]_benchVars /\ BenchFairness

-----------------------------------------------------------------------------
Job == {"new", "payload", "row", "sent", "waiting", "polling", "done", "raised"}

\* Every variable keeps its type, and the history is about tasks that are there:
\* a line of an outcome follows a submit line, and that follows the row.
BenchTypeOK ==
    /\ job \in [Task -> Job]
    /\ status \in [Task -> {"none", "PENDING", "ASSIGNED", "FAILED", "COMPLETED"}]
    /\ outcome \in [Task -> {"none", "COMPLETED", "FAILED", "TIMEOUT"}]
    /\ code \in [Task -> 0..3]
    /\ submits \subseteq {t \in Task : status[t] # "none"}
    /\ \A t \in Task : outcome[t] # "none" => t \in submits

\* "lost" of the reports, max(0, submitted - completed - timed_out), as the
\* tasks it counts.
Lost == {t \in submits : outcome[t] = "none"}

\* A task the reports call lost is one the harness lost sight of, never one
\* the cluster lost (that one is a timeout): its poller raised, or was at work
\* when a join with a timeout gave up and the history was closed under it.
\* In exp3 and in a plain bench only the former can be.
LostCause ==
    Closed => \A t \in Lost :
                \/ job[t] = "raised" /\ t \notin cut
                \/ t \in cut /\ exp \in {"exp1", "exp4"}

\* What the history says of a completed task is true of the table, and stays
\* so while the report is written: COMPLETED, with a result to fetch.
CompletedLineHolds ==
    \A t \in Task : outcome[t] = "COMPLETED" => status[t] = "COMPLETED" /\ t \in stored

\* lincheck accepts every history exp3 can write: a poller stops at the first
\* settled status, so the one backward step the table allows, FAILED to
\* ASSIGNED by a retry, is never on record.
HistoryMonotone == backward = {}

\* divergence_scan reads the table while the cluster goes on.  It counts no task
\* as missing; what it counts as stuck was never seen completed, and what it
\* counts as stuck in PENDING was never seen failed.  (A task seen FAILED may be
\* counted as stuck in ASSIGNED by its retry.)
ScanVerdict ==
    /\ phase = "scanned" => \A t \in submits : scanned[t] # "unread"
    /\ \A t \in Task :
        /\ scanned[t] \in {"PENDING", "ASSIGNED"} => outcome[t] # "COMPLETED"
        /\ scanned[t] = "PENDING" => outcome[t] \in {"TIMEOUT", "none"}

\* Every run ends: the unbounded waits of run_bench and of exp3 (bench_done)
\* are for pollers that all have a deadline.
RunEnds == <>Closed
=============================================================================
