------------------------------- MODULE Worker -------------------------------
(***************************************************************************)
(* The workers (worker-node/main.go): poll and processTask against the     *)
(* assignment queue, the tasks table and the results in S3, with several   *)
(* workers that may hold the same message, or two messages of one task.    *)
(*                                                                         *)
(* The queue delivers a message again whenever its visibility timeout has  *)
(* run out, and gives it up to the dead letter queue after MaxReceives     *)
(* (max_receive_count in terraform/modules/messaging).                     *)
(***************************************************************************)
EXTENDS Integers, FiniteSets

CONSTANTS
    Workers,
    Task,
    Copies,       \* assignment messages of each task
    MaxReceives,  \* maxReceiveCount of the queue
    MaxFaults,    \* bound: S3 and DynamoDB calls that fail
    MaxCrashes    \* bound: workers lost

ASSUME WorkerAssumption ==
    /\ {Copies, MaxReceives} \subseteq Nat \ {0}
    /\ {MaxFaults, MaxCrashes} \subseteq Nat
    /\ "none" \notin Workers

VARIABLES
    status,    \* the tasks table: status
    resultOf,  \* the result in S3: the worker that wrote it, or "none"
    queue,     \* the assignment queue
    receives,  \* how often each message was received
    dlq,       \* its dead letter queue
    job,       \* what each worker is doing
    used       \* how much of each bound has been used

vars == <<status, resultOf, queue, receives, dlq, job, used>>

Message == [task : Task, copy : 1..Copies]

Idle == [pc |-> "idle"]

Init ==
    /\ status = [t \in Task |-> "PENDING"]
    /\ resultOf = [t \in Task |-> "none"]
    /\ queue = Message
    /\ receives = [m \in Message |-> 0]
    /\ dlq = {}
    /\ job = [w \in Workers |-> Idle]
    /\ used = [b \in {"faults", "crashes"} |-> 0]

Spend(b, max) ==
    /\ used[b] < max
    /\ used' = [used EXCEPT ![b] = @ + 1]

-----------------------------------------------------------------------------
(***************************************************************************)
(* The tasks table                                                         *)
(***************************************************************************)

\* Mutant: any status may be overwritten.
Always(t) == TRUE

\* The ConditionExpression of updateStatus: never overwrite COMPLETED.
NotCompleted(t) == status[t] # "COMPLETED"

\* markAssigned of the coordinator, conditional on PENDING: it races with the
\* workers, because it follows the message it is about.
MarkAssigned(t) ==
    /\ status[t] = "PENDING"
    /\ status' = [status EXCEPT ![t] = "ASSIGNED"]
    /\ UNCHANGED <<resultOf, queue, receives, dlq, job, used>>

-----------------------------------------------------------------------------
(***************************************************************************)
(* poll and processTask                                                    *)
(***************************************************************************)
TaskOf(w) == job[w].msg.task

Goto(w, pc) == job' = [job EXCEPT ![w] = [pc |-> pc, msg |-> job[w].msg]]

\* processTask returns an error and poll leaves the message on the queue.
LeaveOnQueue(w) ==
    /\ job' = [job EXCEPT ![w] = Idle]
    /\ UNCHANGED queue

\* ReceiveMessage: a message that is visible, or visible again.
Receive(w, m) ==
    /\ job[w] = Idle
    /\ m \in queue /\ receives[m] < MaxReceives
    /\ receives' = [receives EXCEPT ![m] = @ + 1]
    /\ job' = [job EXCEPT ![w] = [pc |-> "received", msg |-> m]]
    /\ UNCHANGED <<status, resultOf, queue, dlq, used>>

\* Step 1, updateStatus ASSIGNED: accepted, or refused by its condition.
StartTask(w) ==
    /\ job[w].pc = "received"
    /\ \/ /\ NotCompleted(TaskOf(w))
          /\ status' = [status EXCEPT ![TaskOf(w)] = "ASSIGNED"]
          /\ Goto(w, "running")
          /\ UNCHANGED queue
       \/ /\ ~NotCompleted(TaskOf(w))
          /\ LeaveOnQueue(w)
          /\ UNCHANGED status
    /\ UNCHANGED <<resultOf, receives, dlq, used>>

\* Steps 2 and 3, download and execute: nothing shared changes.
Execute(w) ==
    /\ job[w].pc = "running"
    /\ Goto(w, "executed")
    /\ UNCHANGED <<status, resultOf, queue, receives, dlq, used>>

\* Step 4: PutObject under the task's one result key.
UploadResult(w) ==
    /\ job[w].pc = "executed"
    /\ resultOf' = [resultOf EXCEPT ![TaskOf(w)] = w]
    /\ Goto(w, "uploaded")
    /\ UNCHANGED <<status, queue, receives, dlq, used>>

\* Mutant: COMPLETED is written before the result is uploaded.
CompleteEarly(w) ==
    /\ job[w].pc \in {"executed", "uploaded"}
    /\ NotCompleted(TaskOf(w))
    /\ status' = [status EXCEPT ![TaskOf(w)] = "COMPLETED"]
    /\ Goto(w, "completed")
    /\ UNCHANGED <<resultOf, queue, receives, dlq, used>>

\* Step 5, updateStatus COMPLETED: accepted, or refused by its condition.
Complete(w) ==
    /\ job[w].pc = "uploaded"
    /\ \/ /\ NotCompleted(TaskOf(w))
          /\ status' = [status EXCEPT ![TaskOf(w)] = "COMPLETED"]
          /\ Goto(w, "completed")
          /\ UNCHANGED queue
       \/ /\ ~NotCompleted(TaskOf(w))
          /\ LeaveOnQueue(w)
          /\ UNCHANGED status
    /\ UNCHANGED <<resultOf, receives, dlq, used>>

\* deleteMessage; its failure is a Fault that leaves the message.
DeleteMessage(w) ==
    /\ job[w].pc = "completed"
    /\ queue' = queue \ {job[w].msg}
    /\ job' = [job EXCEPT ![w] = Idle]
    /\ UNCHANGED <<status, resultOf, receives, dlq, used>>

\* Mutant: the message of a failed task is deleted like any other.
FaultDeletes(w) ==
    /\ job[w] # Idle
    /\ Spend("faults", MaxFaults)
    /\ queue' = queue \ {job[w].msg}
    /\ job' = [job EXCEPT ![w] = Idle]
    /\ UNCHANGED <<status, resultOf, receives, dlq>>

\* The download, the execution or the upload fails, which is reported as
\* FAILED unless the task is COMPLETED; or the call of another step fails.
Fault(w) ==
    /\ job[w] # Idle
    /\ Spend("faults", MaxFaults)
    /\ status' = IF job[w].pc \in {"running", "executed"} /\ NotCompleted(TaskOf(w))
                 THEN [status EXCEPT ![TaskOf(w)] = "FAILED"]
                 ELSE status
    /\ LeaveOnQueue(w)
    /\ UNCHANGED <<resultOf, receives, dlq>>

Crash(w) ==
    /\ job[w] # Idle
    /\ Spend("crashes", MaxCrashes)
    /\ LeaveOnQueue(w)
    /\ UNCHANGED <<status, resultOf, receives, dlq>>

\* The queue's redrive policy, once the last receive has timed out.
Redrive(m) ==
    /\ m \in queue /\ receives[m] = MaxReceives
    /\ queue' = queue \ {m}
    /\ dlq' = dlq \cup {m}
    /\ UNCHANGED <<status, resultOf, receives, job, used>>

-----------------------------------------------------------------------------
Process(w) ==
    \/ StartTask(w) \/ Execute(w) \/ UploadResult(w) \/ Complete(w)
    \/ DeleteMessage(w)

Next ==
    \/ \E t \in Task : MarkAssigned(t)
    \/ \E m \in Message : Redrive(m) \/ \E w \in Workers : Receive(w, m)
    \/ \E w \in Workers : Process(w) \/ Fault(w) \/ Crash(w)

Spec == Init /\ [][Next]_vars

\* Workers keep polling and processing, and SQS delivers every message it has,
\* or redrives it.
Fairness ==
    /\ \A w \in Workers : WF_vars(Process(w))
    /\ \A m \in Message : WF_vars(Redrive(m)) /\ SF_vars(\E w \in Workers : Receive(w, m))

FairSpec == Spec /\ Fairness

-----------------------------------------------------------------------------
Busy == {"received", "running", "executed", "uploaded", "completed"}

Job == {Idle} \cup [pc : Busy, msg : Message]

\* Every variable keeps its type, and no message is on both queues.
TypeOK ==
    /\ status \in [Task -> {"PENDING", "ASSIGNED", "FAILED", "COMPLETED"}]
    /\ resultOf \in [Task -> Workers \cup {"none"}]
    /\ receives \in [Message -> 0..MaxReceives]
    /\ queue \subseteq Message /\ dlq \subseteq Message /\ queue \cap dlq = {}
    /\ job \in [Workers -> Job]

\* "Never overwrite COMPLETED": no late worker, late failure or late
\* coordinator takes a completed task back.
CompletedIsFinal ==
    [][\A t \in Task : status[t] = "COMPLETED" => status'[t] = "COMPLETED"]_vars

\* A client that sees COMPLETED finds a result under the task's key.
CompletedHasResult ==
    \A t \in Task : status[t] = "COMPLETED" => resultOf[t] # "none"

\* "Delete SQS message only on success": a message that is on neither queue
\* belongs to a task that was completed.
GoneIsCompleted ==
    \A m \in Message \ (queue \cup dlq) : status[m.task] = "COMPLETED"

\* The refinement mapping to what the tasks table promises its readers.
Life == INSTANCE TaskLife WITH stored <- {u \in Task : resultOf[u] # "none"}

\* Whatever workers, coordinator and queue do, a reader of the table sees a
\* task's row go through the life TaskLife describes: assigned before it fails
\* or completes, back to ASSIGNED by a retry, a result before COMPLETED, and
\* COMPLETED for good.
ImplementsTaskLife == Life!LifeSpec

\* Every assigned task is completed, or lands in the dead letter queue.
Settles ==
    \A t \in Task :
        <>(status[t] = "COMPLETED" \/ \E m \in dlq : m.task = t)
=============================================================================
