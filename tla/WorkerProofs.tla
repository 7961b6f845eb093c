---------------------------- MODULE WorkerProofs ----------------------------
(***************************************************************************)
(* Proofs about Worker, for any number of workers, tasks and copies of a   *)
(* message: a completed task has a result, a message that is gone belongs  *)
(* to a completed task, and nothing takes COMPLETED back.                  *)
(***************************************************************************)
EXTENDS Worker, TLAPS

\* What a worker has done is visible where it said it did it.
JobsTrue ==
    \A w \in Workers :
        /\ job[w].pc = "uploaded" => resultOf[TaskOf(w)] # "none"
        /\ job[w].pc \in {"running", "executed", "uploaded"} => status[TaskOf(w)] # "PENDING"
        /\ job[w].pc = "completed" => status[TaskOf(w)] = "COMPLETED"

\* The inductive invariant.  JobsTrue is what Complete and DeleteMessage rely
\* on many steps after it was established.
WorkerInv ==
    TypeOK /\ JobsTrue /\ CompletedHasResult /\ GoneIsCompleted

\* The initial state: nothing is completed and every message is on the queue.
LEMMA WorkerInit == Init => WorkerInv
  BY WorkerAssumption DEF Init, WorkerInv, TypeOK, JobsTrue, CompletedHasResult,
     GoneIsCompleted, Job, Busy, Idle, Message

\* What a job is while its worker is busy.
LEMMA BusyJob ==
  ASSUME TypeOK, NEW w \in Workers, job[w] # Idle
  PROVE  /\ job[w] \in [pc : Busy, msg : Message]
         /\ job[w].msg \in Message
         /\ TaskOf(w) \in Task
  BY DEF TypeOK, Job, Idle, TaskOf, Message

\* Every step of a worker, of the queue and of the coordinator preserves it.
LEMMA WorkerStep == WorkerInv /\ [Next]_vars => WorkerInv'
<1> SUFFICES ASSUME WorkerInv, [Next]_vars PROVE WorkerInv'
  OBVIOUS
<1> USE DEF WorkerInv
<1>1. ASSUME NEW t \in Task, MarkAssigned(t) PROVE WorkerInv'
  BY <1>1 DEF MarkAssigned, TypeOK, JobsTrue, CompletedHasResult, GoneIsCompleted, TaskOf
<1>2. ASSUME NEW m \in Message, Redrive(m) PROVE WorkerInv'
  BY <1>2 DEF Redrive, TypeOK, JobsTrue, CompletedHasResult, GoneIsCompleted, TaskOf
<1>3. ASSUME NEW m \in Message, NEW w \in Workers, Receive(w, m) PROVE WorkerInv'
  BY <1>3, WorkerAssumption DEF Receive, TypeOK, JobsTrue, CompletedHasResult,
     GoneIsCompleted, TaskOf, Job, Busy, Idle
<1>4. ASSUME NEW w \in Workers, StartTask(w) PROVE WorkerInv'
  <2>1. job[w] # Idle
    BY <1>4 DEF StartTask, Idle
  <2>2. TypeOK'
    BY <1>4, <2>1, BusyJob DEF StartTask, NotCompleted, Goto, LeaveOnQueue, TypeOK,
       TaskOf, Job, Busy, Idle, Message
  <2>3. JobsTrue'
    <3> SUFFICES ASSUME NEW v \in Workers
                 PROVE  /\ job'[v].pc = "uploaded" => resultOf'[TaskOf(v)'] # "none"
                        /\ job'[v].pc \in {"running", "executed", "uploaded"}
                               => status'[TaskOf(v)'] # "PENDING"
                        /\ job'[v].pc = "completed" => status'[TaskOf(v)'] = "COMPLETED"
      BY DEF JobsTrue
    <3>1. CASE v = w
      BY <1>4, <2>1, <3>1, BusyJob DEF StartTask, NotCompleted, Goto, LeaveOnQueue, TypeOK,
         TaskOf, Idle
    <3>2. CASE v # w
      <4>1. job'[v] = job[v] /\ TaskOf(v)' = TaskOf(v)
        BY <1>4, <3>2 DEF StartTask, Goto, LeaveOnQueue, TypeOK, TaskOf
      <4>2. \A t \in Task : status'[t] \in {status[t], "ASSIGNED"}
                             /\ (status[t] = "COMPLETED" => status'[t] = "COMPLETED")
        BY <1>4 DEF StartTask, NotCompleted, TypeOK
      <4>3. job[v].pc # "idle" => TaskOf(v) \in Task
        BY BusyJob DEF Idle
      <4> QED
        BY <1>4, <4>1, <4>2, <4>3 DEF StartTask, JobsTrue, TypeOK
    <3> QED
      BY <3>1, <3>2
  <2>4. queue' = queue /\ dlq' = dlq /\ resultOf' = resultOf
    BY <1>4 DEF StartTask, LeaveOnQueue
  <2>5. \A t \in Task : status[t] = "COMPLETED" <=> status'[t] = "COMPLETED"
    BY <1>4, <2>1, BusyJob DEF StartTask, NotCompleted, TypeOK
  <2>6. CompletedHasResult' /\ GoneIsCompleted'
    BY <2>4, <2>5 DEF CompletedHasResult, GoneIsCompleted, Message
  <2> QED
    BY <2>2, <2>3, <2>6
<1>5. ASSUME NEW w \in Workers, Execute(w) PROVE WorkerInv'
  <2>1. job[w] # Idle
    BY <1>5 DEF Execute, Idle
  <2> QED
    BY <1>5, <2>1, BusyJob DEF Execute, Goto, TypeOK, JobsTrue, CompletedHasResult,
       GoneIsCompleted, TaskOf, Job, Busy, Idle, Message
<1>6. ASSUME NEW w \in Workers, UploadResult(w) PROVE WorkerInv'
  <2>1. job[w] # Idle
    BY <1>6 DEF UploadResult, Idle
  <2> QED
    BY <1>6, <2>1, BusyJob, WorkerAssumption DEF UploadResult, Goto, TypeOK,
       JobsTrue, CompletedHasResult, GoneIsCompleted, TaskOf, Job, Busy, Idle, Message
<1>7. ASSUME NEW w \in Workers, Complete(w) PROVE WorkerInv'
  <2>1. job[w] # Idle
    BY <1>7 DEF Complete, Idle
  <2> QED
    BY <1>7, <2>1, BusyJob DEF Complete, NotCompleted, Goto, LeaveOnQueue, TypeOK,
       JobsTrue, CompletedHasResult, GoneIsCompleted, TaskOf, Job, Busy, Idle, Message
<1>8. ASSUME NEW w \in Workers, DeleteMessage(w) PROVE WorkerInv'
  <2>1. job[w] # Idle
    BY <1>8 DEF DeleteMessage, Idle
  <2> QED
    BY <1>8, <2>1, BusyJob DEF DeleteMessage, TypeOK, JobsTrue, CompletedHasResult,
       GoneIsCompleted, TaskOf, Job, Busy, Idle, Message
<1>9. ASSUME NEW w \in Workers, Fault(w) PROVE WorkerInv'
  BY <1>9, BusyJob DEF Fault, NotCompleted, LeaveOnQueue, TypeOK, JobsTrue,
     CompletedHasResult, GoneIsCompleted, TaskOf, Job, Busy, Idle, Message
<1>10. ASSUME NEW w \in Workers, Crash(w) PROVE WorkerInv'
  BY <1>10 DEF Crash, LeaveOnQueue, TypeOK, JobsTrue, CompletedHasResult,
     GoneIsCompleted, TaskOf, Job, Busy, Idle
<1>11. CASE UNCHANGED vars
  BY <1>11 DEF vars, TypeOK, JobsTrue, CompletedHasResult, GoneIsCompleted, TaskOf
<1> QED
  BY <1>1, <1>2, <1>3, <1>4, <1>5, <1>6, <1>7, <1>8, <1>9, <1>10, <1>11
     DEF Next, Process

\* The inductive invariant holds in every reachable state.
THEOREM WorkerCorrect == Spec => []WorkerInv
  BY WorkerInit, WorkerStep, PTL DEF Spec

\* A client that sees COMPLETED finds a result (processTask uploads before it
\* marks), however many workers hold the task.
THEOREM CompletedHasItsResult == Spec => []CompletedHasResult
  <1>1. WorkerInv => CompletedHasResult
    BY DEF WorkerInv
  <1> QED
    BY <1>1, WorkerCorrect, PTL

\* No message is lost before its task is completed: poll deletes on success
\* only, and everything else goes back to the queue or to its dead letters.
THEOREM NoMessageLost == Spec => []GoneIsCompleted
  <1>1. WorkerInv => GoneIsCompleted
    BY DEF WorkerInv
  <1> QED
    BY <1>1, WorkerCorrect, PTL

\* Nothing takes COMPLETED back: the conditions of updateStatus and of
\* markAssigned hold off every late update.
THEOREM CompletedStays == Spec => CompletedIsFinal
  <1>1. WorkerInv /\ [Next]_vars
          => [\A t \in Task : status[t] = "COMPLETED" => status'[t] = "COMPLETED"]_vars
    BY BusyJob DEF WorkerInv, TypeOK, Next, Process, MarkAssigned, Redrive, Receive,
       StartTask, Execute, UploadResult, Complete, DeleteMessage, Fault, Crash,
       NotCompleted, vars
  <1> QED
    BY <1>1, WorkerCorrect, PTL DEF Spec, CompletedIsFinal

\* The workers, the queue and the coordinator implement the life of a row:
\* every step of theirs is a step of TaskLife or leaves the row alone.
THEOREM WorkersImplementTaskLife == Spec => ImplementsTaskLife
<1>1. Init => Life!LifeInit
  BY DEF Init, Life!LifeInit
<1>2. WorkerInv /\ [Next]_vars => [Life!LifeNext]_(Life!lifeVars)
  <2> SUFFICES ASSUME WorkerInv, [Next]_vars
               PROVE  Life!LifeNext \/ UNCHANGED Life!lifeVars
    OBVIOUS
  <2> USE DEF Life!LifeNext, Life!Work
  <2>1. ASSUME NEW t \in Task, MarkAssigned(t) PROVE Life!Assign(t)
    BY <2>1 DEF MarkAssigned, Life!Assign, Life!Set
  <2>2. ASSUME NEW w \in Workers, StartTask(w)
        PROVE  Life!Assign(TaskOf(w)) \/ UNCHANGED Life!lifeVars
    BY <2>2, BusyJob DEF StartTask, NotCompleted, Life!Assign, Life!Set,
       Life!lifeVars, WorkerInv, TypeOK
  <2>3. ASSUME NEW w \in Workers, UploadResult(w) PROVE \E t \in Task : Life!PutResult(t)
    <3>1. job[w].pc = "executed" /\ TaskOf(w) \in Task
      BY <2>3, BusyJob DEF UploadResult, WorkerInv, Idle
    <3>2. PICK t \in Task : t = TaskOf(w)
      BY <3>1
    <3>3. Life!PutResult(t)
      BY <2>3, <3>2, WorkerAssumption DEF UploadResult, Life!PutResult, WorkerInv, TypeOK
    <3> QED
      BY <3>3
  <2>4. ASSUME NEW w \in Workers, Complete(w)
        PROVE  Life!Complete(TaskOf(w)) \/ UNCHANGED Life!lifeVars
    <3>1. TaskOf(w) \in Task /\ job[w].pc = "uploaded"
      BY <2>4, BusyJob DEF Complete, WorkerInv, Idle
    <3>2. resultOf[TaskOf(w)] # "none" /\ status[TaskOf(w)] # "PENDING"
      BY <3>1 DEF WorkerInv, JobsTrue
    <3> QED
      BY <2>4, <3>1, <3>2 DEF Complete, NotCompleted, Life!Complete, Life!Set,
         Life!lifeVars, WorkerInv, TypeOK
  <2>5. ASSUME NEW w \in Workers, Fault(w)
        PROVE  Life!Fail(TaskOf(w)) \/ UNCHANGED Life!lifeVars
    <3>1. TaskOf(w) \in Task
      BY <2>5, BusyJob DEF Fault, WorkerInv
    <3>2. CASE job[w].pc \in {"running", "executed"} /\ NotCompleted(TaskOf(w))
      <4>1. status[TaskOf(w)] \in {"ASSIGNED", "FAILED"}
        BY <3>1, <3>2 DEF WorkerInv, JobsTrue, TypeOK, NotCompleted
      <4> QED
        BY <2>5, <3>1, <3>2, <4>1 DEF Fault, Life!Fail, Life!Set
    <3>3. CASE ~(job[w].pc \in {"running", "executed"} /\ NotCompleted(TaskOf(w)))
      BY <2>5, <3>3 DEF Fault, Life!lifeVars
    <3> QED
      BY <3>2, <3>3
  <2>6. ASSUME NEW w \in Workers, NEW m \in Message, Receive(w, m)
        PROVE  UNCHANGED Life!lifeVars
    BY <2>6 DEF Receive, Life!lifeVars
  <2>7. ASSUME NEW w \in Workers, StartTask(w) \/ UploadResult(w) \/ Complete(w) \/ Fault(w)
        PROVE  TaskOf(w) \in Task
    BY <2>7, BusyJob DEF StartTask, UploadResult, Complete, Fault, WorkerInv, Idle
  <2>8. ASSUME NEW m \in Message, Redrive(m) PROVE UNCHANGED Life!lifeVars
    BY <2>8 DEF Redrive, Life!lifeVars
  <2>9. ASSUME NEW w \in Workers, Execute(w) \/ DeleteMessage(w) \/ Crash(w)
        PROVE  UNCHANGED Life!lifeVars
    BY <2>9 DEF Execute, DeleteMessage, Crash, Life!lifeVars
  <2>10. CASE UNCHANGED vars
    BY <2>10 DEF vars, Life!lifeVars
  <2>11. ASSUME NEW w \in Workers, Process(w) \/ Fault(w) \/ Crash(w)
         PROVE  Life!LifeNext \/ UNCHANGED Life!lifeVars
    <3>1. CASE StartTask(w)
      BY <3>1, <2>2, <2>7
    <3>2. CASE UploadResult(w)
      BY <3>2, <2>3
    <3>3. CASE Complete(w)
      BY <3>3, <2>4, <2>7
    <3>4. CASE Fault(w)
      BY <3>4, <2>5, <2>7
    <3> QED
      BY <2>11, <2>9, <3>1, <3>2, <3>3, <3>4 DEF Process
  <2>12. CASE Next
    BY <2>12, <2>1, <2>6, <2>8, <2>11 DEF Next
  <2> QED
    BY <2>10, <2>12
<1> QED
  BY <1>1, <1>2, WorkerCorrect, PTL DEF Spec, ImplementsTaskLife, Life!LifeSpec
=============================================================================
