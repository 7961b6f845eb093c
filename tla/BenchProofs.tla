----------------------------- MODULE BenchProofs -----------------------------
(***************************************************************************)
(* What the history of a run may be relied on to say, for any number of    *)
(* tasks, threads and faults: BenchTypeOK, CompletedLineHolds and          *)
(* HistoryMonotone.  All three follow from BenchInv, which adds what the   *)
(* code a poller has seen says about the task it still polls.  And what    *)
(* the reports drawn from it are worth: LostCause and ScanVerdict, from    *)
(* ReportInv, which says when each of the things they read stops changing. *)
(*                                                                         *)
(* Then what may be relied on of the experiments: CleanSample,             *)
(* GenesisCause and ResetOnLiveCluster, from ChaosInv, SummaryTrue, from   *)
(* RecoveryInv, and SecondDeliveryCause, from HoldsTrue.                   *)
(***************************************************************************)
EXTENDS Bench, Experiments, TLAPS

\* A completed row has its result, and a completed line a completed row.
LinesTrue ==
    \A t \in Task :
        /\ status[t] = "COMPLETED" => t \in stored
        /\ outcome[t] = "COMPLETED" => status[t] = "COMPLETED"

\* A task on its way to the pollers has a row, one that reached them a line, and
\* none has been observed before.
JobsTrue ==
    \A t \in Task :
        /\ job[t] \in {"row", "sent", "waiting", "polling"} => status[t] # "none"
        /\ job[t] \in {"waiting", "polling"} => t \in submits
        /\ job[t] \in {"new", "payload", "row", "sent", "waiting"} => code[t] = 0

\* A poller that goes on has seen nothing settled, and nothing the row could
\* still fall behind: no row ever becomes PENDING again.
PollersBehind ==
    \A t \in Task :
        job[t] = "polling" => /\ code[t] \in 0..2
                              /\ code[t] = 2 => status[t] # "PENDING"

BenchInv == BenchTypeOK /\ LinesTrue /\ JobsTrue /\ PollersBehind /\ HistoryMonotone

USE DEF Job

\* The initial states satisfy the invariant.
LEMMA BenchInitInv == BenchInit => BenchInv
  BY DEF BenchInit, NoLoad, BenchInv, BenchTypeOK, LinesTrue, JobsTrue, PollersBehind,
         HistoryMonotone

\* The steps of the cluster keep it: a row never goes back to PENDING, and a
\* completed one stays as it is.
LEMMA ClusterKeeps ==
  ASSUME BenchInv, NEW t \in Task, ClusterWorks(t)
  PROVE  BenchInv'
<1> USE DEF BenchInv, BenchTypeOK, LinesTrue, JobsTrue, PollersBehind, HistoryMonotone,
            ClusterWorks, historyVars, Set
<1>1. CASE Assign(t) BY <1>1 DEF Assign
<1>2. CASE Fail(t) BY <1>2 DEF Fail
<1>3. CASE PutResult(t) BY <1>3 DEF PutResult
<1>4. CASE Complete(t) BY <1>4 DEF Complete
<1> QED BY <1>1, <1>2, <1>3, <1>4 DEF Work

\* So does every step of a submission.
LEMMA SubmitKeeps ==
  ASSUME BenchInv, NEW t \in Task, Submitting(t) \/ SubmitFails(t)
  PROVE  BenchInv'
<1> USE DEF BenchInv, BenchTypeOK, LinesTrue, JobsTrue, PollersBehind, HistoryMonotone,
            historyVars, lifeVars, Goto
<1>1. CASE PutPayload(t) BY <1>1 DEF PutPayload
<1>2. CASE PutRow(t) BY <1>2 DEF PutRow, Create, Set
<1>3. CASE SendMessage(t) BY <1>3 DEF SendMessage
<1>4. CASE RecordSubmit(t) BY <1>4 DEF RecordSubmit
<1>5. CASE SubmitFails(t) BY <1>5 DEF SubmitFails, Raise
<1> QED BY <1>1, <1>2, <1>3, <1>4, <1>5 DEF Submitting

\* A status that does not settle the task has code 1 or 2, and 2 is ASSIGNED.
LEMMA UnsettledCode ==
  ASSUME NEW s \in {"PENDING", "ASSIGNED", "FAILED", "COMPLETED"}
  PROVE  /\ StatusCode(s) \in 1..3
         /\ ~Settled(s) => StatusCode(s) \in 1..2
         /\ StatusCode(s) = 1 <=> s = "PENDING"
  BY DEF StatusCode, Settled

\* A poll keeps it: what it sees is not behind what was seen before, and a
\* settled status is the last.
LEMMA PollKeeps ==
  ASSUME BenchInv, NEW t \in Task, Poll(t)
  PROVE  BenchInv'
<1> DEFINE s == status[t]
<1>1. /\ job[t] = "polling" /\ t \in submits
      /\ s \in {"PENDING", "ASSIGNED", "FAILED", "COMPLETED"}
      /\ code[t] \in 0..2 /\ (code[t] = 2 => s # "PENDING")
  BY DEF Poll, BenchInv, BenchTypeOK, JobsTrue, PollersBehind
<1>2. /\ StatusCode(s) \in 1..3
      /\ ~Settled(s) => StatusCode(s) \in 1..2
      /\ StatusCode(s) = 1 <=> s = "PENDING"
  BY <1>1, UnsettledCode
<1>3. StatusCode(s) >= code[t]
  BY <1>1, <1>2
<1>4. UNCHANGED <<lifeVars, submits>>
  BY DEF Poll
<1>5. /\ backward' = {}
      /\ code' \in [Task -> 0..3]
      /\ \A u \in Task \ {t} : code'[u] = code[u]
      /\ code'[t] \in {code[t], StatusCode(s)}
  BY <1>1, <1>2, <1>3 DEF Poll, PollObserve, BenchInv, BenchTypeOK, HistoryMonotone
<1>6. CASE Settled(s)
  <2>1. /\ job' \in [Task -> Job] /\ job'[t] \in {"done", "raised"}
        /\ \A u \in Task \ {t} : job'[u] = job[u]
        /\ outcome' \in [Task -> {"none", "COMPLETED", "FAILED", "TIMEOUT"}]
        /\ outcome'[t] \in {outcome[t], s}
        /\ \A u \in Task \ {t} : outcome'[u] = outcome[u]
    BY <1>1, <1>6 DEF Poll, RecordOutcome, Goto, Settled, BenchInv, BenchTypeOK
  <2> QED
    BY <1>1, <1>4, <1>5, <2>1
    DEF BenchInv, BenchTypeOK, LinesTrue, JobsTrue, PollersBehind, HistoryMonotone, lifeVars
<1>7. CASE ~Settled(s)
  <2>1. UNCHANGED <<job, outcome>>
    BY <1>7 DEF Poll
  <2> QED
    BY <1>1, <1>2, <1>4, <1>5, <1>7, <2>1
    DEF BenchInv, BenchTypeOK, LinesTrue, JobsTrue, PollersBehind, HistoryMonotone, lifeVars
<1> QED BY <1>6, <1>7

\* The other steps of a poller, and those of the main thread, keep it too.
LEMMA OthersKeep ==
  ASSUME BenchInv,
         \/ StopLoad \/ Close \/ ScanBatch
         \/ \E t \in Task : StartPolling(t) \/ PollFails(t) \/ Deadline(t)
  PROVE  BenchInv'
<1> USE DEF BenchInv, BenchTypeOK, LinesTrue, JobsTrue, PollersBehind, HistoryMonotone,
            historyVars, lifeVars
<1>1. CASE StopLoad BY <1>1 DEF StopLoad
<1>2. CASE Close BY <1>2 DEF Close
<1>3. CASE ScanBatch BY <1>3 DEF ScanBatch
<1>4. ASSUME NEW t \in Task, StartPolling(t) PROVE BenchInv'
  BY <1>4 DEF StartPolling, Goto
<1>5. ASSUME NEW t \in Task, PollFails(t) PROVE BenchInv'
  BY <1>5 DEF PollFails, Raise, Goto
<1>6. ASSUME NEW t \in Task, Deadline(t) PROVE BenchInv'
  BY <1>6 DEF Deadline, RecordOutcome, Goto
<1> QED BY <1>1, <1>2, <1>3, <1>4, <1>5, <1>6

\* The invariant holds of every run of the load generators.
THEOREM BenchInvariant == BenchSpec => []BenchInv
<1>1. BenchInit => BenchInv
  BY BenchInitInv
<1>2. BenchInv /\ [BenchNext]_benchVars => BenchInv'
  <2> SUFFICES ASSUME BenchInv, [BenchNext]_benchVars PROVE BenchInv'
    OBVIOUS
  <2>1. CASE UNCHANGED benchVars
    BY <2>1 DEF benchVars, lifeVars, historyVars, BenchInv, BenchTypeOK, LinesTrue,
                JobsTrue, PollersBehind, HistoryMonotone
  <2>2. CASE BenchNext
    BY <2>2, ClusterKeeps, SubmitKeeps, PollKeeps, OthersKeep DEF BenchNext, MainThread
  <2> QED BY <2>1, <2>2
<1> QED BY <1>1, <1>2, PTL DEF BenchSpec

\* The history is well formed: an outcome only of a submitted task, a submit line
\* only of a task with a row (bench.py, exp1.py, exp3.py, exp4.py).
THEOREM BenchTypeCorrect == BenchSpec => []BenchTypeOK
  BY BenchInvariant, PTL DEF BenchInv

\* A "complete" line with status COMPLETED is true of the table, and its result
\* can be fetched, for as long as anyone may read the history.
THEOREM CompletedLinesHold == BenchSpec => []CompletedLineHolds
<1>1. BenchInv => CompletedLineHolds
  BY DEF BenchInv, LinesTrue, CompletedLineHolds
<1> QED BY <1>1, BenchInvariant, PTL

\* lincheck cannot reject a history of exp3: pollers stop before the one backward
\* step a row can make.
THEOREM HistoryIsMonotone == BenchSpec => []HistoryMonotone
  BY BenchInvariant, PTL DEF BenchInv

-----------------------------------------------------------------------------
\* A task with a submit line is in the pollers' hands or has left them, with a
\* line or by an exception; only an experiment that stops waiting closes the file
\* over work in progress, and then it is over all that is ever in progress.
LossInv ==
    /\ \A t \in submits : job[t] \in {"waiting", "polling", "done", "raised"}
    /\ \A t \in Task : job[t] = "done" => outcome[t] # "none"
    /\ ~Closed => cut = {}
    /\ Closed => \A t \in Task : ~(job[t] \in {"new", "done", "raised"}) => t \in cut
    /\ cut # {} => exp \in {"exp1", "exp4"}

\* A row seen FAILED is not PENDING again, and a row is scanned when no line can
\* be added any more.
ScanInv ==
    /\ \A t \in Task : outcome[t] = "FAILED" => status[t] # "PENDING"
    /\ ~Closed => \A t \in Task : scanned[t] = "unread"
    /\ scanned \in [Task -> {"unread", "none", "PENDING", "ASSIGNED", "FAILED", "COMPLETED"}]
    /\ ScanVerdict

ReportInv == BenchInv /\ LossInv /\ ScanInv

\* The initial states satisfy it.
LEMMA ReportInitInv == BenchInit => LossInv /\ ScanInv
  BY DEF BenchInit, NoLoad, LossInv, ScanInv, ScanVerdict, Closed

\* The cluster changes neither the history nor what was read, and takes no row
\* back to PENDING.
LEMMA ClusterKeepsReport ==
  ASSUME ReportInv, NEW t \in Task, ClusterWorks(t)
  PROVE  LossInv' /\ ScanInv'
<1>1. \A u \in Task : status'[u] = "PENDING" => status[u] = "PENDING"
  BY DEF ReportInv, BenchInv, BenchTypeOK, ClusterWorks, Work, Assign, Fail, PutResult,
         Complete, Set
<1>2. UNCHANGED <<exp, phase, job, submits, outcome, cut, scanned>>
  BY DEF ClusterWorks, historyVars
<1> QED BY <1>1, <1>2 DEF ReportInv, LossInv, ScanInv, ScanVerdict, Closed

\* A submission has no outcome, and one that comes too late for the file leaves no
\* line in it.
LEMMA SubmitKeepsReport ==
  ASSUME ReportInv, NEW t \in Task, Submitting(t) \/ SubmitFails(t)
  PROVE  LossInv' /\ ScanInv'
<1>1. /\ job \in [Task -> Job]
      /\ status \in [Task -> {"none", "PENDING", "ASSIGNED", "FAILED", "COMPLETED"}]
  BY DEF ReportInv, BenchInv, BenchTypeOK
<1>2. submits \subseteq Task /\ (outcome[t] # "none" => t \in submits)
  BY DEF ReportInv, BenchInv, BenchTypeOK
<1> USE <1>1, <1>2 DEF ReportInv, LossInv, ScanInv, ScanVerdict, Closed, historyVars,
                       lifeVars, Goto
<1>3. CASE PutPayload(t) BY <1>3 DEF PutPayload
<1>4. CASE PutRow(t) BY <1>4 DEF PutRow, Create, Set
<1>5. CASE SendMessage(t) BY <1>5 DEF SendMessage
<1>6. CASE RecordSubmit(t) BY <1>6 DEF RecordSubmit
<1>7. CASE SubmitFails(t) BY <1>7 DEF SubmitFails, Raise
<1> QED BY <1>3, <1>4, <1>5, <1>6, <1>7 DEF Submitting

\* A poller's last line leaves its task settled, unless the file is closed: then
\* the task was cut, or had left the pollers before.
LEMMA PollersKeepReport ==
  ASSUME ReportInv, NEW t \in Task,
         StartPolling(t) \/ Poll(t) \/ PollFails(t) \/ Deadline(t)
  PROVE  LossInv' /\ ScanInv'
<1>1. /\ job \in [Task -> Job] /\ submits \subseteq Task
      /\ outcome \in [Task -> {"none", "COMPLETED", "FAILED", "TIMEOUT"}]
  BY DEF ReportInv, BenchInv, BenchTypeOK
<1>2. UNCHANGED <<lifeVars, exp, phase, submits, cut, scanned>>
  BY DEF StartPolling, Poll, PollFails, Deadline, historyVars
<1>3. job[t] \in {"waiting", "polling"}
  BY DEF StartPolling, Poll, PollFails, Deadline
<1>4. \/ UNCHANGED <<job, outcome>>
      \/ /\ job' = [job EXCEPT ![t] = "polling"] /\ UNCHANGED outcome
      \/ /\ job' = [job EXCEPT ![t] = "raised"] /\ UNCHANGED outcome
      \/ /\ ~Closed /\ job' = [job EXCEPT ![t] = "done"]
         /\ \E s \in {"COMPLETED", "FAILED", "TIMEOUT"} :
                /\ outcome' = [outcome EXCEPT ![t] = s]
                /\ s = "FAILED" => status[t] = "FAILED"
  BY DEF StartPolling, Poll, PollFails, Deadline, RecordOutcome, Settled, Raise, Goto,
         historyVars
<1>5. LossInv'
  BY <1>1, <1>2, <1>3, <1>4 DEF ReportInv, LossInv, Closed
<1>6. ScanInv'
  BY <1>1, <1>2, <1>4 DEF ReportInv, ScanInv, ScanVerdict, Closed, lifeVars
<1> QED BY <1>5, <1>6

\* The file is closed over nothing, or by an experiment that stopped waiting; a
\* batch reads rows that the last lines were true of.
LEMMA MainKeepsReport ==
  ASSUME ReportInv, StopLoad \/ Close \/ ScanBatch
  PROVE  LossInv' /\ ScanInv'
<1> USE DEF ReportInv, LossInv, ScanInv, ScanVerdict, Closed, historyVars, lifeVars
<1>1. CASE StopLoad BY <1>1 DEF StopLoad
<1>2. CASE Close BY <1>2 DEF Close, Ended, JoinTimesOut
<1>3. CASE ScanBatch
  <2>1. /\ status \in [Task -> {"none", "PENDING", "ASSIGNED", "FAILED", "COMPLETED"}]
        /\ outcome \in [Task -> {"none", "COMPLETED", "FAILED", "TIMEOUT"}]
        /\ submits \subseteq Task
        /\ \A t \in Task : outcome[t] = "COMPLETED" => status[t] = "COMPLETED"
    BY DEF BenchInv, BenchTypeOK, LinesTrue
  <2> DEFINE toFetch == {t \in submits : scanned[t] = "unread"}
  <2>2. PICK got \in SUBSET toFetch :
          /\ scanned' = [t \in Task |-> IF t \in got THEN status[t] ELSE scanned[t]]
          /\ phase' = AfterBatch(toFetch \ got)
    BY <1>3 DEF ScanBatch
  <2>3. phase' \in {"closed", "scanned"} /\ (phase' = "scanned" => toFetch \subseteq got)
    BY <2>2 DEF AfterBatch
  <2>4. phase = "closed" /\ UNCHANGED <<lifeVars, exp, job, submits, outcome, cut>>
    BY <1>3 DEF ScanBatch
  <2>5. LossInv'
    BY <2>3, <2>4
  <2>6. \A t \in submits : phase' = "scanned" => scanned'[t] # "unread"
    BY <2>1, <2>2, <2>3, <2>4
  <2>7. \A t \in Task : scanned'[t] \in {scanned[t], status[t]}
    BY <2>2
  <2>8. ScanInv'
    BY <2>1, <2>2, <2>3, <2>4, <2>6, <2>7
  <2> QED BY <2>5, <2>8
<1> QED BY <1>1, <1>2, <1>3

\* The invariant holds of every run of the load generators.
THEOREM ReportInvariant == BenchSpec => []ReportInv
<1>1. BenchInit => ReportInv
  BY BenchInitInv, ReportInitInv DEF ReportInv
<1>2. ReportInv /\ BenchInv' /\ [BenchNext]_benchVars => ReportInv'
  <2> SUFFICES ASSUME ReportInv, BenchInv', [BenchNext]_benchVars
               PROVE  LossInv' /\ ScanInv'
    BY DEF ReportInv
  <2>1. CASE UNCHANGED benchVars
    BY <2>1 DEF benchVars, lifeVars, historyVars, ReportInv, LossInv, ScanInv, ScanVerdict,
                Closed
  <2>2. CASE BenchNext
    BY <2>2, ClusterKeepsReport, SubmitKeepsReport, PollersKeepReport, MainKeepsReport
    DEF BenchNext, MainThread
  <2> QED BY <2>1, <2>2
<1> QED BY <1>1, <1>2, BenchInvariant, PTL DEF BenchSpec

\* A task that summarize of bench.py or exp1.py counts as lost is one whose poller
\* raised, or one that a join with a timeout closed the history over; the cluster
\* has no part in it.
THEOREM LossesAreTheHarness == BenchSpec => []LostCause
<1>1. ReportInv => LostCause
  BY DEF ReportInv, LossInv, LostCause, Lost, BenchInv, BenchTypeOK
<1> QED BY <1>1, ReportInvariant, PTL

\* What divergence_scan reports of a row agrees with the history, although the
\* cluster goes on while it reads.
THEOREM ScanAgreesWithHistory == BenchSpec => []ScanVerdict
  BY ReportInvariant, PTL DEF ReportInv, ScanInv

-----------------------------------------------------------------------------
(***************************************************************************)
(* The fault side of the bench                                             *)
(***************************************************************************)

\* Only the programs that Chaos follows ever have a sample or a reset.
Elsewhere == experiment \notin {"exp1", "repeat", "exp3"} => ~clean /\ dark = 0 /\ stage = "run"

\* The types, with those of the counters.
FleetTypes ==
    /\ used \in [{"elections", "kills", "lapses"} -> Nat]
    /\ dark \in 0..Old /\ carries \subseteq Node

\* While a sample is clean, whoever leads or has a marked row was elected since
\* the kill or is the victim, which the tracker still names; and the victim's
\* row is fresh for as long as it leads.  Once the tracker has seen the gap, not
\* even the victim is left.
SampleInv ==
    clean => IF tracked = Nobody
             THEN leads \cup FreshlyMarked \subseteq won
             ELSE /\ leads \cup Marked \subseteq won \cup {tracked}
                  /\ tracked \in leads => tracked \in won \cup FreshlyMarked

\* No row is marked that has not been written by a leader since it got dark.
DarkInv ==
    /\ leads # {} => dark = 0
    /\ \A n \in Marked : dark <= row[n].age

\* From the wipe on, a snapshot of an old state has been saved again, and who has
\* an old state and is not told to stop has it from there or from another node.
GenesisInv ==
    stage \in {"stop", "await", "started"} =>
        /\ saved \subseteq resaved
        /\ \A n \in carries : n \in resaved \cup passed \cup toStop \/ proc[n] # "up"

ChaosInv ==
    /\ ChaosTypeOK /\ FleetTypes /\ Elsewhere
    /\ SampleInv /\ CleanSample /\ DarkInv /\ GenesisInv

\* Ticks that are not from before the run are true, and a task logs no less than
\* it has logged: only a new one can fall behind its node's highest tick.
TicksTrue ==
    /\ commit \in Nat /\ own \in [Node -> Nat] /\ ticked \in [Node -> Nat]
    /\ \A n \in Node \ before : ticked[n] <= commit
    /\ \A n \in Node \ (before \cup again) : own[n] = ticked[n]

\* So is what the wait has found, from then on; and the leader's next tick is not
\* below Target, unless it is of another task.
WaitTrue ==
    /\ leaderCommit \in Nat
    /\ step \in {"found", "killed"} =>
        /\ leaderId \in Node /\ leaderCommit >= Target
        /\ leaderId \notin before => leaderCommit <= commit
        /\ leaderId \notin before \cup again => ticked[leaderId] >= Target

\* Only in exp4 does anything happen to the timeline.  A line of the killed task's
\* start is later than the kill only if ECS listed the task while it was starting.
StartsTrue ==
    /\ started \in Seq({"early", "killed", "successor"})
    /\ \A i \in DOMAIN started : started[i] = "killed" => victim.was = "starting"
    /\ experiment # "exp4" => step = "wait"
    /\ experiment = "exp4" /\ step \in {"wait", "found"} => \A n \in Node : proc[n] # "doomed"
    /\ step \in {"killed", "observe"} /\ proc[victim.node] = "doomed" => victim.was = "starting"
    /\ step \in {"killed", "observe"} => victim.node \in Node
    /\ step \in {"wait", "found"} => restart = "none"

RecoveryInv == TicksTrue /\ WaitTrue /\ StartsTrue /\ SummaryTrue

\* A message of which no hold has expired and which has not turned up again is
\* held by the bench as long as the bench has still to release it, and by the
\* dispatcher once that has seen it.
HoldsTrue ==
    /\ seen \in [Message -> Nat]
    /\ holder \in [Message -> {"visible", "bench", "dispatcher", "deleted"}]
    /\ batch \subseteq Message
    /\ \A m \in Message \ (lapsed \cup late \cup copied) :
        /\ m \in batch => holder[m] = "bench"
        /\ seen[m] = 0 \/ (seen[m] = 1 /\ holder[m] \in {"dispatcher", "deleted"})

-----------------------------------------------------------------------------
\* Every message is visible and unseen at first.
LEMMA HoldsInit == RedeliveryInit => HoldsTrue
  BY DEF RedeliveryInit, HoldsTrue

\* Every step of the loop, the queue and the dispatcher keeps HoldsTrue.
LEMMA HoldsStep == HoldsTrue /\ RedeliveryNext => HoldsTrue'
<1> SUFFICES ASSUME HoldsTrue, RedeliveryNext PROVE HoldsTrue'
  OBVIOUS
<1> USE DEF HoldsTrue, Hold
<1>1. CASE ReceiveBatch BY <1>1 DEF ReceiveBatch
<1>2. CASE Abandon BY <1>2 DEF Abandon
<1>3. ASSUME NEW m \in Message, Deliver(m) PROVE HoldsTrue'
  BY <1>3 DEF Deliver
<1>4. ASSUME NEW m \in Message, Delete(m) PROVE HoldsTrue'
  BY <1>4 DEF Delete
<1>5. ASSUME NEW m \in Message, HoldExpires(m) PROVE HoldsTrue'
  BY <1>5 DEF HoldExpires
<1>6. ASSUME NEW m \in Message, Release(m) PROVE HoldsTrue'
  BY <1>6 DEF Release
<1>7. ASSUME NEW m \in Message, Resurface(m) PROVE HoldsTrue'
  BY <1>7 DEF Resurface
<1> QED BY <1>1, <1>2, <1>3, <1>4, <1>5, <1>6, <1>7 DEF RedeliveryNext

\* The redelivery loop of exp3 redelivers nothing by itself: the dispatcher sees a
\* message twice only after a hold, its own or the bench's, has expired, or the
\* queue, which delivers at least once, has delivered it again.
THEOREM SecondDeliveryHasACause == Spec => []SecondDeliveryCause
<1>1. Init => HoldsTrue
  BY HoldsInit DEF Init
<1>2. HoldsTrue /\ [Next]_vars => HoldsTrue'
  <2>1. HoldsTrue /\ UNCHANGED redeliveryVars => HoldsTrue'
    BY DEF HoldsTrue, redeliveryVars
  <2> QED BY <2>1, HoldsStep DEF Next, vars
<1>3. HoldsTrue => SecondDeliveryCause
  BY DEF HoldsTrue, SecondDeliveryCause
<1> QED BY <1>1, <1>2, <1>3, PTL DEF Spec

-----------------------------------------------------------------------------
\* What a step of the coordinators does to the tasks, apart from a kill.
LEMMA NobodyDoomed ==
  ASSUME NEW n \in Node, Boot(n) \/ Elect(n) \/ FleetChange(n) \/ Crash(n) \/ RowExpires(n),
         ChaosTypeOK
  PROVE  /\ \A m \in Node : proc'[m] = "doomed" => proc[m] = "doomed"
         /\ DOMAIN proc' = DOMAIN proc
  BY DEF Boot, Elect, FleetChange, Crash, RowExpires, StepDown, Exit, Replace, Beat, Expire,
         SetProc, ChaosTypeOK

\* No run has begun: nothing is killed, and all ticks are from before.
LEMMA RecoveryInitInv == Init => RecoveryInv
  BY RecoveryAssumption
     DEF Init, RecoveryInit, NoTicks, RecoveryInv, TicksTrue, WaitTrue, StartsTrue, SummaryTrue,
         ThresholdTrue, CommitReportTrue, RestartIsSuccessor, FleetInit

\* Every step of experiment 4 and of the cluster it watches keeps RecoveryInv.
LEMMA RecoveryStep ==
  ASSUME ChaosTypeOK, RecoveryInv, RecoveryNext, experiment = "exp4", experiment' = experiment
  PROVE  RecoveryInv'
<1> USE DEF RecoveryInv, TicksTrue, WaitTrue, StartsTrue, SummaryTrue, ThresholdTrue,
            CommitReportTrue, RestartIsSuccessor, logVars, fleetVars
<1> USE RecoveryAssumption
<1>1. CASE Commit BY <1>1 DEF Commit
<1>2. CASE WaitForCommit
  <2>1. PICK n \in Node : /\ ticked[n] >= Target /\ leaderId' = n /\ leaderCommit' = ticked[n]
                          /\ own' = TicksOf(n, own) /\ ticked' = TicksOf(n, ticked)
    BY <1>2 DEF WaitForCommit, LatestCommit, FindLeader, Marked, ChaosTypeOK, Running
  <2>2. /\ own' \in [Node -> Nat] /\ ticked' \in [Node -> Nat] /\ ticked'[n] = ticked[n]
        /\ \A m \in Node : \/ own'[m] = own[m] /\ ticked'[m] = ticked[m]
                           \/ own'[m] = 0 /\ ticked'[m] = 0
    BY <2>1 DEF TicksOf, NoTicks
  <2>3. UNCHANGED <<proc, commit, before, again, started, victim, restart>> /\ step' = "found"
    BY <1>2 DEF WaitForCommit
  <2>4. TicksTrue'
    <3>1. ASSUME NEW m \in Node \ before PROVE ticked'[m] <= commit
      <4>1. ticked[m] <= commit /\ commit \in Nat BY <3>1
      <4>2. ticked'[m] \in {ticked[m], 0} BY <2>2, <3>1
      <4> QED BY <4>1, <4>2
    <3>2. ASSUME NEW m \in Node \ (before \cup again) PROVE own'[m] = ticked'[m]
      BY <2>2, <3>2
    <3> QED BY <2>2, <2>3, <3>1, <3>2
  <2>5. WaitTrue' BY <2>1, <2>2, <2>3
  <2>6. StartsTrue' BY <1>2, <2>3 DEF WaitForCommit
  <2>7. SummaryTrue' BY <2>1, <2>3
  <2> QED BY <2>4, <2>5, <2>6, <2>7
<1>3. CASE WaitTimesOut BY <1>3 DEF WaitTimesOut
<1>4. CASE KillFollower
  <2>1. PICK n \in Node : /\ StopTask(n) /\ victim' = [node |-> n, was |-> proc[n]]
                          /\ started' = <<>> \/ started' = <<"early">>
    BY <1>4 DEF KillFollower
  <2>2. proc'[n] = "doomed" => proc[n] = "starting"
    BY <2>1 DEF StopTask, SetProc, Told, Listed, ChaosTypeOK
  <2>3. started' \in Seq({"early", "killed", "successor"})
        /\ \A i \in DOMAIN started' : started'[i] # "killed"
    <3>1. CASE started' = <<>> BY <3>1
    <3>2. CASE started' = <<"early">> BY <3>2
    <3> QED BY <2>1, <3>1, <3>2
  <2> QED BY <1>4, <2>1, <2>2, <2>3 DEF KillFollower
<1>5. CASE ReadCommit
  <2>1. PICK c \in {0} \cup own[leaderId]..ticked[leaderId] :
            leaderCommit' = IF c > 0 THEN c ELSE leaderCommit
    BY <1>5 DEF ReadCommit
  <2>2. leaderId \in Node /\ own[leaderId] \in Nat /\ ticked[leaderId] \in Nat
    BY <1>5 DEF ReadCommit
  <2>3. leaderCommit' \in Nat /\ (leaderCommit' = leaderCommit
                                  \/ leaderCommit' \in own[leaderId]..ticked[leaderId])
    BY <2>1, <2>2
  <2>4. /\ step = "killed" /\ step' = "observe" /\ own' = NoTicks /\ ticked' = NoTicks
        /\ UNCHANGED <<proc, leaderId, victim, commit, before, again, started, restart>>
    BY <1>5 DEF ReadCommit
  <2>5. leaderId \notin before => leaderCommit' <= commit
    BY <2>2, <2>3, <2>4
  <2>6. leaderId \notin before \cup again => leaderCommit' >= Target
    BY <2>2, <2>3, <2>4
  <2>7. TicksTrue' /\ WaitTrue' BY <2>3, <2>4 DEF NoTicks
  <2>8. StartsTrue' BY <2>4
  <2>9. SummaryTrue' BY <2>4, <2>5, <2>6
  <2> QED BY <2>7, <2>8, <2>9
<1>6. CASE Abort BY <1>6 DEF Abort
<1>7. CASE Observe
  <2>1. PICK i \in DOMAIN started : started[i] # "early" /\ restart' = started[i]
    BY <1>7 DEF Observe, LateStarted
  <2>2. started[i] \in {"early", "killed", "successor"}
    BY <2>1
  <2> QED BY <1>7, <2>1, <2>2 DEF Observe
<1>8. CASE ObserveTimesOut BY <1>8 DEF ObserveTimesOut
<1>9. ASSUME NEW n \in Node, LogTick(n) PROVE RecoveryInv'
  <2>1. PICK c \in own[n]..commit :
            /\ own' = [own EXCEPT ![n] = c]
            /\ ticked' = [ticked EXCEPT ![n] = IF c > @ THEN c ELSE @]
    BY <1>9 DEF LogTick
  <2>2. /\ c \in Nat /\ own[n] <= c /\ c <= commit
        /\ UNCHANGED <<proc, step, leaderId, leaderCommit, victim, restart>>
        /\ UNCHANGED <<commit, before, again, started>>
    BY <1>9, <2>1 DEF LogTick
  <2>3. /\ own' \in [Node -> Nat] /\ ticked' \in [Node -> Nat]
        /\ own'[n] = c /\ ticked'[n] = (IF c > ticked[n] THEN c ELSE ticked[n])
        /\ \A m \in Node \ {n} : own'[m] = own[m] /\ ticked'[m] = ticked[m]
    BY <2>1, <2>2
  <2>4. ticked'[n] \in Nat /\ ticked'[n] >= ticked[n] /\ ticked'[n] \in {c, ticked[n]}
    BY <2>2, <2>3
  <2>5. \A m \in Node : ticked'[m] >= ticked[m]
    <3> SUFFICES ASSUME NEW m \in Node PROVE ticked'[m] >= ticked[m]
      OBVIOUS
    <3>1. ticked[m] \in Nat OBVIOUS
    <3>2. CASE m = n BY <2>4, <3>2
    <3>3. CASE m # n
      <4>1. ticked'[m] = ticked[m] BY <2>3, <3>3
      <4> QED BY <3>1, <4>1
    <3> QED BY <3>2, <3>3
  <2>7. TicksTrue'
    <3>1. ASSUME NEW m \in Node \ before PROVE ticked'[m] <= commit
      BY <2>2, <2>3, <2>4, <3>1
    <3>2. ASSUME NEW m \in Node \ (before \cup again) PROVE own'[m] = ticked'[m]
      <4>1. CASE m = n
        <5>1. own[n] = ticked[n] BY <3>2, <4>1
        <5> QED BY <2>2, <2>3, <4>1, <5>1
      <4>2. CASE m # n BY <2>3, <3>2, <4>2
      <4> QED BY <4>1, <4>2
    <3> QED BY <2>2, <2>3, <3>1, <3>2
  <2>6. WaitTrue' BY <2>2, <2>3, <2>5
  <2> QED BY <2>2, <2>6, <2>7
<1>10. ASSUME NEW n \in Node, BootLogs(n) PROVE RecoveryInv'
  BY <1>10, NobodyDoomed DEF BootLogs
<1>11. ASSUME NEW n \in Node, Crash(n) \/ RowExpires(n) PROVE RecoveryInv'
  <2>1. UNCHANGED recoveryVars BY <1>11 DEF Crash, RowExpires
  <2>2. \A m \in Node : proc'[m] = "doomed" => proc[m] = "doomed" BY <1>11, NobodyDoomed
  <2> QED BY <2>1, <2>2 DEF recoveryVars
<1>12. ASSUME NEW n \in Node, Elect(n) \/ FleetChange(n), UNCHANGED recoveryVars
       PROVE RecoveryInv'
  BY <1>12, NobodyDoomed DEF recoveryVars
<1> QED
  BY <1>1, <1>2, <1>3, <1>4, <1>5, <1>6, <1>7, <1>8, <1>9, <1>10, <1>11, <1>12
     DEF RecoveryNext, MainStep

-----------------------------------------------------------------------------
USE DEF Old

\* No kill is on record and no reset is under way.
LEMMA ChaosInitInv == Init => ChaosInv
<1> SUFFICES ASSUME Init PROVE ChaosInv
  OBVIOUS
<1>1. ChaosTypeOK
  BY FleetAssumption DEF Init, FleetInit, ChaosInit, ChaosTypeOK, Running
<1>2. FleetTypes /\ Elsewhere /\ SampleInv /\ CleanSample /\ GenesisInv
  BY FleetAssumption DEF Init, FleetInit, ChaosInit, FleetTypes, Elsewhere, SampleInv, CleanSample,
     GenesisInv
<1>3. DarkInv
  BY <1>1, FleetAssumption DEF Init, ChaosInit, DarkInv, ChaosTypeOK, Marked
<1> QED BY <1>1, <1>2, <1>3 DEF ChaosInv

\* A write changes the row of its node.
LEMMA WriteRow ==
  ASSUME ChaosTypeOK, NEW n \in Node, NEW mark \in BOOLEAN, NEW age \in 0..Old,
         row' = [row EXCEPT ![n] = [mark |-> mark, age |-> age]]
  PROVE  /\ row' \in [Node -> [mark : BOOLEAN, age : 0..Old]]
         /\ row'[n].mark = mark /\ row'[n].age = age
         /\ \A m \in Node \ {n} : row'[m] = row[m]
  BY DEF ChaosTypeOK

\* The steps of a coordinator and of its service that nobody notes.
LEMMA FleetChangeKeeps ==
  ASSUME ChaosInv, NEW n \in Node, FleetChange(n), UNCHANGED chaosVars
  PROVE  ChaosInv'
<1> USE FleetAssumption
<1> USE DEF ChaosInv, ChaosTypeOK, FleetTypes, Elsewhere, SampleInv, CleanSample, DarkInv, GenesisInv,
            Running, Marked, FreshlyMarked, SetProc, Write, chaosVars, trackVars, stateVars
<1>1. CASE StepDown(n) BY <1>1 DEF StepDown
<1>2. CASE Exit(n) BY <1>2 DEF Exit
<1>3. CASE Replace(n) BY <1>3 DEF Replace
<1>4. CASE Beat(n)
  <2>1. /\ row' \in [Node -> [mark : BOOLEAN, age : 0..Old]]
        /\ (row'[n].mark <=> n \in leads) /\ row'[n].age = 0
        /\ \A m \in Node \ {n} : row'[m] = row[m]
    <3>1. CASE n \in leads
      <4>1. row' = [row EXCEPT ![n] = [mark |-> TRUE, age |-> 0]] BY <1>4, <3>1, Zenon DEF Beat
      <4> QED BY <3>1, <4>1, WriteRow
    <3>2. CASE n \notin leads
      <4>1. (n \in leads) = FALSE BY <3>2
      <4>2. row' = [row EXCEPT ![n] = [mark |-> FALSE, age |-> 0]] BY <1>4, <4>1, Zenon DEF Beat
      <4> QED BY <3>2, <4>2, WriteRow
    <3> QED BY <3>1, <3>2
  <2>2. ChaosTypeOK' BY <1>4, <2>1 DEF Beat
  <2>3. /\ Marked' \subseteq Marked \cup leads /\ FreshlyMarked' \subseteq FreshlyMarked \cup leads
        /\ leads \cap FreshlyMarked \subseteq FreshlyMarked'
    BY <2>1
  <2>4. SampleInv' BY <1>4, <2>3 DEF Beat
  <2>5. DarkInv' BY <1>4, <2>1 DEF Beat
  <2> QED BY <1>4, <2>2, <2>4, <2>5 DEF Beat
<1>5. CASE Expire(n)
  <2>1. /\ row' \in [Node -> [mark : BOOLEAN, age : 0..Old]]
        /\ ~row'[n].mark
        /\ \A m \in Node \ {n} : row'[m] = row[m]
    BY <1>5 DEF Expire
  <2>2. ChaosTypeOK' BY <1>5, <2>1 DEF Expire
  <2>3. SampleInv' BY <1>5, <2>1 DEF Expire
  <2>4. DarkInv' BY <1>5, <2>1 DEF Expire
  <2> QED BY <1>5, <2>2, <2>3, <2>4 DEF Expire
<1> QED BY <1>1, <1>2, <1>3, <1>4, <1>5 DEF FleetChange

\* Time: the row of the victim stays fresh while it leads, unless a heartbeat
\* lapses; and the dark grows no faster than the rows age.
LEMMA PassKeeps ==
  ASSUME ChaosInv, experiment \in {"exp1", "repeat", "exp3"}, Pass
  PROVE  ChaosInv'
<1> USE FleetAssumption
<1> USE DEF ChaosInv, ChaosTypeOK, FleetTypes, Elsewhere, SampleInv, CleanSample, DarkInv, GenesisInv,
            Running, Marked, FreshlyMarked, trackVars, stateVars, Pass, FleetTick
<1>1. /\ row' \in [Node -> [mark : BOOLEAN, age : 0..Old]]
      /\ \A m \in Node : row'[m].mark = row[m].mark /\ row'[m].age = Older(row[m].age)
  BY DEF Older
<1>2. used' \in [{"elections", "kills", "lapses"} -> Nat]
      /\ (used' = used => \A m \in Running : row[m].age < Stale)
  BY DEF Spend
<1>3. dark' \in 0..Old
  BY DEF Older
<1>4. ChaosTypeOK' BY <1>1
<1>5. SampleInv' /\ CleanSample' /\ Elsewhere'
  <2>1. Marked' = Marked /\ FreshlyMarked' \subseteq FreshlyMarked BY <1>1 DEF Older
  <2>2. ASSUME used' = used, NEW m \in leads \cap FreshlyMarked PROVE m \in FreshlyMarked'
    BY <1>1, <1>2, <2>2 DEF Older
  <2>3. SampleInv' BY <2>1, <2>2
  <2> QED BY <2>3
<1>6. DarkInv'
  <2>1. \A a, b \in 0..Old : a <= b => Older(a) <= Older(b) /\ 0 <= Older(b) BY DEF Older
  <2>2. \A m \in Marked' : dark <= row[m].age /\ row[m].age \in 0..Old BY <1>1
  <2> QED BY <1>1, <2>1, <2>2
<1>7. GenesisInv' OBVIOUS
<1> QED BY <1>2, <1>3, <1>4, <1>5, <1>6, <1>7

\* The main thread, the tracker and the loops.
LEMMA ThreadsKeep ==
  ASSUME ChaosInv, experiment \in {"exp1", "repeat", "exp3"},
         \/ Scan \/ ScanFails \/ StopLoops \/ EndRun \/ Wipe \/ ResetReturns \/ ResetFails
         \/ \E k \in Loops : Find(k) \/ Kill(k) \/ Skip(k) \/ LoopFails(k)
  PROVE  ChaosInv'
<1> USE FleetAssumption
<1> USE DEF ChaosInv, ChaosTypeOK, FleetTypes, Elsewhere, SampleInv, CleanSample, DarkInv, GenesisInv,
            Running, Marked, FreshlyMarked, trackVars, stateVars, fleetVars, Enter
<1>1. CASE Scan
  <2>1. PICK n \in Node \cup {Nobody} :
            See(n) /\ IF FreshlyMarked = {} THEN n = Nobody ELSE n \in FreshlyMarked
    BY <1>1 DEF Scan
  <2>2. CASE IsSample(n) /\ clean
    <3>1. n \in won BY <2>1, <2>2 DEF IsSample
    <3> QED BY <1>1, <2>1, <2>2, <3>1 DEF Scan, See
  <2>3. CASE IsSample(n) /\ ~clean BY <1>1, <2>1, <2>3 DEF Scan, See
  <2>4. CASE ~IsSample(n) BY <1>1, <2>1, <2>4 DEF Scan, See, IsSample
  <2> QED BY <2>2, <2>3, <2>4
<1>2. CASE ScanFails BY <1>2 DEF ScanFails, Spend
<1>3. CASE StopLoops BY <1>3 DEF StopLoops
<1>4. CASE EndRun BY <1>4 DEF EndRun
<1>5. CASE Wipe BY <1>5 DEF Wipe, LeftInS3
<1>6. CASE ResetReturns BY <1>6 DEF ResetReturns
<1>7. CASE ResetFails BY <1>7 DEF ResetFails
<1>8. ASSUME NEW k \in Loops, Find(k) PROVE ChaosInv'
  BY <1>8 DEF Find
<1>9. ASSUME NEW k \in Loops, Kill(k) PROVE ChaosInv'
  <2>1. PICK n :
            /\ StopTask(n)
            /\ IF k = "leader" /\ aim[k].live
               THEN /\ pending' = TRUE /\ won' = {}
                    /\ clean' = (tracked = n /\ FreshlyMarked = {n} /\ Marked = {n} /\ leads = {n})
               ELSE clean' = FALSE /\ UNCHANGED <<pending, won>>
    BY <1>9 DEF Kill
  <2>2. /\ proc' \in [Node -> {"up", "stopping", "down", "starting", "doomed"}]
        /\ \A m \in Node : /\ proc'[m] = "up" => proc[m] = "up"
                           /\ m \in Running => m \in Running'
    BY <2>1 DEF StopTask, SetProc, Told, Listed
  <2>3. used' \in [{"elections", "kills", "lapses"} -> Nat]
    BY <2>1 DEF StopTask, Spend
  <2>4. UNCHANGED <<leads, row>>
    BY <2>1 DEF StopTask
  <2>5. UNCHANGED <<experiment, stage, tracked, bogus, toStop, dark, stateVars>>
    BY <1>9 DEF Kill
  <2>6. ChaosTypeOK' BY <2>1, <2>2, <2>4, <2>5
  <2>7. SampleInv' /\ Elsewhere'
    <3>1. CASE k = "leader" /\ aim[k].live
      <4>1. Marked' = Marked /\ FreshlyMarked' = FreshlyMarked BY <2>4
      <4>2. clean' => tracked = n /\ FreshlyMarked = {n} /\ Marked = {n} /\ leads = {n}
        BY <2>1, <3>1
      <4>3. n \in Marked => n # Nobody OBVIOUS
      <4> HIDE DEF Marked, FreshlyMarked
      <4> QED BY <2>4, <2>5, <4>1, <4>2, <4>3
    <3>2. CASE ~(k = "leader" /\ aim[k].live)
      <4>1. clean' = FALSE BY <2>1, <3>2
      <4> QED BY <2>5, <4>1
    <3> QED BY <3>1, <3>2
  <2>8. GenesisInv' BY <2>2, <2>5
  <2> QED BY <2>3, <2>4, <2>5, <2>6, <2>7, <2>8
<1>10. ASSUME NEW k \in Loops, Skip(k) PROVE ChaosInv'
  BY <1>10 DEF Skip
<1>11. ASSUME NEW k \in Loops, LoopFails(k) PROVE ChaosInv'
  BY <1>11 DEF LoopFails, Spend
<1> QED BY <1>1, <1>2, <1>3, <1>4, <1>5, <1>6, <1>7, <1>8, <1>9, <1>10, <1>11

\* The steps of a coordinator that a reset or a sample takes note of.
LEMMA NotedKeep ==
  ASSUME ChaosInv, NEW n \in Node,
         \/ StopService(n) \/ Save(n) \/ BootRestores(n) \/ ElectNoted(n)
         \/ \E m \in Node : Replicate(m, n)
  PROVE  ChaosInv'
<1> USE FleetAssumption
<1> USE DEF ChaosInv, ChaosTypeOK, FleetTypes, Elsewhere, SampleInv, CleanSample, DarkInv, GenesisInv,
            Running, Marked, FreshlyMarked, trackVars, stateVars, fleetVars
<1>1. CASE StopService(n) BY <1>1 DEF StopService, Told
<1>2. CASE Save(n) BY <1>2 DEF Save
<1>3. CASE BootRestores(n)
  <2>1. /\ row' \in [Node -> [mark : BOOLEAN, age : 0..Old]]
        /\ ~row'[n].mark /\ \A m \in Node \ {n} : row'[m] = row[m]
    BY <1>3, WriteRow DEF BootRestores, Boot, Write
  <2>2. ChaosTypeOK' BY <1>3, <2>1 DEF BootRestores, Boot, SetProc
  <2>3. SampleInv' BY <1>3, <2>1 DEF BootRestores, Boot
  <2>4. DarkInv' BY <1>3, <2>1 DEF BootRestores, Boot
  <2>5. GenesisInv' BY <1>3 DEF BootRestores, Boot, SetProc
  <2> QED BY <1>3, <2>2, <2>3, <2>4, <2>5 DEF BootRestores, Boot
<1>4. CASE ElectNoted(n) BY <1>4 DEF ElectNoted, Elect, Spend
<1>5. CASE \E m \in Node : Replicate(m, n) BY <1>5 DEF Replicate
<1> QED BY <1>1, <1>2, <1>3, <1>4, <1>5

\* In experiment 4 there is neither a sample nor a reset, and what its steps do to
\* the coordinators keeps the rest.
LEMMA RecoveryKeepsChaos ==
  ASSUME ChaosInv, experiment = "exp4", RecoveryNext, UNCHANGED chaosVars
  PROVE  ChaosInv'
<1>1. \/ UNCHANGED fleetVars
      \/ \E n \in Node : \/ Boot(n) \/ Elect(n) \/ StopTask(n) \/ FleetChange(n)
                         \/ Crash(n) \/ RowExpires(n)
  BY DEF RecoveryNext, MainStep, Commit, LogTick, BootLogs, WaitForCommit, WaitTimesOut,
         KillFollower, Abort, ReadCommit, Observe, ObserveTimesOut
<1>2. ASSUME NEW n \in Node, FleetChange(n) PROVE ChaosInv'
  BY <1>2, FleetChangeKeeps
<1> USE FleetAssumption
<1> USE DEF ChaosInv, ChaosTypeOK, FleetTypes, Elsewhere, SampleInv, CleanSample, DarkInv, GenesisInv,
            Running, Marked, chaosVars, trackVars, stateVars, fleetVars
<1>3. CASE UNCHANGED fleetVars BY <1>3
<1>4. ASSUME NEW n \in Node, Crash(n) PROVE ChaosInv'
  BY <1>4 DEF Crash, SetProc, Spend
<1>8. ASSUME NEW n \in Node, RowExpires(n) PROVE ChaosInv'
  <2>1. /\ row' \in [Node -> [mark : BOOLEAN, age : 0..Old]]
        /\ ~row'[n].mark /\ \A m \in Node \ {n} : row'[m] = row[m]
    BY <1>8 DEF RowExpires
  <2> QED BY <1>8, <2>1 DEF RowExpires
<1>5. ASSUME NEW n \in Node, Boot(n) PROVE ChaosInv'
  <2>1. row' \in [Node -> [mark : BOOLEAN, age : 0..Old]] BY <1>5, WriteRow DEF Boot, Write
  <2>2. ChaosTypeOK' BY <1>5, <2>1 DEF Boot, SetProc
  <2>3. DarkInv' BY <1>5, <2>1 DEF Boot
  <2>4. GenesisInv' OBVIOUS
  <2> QED BY <1>5, <2>2, <2>3, <2>4 DEF Boot
<1>6. ASSUME NEW n \in Node, Elect(n) PROVE ChaosInv'
  BY <1>6 DEF Elect, Spend
<1>7. ASSUME NEW n \in Node, StopTask(n) PROVE ChaosInv'
  BY <1>7 DEF StopTask, Spend, SetProc, Told, Listed
<1> QED BY <1>1, <1>2, <1>3, <1>4, <1>5, <1>6, <1>7, <1>8

\* Every step keeps both invariants.
LEMMA ExperimentsStep ==
  ChaosInv /\ RecoveryInv /\ [Next]_vars => ChaosInv' /\ RecoveryInv'
<1> SUFFICES ASSUME ChaosInv, RecoveryInv, [Next]_vars PROVE ChaosInv' /\ RecoveryInv'
  OBVIOUS
<1>1. ASSUME UNCHANGED <<fleetVars, chaosVars>> PROVE ChaosInv'
  BY <1>1 DEF ChaosInv, ChaosTypeOK, FleetTypes, Elsewhere, SampleInv, CleanSample, DarkInv, GenesisInv,
              Running, Marked, FreshlyMarked, chaosVars, trackVars, stateVars, fleetVars
<1>2. ASSUME UNCHANGED recoveryVars, experiment' = experiment,
             experiment # "exp4" \/ UNCHANGED fleetVars
      PROVE  RecoveryInv'
  BY <1>2 DEF RecoveryInv, TicksTrue, WaitTrue, StartsTrue, SummaryTrue, ThresholdTrue,
              CommitReportTrue, RestartIsSuccessor, recoveryVars, logVars, fleetVars
<1>3. CASE experiment \in {"exp1", "repeat", "exp3"} /\ ChaosNext
           /\ UNCHANGED <<recoveryVars, redeliveryVars>>
  <2>1. ChaosInv'
    BY <1>3, PassKeeps, ThreadsKeep, NotedKeep, FleetChangeKeeps DEF ChaosNext
  <2>2. experiment' = experiment
    BY <1>3 DEF ChaosNext, Scan, ScanFails, Pass, StopLoops, EndRun, Wipe, ResetReturns, ResetFails,
                Find, Kill, Skip, LoopFails, StopService, Save, BootRestores, ElectNoted, Replicate,
                Enter, chaosVars
  <2> QED BY <1>2, <1>3, <2>1, <2>2
<1>4. CASE experiment = "exp4" /\ RecoveryNext /\ UNCHANGED <<chaosVars, redeliveryVars>>
  BY <1>4, RecoveryKeepsChaos, RecoveryStep DEF ChaosInv, chaosVars
<1>5. CASE experiment = "redeliver" /\ UNCHANGED <<fleetVars, chaosVars, recoveryVars>>
  BY <1>1, <1>2, <1>5 DEF chaosVars
<1>6. CASE UNCHANGED vars
  BY <1>1, <1>2, <1>6 DEF vars, chaosVars
<1> QED BY <1>3, <1>4, <1>5, <1>6 DEF Next

\* Both are invariants of whichever program runs.
LEMMA ExperimentsInvariant == Spec => [](ChaosInv /\ RecoveryInv)
  BY ChaosInitInv, RecoveryInitInv, ExperimentsStep, PTL DEF Spec

\* A convergence sample that analyze takes of a clean kill is the time of an election
\* after it, however the scans, the heartbeats and the victim's end are ordered.
THEOREM SamplesAreElections == Spec => []CleanSample
<1>1. ChaosInv => CleanSample
  BY DEF ChaosInv
<1> QED BY <1>1, ExperimentsInvariant, PTL

\* After a successful _reset_cluster a coordinator has an old state only from a
\* snapshot that an old task saved between the wipe and its end, or by replication
\* from a leader that had it: never from the snapshots that were deleted, and never
\* because its task has outlived the reset.
THEOREM OldStateHasACause == Spec => []GenesisCause
<1>1. ChaosInv => GenesisCause
  BY DEF ChaosInv, GenesisInv, GenesisCause, ChaosTypeOK
<1> QED BY <1>1, ExperimentsInvariant, PTL

\* exp4 kills a follower only at the commit index it was asked for, or at one an
\* earlier run has left in the log group; leader_commit_at_kill, which it reads
\* after the kill, is an index the cluster has committed by then, and below the one
\* asked for only if the leader's task was replaced meanwhile; and the timeline
\* counts from the successor's start, or from that of a task that was killed while
\* it was starting.
THEOREM SummaryIsTrue == Spec => []SummaryTrue
<1>1. RecoveryInv => SummaryTrue
  BY DEF RecoveryInv
<1> QED BY <1>1, ExperimentsInvariant, PTL

\* The wait of _reset_cluster ends only in a cluster that had a leader within the
\* last three seconds.
THEOREM ResetLeavesALiveCluster == Spec => ResetOnLiveCluster
<1>1. ChaosInv /\ [Next]_vars
        => [stage = "await" /\ stage' = "started" => dark < Stale]_<<fleetVars, chaosVars>>
  <2> SUFFICES ASSUME ChaosInv, [Next]_vars, stage = "await", stage' = "started"
               PROVE  dark < Stale
    BY DEF vars
  <2>1. ResetReturns
    BY DEF Next, vars, ChaosNext, Scan, ScanFails, Pass, StopLoops, EndRun, Wipe, ResetFails, Find,
           Kill, Skip, LoopFails, StopService, Save, BootRestores, ElectNoted, Replicate,
                Enter, chaosVars
  <2>2. PICK n \in Marked : row[n].age < Stale
    BY <2>1 DEF ResetReturns, Ready, Marked
  <2>3. dark <= row[n].age /\ dark \in 0..Old /\ row[n].age \in 0..Old
    BY <2>2 DEF ChaosInv, DarkInv, FleetTypes, ChaosTypeOK, Marked
  <2> QED BY <2>2, <2>3, FleetAssumption
<1> QED BY <1>1, ExperimentsInvariant, PTL DEF Spec, ResetOnLiveCluster
=============================================================================
