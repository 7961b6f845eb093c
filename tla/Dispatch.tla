------------------------------ MODULE Dispatch ------------------------------
(***************************************************************************)
(* Task dispatch: the ingest API and its orphan scanner                    *)
(* (task-ingest-api/main.go) and the Dispatcher that runs on every         *)
(* coordinator (raft/dispatcher.go), both the consumer of the ingest queue *)
(* and the replicated state machine.                                       *)
(*                                                                         *)
(* Raft is what it promises to be, a log of committed entries that every   *)
(* node applies in order, with one leader at a time; what raft/node.go     *)
(* delivers of that promise is the subject of the module Raft.  SQS is a   *)
(* set of messages: delivered at least once, in any order, until deleted.  *)
(***************************************************************************)
EXTENDS Integers, Sequences, FiniteSets

CONSTANTS
    Node,       \* the coordinators
    Task,       \* task IDs
    NoNode,     \* "no leader"
    PageSize,   \* rows of the tasks table that fit one page of a Scan
    MaxTerm,    \* bound: elections
    MaxErrors,  \* bound: SendMessage calls of Apply that report an error
    MaxMisses,  \* bound: lookups that fail or do not see the row
    MaxTimeouts,\* bound: commit waits given up
    MaxCrashes, \* bound: restarts
    MaxSnapshots,\* bound: snapshots taken
    MaxInstalls \* bound: snapshots installed on a running node

ASSUME DispatchAssumption ==
    /\ NoNode \notin Node /\ PageSize \in Nat
    /\ {MaxTerm, MaxErrors, MaxMisses, MaxTimeouts, MaxCrashes} \subseteq Nat
    /\ {MaxSnapshots, MaxInstalls} \subseteq Nat

VARIABLES
    status,      \* the tasks table: status of each row
    unread,      \*   the rows past the first page of a Scan
    ingest,      \* the ingest queue
    assignments, \* what was sent to the assignment queue, and in which term
    leader,
    term,
    log,         \* committed entries
    tail,        \* the leader's uncommitted entries
    applied,     \* lastApplied of each node
    dispatched,  \* Dispatcher.dispatched of each node
    applying,    \* the call of Apply in progress on each node
    handling,    \* the call of handleIngest in progress on each node
    snapshot,    \* each node's snapshot in S3
    cached,      \* lastSnapshot of each node; its index is the log's floor
    shipped,     \* InstallSnapshot requests sent, arriving any time
    restoring,   \* snapshots installed on each node, not yet restored
    used,        \* how much of each bound has been used
    raced        \* history: an installation has disturbed an Apply

clusterVars == <<leader, term, log, tail>>
snapVars    == <<snapshot, cached, shipped, restoring>>
stateVars   == <<applied, dispatched, applying, snapVars, raced>>
queueVars   == <<status, unread, ingest, assignments>>
vars == <<clusterVars, stateVars, queueVars, handling, used>>

Idle == [pc |-> "idle"]

\* A snapshot: its index and the state machine's data; index 0 is "none".
Snap(idx, data) == [applied |-> idx, dispatched |-> data]

Bound == {"errors", "misses", "timeouts", "crashes", "snapshots", "installs"}

Spend(b, max) ==
    /\ used[b] < max
    /\ used' = [used EXCEPT ![b] = @ + 1]

Init ==
    /\ status = [t \in Task |-> "none"] /\ unread = {}
    /\ ingest = {} /\ assignments = <<>>
    /\ leader = NoNode /\ term = 0
    /\ log = <<>> /\ tail = <<>>
    /\ applied = [n \in Node |-> 0]
    /\ dispatched = [n \in Node |-> {}]
    /\ applying = [n \in Node |-> Idle]
    /\ handling = [n \in Node |-> Idle]
    /\ snapshot = [n \in Node |-> Snap(0, {})]
    /\ cached = [n \in Node |-> Snap(0, {})]
    /\ shipped = {} /\ restoring = [n \in Node |-> {}]
    /\ used = [b \in Bound |-> 0]
    /\ raced = FALSE

IsLeader(n) == leader = n

-----------------------------------------------------------------------------
(***************************************************************************)
(* The ingest API                                                          *)
(***************************************************************************)

\* The rows one Scan reads, in the order of their hashes: a new row that lands
\* on a full page pushes one off, itself or another.  Rows are never deleted.
Page == {t \in Task : status[t] # "none"} \ unread

PutRow(t) ==
    /\ status' = [status EXCEPT ![t] = "PENDING"]
    /\ IF Cardinality(Page) < PageSize
       THEN UNCHANGED unread
       ELSE \E u \in Page \cup {t} : unread' = unread \cup {u}

\* handleSubmitTask: payload, row, message, in that order.  A failed publish,
\* or a crash before it, leaves a row without a message.
Submit(t) ==
    /\ status[t] = "none"
    /\ PutRow(t)
    /\ ingest' \in {ingest, ingest \cup {t}}
    /\ UNCHANGED <<clusterVars, stateVars, assignments, handling, used>>

\* recoverOrphans: publish again what has long been PENDING, of the first page
\* only, since LastEvaluatedKey is not followed.
RecoverOrphan(t) ==
    /\ t \in Page /\ status[t] = "PENDING"
    /\ ingest' = ingest \cup {t}
    /\ UNCHANGED <<clusterVars, stateVars, status, unread, assignments, handling,
                   used>>

-----------------------------------------------------------------------------
(***************************************************************************)
(* Raft, as the dispatcher sees it                                         *)
(***************************************************************************)

\* A leader takes over with every committed entry and some of the rest.  The
\* old leader's proposals are aborted or left waiting: GiveUp is either.
Elect(n) ==
    /\ leader # n /\ term < MaxTerm
    /\ leader' = n
    /\ term' = term + 1
    /\ \E k \in 0..Len(tail) : tail' = SubSeq(tail, 1, k)
    /\ UNCHANGED <<stateVars, queueVars, log, handling, used>>

Commit ==
    /\ tail # <<>>
    /\ log' = Append(log, Head(tail))
    /\ tail' = Tail(tail)
    /\ UNCHANGED <<stateVars, queueVars, leader, term, handling, used>>

\* TakeSnapshot, with Dispatcher.Snapshot for the state.  lastApplied is read
\* first and the state outside the lock, when it may hold later entries.
TakeSnapshot(n) ==
    /\ Spend("snapshots", MaxSnapshots)
    /\ \E idx \in (cached[n].applied + 1)..applied[n] :
           /\ snapshot' = [snapshot EXCEPT ![n] = Snap(idx, dispatched[n])]
           /\ cached' = [cached EXCEPT ![n] = Snap(idx, dispatched[n])]
    /\ UNCHANGED <<clusterVars, queueVars, applied, dispatched, applying,
                   shipped, restoring, raced, handling>>

\* sendInstallSnapshot: a leader sends a follower the snapshot it has cached.
SendSnapshot(n) ==
    /\ MaxInstalls > 0
    /\ IsLeader(n) /\ cached[n].applied > 0
    /\ shipped' = shipped \cup {cached[n]}
    /\ UNCHANGED <<clusterVars, queueVars, applied, dispatched, applying,
                   snapshot, cached, restoring, raced, handling, used>>

\* HandleInstallSnapshot up to the unlock.  The leader refuses the request,
\* which is of an earlier term, and a node one not above its floor, once it
\* has one.  A call of Apply goes on meanwhile, or a Restore is still due, or
\* the request is so late that lastApplied moves back.
InstallSnapshot(n, snap) ==
    /\ Spend("installs", MaxInstalls)
    /\ ~IsLeader(n)
    /\ cached[n].applied = 0 \/ snap.applied > cached[n].applied
    /\ applied' = [applied EXCEPT ![n] = snap.applied]
    /\ cached' = [cached EXCEPT ![n] = snap]
    /\ restoring' = [restoring EXCEPT ![n] = @ \cup {snap}]
    /\ raced' = (raced \/ applying[n] # Idle \/ restoring[n] # {}
                       \/ snap.applied < applied[n])
    /\ UNCHANGED <<clusterVars, queueVars, dispatched, applying, snapshot,
                   shipped, handling>>

\* The rest of it, outside the lock: Dispatcher.Restore.
RestoreInstalled(n, snap) ==
    /\ dispatched' = [dispatched EXCEPT ![n] = snap.dispatched]
    /\ restoring' = [restoring EXCEPT ![n] = @ \ {snap}]
    /\ UNCHANGED <<clusterVars, queueVars, applied, applying, snapshot, cached,
                   shipped, raced, handling, used>>

\* A restart, with Dispatcher.Restore of the snapshot in S3; entries after it
\* are applied again.
Restart(n) ==
    /\ Spend("crashes", MaxCrashes)
    /\ leader' = IF IsLeader(n) THEN NoNode ELSE leader
    /\ applied' = [applied EXCEPT ![n] = snapshot[n].applied]
    /\ dispatched' = [dispatched EXCEPT ![n] = snapshot[n].dispatched]
    /\ applying' = [applying EXCEPT ![n] = Idle]
    /\ handling' = [handling EXCEPT ![n] = Idle]
    /\ cached' = [cached EXCEPT ![n] = snapshot[n]]
    /\ restoring' = [restoring EXCEPT ![n] = {}]
    /\ UNCHANGED <<queueVars, term, log, tail, snapshot, shipped, raced>>

-----------------------------------------------------------------------------
(***************************************************************************)
(* Dispatcher.pollOnce and handleIngest, leader only                       *)
(***************************************************************************)

\* A step of n's handleIngest that keeps the call going, and one that ends it.
Continue(n, call) == handling' = [handling EXCEPT ![n] = call]
Return(n) == Continue(n, Idle)

\* ack: DeleteMessage may fail, which is logged and no more.
Ack(t) == ingest' \in {ingest, ingest \ {t}}

Receive(n, t) ==
    /\ IsLeader(n) /\ handling[n] = Idle
    /\ t \in ingest
    /\ Continue(n, [pc |-> "received", task |-> t])
    /\ UNCHANGED <<clusterVars, stateVars, queueVars, used>>

\* The leader check of pollOnce and the fast path of handleIngest.
FastPath(n) ==
    /\ handling[n].pc = "received"
    /\ LET t == handling[n].task
       IN \/ /\ ~IsLeader(n)
             /\ Return(n)
             /\ UNCHANGED ingest
          \/ /\ IsLeader(n) /\ t \in dispatched[n]
             /\ Ack(t)
             /\ Return(n)
          \/ /\ IsLeader(n) /\ t \notin dispatched[n]
             /\ Continue(n, [handling[n] EXCEPT !.pc = "lookup"])
             /\ UNCHANGED ingest
    /\ UNCHANGED <<clusterVars, stateVars, status, unread, assignments, used>>

\* lookupS3Key finds the row and n proposes the dispatch, if it still leads.
LookupAndPropose(n) ==
    /\ handling[n].pc = "lookup"
    /\ LET t == handling[n].task
       IN \/ /\ IsLeader(n)
             /\ tail' = Append(tail, t)
             /\ Continue(n, [pc |-> "waiting", task |-> t,
                             index |-> Len(log) + Len(tail) + 1])
          \/ /\ ~IsLeader(n)
             /\ Return(n)
             /\ UNCHANGED tail
    /\ UNCHANGED <<stateVars, queueVars, leader, term, log, used>>

\* lookupS3Key fails, which leaves the message, or, being an eventually
\* consistent read, does not see the row, which drops it.
LookupMisses(n) ==
    /\ handling[n].pc = "lookup"
    /\ Spend("misses", MaxMisses)
    /\ Ack(handling[n].task)
    /\ Return(n)
    /\ UNCHANGED <<clusterVars, stateVars, status, unread, assignments>>

\* The commit wait ends without a commit: a timeout, or an aborted proposal.
GiveUp(n) ==
    /\ handling[n].pc = "waiting"
    /\ Spend("timeouts", MaxTimeouts)
    /\ Return(n)
    /\ UNCHANGED <<clusterVars, stateVars, queueVars>>

-----------------------------------------------------------------------------
(***************************************************************************)
(* Dispatcher.Apply, on every node                                         *)
(***************************************************************************)
Applying(n, call) == applying' = [applying EXCEPT ![n] = call]

\* The end of the call, for the entry applyLoop has picked.
Applied(n) == Applying(n, [pc |-> "done", idx |-> applying[n].idx])

\* Mutant: every entry is news.
NeverDispatched(n, t) == FALSE

Already(n, t) == t \in dispatched[n]

\* The marker is set under the dispatcher's lock, before anything is sent.
ApplyMark(n) ==
    /\ applying[n] = Idle
    /\ applied[n] < Len(log)
    /\ LET idx == applied[n] + 1
           t == log[idx]
       IN /\ Applying(n, IF Already(n, t)
                         THEN [pc |-> "done", idx |-> idx]
                         ELSE [pc |-> "marked", idx |-> idx, task |-> t])
          /\ dispatched' = [dispatched EXCEPT ![n] = @ \cup {t}]
    /\ raced' = (raced \/ restoring[n] # {})
    /\ UNCHANGED <<clusterVars, queueVars, applied, snapVars, handling, used>>

\* Mutant: a follower leaves the entry for the leader to remember.
ApplyAsFollowerForgetting(n) ==
    /\ applying[n].pc = "marked" /\ ~IsLeader(n)
    /\ Applied(n)
    /\ dispatched' = [dispatched EXCEPT ![n] = @ \ {applying[n].task}]
    /\ UNCHANGED <<clusterVars, queueVars, applied, snapVars, raced, handling,
                   used>>

ApplyAsFollower(n) ==
    /\ applying[n].pc = "marked" /\ ~IsLeader(n)
    /\ Applied(n)
    /\ UNCHANGED <<clusterVars, queueVars, applied, dispatched, snapVars, raced,
                   handling, used>>

ApplyAsLeader(n) ==
    /\ applying[n].pc = "marked" /\ IsLeader(n)
    /\ Applying(n, [pc |-> "publish", idx |-> applying[n].idx,
                    task |-> applying[n].task, term |-> term])
    /\ UNCHANGED <<clusterVars, queueVars, applied, dispatched, snapVars, raced,
                   handling, used>>

Assignment(n) == [task |-> applying[n].task, term |-> applying[n].term]

\* SendMessage succeeds.  markAssigned follows, conditional on PENDING; its
\* failure is ignored.
Publish(n) ==
    /\ applying[n].pc = "publish"
    /\ assignments' = Append(assignments, Assignment(n))
    /\ status' \in {status, [status EXCEPT ![applying[n].task] = "ASSIGNED"]}
    /\ Applied(n)
    /\ UNCHANGED <<clusterVars, applied, dispatched, snapVars, raced, unread,
                   ingest, handling, used>>

\* Mutant: the marker of a failed publish stays.
PublishFailsMarked(n) ==
    /\ applying[n].pc = "publish"
    /\ Spend("errors", MaxErrors)
    /\ Applied(n)
    /\ UNCHANGED <<clusterVars, queueVars, applied, dispatched, snapVars, raced,
                   handling>>

\* Mutant: the row is marked whatever became of the message.
PublishFailsAssigned(n) ==
    /\ applying[n].pc = "publish"
    /\ Spend("errors", MaxErrors)
    /\ status' = [status EXCEPT ![applying[n].task] = "ASSIGNED"]
    /\ Applied(n)
    /\ UNCHANGED <<clusterVars, applied, dispatched, snapVars, raced, unread,
                   ingest, assignments, handling>>

\* SendMessage reports an error, with or without the message sent (the 5 s
\* context may end in between), and the marker is retracted.
PublishFails(n) ==
    /\ applying[n].pc = "publish"
    /\ Spend("errors", MaxErrors)
    /\ assignments' \in {assignments, Append(assignments, Assignment(n))}
    /\ dispatched' = [dispatched EXCEPT ![n] = @ \ {applying[n].task}]
    /\ Applied(n)
    /\ UNCHANGED <<clusterVars, status, unread, ingest, applied, snapVars, raced,
                   handling>>

\* applyLoop after Apply: lastApplied is the entry's index, and the waiter of
\* the index, if any, is told "committed"; handleIngest then acks its message.
ApplyDone(n) ==
    /\ applying[n].pc = "done"
    /\ applied' = [applied EXCEPT ![n] = applying[n].idx]
    /\ Applying(n, Idle)
    /\ IF handling[n].pc = "waiting" /\ handling[n].index = applying[n].idx
       THEN Ack(handling[n].task) /\ Return(n)
       ELSE UNCHANGED <<ingest, handling>>
    /\ UNCHANGED <<clusterVars, status, unread, assignments, dispatched, snapVars,
                   raced, used>>

-----------------------------------------------------------------------------
Apply(n) ==
    \/ ApplyMark(n) \/ ApplyAsFollower(n) \/ ApplyAsLeader(n)
    \/ Publish(n) \/ PublishFails(n) \/ ApplyDone(n)

Handle(n) == FastPath(n) \/ LookupAndPropose(n) \/ LookupMisses(n)

Next ==
    \/ \E t \in Task : Submit(t) \/ RecoverOrphan(t)
    \/ Commit
    \/ \E n \in Node :
        \/ Elect(n) \/ TakeSnapshot(n) \/ SendSnapshot(n) \/ Restart(n)
        \/ \E snap \in shipped : InstallSnapshot(n, snap)
        \/ \E snap \in restoring[n] : RestoreInstalled(n, snap)
        \/ \E t \in Task : Receive(n, t)
        \/ Handle(n) \/ GiveUp(n) \/ Apply(n)

Spec == Init /\ [][Next]_vars

\* A leader is elected when there is none, commits what it has, and applies
\* it; the scanner's ticker fires; SQS delivers every message sooner or later.
Fairness ==
    /\ WF_vars(leader = NoNode /\ \E n \in Node : Elect(n))
    /\ WF_vars(Commit)
    /\ \A t \in Task : WF_vars(RecoverOrphan(t))
    /\ \A n \in Node :
        /\ WF_vars(Handle(n)) /\ WF_vars(Apply(n))
        /\ \A t \in Task : SF_vars(Receive(n, t))

FairSpec == Spec /\ Fairness

-----------------------------------------------------------------------------
Published(t) == \E k \in DOMAIN assignments : assignments[k].task = t

Accepted(t) == status[t] # "none"

\* No SendMessage has reported an error, and no installation came in the way of
\* an Apply: it met one, one came before its Restore, or it moved lastApplied
\* back.
Undisturbed == used["errors"] = 0 /\ ~raced

NeverRestored == used["crashes"] = 0 /\ used["installs"] = 0

\* n is neither in the middle of an entry nor of an installation.
Resting(n) == applying[n] = Idle /\ restoring[n] = {}

\* Every variable keeps its type, and no node has applied more than was committed.
TypeOK ==
    /\ status \in [Task -> {"none", "PENDING", "ASSIGNED"}]
    /\ unread \subseteq Task /\ ingest \subseteq Task
    /\ assignments \in Seq([task : Task, term : 1..MaxTerm])
    /\ leader \in Node \cup {NoNode} /\ term \in 0..MaxTerm
    /\ log \in Seq(Task) /\ tail \in Seq(Task)
    /\ applied \in [Node -> 0..Len(log)]
    /\ dispatched \in [Node -> SUBSET Task]

\* What the orphan scanner relies on: a task no worker was told about is still
\* PENDING in the table, whatever failed or changed hands on the way.
UnpublishedIsPending ==
    /\ TypeOK
    /\ \A t \in Task : Accepted(t) /\ ~Published(t) => status[t] = "PENDING"

\* "The leader additionally publishes the assignment onto the assignment SQS
\* queue - exactly once per term": never twice, whatever is redelivered,
\* proposed again after an abandoned wait, replayed after a restart, or
\* restored from an installed snapshot.  It takes a SendMessage that reports an
\* error to publish twice in a term, or a Restore that comes so late after its
\* installation that the node, now the leader, has published in between.
OncePerTerm ==
    Undisturbed =>
        \A j, k \in DOMAIN assignments : assignments[j] = assignments[k] => j = k

\* The dispatched set is replicated state: nodes that have applied the same
\* entries, and are not in the middle of one or of an installation, agree on
\* it.  A snapshot may hold the markers of entries past its index, so once a
\* node was restored from one, at a restart or on a running follower, only
\* those agree that have applied all there is.  A failed publish, retracted by
\* the leader alone, parts them for good, and so may an installation that
\* meets an Apply or moves lastApplied back.
ReplicasAgree ==
    Undisturbed =>
        \A m, n \in Node :
            /\ applied[m] = applied[n] /\ Resting(m) /\ Resting(n)
            /\ NeverRestored \/ applied[m] = Len(log)
            => dispatched[m] = dispatched[n]

\* Every accepted task is sent to the workers in the end, unless the orphan
\* scanner cannot see its row, which lies past the first page of the Scan.
AcceptedIsPublished ==
    \A t \in Task : Accepted(t) ~> Published(t) \/ t \in unread
=============================================================================
