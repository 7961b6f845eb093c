# A TLA+ model of Driftless

Driftless is a distributed task queue. A small API accepts tasks, a replicated
coordinator (its own Raft, in Go) decides that a task is dispatched, and workers
execute it; a state observer (Python) watches the coordinators, and a chaos bench
(Python) loads and disturbs the whole and reports what happened. SQS carries the
messages, DynamoDB the status of every task, S3 the payloads, the results and the
coordinators' snapshots.

This directory holds TLA+ modules translated from that code, TLC configurations
that check them on small instances, and proofs for TLAPS. `PROJECT.json` says for
every definition which lines it models, for every run what it checks, and for
every property which plausible change of the code it would catch.

    tlc -workers 2 -config RaftElection.cfg MCRaft     # one run
    tlapm WorkerProofs.tla                             # one proof module

## 1. The system

| part | code | state | operations |
|---|---|---|---|
| Raft log | `raft/node.go` 876-962 | `logEntries`, whose first element is a placeholder for what was compacted | index helpers, append/truncate, compaction |
| Raft node | `raft/node.go` | term, vote, role, log, commit and apply pointers, `nextIndex`/`matchIndex`, `commitWaits` | `Run` and its three loops, one goroutine per RPC, the RPC handlers, `Propose`, `applyLoop` |
| Snapshots | `raft/snapshot.go`, `raft/snapshot_s3.go` | `lastSnapshot`, one S3 object per node | `TakeSnapshot`, `RunSnapshotLoop`, `RestoreSnapshot`, `HandleInstallSnapshot`, `sendInstallSnapshot` |
| Dispatcher | `raft/dispatcher.go` | `dispatched`, a set of task IDs | `pollOnce`/`handleIngest` (leader), `Apply` (every node), `Snapshot`, `Restore` |
| Ingest API | `task-ingest-api/main.go` | none of its own: the task's row and payload | `handleSubmitTask`, `recoverOrphans` |
| Worker | `worker-node/main.go` | the message in hand, the coordinator's address | `poll`, `processTask`, heartbeats |
| Transport, peers | `raft/grpc_*.go`, `raft/peers` | connections, rows of the peers table | re-resolving an address, registering, expiring |
| Worker tracker, HTTP state | `raft/heartbeat.go`, `raft/http_server.go` | last time seen of each worker | record, list |
| State observer | `state-observer/*.py` | the addresses it polls, last alert of each kind, since when there is no leader, gauges, CloudWatch buffer | resolve and refresh addresses, poll, alert, publish metrics |
| Chaos bench: load and reports | `chaos-bench/submitter.py`, `recorder.py`, `bench.py`, `exp1.py`, `exp3.py`, `exp4.py`, `divergence_scan.py` | thread pools, the history file | submit, poll until settled or overdue, join, close, summarise, scan the table |
| Chaos bench: faults | `chaos-bench/chaos.py`, `leader_detect.py`, `leader_tracker.py`, `follower_recovery.py`, `exp1.py`, `exp3.py`, `exp4.py` | kill loops, last leader seen, recovery timeline | find and kill a leader or follower, track leadership, reset the cluster between runs, redeliver messages |
| Linearizability checker | `experiments/lincheck/main.go` | none | read a history, check that every task's status only moves forward |

How they interact. The API writes payload, row (PENDING) and ingest message, in
that order, and nothing undoes the first if the last fails; a scanner resends for
rows that stay PENDING. The leader's dispatcher receives the ingest message, looks
up the row, proposes the task through Raft and waits for the commit. Every node
applies the entry, and the one that believes it is leader *at that moment*
publishes the assignment and marks the row ASSIGNED. Workers receive assignments,
move the row with conditional updates, and delete the message only on success.
Coordinators write one row each to the peers table and renew it; the observer and
the bench find them there. The observer asks each address for its state; the bench
writes payloads, rows and ingest messages as the API does, reads the tasks table,
and stops ECS tasks.

What is hard here:

* **Critical sections.** `node.go` has one mutex, released around every RPC,
  every call of the state machine and every S3 access. What was read before is
  used after: the term of an election, the entry to apply, the index of a
  snapshot.
* **Roles and goroutines.** The role is a field that any handler may change, but
  what a node *does* depends on which loop `Run` is in. The two can disagree.
* **Failures.** Lost, late and repeated RPCs; restarts that keep only the last
  snapshot; queue messages delivered twice; a `SendMessage` that fails after it
  succeeded; a save or a delete that fails.
* **Things that must happen.** A follower is brought up to date, an accepted task
  is published, an assigned one is settled, a proposer gets an answer, an outage is
  announced, a run of the bench ends.
* **Observations that are not atomic.** A poll asks the nodes one after another while
  roles and addresses change; a row of the peers table outlives its task, and says
  "leader" for three seconds after its death; a reader sees a task between two
  writes. What the observer and the bench conclude is drawn from such views.
* **Joins that give up.** `exp1` and `exp4` stop waiting for their pollers after a
  timeout and close the history under those still at work; a reset races the tasks
  it has just told to stop.

What makes each part correct:

* Raft: at most one leader per term, one vote per node and term, matching logs,
  complete leaders, the same commands applied everywhere, what was acknowledged
  stays, a proposer is told the truth and is told something.
* Snapshots: nothing is compacted before it is saved; a snapshot contains
  everything up to its index; the state machine never loses what it applied.
* Dispatch: an accepted task is published; a task nobody was told of can still be
  found; once per term; replicas agree.
* Workers: COMPLETED is final and has its own result; no message vanishes before
  its task is done; everything ends. To a reader of the table this is the life of a
  row that `TaskLife` describes.
* Observer: an alert is true, none is suppressed but a duplicate, gauges name leaders,
  an outage that lasts is announced.
* Bench: a completed line is true, "lost" counts only what the harness lost sight of,
  histories of a correct cluster are accepted, a convergence sample is an election, a
  reset leaves a live cluster without old state, every run ends.

## 2. Modules

The modules that runs start from have an `MC` module with the model values, symmetry
sets and special initial states those runs need. Definitions named by a comment `Mutant:` are the
deliberately wrong versions that show each property can fail; nothing uses them.

**`RaftLog`** - the log helpers as operators on a sequence whose head is the
placeholder: `FirstIndex`, `LastIndex`, `TermAt`, `EntryAt`, `EntriesFrom`,
`TruncateAt`, `Compact`, the consistency test and rule 4 of `HandleAppendEntries`
(`AppendAll`). The loop of rule 4 is given in closed form: keep the prefix up to
the first entry of the request that differs, append the rest. `AppendLoop` is the
loop as the code runs it; that the two agree on every request and log is checked
and proved (`AppendAllIsTheLoop`).

**`Raft`** - the cluster. One action is one critical section of `n.mu`. `pc` says
where the goroutine of `Run` is (`follower`, `candidate`, `electing`, `waiting`
for the vote goroutines, `leader`, `draining`, `down`); it is separate from
`state`, which handlers change under its feet. `HandleAppendEntries` and
`RejectAppendEntries`, `HandleRequestVote`, `HandleVoteReply`, `HandleAppendReply`
are the handlers and the continuations of the RPC goroutines; `WinElection`,
`ElectionEnds`, `ElectionDone`, `LeaderStepsDown` and `LeaderDone` are the selects
and joins of the loops. `stepDown` is the one-slot channel. `waits` is
`commitWaits` and `outcome` what each caller of `Propose` was told. Requests whose
caller gave up stay in flight and may be handled later. `grants`, `revoked` and
`leaders` are history. `Crash` and `Boot` lose everything: the module has no
snapshots, and the code persists nothing else.

**`SnapshotNode`** - one node's log, `applyLoop`, `TakeSnapshot` and
`HandleInstallSnapshot`, split where the mutex is released: `ApplyWake`,
`ApplyPick`, `ApplyEntry`, `ApplyDone`; `TakeSnapshot`, `SerializeState`, `Save`,
`CompactLog`; `HandleInstallSnapshot`, `RestoreInstalled`. The other side is any
leader of a cluster that committed entries 1 to `MaxIndex`, one that has lost track
of what the node holds included: a leader whose replies were lost sends a snapshot
that is behind the node's `commitIndex`. `installed`, `regressed` and `raced` are
history: floors that were installed, an installation behind `commitIndex`, and a use
of the state machine between an installation and its `Restore`.

**`CatchUp`** - the replicator of one leader against one follower: `sendAppend`,
`sendInstallSnapshot` and the two handlers, reduced to the ends of both logs, with
compactions on both sides, restarts and a change of leader.

**`Dispatch`** - the ingest API, its scanner, and a dispatcher per coordinator over
an *abstract* Raft (a committed log, one leader at a time), so that what goes
wrong here is the dispatcher's own. `Apply` is four steps (mark, look at the role,
publish, report), `handleIngest` three (fast path, lookup and propose, wait).
A state is restored at two places: at a restart, from the node's own snapshot in S3
(`Restart`), and on a running follower, from the one its leader has sent
(`SendSnapshot`, `InstallSnapshot` up to the unlock, `RestoreInstalled` after it). Either
snapshot may hold the markers of entries past its index. `raced` is history: an
installation came during an `Apply`, before the `Restore` of another, or moved
`lastApplied` back, or an entry was applied between an installation and its `Restore`.
The scanner reads one page of the table: `PageSize` rows, the others are `unread`.

**`Worker`** - `poll`, `processTask` and the conditional updates of several workers
that hold the same message or two messages of one task, with the queue's redrive
policy and the coordinator's `markAssigned`.

**`TaskLife`** - the abstract specification of a task's row as its readers may rely on
it: created PENDING, assigned, failed or completed, assigned again by a retry,
completed only with a result in S3, and then for good. `Worker` implements it
(`Life == INSTANCE TaskLife WITH stored <- ...`), and `Bench` extends it, so that the
bench is checked against everything the table may do and nothing else.

**`ClusterSnapshot`** and **`Observer`** - `ClusterSnapshot` holds the questions asked of
one poll's list of answers (the class of that name in `raft_client.py`): leaders, leaders by
term, current term. `Observer` is the event loop: `ResolveInitial`, `Construct`,
`BeginPoll`, one `Answer` per address, `FinishPoll` (check, metrics and dashboard
follow without an await), `Refresh` between any two awaits, and `Tick`. Around it
coordinators stop, move, lead and step down. The constructor of `Dashboard` reads
`_commit_history` before it is set, so the code as it is ends at `Construct`: that is
`HistoryFirst = FALSE`, in the run `observer_start` of section 4. The run `observer` sets
it to TRUE, the two statements in the other order, to study the rest of the code; what it
and `ObserverProofs` say of the alerts and gauges is about an observer that starts.

**`Bench`** - the load side of `bench`, `exp1`, `exp3` and `exp4`, told apart by `exp`
where they differ (which poller, which join). `job` is how far the submission and the
polling of each task are: the payload, row and message of `submit`, the wait for a
thread of the poll pool, the rounds of the poller. `submits`, `outcome`, `code` and
`backward` are what the history file says; `Close` ends the run, `ScanBatch` is the
batched read of `divergence_scan`, unprocessed keys included.

**`Fleet`** - the coordinators as the bench handles them: an ECS task per node that is
stopped, replaced and booted, a row per node with its leader mark and the age of its
heartbeat, `find_leader`. On it stand **`Chaos`** (the kill loops of `exp1` and `exp3`, the
leader tracker, the convergence sample `analyze` takes from its lines, `_reset_cluster`
with the snapshots it wipes), **`Recovery`** (`exp4`: wait for the commit index, kill a
follower, read the leader's commit index again and the follower's log group), and beside
it **`Redelivery`** (the redelivery loop of `exp3` on the ingest queue, a standard queue
that may deliver a message again of itself: `Resurface`). In `Chaos`, a state from before
a reset passes on by the snapshots in S3 (`Save`, `BootRestores`) and by replication
(`Replicate`: a leader that has it overwrites the log of a task that has not). In
`Recovery` a node's ticks are in the log group beside those of its predecessors, of which
`own` is what the present task has said; the read after the kill (`ReadCommit`) goes back
five seconds and falls back on the value of the wait. **`Experiments`** composes the
three, one program at a time, and `MCChaosBench` puts `Bench` beside them.

Composition: `Raft` and `SnapshotNode` extend `RaftLog`. `Dispatch` stands on the
promise of `Raft`, `Worker` on the messages of `Dispatch`; these two boundaries are
assumptions. That of the tasks table is a refinement: `Worker` implements `TaskLife`,
on which `Bench` stands. `Observer` and `Fleet` let Raft elect whom it likes, two
leaders of one term included, because `Raft` shows that the code can.

## 3. Runs that pass

Several guarantees hold of this code only up to a defect that can be named. They
are stated with the defect as the exception, so that a passing run says there is
no other; the violation itself is a run of section 4 or is described there.

| run | what it checks |
|---|---|
| `raft_election` | `SplitBrainCause`: two leaders of one term appear only because one won with votes of an earlier term, or because a vote of that term was forgotten. `LeadershipBacked`: each leadership rests on a majority of grants |
| `raft_replication` | while elections are sound: `LogMatching`, `LeaderCompleteness`, `StateMachineSafety`, `MatchIsReplicated`, `CommittedStable`; always: `LogContiguous`, and `AppendAllIsTheLoop` |
| `snapshots` | `LogTruthful`: whatever install, apply, compaction and restart interleave, the log is contiguous and reports the committed terms; `FloorPersisted`: nothing is compacted before it is saved; `SnapshotComplete`, `AppliedHeld`: a snapshot and the state machine hold all they claim |
| `catch_up` | `MatchHeld`: the leader never counts on an entry the follower lacks; `CatchesUpUnderOneLeader` (liveness) |
| `dispatch` | across a failover, a restart and a snapshot installed on a running follower, or a failover and an abandoned wait, as long as no publish fails and no installation comes in the way of an `Apply`: `OncePerTerm`, and `ReplicasAgree`: coordinators that have applied the same entries have marked the same tasks, or, once one was restored from a snapshot, those that have applied all of them |
| `dispatch_live` | under one leader, with a publish that fails, a lookup that misses and a page of one row: `UnpublishedIsPending`: a task no worker was told of is still PENDING; `AcceptedIsPublished` (liveness): every accepted task is published, or its row lies past the page the scanner reads |
| `worker` | `ImplementsTaskLife`: workers, coordinator and queue together refine `TaskLife`; `CompletedHasResult`, `GoneIsCompleted`, and `Settles` (liveness) |
| `observer` | `SplitBrainAlertTrue`: although a poll is not atomic, the nodes an alert names have led the term it names, and are two unless an address is listed twice; `QuorumLossSeen`: no majority, then an alert, unless the list of addresses is short or has a double; `SilentAlertCause`: an alert is held back only as a duplicate, after a failed publish, or on a host younger than the cooldown; `LeaderGaugesCause`: two leader gauges are two leaders or a node that no longer answers |
| `chaos_bench` | the load generators: `LostCause`: a "lost" task is one whose poller raised or was cut off by a join, never one the cluster lost; `CompletedLineHolds`; `HistoryMonotone`: lincheck accepts every history `exp3` can write; `ScanVerdict`: what the divergence scan counts was never seen otherwise; `RunEnds` (liveness). The fault programs: `CleanSample`: an undisturbed convergence sample is the time of an election after the kill; `ResetOnLiveCluster`, `GenesisCause`: what a reset leaves, and where old state can come from after it (a snapshot saved again, or replication); `SummaryTrue`: the threshold of `exp4`'s kill, the `leader_commit_at_kill` it reads after it, and the restart it reports; `SecondDeliveryCause`: the redelivery loop redelivers nothing by itself; `TrackerConverges` (liveness) |

The type invariant of a module is checked in its run: by itself for `Raft`, as the
first conjunct of `LogTruthful`, `MatchHeld`, `UnpublishedIsPending`,
`SplitBrainAlertTrue` and `GenesisCause` for the others; those of `Worker` and `Bench` are
proved (section 5).

**Bounds.** Every bound is a constant that caps how often something happens, never
what may happen. `Raft`: three nodes are the least with a majority that is not
everybody. Two elections make two leaders of one term or of two terms, a third
timeout lets a node stand again; three AppendEntries calls are a call, its late
twin and the one after; one crash is enough to lose a vote. Elections and
replication do not fit in one run, so `raft_replication` starts in states that
elections produce (`MCRaft`): a leader just elected, and logs that two terms left
different, the configuration in which committing an entry of an earlier term would
be unsafe. One more election follows. `SnapshotNode`: three entries in two terms
leave room below, at and above a floor; a snapshot is overwritten by a second one,
and an installation comes before, between, during and after them. `CatchUp`: two entries put a follower
below, at and above a floor. `Dispatch`: two nodes are the old and the new leader, two
tasks let a snapshot hold the marker of an entry after its index; one snapshot, one
installation and one restart come at any point of an `Apply`; a wait is given up in
behaviours without these (`WaitsAlone`); the failover and the failed publish are in two
runs. The proofs have all of it at once. A page of one row in
`dispatch_live` hides either of two tasks from the scanner.
`Worker`: two workers, two copies, three receives. `Observer`: two nodes and two
addresses let a new task take the address in a dead one's row; three changes are a
death, a move and an election within one poll; a cooldown of two ticks has a
suppressed poll in it; one failing call. `Bench`: two tasks for one poll thread, so that
one waits while the other is polled; one call that fails at any point. `Experiments`:
two nodes are the victim and its successor as leader, one kill, one election, one lapse
disturb each sample at every point; a row is stale after one tick; a commit index of one
more than the target of two tells what was committed before and after a read; two messages
make a batch that is abandoned half-way, and one hold expires and one copy turns up.
Load and faults are in one run and never in one behaviour: they share no state of the
bench, and no property is about both. `MCInit` takes one of each pair of initial states that
differ in the names of the nodes. Symmetry is used over nodes and tasks in runs without
liveness. `CHECK_DEADLOCK FALSE` is set wherever a bounded behaviour ends when its
bounds are used up; `observer` polls for ever and is checked for deadlock.

**Fairness.** Weak fairness of what a goroutine or a ticker does by itself. `CatchUp`: strong fairness of
the follower's handler and of the reply means calls do not all fail for ever
(replicators retry at every heartbeat). `Dispatch`: strong fairness of `Receive`
is at-least-once delivery by SQS with a consumer that polls for ever; weak
fairness of `RecoverOrphan`, which is enabled only for rows on the page, is the
scanner's ticker. `Worker`: strong fairness of
`Receive` is the same for the assignment queue. `Observer`: weak fairness of the event
loop's callbacks, of the refresh timer and of time. `Bench`: weak fairness of the main
thread, and of the threads of the pools and their deadlines taken together: as long as
there is a submission, a free thread for a waiting poller or a deadline to reach, one of
them gets on. `Experiments`: weak fairness of the
tracker's scan, of heartbeats and of time in `exp1`. Failures are never fair.

## 4. What the runs show to be wrong

Each of these runs checks one statement of the repository and ends in a
counterexample of the code. `findings` in `PROJECT.json` quotes the lines.

| run | property | what happens |
|---|---|---|
| `raft_split_brain` | `ElectionSafety` | votes are counted for one term; before the win is handled, a handler moves `currentTerm`; the node leads the later term without a vote |
| `raft_no_failover` | `SomeoneCanLead` | a leader demoted by a handler stays in `runLeader`'s select, without election timer; with two such nodes and a crash nobody left can stand for election |
| `observer_start` | `OutageAnnounced` | `Dashboard.__init__` renders before it sets `_commit_history`, and raises; `observe` ends before its first poll, and the cluster may stay without a leader for ever, unannounced. With the two statements in the other order (`HistoryFirst = TRUE`) the property holds on the same instance |

Consequences and relatives of these, and other defects seen while modelling, that have
no run of their own. Most are the named exceptions of a passing property: drop the
exception from the property, and TLC shows the defect.

* `Restore` runs after the unlock: an entry applied between an installation and its
  `Restore` is wiped (`raced` in `AppliedHeld`).
* `nextIndex` stops one above the floor, so a new leader never sends the snapshot to a
  follower below it: what holds is `CatchesUpUnderOneLeader`, not `CatchesUp`.
* A leader that steps down between mark and publish strands the task: every node has
  it marked, none published it. Its row stays PENDING (`UnpublishedIsPending`), but
  what the scanner resends is dropped on the fast path; `AcceptedIsPublished` is claimed
  under one leader only.
* `TakeSnapshot` reads `lastApplied` first and serializes the dispatcher later, so a
  snapshot can hold the markers of entries after its index. A node restored from it
  finds them marked when it applies those entries and publishes nothing: one more way to
  strand a task. A follower that is sent such a snapshot restores it while it runs, with
  no crash and no error, so `ReplicasAgree` asks more after any `Restore`. A `Restore` that
  comes late, when the node has applied and published further, takes markers away for good
  (`raced`), and the task may be published again in the term (`OncePerTerm`).
* `recoverOrphans` makes one `Scan` and ignores `LastEvaluatedKey`: an orphan whose row is
  past the first page of 1 MB is never sent again (`unread` in `AcceptedIsPublished`). Rows
  are never deleted, so every orphan is exposed once the table has outgrown a page.
* A leader demoted by a handler never aborts its proposals, and `applyLoop`, which
  keeps waiters by index alone, tells them `Committed` for the successor's entries.
* A candidate that hears from the leader of its own term clears `votedFor` and can
  vote again in that term; so does a restarted node. These are the forgotten votes
  (`revoked`) of `SplitBrainCause`.
* Nothing but snapshots is persisted: a restart loses acknowledged entries. The
  replication properties are stated for behaviours without crashes.
* An installation behind `commitIndex` takes it back (`regressed`); `lastApplied`
  can then end past the end of the log, and a snapshot gets a term of 0.
* `TakeSnapshot` can read `lastApplied` between an installation and its `Restore`
  (`raced`), and can replace the cached snapshot by one older than the floor.
* An installed snapshot is not saved (the `installed` of `FloorPersisted`).
* `CatchesUp` also fails under one leader once the follower restarts.
* A publish that fails does not reach `handleIngest`, which deletes the ingest
  message; an error after a successful send publishes twice in a term. Drop the
  condition on errors from `OncePerTerm` to see it.
* A FAILED task that is redelivered goes back to ASSIGNED; of two workers that hold
  one task the slower one overwrites the result before its update is refused; a
  completed task whose delete failed is redelivered until it is dead-lettered.
* The observer counts a quorum of the addresses it has, not of the cluster: with a row
  expired, a cluster without a majority may look healthy (`QuorumLossSeen`).
* An alert is marked as sent before it is published, so a failed publish is silent for a
  cooldown; on a host younger than the cooldown every first alert is (`SilentAlertCause`).
* The gauges of a node that stops answering keep their last value, so a dead leader and
  its successor are both shown as leaders (`LeaderGaugesCause`).
* `_reset_cluster` wipes the snapshots before it stops the tasks, which may save theirs
  again (`resaved`), or lead on and replicate their log to the new ones (`passed`), and
  accepts the fresh rows of the tasks it has just stopped as the
  new cluster (`ResetOnLiveCluster`).
* The pattern of `follower_recovery.py` wants `role=follower commit_index=N`, but the
  coordinators log JSON: the catch-up is never seen, and `observe` always runs to its
  timeout.
* `inject_sqs_redelivery` says it makes in-flight messages visible again
  (`chaos-bench/chaos.py` 72-77: "Force up to `count` in-flight ingest messages to
  redeliver immediately"); `receive_message` gives it only messages that are not in flight.
  `SecondDeliveryCause` is the contrary of that docstring: what the dispatcher sees twice
  it sees twice without the loop, because a hold expired or the queue delivered it again.
* Ticks of an earlier run in the log group satisfy `exp4`'s wait (`before`). Its
  `leader_commit_at_kill` is read after the kill: it may be later than the kill, and, when
  the leader's task was replaced in the meantime, below the threshold (`again`).

## 5. What is proved

TLAPS checks these for every value of the constants (any cluster, any commands,
any bounds).

**`RaftLogProofs`** - lemmas about the helpers on a contiguous log whose placeholder is
at index 0: what `EntryAt`, `TermAt`, `TruncateAt` and `EntriesFrom` return, and position
by position what `AppendAll` leaves. The proofs about `Raft` cite them; `SnapshotProofs`
has their counterparts for any floor. `ClosedFormIsLoop` says that `AppendAll` is
`AppendLoop`: the logs that the closed form gives for the first entries of a request, the
first two, and so on, satisfy the equation that defines the loop (`OneMoreRound`), and
two functions that satisfy it have no first round after which they differ.

**`RaftProofs`** - `TypeCorrect` (`Spec => []TypeOK`) and `LogsContiguous`
(`Spec => []LogContiguous`). Neither is inductive alone: rule 4 keeps a log
contiguous only if the request is a contiguous run starting after `PrevLogIndex`.
The inductive invariant is `TypeInv == TypeOK /\ LogOK /\ RequestsOK`, where
`RequestsOK` says that of every request in flight, late ones included. With it,
`RuleFourIsTheLoop` (`Spec => []AppendAllIsTheLoop`) follows from `ClosedFormIsLoop`.

Then `SplitBrainOnlySo` (`Spec => []SplitBrainCause`) and
`LeadersAreBacked` (`Spec => []LeadershipBacked`). Election safety itself is false
of this code; what is proved is that it fails only by the two defects found: if
two nodes lead one term, one of them was elected in another term, or a node forgot
a vote of that term. The inductive invariant `ElectionInv` has four parts:
`VotesInv` (votes lie in the past of their voter, the current one is in `votedFor`
unless forgotten, one per voter and term unless forgotten), `TallySound` (every
vote counted or on its way was granted in the election's term), `MajorityBacked`
and `RoleRecorded` (a leader is in the history). Two majorities share a voter,
which is proved from the cardinality theorems of the library.

Its third part is `LogsAgree` (`Spec => []LogMatching`) and
`LeadersKnowTheirFollowers` (`Spec => []MatchIsReplicated`), both for behaviours in which
elections have been sound so far, as the properties say. A log is overwritten from
requests that may be old, so log matching is no invariant of the logs alone. The proof
looks at logs and requests in flight alike, as *chains*: entries after an index whose
term is known. Any two chains match (`ChainsMatch`): where both have an entry of the same
term at an index, they agree on all below it that both know, up to the term at their
bases. A slice of a chain (a request is sent), a chain extended by a matching one (a
request is applied) and a chain with a fresh entry (`Propose`) match again; the last
because the one leader of a term holds every entry of that term (`LeaderHolds`), which
rests on every entry being made in a recorded leadership (`Owned`) and on no node winning
twice (`NoSecondWin`). For `matchIndex`, `CopyInv` adds what is on its way: requests and
outstanding calls of a leader's term are parts of its log (`Sent`), and what its
followers have told it, or are telling it, is true for as long as they stay in the term
(`Acked`).

Its last part is `NewestLeaderIsComplete` (`Spec => []LeaderCompleteness`),
`StateMachinesAgree` (`Spec => []StateMachineSafety`) and `CommittedIsStable`
(`Spec => CommittedStable`), again while elections have been sound. The textbook argument
looks back at the log a voter had when it voted, and at what a node had acknowledged
before it left a term; neither is in the state, and the proof adds no history to the
votes and leaderships that `Raft` records. `CompleteInv` says instead what the present
state rules out:

* an entry is `Kept` if every leader of a later term has it, every log that a voter would
  prefer to it has it, and no request in flight of its term or a later one is in conflict
  with it;
* a node is a `Holder` if it has the entry and has voted for no candidate that may still
  win and lacks it; a kept entry with a majority of holders is `Chosen`, and `ChosenStep`
  shows that it stays chosen in every step: whoever wins has the vote of a holder, which
  has compared the candidate's log with its own (`VotesDescribed`, `TermsOrdered`);
* `OpenKept` covers the time before: as long as the nodes that a leader can no longer count
  (they have moved to a later term unacknowledged) are no majority, its entries of its own
  term are kept, and all that it counts, or is about to count, hold them. When
  `maybeAdvanceCommitLocked` counts a majority, the entry is therefore chosen; the
  current-term rule is where the proof uses that the entry is of the leader's own term;
* `CommitsChosen` says that the commit index of a node, or in a request, lies below a
  chosen entry, and that the node has the same log up to it; `AppliedLog` that the state
  machine was given that log.

Two commit indices rest on two chosen entries, and the older of these is in the log of
the newer one. `CompleteInv` was first checked with TLC on the instance of
`raft_replication` (with the votes taken from `grants`, as `Term` is infinite); it is no
run of its own, since the theorem covers it.

**`SnapshotProofs`** - `LogsAreTruthful`, `FloorIsPersisted`, `SnapshotsAreComplete` and
`AppliedIsHeld`: the four properties of `SnapshotNode`, for any number of entries, terms,
installations, snapshots, failed saves and restarts, at lock granularity. The inductive
invariant `SnapInv` has the types of the goroutines' locals (`SnapTypeInv`), `FloorInv`
(the floor passes a snapshot that is being taken only by an installation), `BoundsInv`
(what every goroutine has in hand lies within what is committed and held, unless an
installation took `commitIndex` back) and `StateInv` (everything up to an index in hand is
in the state machine, or will be after the `Restore` that is due).

**`CatchUpProofs`** - `LeaderCountsWhatIsHeld` (`Spec => []MatchHeld`). The danger is a
late `InstallSnapshot`, which replaces the follower's log by a shorter one. `MatchInv`
says why it takes nothing back that is counted on (`InstallsBehind`): it was sent below
the floor, and until one like it was accepted the leader has counted on nothing beyond;
and what the leader counts on, or is about to, is held (`CountsHeld`).

**`DispatchProofs`** - `UnpublishedStaysPending`, `ReplicasDoAgree` and
`PublishedOncePerTerm`, for any number of coordinators, tasks, failovers, restarts and
failures, all in one behaviour. The first needs only that a row is ASSIGNED after its
assignment was sent. `MarksInv`, for as long as nothing was disturbed, brackets the markers
of each node, and of every snapshot saved, cached, in flight or awaiting its `Restore`,
between the entries begun and the entries there are, and pins them while nobody was
restored; a node that owes a `Restore` is where its installation left it (`Owes`).
`SendsInv` says that what the leader of the current term has sent it has marked, what it is
about to send it has marked and not sent, that no two nodes are about to send for the same
term, and that a leader which still owes a `Restore` has sent nothing.

**`WorkerProofs`** - `CompletedHasItsResult`, `NoMessageLost`, `CompletedStays`,
for any number of workers, tasks and copies. The inductive invariant `WorkerInv`
adds `JobsTrue`: a worker past its upload has a result in S3, one past its update
has a completed task. From the same invariant `WorkersImplementTaskLife`
(`Spec => ImplementsTaskLife`) shows that the initial states map to initial states of
`TaskLife` and every step to a step of it or a stutter; the invariant is needed where
a worker completes a task, which `TaskLife` allows only once there is a result.

**`BenchProofs`** - `BenchTypeCorrect`, `CompletedLinesHold` and `HistoryIsMonotone`, for
any number of tasks, threads and faults and all four programs. The inductive invariant
`BenchInv` is `BenchTypeOK`, `LinesTrue` (a completed line is true of the table, a
completed row has its result), `HistoryMonotone`, `JobsTrue` (a task on its way to a
poller has a row, one that reached it a submit line and no observation before that) and
`PollersBehind` (a task still polled has been seen at a status no later than the one
it has). The last is what the backward step of the table, FAILED to ASSIGNED, would
break if a poller went on after FAILED; it stops there. `LossesAreTheHarness`
(`LostCause`) and `ScanAgreesWithHistory` (`ScanVerdict`) follow from `ReportInv`, which
says when each of the things the reports read stops changing.

The second half of the module is about the experiments, for any number of nodes,
messages, elections, kills and lapses. `SamplesAreElections` (`CleanSample`),
`ResetLeavesALiveCluster` (`ResetOnLiveCluster`) and `OldStateHasACause` (`GenesisCause`)
follow from `ChaosInv`:

* `SampleInv`: while a sample is clean, whoever leads or has a marked row was elected
  since the kill or is the victim, which the tracker still names. Hence the next name
  that the tracker learns is that of an election after the kill. The victim needs a case
  of its own: its row stays marked after its end, and the tracker must see it go stale
  before it sees another;
* `DarkInv`: a marked row is at least as old as the time without a leader, so a row that
  `_reset_cluster` takes for fresh dates a leader;
* `GenesisInv`: from the wipe on, a snapshot of an old state has been saved again, and who
  has an old state is told to stop, not up, or has it from such a snapshot or by
  replication.

`SummaryIsTrue` (`SummaryTrue`) follows from `RecoveryInv`: a tick is at most what the
cluster has committed or is of before the run, and a task's own ticks are all there are
unless it was started again (`TicksTrue`); what the wait found is true, and so is the
leader's next tick, unless it is another task's (`WaitTrue`); and a start line of the
killed task itself is later than the kill only if the task was starting when it was killed
(`StartsTrue`). `SecondDeliveryHasACause` (`SecondDeliveryCause`) follows from `HoldsTrue`: a
message of which no hold has expired and of which no copy has turned up is held by the
bench until released, and by the dispatcher once received.

**`ObserverProofs`** - `SplitBrainAlertsAreTrue`, `QuorumLossIsSeen`, `SilenceHasACause` and
`LeaderGaugesHaveACause`, for any number of nodes, addresses, moves, elections and faults.
A poll takes its answers one by one while coordinators die, move and are elected, and the
list of addresses is replaced. `ObserverInv` therefore says what an answer is worth when
the poll is complete (`PollInv`): the node ran and had that role and term at a moment of
this poll, and has been at no other address since, so that one node answers twice only at
an address listed twice. `LedInv` puts every leader on record, and `PublishInv` bounds the
age of what waits for CloudWatch, without which the type invariant is not inductive. For
the quorum, the reachable answers are counted by an injection into the nodes that ran
during the poll.

Assumptions: `Node` is finite and not empty, `Nil` is neither a node nor a command,
`NoNode` is not a node, `NoSnap` is not a snapshot, the bounds are naturals, `"none"` is
not a worker, a queue allows at least one receive, a pool has at least one thread. Of the
observer: there are finitely many addresses, `NoAddr` is none of them, the configured list
is not empty, no address is the id of a node, and the timeouts are positive. Of the bench: `Nobody`
is not a node, a heartbeat is stale after at least one tick, `exp4` waits for at least
one commit. TLC evaluates each of them in the runs of its module.

Only model-checked, and why:

* the liveness properties (`CatchesUpUnderOneLeader`, `AcceptedIsPublished`, `Settles`,
  `RunEnds`, `TrackerConverges`): the prover has no fairness or ENABLED.

Every invariant and every action property of a passing run is stated by a theorem.

## 6. Not modelled, and why

* `grpc_client.go`'s re-resolving of a peer's address, and `Lookup` and `WaitForPeers` of
  `peers.go`: lost and late calls are steps of `Raft`; when an address is found again is
  next in the plan.
* Worker heartbeats and `http_server.go`: a table of last-seen times that nothing acts
  upon, and read-only answers.
* Elections against real time. Timers fire at any moment, so the election storms of
  a node that cannot win (`experiments/exp4`) cannot be told from bad luck.
* JSON and protobuf conversions (`grpc_server.go`, `raftpb`): fields are copied one
  to one; the generated code is not modelled.
* Latencies and percentiles, `plot.py`, `plot_exp2.py`, `plot_exp3.py`, `collect.py`, the load
  generator, the layout of the dashboard: output and input generation.
* `dup_scan.py`: the same batched read as `divergence_scan`, of a counter
  (`receive_count`) the model of the worker does not keep.
* Porcupine's search in lincheck: a library. The bench's histories are sequential for
  each task, and for those its answer is the fold that `Bench` computes.
* How large the rows of the tasks table are: a page of the scanner is a number of rows, and
  which rows it holds changes only when one is added. A status update that lengthens a row
  and so moves the end of the page is left out.
* In `Dispatch` a snapshot is taken in one step, with an index read earlier; how its save
  and its compaction interleave with installations is the subject of `SnapshotNode`.
* A heartbeat that the AWS SDK retries for so long that its node is deposed before the row
  is written (`peers.go` 77-79): `Beat` reads the leadership when the row is written, so a
  row is marked by a leader of that moment.
* The ages of rows in `exp4`, which reads none: they only expire.
* HTTP, request validation, command lines, configuration, Terraform beyond the redrive
  policy.
* A change of membership: the code has none.

## 7. Plan

Done, in this order: `RaftLog`, `Raft`, `SnapshotNode`, `CatchUp`, `Dispatch`,
`Worker`, `TaskLife` and its refinement, `Observer`, `Bench`, the experiments, and the
eight proof modules. Next:

1. `PeerClient`: `grpc_client.go` and `peers.go` - failing calls, the rate-limited
   lookup; a moved peer is reached again.
2. The ingest queue's redrive policy in `Dispatch`; `receive_count` in `Worker`, and
   with it the duplicate scan.
3. Refinement: an abstract replicated log that `Dispatch` stands on and `Raft`
   implements in the behaviours without the defects.
