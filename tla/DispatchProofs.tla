--------------------------- MODULE DispatchProofs ---------------------------
(***************************************************************************)
(* Proofs about Dispatch, for any number of coordinators, tasks, failovers *)
(* and restarts: a task no worker was told of is PENDING, the leader of a  *)
(* term publishes a task at most once, and replicas agree.                 *)
(***************************************************************************)
EXTENDS Dispatch, SequenceTheorems, TLAPS

HandleCall ==
    {Idle} \cup [pc : {"received", "lookup"}, task : Task]
           \cup [pc : {"waiting"}, task : Task, index : Int]

ApplyCall ==
    {Idle} \cup [pc : {"done"}, idx : Nat]
           \cup [pc : {"marked"}, idx : Nat, task : Task]
           \cup [pc : {"publish"}, idx : Nat, task : Task, term : 1..MaxTerm]

Snapshot == [applied : 0..Len(log), dispatched : SUBSET Task]

\* The types of what TypeOK leaves open; the entry a node is in the middle of
\* is one of the log.
CallsOK ==
    /\ handling \in [Node -> HandleCall]
    /\ applying \in [Node -> ApplyCall]
    /\ snapshot \in [Node -> Snapshot] /\ cached \in [Node -> Snapshot]
    /\ shipped \subseteq Snapshot /\ restoring \in [Node -> SUBSET Snapshot]
    /\ used \in [Bound -> Nat] /\ raced \in BOOLEAN
    /\ leader # NoNode => term > 0
    /\ \A n \in Node : applying[n] # Idle => applying[n].idx \in 1..Len(log)

\* A row is ASSIGNED only after its assignment was sent.
AssignedIsPublished == \A t \in Task : status[t] = "ASSIGNED" => Published(t)

\* The inductive invariant of UnpublishedIsPending.
TypeInv == TypeOK /\ CallsOK /\ AssignedIsPublished

-----------------------------------------------------------------------------
\* The commands of the entries up to idx.
Entries(idx) == {log[i] : i \in 1..idx}

\* The entries a node has applied or begun to.
Begun(n) == IF applying[n] = Idle THEN applied[n] ELSE applying[n].idx

\* A snapshot has the markers of every entry up to its index, and none of a
\* task that is not in the log.
Truthful(s) ==
    Entries(s.applied) \subseteq s.dispatched /\ s.dispatched \subseteq Entries(Len(log))

\* A node has marked every entry it began, except while it owes a Restore, and
\* nothing that is not in the log; if nothing was ever restored it has marked
\* nothing else either.
Marks(n) ==
    /\ applied[n] <= Begun(n)
    /\ restoring[n] = {} => Entries(Begun(n)) \subseteq dispatched[n]
    /\ dispatched[n] \subseteq Entries(Len(log))
    /\ NeverRestored => dispatched[n] \subseteq Entries(Begun(n))

\* A node that owes a Restore is where the installation left it: it applies
\* nothing, and has nothing new to take a snapshot of.
Owes(n) ==
    /\ restoring[n] # {} =>
           applying[n] = Idle /\ applied[n] <= cached[n].applied /\ ~NeverRestored
    /\ \A s \in restoring[n] : s.applied = applied[n]

\* Every snapshot of a node: in S3, in its cache, or to be restored.
Snapshots(n) == {snapshot[n], cached[n]} \cup restoring[n]

MarksInv ==
    Undisturbed =>
        /\ \A s \in shipped : Truthful(s)
        /\ \A n \in Node : Marks(n) /\ Owes(n) /\ \A s \in Snapshots(n) : Truthful(s)

-----------------------------------------------------------------------------
Sent(t, i) == \E k \in DOMAIN assignments :
                  assignments[k].task = t /\ assignments[k].term = i

\* What the leader of the current term has sent it has marked, and what it is
\* about to send it has marked and not sent.  A node that is about to send for
\* the current term still leads it, because only a restart ends a leadership
\* within its term; no two nodes are about to send for the same term.  A leader
\* that still owes a Restore has sent nothing.
SendsInv ==
    /\ \A k \in DOMAIN assignments : assignments[k].term <= term
    /\ \A n \in Node :
        applying[n].pc = "publish" =>
            /\ applying[n].term <= term
            /\ applying[n].term = term => leader = n
    /\ \A m, n \in Node :
        applying[m].pc = "publish" /\ applying[n].pc = "publish" /\ m # n
            => applying[m].term # applying[n].term
    /\ Undisturbed =>
        /\ \A t \in Task : leader # NoNode /\ Sent(t, term) => t \in dispatched[leader]
        /\ \A n \in Node :
            /\ restoring[n] # {} =>
                   applying[n] = Idle /\ \A t \in Task : leader = n => ~Sent(t, term)
            /\ applying[n].pc \in {"marked", "publish"} =>
                   applying[n].task \in dispatched[n]
            /\ applying[n].pc = "marked" /\ leader = n => ~Sent(applying[n].task, term)
            /\ applying[n].pc = "publish" => ~Sent(applying[n].task, applying[n].term)

-----------------------------------------------------------------------------
(***************************************************************************)
(* Types                                                                   *)
(***************************************************************************)

\* What a call of Apply is, by where it is.
LEMMA ApplyShape ==
  ASSUME CallsOK, NEW n \in Node
  PROVE  /\ applying[n].pc \in {"idle", "done", "marked", "publish"}
         /\ applying[n].pc = "idle" <=> applying[n] = Idle
         /\ applying[n].pc # "idle" => applying[n].idx \in 1..Len(log)
         /\ applying[n].pc \in {"marked", "publish"} => applying[n].task \in Task
         /\ applying[n].pc = "publish" => applying[n].term \in 1..MaxTerm
<1>1. applying[n] \in ApplyCall
  BY DEF CallsOK
<1>2. applying[n] # Idle => applying[n].idx \in 1..Len(log)
  BY DEF CallsOK
<1> QED BY <1>1, <1>2 DEF ApplyCall, Idle

\* What a call of handleIngest is, by where it is.
LEMMA HandleShape ==
  ASSUME CallsOK, NEW n \in Node
  PROVE  /\ handling[n].pc \in {"received", "lookup", "waiting"} => handling[n].task \in Task
         /\ handling[n].pc = "received" => handling[n] \in [pc : {"received"}, task : Task]
<1>1. handling[n] \in HandleCall
  BY DEF CallsOK
<1> QED BY <1>1 DEF HandleCall, Idle

\* Appending an assignment publishes its task and takes none back.
LEMMA PublishedGrows ==
  ASSUME TypeOK, NEW a \in [task : Task, term : 1..MaxTerm],
         assignments' = Append(assignments, a)
  PROVE  /\ assignments' \in Seq([task : Task, term : 1..MaxTerm])
         /\ \A t \in Task : Published(t)' <=> Published(t) \/ t = a.task
<1>1. assignments \in Seq([task : Task, term : 1..MaxTerm])
  BY DEF TypeOK
<1>2. /\ DOMAIN assignments' = 1..(Len(assignments) + 1)
      /\ DOMAIN assignments = 1..Len(assignments) /\ Len(assignments) \in Nat
      /\ \A k \in 1..Len(assignments) : assignments'[k] = assignments[k]
      /\ assignments'[Len(assignments) + 1] = a
  BY <1>1
<1>3. ASSUME NEW t \in Task PROVE Published(t)' <=> Published(t) \/ t = a.task
  <2>1. CASE Published(t)
    <3>1. PICK k \in 1..Len(assignments) : assignments[k].task = t
      BY <1>2, <2>1 DEF Published
    <3>2. k \in DOMAIN assignments' /\ assignments'[k].task = t
      BY <1>2, <3>1
    <3> QED BY <2>1, <3>2 DEF Published
  <2>2. CASE t = a.task
    <3>1. Len(assignments) + 1 \in DOMAIN assignments'
      BY <1>2
    <3> QED BY <1>2, <2>2, <3>1 DEF Published
  <2>3. CASE Published(t)'
    <3>1. PICK k \in DOMAIN assignments' : assignments'[k].task = t
      BY <2>3 DEF Published
    <3>2. CASE k = Len(assignments) + 1
      BY <1>2, <2>3, <3>1, <3>2
    <3>3. CASE k \in 1..Len(assignments)
      BY <1>2, <2>3, <3>1, <3>3 DEF Published
    <3> QED BY <1>2, <3>1, <3>2, <3>3
  <2> QED BY <2>1, <2>2, <2>3
<1> QED BY <1>1, <1>3

\* The initial state has the types.
LEMMA TypeInit == Init => TypeInv
<1> SUFFICES ASSUME Init PROVE TypeInv
  OBVIOUS
<1>1. TypeOK /\ AssignedIsPublished
  BY DispatchAssumption DEF Init, TypeOK, AssignedIsPublished
<1>2. Snap(0, {}) \in Snapshot
  BY DEF Init, Snap, Snapshot
<1>3. handling \in [Node -> HandleCall] /\ applying \in [Node -> ApplyCall]
  BY DEF Init, HandleCall, ApplyCall
<1>4. CallsOK
  BY <1>2, <1>3 DEF Init, CallsOK
<1> QED BY <1>1, <1>4 DEF TypeInv

\* A task's submission and recovery keep the types.
LEMMA ApiKeepsTypes ==
  ASSUME TypeInv, NEW t \in Task, Submit(t) \/ RecoverOrphan(t)
  PROVE  TypeInv'
<1>1. TypeOK'
  BY DEF TypeInv, TypeOK, Submit, PutRow, Page, RecoverOrphan, clusterVars, stateVars
<1>2. CallsOK'
  BY DEF TypeInv, CallsOK, Snapshot, Submit, RecoverOrphan, clusterVars, stateVars, snapVars
<1>3. AssignedIsPublished'
  BY DEF TypeInv, TypeOK, AssignedIsPublished, Submit, PutRow, RecoverOrphan, Published,
     clusterVars, stateVars
<1> QED BY <1>1, <1>2, <1>3 DEF TypeInv

\* The steps of Raft keep the types.
LEMMA RaftKeepsTypes ==
  ASSUME TypeInv, Commit \/ \E n \in Node : Elect(n) \/ Restart(n)
  PROVE  TypeInv'
<1> USE DEF TypeInv
<1>1. CASE Commit
  <2>1. log' \in Seq(Task) /\ Len(log') = Len(log) + 1 /\ tail' \in Seq(Task) /\ Len(log) \in Nat
    BY <1>1 DEF Commit, TypeOK
  <2>2. applied' \in [Node -> 0..Len(log')]
    BY <1>1, <2>1 DEF Commit, TypeOK, stateVars
  <2>3. Snapshot \subseteq Snapshot'
    BY <2>1 DEF Snapshot
  <2>4. /\ snapshot' \in [Node -> Snapshot'] /\ cached' \in [Node -> Snapshot']
        /\ shipped' \subseteq Snapshot' /\ restoring' \in [Node -> SUBSET Snapshot']
    BY <1>1, <2>3 DEF Commit, CallsOK, stateVars, snapVars
  <2>5. \A n \in Node : applying'[n] # Idle => applying'[n].idx \in 1..Len(log')
    BY <1>1, <2>1 DEF Commit, CallsOK, stateVars
  <2>6. TypeOK'
    BY <1>1, <2>1, <2>2 DEF Commit, TypeOK, stateVars, queueVars
  <2>7. CallsOK'
    BY <1>1, <2>4, <2>5 DEF Commit, CallsOK, stateVars, queueVars
  <2> QED BY <1>1, <2>6, <2>7 DEF Commit, AssignedIsPublished, Published, queueVars
<1>2. ASSUME NEW n \in Node, Elect(n) PROVE TypeInv'
  <2>1. tail' \in Seq(Task)
    BY <1>2 DEF Elect, TypeOK
  <2>2. leader' = n /\ term' \in 1..MaxTerm
    BY <1>2, DispatchAssumption DEF Elect, TypeOK
  <2> QED BY <1>2, <2>1, <2>2 DEF Elect, TypeOK, CallsOK, Snapshot, AssignedIsPublished,
             Published, stateVars, snapVars, queueVars
<1>3. ASSUME NEW n \in Node, Restart(n) PROVE TypeInv'
  <2>1. applied' \in [Node -> 0..Len(log)] /\ dispatched' \in [Node -> SUBSET Task]
    BY <1>3 DEF Restart, TypeOK, CallsOK, Snapshot
  <2>2. used' \in [Bound -> Nat]
    BY <1>3 DEF Restart, Spend, CallsOK, Bound
  <2>3. /\ handling' \in [Node -> HandleCall] /\ applying' \in [Node -> ApplyCall]
        /\ \A m \in Node : applying'[m] # Idle => applying'[m].idx \in 1..Len(log)
    BY <1>3 DEF Restart, CallsOK, HandleCall, ApplyCall
  <2>4. cached' \in [Node -> Snapshot] /\ restoring' \in [Node -> SUBSET Snapshot]
    BY <1>3 DEF Restart, CallsOK
  <2>5. UNCHANGED <<log, Snapshot>>
    BY <1>3 DEF Restart, Snapshot
  <2>6. TypeOK'
    BY <1>3, <2>1 DEF Restart, TypeOK, queueVars
  <2>7. CallsOK'
    BY <1>3, <2>2, <2>3, <2>4, <2>5 DEF Restart, CallsOK, queueVars
  <2> QED BY <1>3, <2>6, <2>7 DEF Restart, AssignedIsPublished, Published, queueVars
<1> QED BY <1>1, <1>2, <1>3

\* What the steps of a snapshot change.
LEMMA SnapshotKeepsTypes ==
  ASSUME TypeInv, NEW n \in Node,
         \/ TakeSnapshot(n) \/ SendSnapshot(n)
         \/ \E snap \in shipped : InstallSnapshot(n, snap)
         \/ \E snap \in restoring[n] : RestoreInstalled(n, snap)
  PROVE  TypeInv'
<1> USE DEF TypeInv
<1>1. CASE TakeSnapshot(n)
  <2>1. PICK idx \in (cached[n].applied + 1)..applied[n] :
            /\ snapshot' = [snapshot EXCEPT ![n] = Snap(idx, dispatched[n])]
            /\ cached' = [cached EXCEPT ![n] = Snap(idx, dispatched[n])]
    BY <1>1 DEF TakeSnapshot
  <2>2. Snap(idx, dispatched[n]) \in Snapshot
    BY <2>1 DEF TypeOK, CallsOK, Snapshot, Snap
  <2>3. used' \in [Bound -> Nat]
    BY <1>1 DEF TakeSnapshot, Spend, CallsOK, Bound
  <2>4. snapshot' \in [Node -> Snapshot] /\ cached' \in [Node -> Snapshot] /\ UNCHANGED Snapshot
    BY <1>1, <2>1, <2>2 DEF TakeSnapshot, CallsOK, Snapshot, clusterVars
  <2> QED BY <1>1, <2>3, <2>4 DEF TakeSnapshot, TypeOK, CallsOK, AssignedIsPublished, Published,
             clusterVars, queueVars
<1>2. CASE SendSnapshot(n)
  <2>1. shipped' \subseteq Snapshot /\ UNCHANGED Snapshot
    BY <1>2 DEF SendSnapshot, CallsOK, Snapshot, clusterVars
  <2> QED BY <1>2, <2>1 DEF SendSnapshot, TypeOK, CallsOK, AssignedIsPublished, Published,
             clusterVars, queueVars
<1>3. ASSUME NEW snap \in shipped, InstallSnapshot(n, snap) PROVE TypeInv'
  <2>1. snap \in Snapshot
    BY DEF CallsOK
  <2>2. cached' \in [Node -> Snapshot] /\ restoring' \in [Node -> SUBSET Snapshot] /\ UNCHANGED Snapshot
    BY <1>3, <2>1 DEF InstallSnapshot, CallsOK, Snapshot, clusterVars
  <2>3. applied' \in [Node -> 0..Len(log)]
    BY <1>3, <2>1 DEF InstallSnapshot, TypeOK, Snapshot
  <2>4. used' \in [Bound -> Nat] /\ raced' \in BOOLEAN
    BY <1>3 DEF InstallSnapshot, Spend, CallsOK, Bound
  <2> QED BY <1>3, <2>2, <2>3, <2>4 DEF InstallSnapshot, TypeOK, CallsOK, AssignedIsPublished,
             Published, clusterVars, queueVars
<1>4. ASSUME NEW snap \in restoring[n], RestoreInstalled(n, snap) PROVE TypeInv'
  <2>1. snap \in Snapshot /\ UNCHANGED Snapshot
    BY <1>4 DEF RestoreInstalled, CallsOK, Snapshot, clusterVars
  <2>2. dispatched' \in [Node -> SUBSET Task]
    BY <1>4, <2>1 DEF RestoreInstalled, TypeOK, Snapshot
  <2>3. restoring' \in [Node -> SUBSET Snapshot]
    BY <1>4, <2>1 DEF RestoreInstalled, CallsOK
  <2> QED BY <1>4, <2>1, <2>2, <2>3 DEF RestoreInstalled, TypeOK, CallsOK, AssignedIsPublished,
             Published, clusterVars, queueVars
<1> QED BY <1>1, <1>2, <1>3, <1>4

\* The steps of handleIngest keep the types.
LEMMA HandleKeepsTypes ==
  ASSUME TypeInv, NEW n \in Node,
         Handle(n) \/ GiveUp(n) \/ \E t \in Task : Receive(n, t)
  PROVE  TypeInv'
<1> USE DEF TypeInv
<1>1. ASSUME NEW t \in Task, Receive(n, t) PROVE TypeInv'
  <2>1. handling' \in [Node -> HandleCall]
    BY <1>1 DEF Receive, Continue, CallsOK, HandleCall
  <2> QED BY <1>1, <2>1 DEF Receive, TypeOK, CallsOK, Snapshot, AssignedIsPublished, Published,
             clusterVars, stateVars, snapVars, queueVars
<1>2. CASE FastPath(n)
  <2>0. Idle \in HandleCall /\ [handling[n] EXCEPT !.pc = "lookup"] \in HandleCall
    BY <1>2, HandleShape DEF FastPath, HandleCall
  <2>1. handling' \in [Node -> HandleCall]
    BY <1>2, <2>0 DEF FastPath, Return, Continue, CallsOK
  <2>2. ingest' \subseteq Task
    BY <1>2 DEF FastPath, Ack, TypeOK
  <2> QED BY <1>2, <2>1, <2>2 DEF FastPath, TypeOK, CallsOK, Snapshot, AssignedIsPublished, Published,
             clusterVars, stateVars, snapVars
<1>3. CASE LookupAndPropose(n)
  <2>a. PICK t \in Task : t = handling[n].task
    BY <1>3, HandleShape DEF LookupAndPropose
  <2>b. \A i \in Int : [pc |-> "waiting", task |-> t, index |-> i] \in HandleCall
    BY DEF HandleCall
  <2>c. Idle \in HandleCall /\ Len(log) + Len(tail) + 1 \in Int /\ tail \in Seq(Task)
    BY DEF HandleCall, TypeOK
  <2>1. handling' \in [Node -> HandleCall]
    BY <1>3, <2>a, <2>b, <2>c DEF LookupAndPropose, Return, Continue, CallsOK
  <2>d. tail' = tail \/ tail' = Append(tail, t)
    BY <1>3, <2>a DEF LookupAndPropose
  <2>2. tail' \in Seq(Task)
    BY <2>c, <2>d
  <2> QED BY <1>3, <2>1, <2>2 DEF LookupAndPropose, TypeOK, CallsOK, Snapshot, AssignedIsPublished,
             Published, stateVars, snapVars, queueVars
<1>4. CASE LookupMisses(n)
  <2>1. handling' \in [Node -> HandleCall] /\ ingest' \subseteq Task
    BY <1>4 DEF LookupMisses, Return, Continue, Ack, CallsOK, HandleCall, TypeOK
  <2>2. used' \in [Bound -> Nat]
    BY <1>4 DEF LookupMisses, Spend, CallsOK, Bound
  <2> QED BY <1>4, <2>1, <2>2 DEF LookupMisses, TypeOK, CallsOK, Snapshot, AssignedIsPublished,
             Published, clusterVars, stateVars, snapVars
<1>5. CASE GiveUp(n)
  <2>1. handling' \in [Node -> HandleCall]
    BY <1>5 DEF GiveUp, Return, Continue, CallsOK, HandleCall
  <2>2. used' \in [Bound -> Nat]
    BY <1>5 DEF GiveUp, Spend, CallsOK, Bound
  <2> QED BY <1>5, <2>1, <2>2 DEF GiveUp, TypeOK, CallsOK, Snapshot, AssignedIsPublished,
             Published, clusterVars, stateVars, snapVars, queueVars
<1> QED BY <1>1, <1>2, <1>3, <1>4, <1>5 DEF Handle

\* The end of a call of Apply.
LEMMA AppliedShape ==
  ASSUME CallsOK, NEW n \in Node, applying[n].pc # "idle", Applied(n)
  PROVE  /\ applying' \in [Node -> ApplyCall]
         /\ applying'[n] = [pc |-> "done", idx |-> applying[n].idx]
         /\ \A m \in Node : applying'[m] # Idle => applying'[m].idx \in 1..Len(log)
<1>1. applying[n].idx \in 1..Len(log)
  BY ApplyShape
<1>2. [pc |-> "done", idx |-> applying[n].idx] \in ApplyCall
  BY <1>1 DEF ApplyCall
<1> QED BY <1>1, <1>2 DEF Applied, Applying, CallsOK

\* The steps of Apply keep the types.
LEMMA ApplyKeepsTypes ==
  ASSUME TypeInv, NEW n \in Node, Apply(n)
  PROVE  TypeInv'
<1> USE DEF TypeInv
<1>1. CASE ApplyMark(n)
  <2>1. PICK t \in Task : t = log[applied[n] + 1]
    BY <1>1 DEF ApplyMark, TypeOK
  <2>2. applied[n] + 1 \in 1..Len(log)
    BY <1>1 DEF ApplyMark, TypeOK
  <2>3. PICK call \in ApplyCall : applying' = [applying EXCEPT ![n] = call] /\ call.idx = applied[n] + 1
    <3>1. /\ [pc |-> "marked", idx |-> applied[n] + 1, task |-> t] \in ApplyCall
          /\ [pc |-> "done", idx |-> applied[n] + 1] \in ApplyCall
      BY <2>2 DEF ApplyCall
    <3>2. CASE Already(n, t)
      BY <1>1, <2>1, <3>1, <3>2 DEF ApplyMark, Applying
    <3>3. CASE ~Already(n, t)
      BY <1>1, <2>1, <3>1, <3>3 DEF ApplyMark, Applying
    <3> QED BY <3>2, <3>3
  <2>4. /\ applying' \in [Node -> ApplyCall]
        /\ \A m \in Node : applying'[m] # Idle => applying'[m].idx \in 1..Len(log)
    BY <2>2, <2>3 DEF CallsOK
  <2>5. dispatched' \in [Node -> SUBSET Task]
    BY <1>1, <2>1 DEF ApplyMark, TypeOK
  <2>6. raced' \in BOOLEAN
    BY <1>1 DEF ApplyMark, CallsOK
  <2> QED BY <1>1, <2>4, <2>5, <2>6 DEF ApplyMark, TypeOK, CallsOK, Snapshot, AssignedIsPublished,
             Published, clusterVars, queueVars, snapVars
<1>2. CASE ApplyAsFollower(n)
  <2>1. /\ applying' \in [Node -> ApplyCall]
        /\ \A m \in Node : applying'[m] # Idle => applying'[m].idx \in 1..Len(log)
    BY <1>2, AppliedShape DEF ApplyAsFollower
  <2> QED BY <1>2, <2>1 DEF ApplyAsFollower, TypeOK, CallsOK, Snapshot, AssignedIsPublished, Published,
             clusterVars, queueVars, snapVars
<1>3. CASE ApplyAsLeader(n)
  <2>1. applying[n].task \in Task /\ term \in 1..MaxTerm /\ applying[n].idx \in 1..Len(log)
    BY <1>3, ApplyShape, DispatchAssumption DEF ApplyAsLeader, IsLeader, TypeOK, CallsOK
  <2>2. [pc |-> "publish", idx |-> applying[n].idx, task |-> applying[n].task, term |-> term] \in ApplyCall
    BY <2>1 DEF ApplyCall
  <2>3. /\ applying' \in [Node -> ApplyCall]
        /\ \A m \in Node : applying'[m] # Idle => applying'[m].idx \in 1..Len(log)
    BY <1>3, <2>1, <2>2 DEF ApplyAsLeader, Applying, CallsOK
  <2> QED BY <1>3, <2>3 DEF ApplyAsLeader, TypeOK, CallsOK, Snapshot, AssignedIsPublished, Published,
             clusterVars, queueVars, snapVars
<1>4. CASE Publish(n)
  <2>1. /\ applying' \in [Node -> ApplyCall]
        /\ \A m \in Node : applying'[m] # Idle => applying'[m].idx \in 1..Len(log)
    BY <1>4, AppliedShape DEF Publish
  <2>2. Assignment(n) \in [task : Task, term : 1..MaxTerm] /\ Assignment(n).task = applying[n].task
    BY <1>4, ApplyShape DEF Publish, Assignment
  <2>3. /\ assignments' \in Seq([task : Task, term : 1..MaxTerm])
        /\ \A t \in Task : Published(t)' <=> Published(t) \/ t = applying[n].task
    BY <1>4, <2>2, PublishedGrows DEF Publish
  <2>4. status' \in [Task -> {"none", "PENDING", "ASSIGNED"}]
    BY <1>4, <2>2 DEF Publish, TypeOK
  <2>5. AssignedIsPublished'
    BY <1>4, <2>3, <2>4 DEF Publish, AssignedIsPublished, TypeOK
  <2>6. TypeOK'
    BY <1>4, <2>3, <2>4 DEF Publish, TypeOK, clusterVars
  <2>7. CallsOK'
    BY <1>4, <2>1 DEF Publish, CallsOK, Snapshot, clusterVars, snapVars
  <2> QED BY <2>5, <2>6, <2>7
<1>5. CASE PublishFails(n)
  <2>1. /\ applying' \in [Node -> ApplyCall]
        /\ \A m \in Node : applying'[m] # Idle => applying'[m].idx \in 1..Len(log)
    BY <1>5, AppliedShape DEF PublishFails
  <2>2. Assignment(n) \in [task : Task, term : 1..MaxTerm] /\ Assignment(n).task = applying[n].task
    BY <1>5, ApplyShape DEF PublishFails, Assignment
  <2>3. /\ assignments' \in Seq([task : Task, term : 1..MaxTerm])
        /\ \A t \in Task : Published(t) => Published(t)'
    <3>1. CASE assignments' = assignments
      BY <3>1 DEF TypeOK, Published
    <3>2. CASE assignments' = Append(assignments, Assignment(n))
      BY <3>2, <2>2, PublishedGrows
    <3> QED BY <1>5, <3>1, <3>2 DEF PublishFails
  <2>4. used' \in [Bound -> Nat]
    BY <1>5 DEF PublishFails, Spend, CallsOK, Bound
  <2>5. dispatched' \in [Node -> SUBSET Task]
    BY <1>5 DEF PublishFails, TypeOK
  <2>6. AssignedIsPublished'
    BY <1>5, <2>3 DEF PublishFails, AssignedIsPublished
  <2>7. TypeOK'
    BY <1>5, <2>3, <2>5 DEF PublishFails, TypeOK, clusterVars
  <2>8. CallsOK'
    BY <1>5, <2>1, <2>4 DEF PublishFails, CallsOK, Snapshot, clusterVars, snapVars
  <2> QED BY <2>6, <2>7, <2>8
<1>6. CASE ApplyDone(n)
  <2>1. /\ applying' \in [Node -> ApplyCall]
        /\ \A m \in Node : applying'[m] # Idle => applying'[m].idx \in 1..Len(log)
    BY <1>6 DEF ApplyDone, Applying, CallsOK, ApplyCall
  <2>2. applying[n].idx \in 1..Len(log)
    BY <1>6, ApplyShape DEF ApplyDone
  <2>3. applied' \in [Node -> 0..Len(log)]
    BY <1>6, <2>2 DEF ApplyDone, TypeOK
  <2>4. handling' \in [Node -> HandleCall]
    BY <1>6 DEF ApplyDone, Return, Continue, CallsOK, HandleCall
  <2>5. ingest' \subseteq Task
    BY <1>6 DEF ApplyDone, Ack, TypeOK
  <2> QED BY <1>6, <2>1, <2>3, <2>4, <2>5 DEF ApplyDone, TypeOK, CallsOK, Snapshot,
             AssignedIsPublished, Published, clusterVars, snapVars
<1> QED BY <1>1, <1>2, <1>3, <1>4, <1>5, <1>6 DEF Apply

\* Every step keeps the types, and ASSIGNED to tasks that were published.
LEMMA TypeStep == TypeInv /\ [Next]_vars => TypeInv'
<1> SUFFICES ASSUME TypeInv, [Next]_vars PROVE TypeInv'
  OBVIOUS
<1>1. CASE UNCHANGED vars
  BY <1>1 DEF TypeInv, TypeOK, CallsOK, Snapshot, AssignedIsPublished, Published, vars, clusterVars,
     stateVars, snapVars, queueVars
<1> QED BY <1>1, ApiKeepsTypes, RaftKeepsTypes, SnapshotKeepsTypes, HandleKeepsTypes,
           ApplyKeepsTypes DEF Next

\* The inductive invariant holds of every behaviour.
LEMMA TypeCorrect == Spec => []TypeInv
  BY TypeInit, TypeStep, PTL DEF Spec

\* Whatever the API, the scanner, the queues, failovers and restarts do, a task
\* of which no worker was told is PENDING, where recoverOrphans looks.
THEOREM UnpublishedStaysPending == Spec => []UnpublishedIsPending
<1>1. TypeInv => UnpublishedIsPending
  BY DEF TypeInv, AssignedIsPublished, UnpublishedIsPending, TypeOK, Accepted
<1> QED BY <1>1, TypeCorrect, PTL

-----------------------------------------------------------------------------
(***************************************************************************)
(* The dispatched set                                                      *)
(***************************************************************************)

\* The entries up to an index, one more of them, and all of them.
LEMMA EntriesGrow ==
  ASSUME NEW i \in Nat, NEW j \in Nat, i <= j
  PROVE  /\ Entries(i) \subseteq Entries(j)
         /\ Entries(i + 1) = Entries(i) \cup {log[i + 1]}
  BY DEF Entries

\* Where a node has begun.
LEMMA BegunBound ==
  ASSUME TypeInv, NEW n \in Node
  PROVE  /\ Begun(n) \in 0..Len(log) /\ applied[n] \in 0..Len(log) /\ Len(log) \in Nat
         /\ snapshot[n] \in Snapshot /\ cached[n] \in Snapshot
         /\ restoring[n] \subseteq Snapshot /\ shipped \subseteq Snapshot
  BY DEF TypeInv, TypeOK, CallsOK, Begun

\* No step makes room in the bounds again, or undoes a race.
LEMMA HistoryGrows ==
  ASSUME TypeInv, Next
  PROVE  (Undisturbed' => Undisturbed) /\ (NeverRestored' => NeverRestored)
<1>1. used \in [Bound -> Nat] /\ raced \in BOOLEAN
  BY DEF TypeInv, CallsOK
<1> DEFINE Grows == /\ UNCHANGED used \/ \E b \in Bound : used' = [used EXCEPT ![b] = @ + 1]
                    /\ raced => raced'
<1> USE <1>1
<1>a. ASSUME NEW t \in Task, Submit(t) \/ RecoverOrphan(t) PROVE Grows
  BY <1>a DEF Submit, RecoverOrphan, stateVars, snapVars
<1>b. ASSUME Commit PROVE Grows
  BY <1>b DEF Commit, stateVars, snapVars
<1>c. ASSUME NEW n \in Node, Elect(n) \/ TakeSnapshot(n) \/ SendSnapshot(n) PROVE Grows
  BY <1>c DEF Elect, TakeSnapshot, SendSnapshot, Spend, Bound, stateVars, snapVars
<1>d. ASSUME NEW n \in Node, Restart(n) PROVE Grows
  BY <1>d DEF Restart, Spend, Bound, stateVars, snapVars
<1>e. ASSUME NEW n \in Node, NEW snap \in shipped, InstallSnapshot(n, snap) PROVE Grows
  BY <1>e DEF InstallSnapshot, Spend, Bound, stateVars, snapVars
<1>f. ASSUME NEW n \in Node, NEW snap \in restoring[n], RestoreInstalled(n, snap) PROVE Grows
  BY <1>f DEF RestoreInstalled, stateVars, snapVars
<1>g. ASSUME NEW n \in Node, NEW t \in Task, Receive(n, t) PROVE Grows
  BY <1>g DEF Receive, stateVars, snapVars
<1>h. ASSUME NEW n \in Node, Handle(n) \/ GiveUp(n) PROVE Grows
  BY <1>h DEF Handle, FastPath, LookupAndPropose, LookupMisses, GiveUp, Spend, Bound, stateVars, snapVars
<1>i. ASSUME NEW n \in Node, Apply(n) PROVE Grows
  BY <1>i DEF Apply, ApplyMark, ApplyAsFollower, ApplyAsLeader, Publish, PublishFails, ApplyDone,
              Spend, Bound, stateVars, snapVars
<1> HIDE <1>1 DEF Grows
<1>2. Grows
  BY <1>a, <1>b, <1>c, <1>d, <1>e, <1>f, <1>g, <1>h, <1>i DEF Next
<1> USE DEF Grows
<1>3. raced => raced'
  BY <1>2
<1>4. \A b \in Bound : used'[b] = 0 => used[b] = 0
  BY <1>1, <1>2
<1> QED BY <1>3, <1>4 DEF Undisturbed, NeverRestored, Bound

\* Steps that leave the replicas alone keep MarksInv.
LEMMA MarksSame ==
  ASSUME MarksInv, UNCHANGED <<log, stateVars>>,
         Undisturbed' => Undisturbed, NeverRestored' => NeverRestored
  PROVE  MarksInv'
  BY DEF MarksInv, Marks, Owes, Snapshots, Truthful, Entries, Begun, stateVars, snapVars

\* Apply keeps MarksInv, if no publish fails and no Restore is due.
LEMMA ApplyKeepsMarks ==
  ASSUME TypeInv, MarksInv, NEW n \in Node, Apply(n), Undisturbed'
  PROVE  MarksInv'
<1>0. Undisturbed /\ (NeverRestored' => NeverRestored)
  BY HistoryGrows DEF Next
<1>a. ~PublishFails(n)
  <2> SUFFICES ASSUME PublishFails(n) PROVE FALSE
    OBVIOUS
  <2>1. used["errors"] \in Nat /\ used'["errors"] = used["errors"] + 1
    BY DEF PublishFails, Spend, TypeInv, CallsOK, Bound
  <2> QED BY <1>0, <2>1 DEF Undisturbed
<1>1. UNCHANGED <<log, snapshot, cached, shipped, restoring>>
  BY <1>a DEF Apply, ApplyMark, ApplyAsFollower, ApplyAsLeader, Publish, ApplyDone, clusterVars,
     snapVars
<1>b. \A k : Entries(k)' = Entries(k)
  BY <1>1 DEF Entries
<1>c. \A m \in Node : Marks(m) /\ Owes(m)
  BY <1>0 DEF MarksInv
<1>2. ASSUME NEW m \in Node, m # n PROVE Marks(m)' /\ Owes(m)'
  <2>1. applied'[m] = applied[m] /\ applying'[m] = applying[m] /\ dispatched'[m] = dispatched[m]
    BY <1>2, <1>a DEF Apply, ApplyMark, ApplyAsFollower, ApplyAsLeader, Publish, ApplyDone, Applied,
       Applying, TypeInv, TypeOK, CallsOK
  <2>2. Begun(m)' = Begun(m)
    BY <2>1 DEF Begun
  <2>3. Marks(m) /\ Owes(m)
    BY <1>c
  <2> QED BY <1>0, <1>1, <1>b, <2>1, <2>2, <2>3 DEF Marks, Owes
<1>d. Marks(n) /\ Owes(n)
  BY <1>c
<1>3. Marks(n)' /\ Owes(n)'
  <2>1. CASE ApplyMark(n)
    <3>0. restoring[n] = {}
      BY <2>1 DEF ApplyMark, Undisturbed
    <3>1. applied[n] \in Nat /\ applied[n] + 1 <= Len(log) /\ Len(log) \in Nat
      BY <2>1 DEF ApplyMark, TypeInv, TypeOK
    <3>2. /\ Begun(n) = applied[n] /\ applied'[n] = applied[n]
          /\ Begun(n)' = applied[n] + 1
          /\ dispatched'[n] = dispatched[n] \cup {log[applied[n] + 1]}
      BY <2>1 DEF ApplyMark, Applying, Begun, TypeInv, TypeOK, CallsOK, Idle
    <3>3. /\ Entries(applied[n] + 1) = Entries(applied[n]) \cup {log[applied[n] + 1]}
          /\ Entries(applied[n] + 1) \subseteq Entries(Len(log))
      BY <3>1, EntriesGrow
    <3> QED BY <1>0, <1>1, <1>b, <1>d, <3>0, <3>1, <3>2, <3>3 DEF Marks, Owes
  <2>2. CASE ApplyAsFollower(n) \/ ApplyAsLeader(n) \/ Publish(n)
    <3>1. applying[n] # Idle /\ applying'[n] # Idle /\ applying'[n].idx = applying[n].idx
      BY <2>2 DEF ApplyAsFollower, ApplyAsLeader, Publish, Applied, Applying, Idle, TypeInv, CallsOK
    <3>2. UNCHANGED <<applied, dispatched>>
      BY <2>2 DEF ApplyAsFollower, ApplyAsLeader, Publish
    <3>3. Begun(n)' = Begun(n)
      BY <3>1 DEF Begun
    <3>4. restoring[n] = {}
      BY <1>d, <3>1 DEF Owes
    <3> QED BY <1>0, <1>1, <1>b, <1>d, <3>2, <3>3, <3>4 DEF Marks, Owes
  <2>3. CASE ApplyDone(n)
    <3>1. applying[n] # Idle /\ applying'[n] = Idle
      BY <2>3 DEF ApplyDone, Applying, Idle, TypeInv, CallsOK
    <3>2. applied'[n] = applying[n].idx /\ UNCHANGED dispatched
      BY <2>3 DEF ApplyDone, TypeInv, TypeOK
    <3>3. Begun(n)' = Begun(n) /\ applied'[n] = Begun(n) /\ Begun(n) \in Nat
      BY <3>1, <3>2, BegunBound DEF Begun
    <3>4. restoring[n] = {}
      BY <1>d, <3>1 DEF Owes
    <3> QED BY <1>0, <1>1, <1>b, <1>d, <3>2, <3>3, <3>4 DEF Marks, Owes
  <2> QED BY <1>a, <2>1, <2>2, <2>3 DEF Apply
<1>4. \A m \in Node : Marks(m)' /\ Owes(m)'
  BY <1>2, <1>3
<1>5. /\ \A s \in shipped' : Truthful(s)'
      /\ \A m \in Node : \A s \in Snapshots(m)' : Truthful(s)'
  BY <1>0, <1>1, <1>b DEF MarksInv, Snapshots, Truthful
<1> QED BY <1>4, <1>5 DEF MarksInv

\* A snapshot taken of a node that owes no Restore is truthful, and so are its
\* copies; the one that is installed and then restored is what the node owes.
LEMMA SnapshotKeepsMarks ==
  ASSUME TypeInv, MarksInv, NEW n \in Node, Undisturbed',
         \/ TakeSnapshot(n) \/ SendSnapshot(n) \/ Restart(n)
         \/ \E snap \in shipped : InstallSnapshot(n, snap)
         \/ \E snap \in restoring[n] : RestoreInstalled(n, snap)
  PROVE  MarksInv'
<1>0. Undisturbed /\ (NeverRestored' => NeverRestored)
  BY HistoryGrows DEF Next
<1>a. UNCHANGED log
  BY DEF TakeSnapshot, SendSnapshot, InstallSnapshot, RestoreInstalled, Restart, clusterVars
<1>b. (\A k : Entries(k)' = Entries(k)) /\ \A s : Truthful(s)' <=> Truthful(s)
  BY <1>a DEF Entries, Truthful
<1>c. /\ \A s \in shipped : Truthful(s)
      /\ \A m \in Node : Marks(m) /\ Owes(m) /\ \A s \in Snapshots(m) : Truthful(s)
  BY <1>0 DEF MarksInv
<1>d. /\ applied \in [Node -> 0..Len(log)] /\ Len(log) \in Nat
      /\ DOMAIN snapshot = Node /\ DOMAIN cached = Node /\ DOMAIN restoring = Node
      /\ DOMAIN dispatched = Node /\ DOMAIN applying = Node
  BY DEF TypeInv, TypeOK, CallsOK
<1>1. CASE TakeSnapshot(n)
  <2>1. PICK idx \in (cached[n].applied + 1)..applied[n] :
            /\ snapshot' = [snapshot EXCEPT ![n] = Snap(idx, dispatched[n])]
            /\ cached' = [cached EXCEPT ![n] = Snap(idx, dispatched[n])]
    BY <1>1 DEF TakeSnapshot
  <2>2. cached[n].applied \in Nat /\ applied[n] \in Nat /\ Begun(n) \in Nat
    BY BegunBound DEF Snapshot
  <2>3. restoring[n] = {}
    BY <1>c, <2>1, <2>2 DEF Owes
  <2>4. idx \in Nat /\ idx <= Begun(n)
    BY <1>c, <2>1, <2>2 DEF Marks
  <2>5. Entries(idx) \subseteq dispatched[n] /\ dispatched[n] \subseteq Entries(Len(log))
    BY <1>c, <2>2, <2>3, <2>4, EntriesGrow DEF Marks
  <2>6. Truthful(Snap(idx, dispatched[n]))
    BY <2>5 DEF Truthful, Snap
  <2>7. UNCHANGED <<applied, dispatched, applying, shipped, restoring>>
    BY <1>1 DEF TakeSnapshot
  <2>8. \A m \in Node : m # n => snapshot'[m] = snapshot[m] /\ cached'[m] = cached[m]
    BY <1>d, <2>1
  <2>9. snapshot'[n] = Snap(idx, dispatched[n]) /\ cached'[n] = Snap(idx, dispatched[n])
    BY <1>d, <2>1
  <2>10. \A m \in Node : \A s \in Snapshots(m)' : Truthful(s)
    BY <1>c, <2>6, <2>7, <2>8, <2>9 DEF Snapshots
  <2>11. \A m \in Node : Marks(m)'
    BY <1>0, <1>a, <1>b, <1>c, <2>7 DEF Marks, Begun
  <2>12. \A m \in Node : Owes(m)'
    BY <1>0, <1>c, <2>3, <2>7, <2>8 DEF Owes
  <2> QED BY <1>b, <1>c, <2>7, <2>10, <2>11, <2>12 DEF MarksInv
<1>2. CASE SendSnapshot(n)
  <2>1. shipped' = shipped \cup {cached[n]} /\ UNCHANGED <<applied, dispatched, applying, snapshot, cached, restoring>>
    BY <1>2 DEF SendSnapshot
  <2>2. Truthful(cached[n])
    BY <1>c DEF Snapshots
  <2>3. \A m \in Node : Marks(m)' /\ Owes(m)' /\ Snapshots(m)' = Snapshots(m)
    BY <1>0, <1>a, <1>b, <1>c, <2>1 DEF Marks, Begun, Owes, Snapshots
  <2> QED BY <1>b, <1>c, <2>1, <2>2, <2>3 DEF MarksInv
<1>3. ASSUME NEW snap \in shipped, InstallSnapshot(n, snap) PROVE MarksInv'
  <2>1. /\ applied' = [applied EXCEPT ![n] = snap.applied]
        /\ cached' = [cached EXCEPT ![n] = snap]
        /\ restoring' = [restoring EXCEPT ![n] = @ \cup {snap}]
        /\ applying[n] = Idle /\ restoring[n] = {}
        /\ UNCHANGED <<dispatched, applying, snapshot, shipped>>
    BY <1>3 DEF InstallSnapshot, Undisturbed
  <2>2. ~NeverRestored'
    BY <1>3 DEF InstallSnapshot, Spend, TypeInv, CallsOK, Bound, NeverRestored
  <2>3. applied'[n] = snap.applied /\ cached'[n] = snap /\ restoring'[n] = {snap}
    BY <1>d, <2>1
  <2>4. snap.applied \in Nat
    BY BegunBound DEF Snapshot
  <2>5. ASSUME NEW m \in Node, m # n PROVE Marks(m)' /\ Owes(m)' /\ Snapshots(m)' = Snapshots(m)
    <3>1. applied'[m] = applied[m] /\ cached'[m] = cached[m] /\ restoring'[m] = restoring[m]
      BY <1>d, <2>1, <2>5
    <3>2. Marks(m) /\ Owes(m)
      BY <1>c
    <3> QED BY <1>a, <1>b, <2>1, <2>2, <3>1, <3>2 DEF Marks, Begun, Owes, Snapshots
  <2>6. Marks(n)'
    <3>1. Begun(n)' = applied'[n] /\ dispatched'[n] = dispatched[n]
      BY <2>1 DEF Begun
    <3>2. dispatched[n] \subseteq Entries(Len(log))
      BY <1>c DEF Marks
    <3> QED BY <1>a, <1>b, <2>2, <2>3, <2>4, <3>1, <3>2 DEF Marks
  <2>7. Owes(n)'
    BY <2>1, <2>2, <2>3, <2>4 DEF Owes
  <2>8. \A s \in Snapshots(n)' : Truthful(s)
    BY <1>c, <2>1, <2>3 DEF Snapshots
  <2> QED BY <1>b, <1>c, <2>1, <2>5, <2>6, <2>7, <2>8 DEF MarksInv
<1>4. ASSUME NEW snap \in restoring[n], RestoreInstalled(n, snap) PROVE MarksInv'
  <2>1. /\ dispatched' = [dispatched EXCEPT ![n] = snap.dispatched]
        /\ restoring' = [restoring EXCEPT ![n] = @ \ {snap}]
        /\ UNCHANGED <<applied, applying, snapshot, cached, shipped, used>>
    BY <1>4 DEF RestoreInstalled
  <2>2. Truthful(snap) /\ snap.applied = applied[n] /\ applying[n] = Idle
    BY <1>c, <1>4 DEF Snapshots, Owes
  <2>3. ~NeverRestored'
    BY <1>0, <1>c DEF Owes
  <2>5. ASSUME NEW m \in Node, m # n PROVE Marks(m)' /\ Owes(m)' /\ Snapshots(m)' = Snapshots(m)
    <3>1. dispatched'[m] = dispatched[m] /\ restoring'[m] = restoring[m]
      BY <1>d, <2>1, <2>5
    <3>2. Marks(m) /\ Owes(m)
      BY <1>c
    <3> QED BY <1>0, <1>a, <1>b, <2>1, <3>1, <3>2 DEF Marks, Begun, Owes, Snapshots
  <2>6. Marks(n)'
    <3>1. Begun(n)' = applied[n] /\ applied'[n] = applied[n] /\ dispatched'[n] = snap.dispatched
      BY <1>d, <2>1, <2>2 DEF Begun
    <3>2. applied[n] \in Nat
      BY <1>d
    <3> QED BY <1>a, <1>b, <2>2, <2>3, <3>1, <3>2 DEF Marks, Truthful
  <2>7. Owes(n)' /\ Snapshots(n)' \subseteq Snapshots(n)
    <3>1. restoring'[n] \subseteq restoring[n]
      BY <1>d, <2>1
    <3>2. Owes(n)
      BY <1>c
    <3> QED BY <2>1, <2>2, <2>3, <3>1, <3>2 DEF Owes, Snapshots
  <2> QED BY <1>b, <1>c, <2>1, <2>5, <2>6, <2>7 DEF MarksInv
<1>5. CASE Restart(n)
  <2>1. /\ applied' = [applied EXCEPT ![n] = snapshot[n].applied]
        /\ dispatched' = [dispatched EXCEPT ![n] = snapshot[n].dispatched]
        /\ applying' = [applying EXCEPT ![n] = Idle]
        /\ cached' = [cached EXCEPT ![n] = snapshot[n]]
        /\ restoring' = [restoring EXCEPT ![n] = {}]
        /\ UNCHANGED <<snapshot, shipped>>
    BY <1>5 DEF Restart
  <2>2. ~NeverRestored'
    BY <1>5 DEF Restart, Spend, TypeInv, CallsOK, Bound, NeverRestored
  <2>3. Truthful(snapshot[n]) /\ snapshot[n].applied \in Nat
    BY <1>c, BegunBound DEF Snapshots, Snapshot
  <2>5. ASSUME NEW m \in Node, m # n PROVE Marks(m)' /\ Owes(m)' /\ Snapshots(m)' = Snapshots(m)
    <3>1. /\ applied'[m] = applied[m] /\ dispatched'[m] = dispatched[m] /\ applying'[m] = applying[m]
          /\ cached'[m] = cached[m] /\ restoring'[m] = restoring[m]
      BY <1>d, <2>1, <2>5
    <3>2. Marks(m) /\ Owes(m)
      BY <1>c
    <3> QED BY <1>a, <1>b, <2>1, <2>2, <3>1, <3>2 DEF Marks, Begun, Owes, Snapshots
  <2>6. /\ applied'[n] = snapshot[n].applied /\ dispatched'[n] = snapshot[n].dispatched
        /\ applying'[n] = Idle /\ cached'[n] = snapshot[n] /\ restoring'[n] = {}
    BY <1>d, <2>1
  <2>7. Marks(n)' /\ Owes(n)'
    BY <1>a, <1>b, <2>2, <2>3, <2>6 DEF Marks, Owes, Begun, Truthful
  <2>8. \A s \in Snapshots(n)' : Truthful(s)
    BY <2>1, <2>3, <2>6 DEF Snapshots
  <2> QED BY <1>b, <1>c, <2>1, <2>5, <2>7, <2>8 DEF MarksInv
<1> QED BY <1>1, <1>2, <1>3, <1>4, <1>5

\* An entry more in the log falsifies nothing.
LEMMA CommitKeepsMarks ==
  ASSUME TypeInv, MarksInv, Commit, Undisturbed'
  PROVE  MarksInv'
<1>0. Undisturbed /\ (NeverRestored' => NeverRestored)
  BY HistoryGrows DEF Next
<1>1. /\ Len(log') = Len(log) + 1 /\ Len(log) \in Nat
      /\ \A i \in 1..Len(log) : log'[i] = log[i]
  BY DEF Commit, TypeInv, TypeOK
<1>2. \A k \in 0..Len(log) : Entries(k)' = Entries(k)
  BY <1>1 DEF Entries
<1>3. Entries(Len(log)) \subseteq Entries(Len(log))'
  <2>1. Entries(Len(log))' = {log'[i] : i \in 1..Len(log')}
    BY DEF Entries
  <2>2. Entries(Len(log)) = {log[i] : i \in 1..Len(log)}
    BY DEF Entries
  <2> QED BY <1>1, <2>1, <2>2
<1>4. UNCHANGED stateVars
  BY DEF Commit
<1>5. ASSUME NEW s \in Snapshot, Truthful(s) PROVE Truthful(s)'
  BY <1>2, <1>3, <1>5 DEF Truthful, Snapshot
<1>6. ASSUME NEW m \in Node PROVE Marks(m)' /\ Owes(m)'
  <2>1. Marks(m) /\ Owes(m)
    BY <1>0 DEF MarksInv
  <2>2. Begun(m)' = Begun(m) /\ Begun(m) \in 0..Len(log)
    BY <1>4, BegunBound DEF Begun, stateVars
  <2>3. Entries(Begun(m))' = Entries(Begun(m))
    BY <1>2, <2>2
  <2> QED BY <1>0, <1>3, <1>4, <2>1, <2>2, <2>3 DEF Marks, Owes, stateVars, snapVars
<1>7. \A m \in Node : Snapshots(m)' = Snapshots(m) /\ Snapshots(m) \subseteq Snapshot
  BY <1>4, BegunBound DEF Snapshots, stateVars, snapVars
<1>8. shipped' = shipped /\ shipped \subseteq Snapshot
  BY <1>4 DEF TypeInv, CallsOK, stateVars, snapVars
<1> QED BY <1>0, <1>5, <1>6, <1>7, <1>8 DEF MarksInv

\* Every step keeps MarksInv.
LEMMA MarksStep == TypeInv /\ MarksInv /\ [Next]_vars => MarksInv'
<1> SUFFICES ASSUME TypeInv, MarksInv, [Next]_vars, Undisturbed' PROVE MarksInv'
  BY DEF MarksInv
<1>1. CASE UNCHANGED vars
  BY <1>1, MarksSame DEF vars, clusterVars, Undisturbed, NeverRestored, stateVars
<1>2. CASE Next
  <2>1. ASSUME NEW n \in Node, Apply(n) PROVE MarksInv'
    BY <2>1, ApplyKeepsMarks
  <2>2. ASSUME NEW n \in Node,
               \/ TakeSnapshot(n) \/ SendSnapshot(n) \/ Restart(n)
               \/ \E snap \in shipped : InstallSnapshot(n, snap)
               \/ \E snap \in restoring[n] : RestoreInstalled(n, snap)
        PROVE  MarksInv'
    BY <2>2, SnapshotKeepsMarks
  <2>3. ASSUME UNCHANGED <<log, stateVars>> PROVE MarksInv'
    BY <1>2, <2>3, HistoryGrows, MarksSame
  <2>4. CASE \E t \in Task : Submit(t) \/ RecoverOrphan(t)
    BY <2>3, <2>4 DEF Submit, RecoverOrphan, clusterVars
  <2>5. ASSUME NEW n \in Node, Elect(n) \/ Handle(n) \/ GiveUp(n) \/ \E t \in Task : Receive(n, t)
        PROVE  MarksInv'
    BY <2>3, <2>5 DEF Elect, Handle, FastPath, LookupAndPropose, LookupMisses, GiveUp, Receive,
       clusterVars
  <2>6. CASE Commit
    BY <2>6, CommitKeepsMarks
  <2> QED BY <1>2, <2>1, <2>2, <2>4, <2>5, <2>6 DEF Next
<1> QED BY <1>1, <1>2

\* Without a failed publish, and while no installation comes in the way of an
\* Apply, replicas agree on the dispatched set: as long as nothing is restored
\* whenever they have applied the same entries, and after restarts and
\* installed snapshots once they have applied all there is.
THEOREM ReplicasDoAgree == Spec => []ReplicasAgree
<1>1. Init => MarksInv
  BY DEF Init, MarksInv, Marks, Owes, Snapshots, Truthful, Snap, Entries, Begun
<1>2. TypeInv /\ MarksInv => ReplicasAgree
  <2> SUFFICES ASSUME TypeInv, MarksInv, Undisturbed, NEW m \in Node, NEW n \in Node,
                      applied[m] = applied[n], Resting(m), Resting(n),
                      NeverRestored \/ applied[m] = Len(log)
               PROVE  dispatched[m] = dispatched[n]
    BY DEF ReplicasAgree
  <2>1. Begun(m) = applied[n] /\ Begun(n) = applied[n]
    BY DEF Begun, Resting
  <2>2. Marks(m) /\ Marks(n)
    BY DEF MarksInv
  <2> QED BY <2>1, <2>2 DEF Marks, Resting
<1> QED BY <1>1, <1>2, TypeCorrect, MarksStep, PTL DEF Spec

-----------------------------------------------------------------------------
(***************************************************************************)
(* Once per term                                                           *)
(***************************************************************************)

\* What one more assignment adds to Sent.
LEMMA SentGrows ==
  ASSUME TypeOK, NEW a \in [task : Task, term : 1..MaxTerm],
         assignments' = Append(assignments, a)
  PROVE  /\ \A t, i : Sent(t, i)' => Sent(t, i) \/ (t = a.task /\ i = a.term)
         /\ \A k \in DOMAIN assignments' : assignments'[k] = a \/ \E j \in DOMAIN assignments :
                                                  assignments'[k] = assignments[j]
         /\ DOMAIN assignments' = 1..(Len(assignments) + 1)
         /\ \A k \in 1..Len(assignments) : assignments'[k] = assignments[k]
         /\ assignments'[Len(assignments) + 1] = a
<1>1. assignments \in Seq([task : Task, term : 1..MaxTerm])
  BY DEF TypeOK
<1>2. /\ DOMAIN assignments' = 1..(Len(assignments) + 1)
      /\ DOMAIN assignments = 1..Len(assignments) /\ Len(assignments) \in Nat
      /\ \A k \in 1..Len(assignments) : assignments'[k] = assignments[k]
      /\ assignments'[Len(assignments) + 1] = a
  BY <1>1
<1>3. \A k \in DOMAIN assignments' : k \in 1..Len(assignments) \/ k = Len(assignments) + 1
  BY <1>2
<1>4. ASSUME NEW t, NEW i, Sent(t, i)' PROVE Sent(t, i) \/ (t = a.task /\ i = a.term)
  <2>1. PICK k \in DOMAIN assignments' : assignments'[k].task = t /\ assignments'[k].term = i
    BY <1>4 DEF Sent
  <2>2. CASE k \in 1..Len(assignments)
    BY <1>2, <2>1, <2>2 DEF Sent
  <2>3. CASE k = Len(assignments) + 1
    BY <1>2, <2>1, <2>3
  <2> QED BY <1>3, <2>1, <2>2, <2>3
<1> QED BY <1>2, <1>3, <1>4

\* Steps that touch neither leadership, nor markers, nor assignments.
LEMMA SendsSame ==
  ASSUME SendsInv, UNCHANGED <<leader, term, dispatched, applying, restoring, assignments>>,
         Undisturbed' => Undisturbed
  PROVE  SendsInv'
  BY DEF SendsInv, Sent

\* A new leader has a new term, of which nothing has been sent.
LEMMA ElectKeepsSends ==
  ASSUME TypeInv, SendsInv, NEW n \in Node, Elect(n)
  PROVE  SendsInv'
<1>1. /\ leader' = n /\ term' = term + 1 /\ term \in Nat /\ UNCHANGED Undisturbed
      /\ UNCHANGED <<dispatched, applying, restoring, assignments>>
  BY DEF Elect, TypeInv, TypeOK, stateVars, snapVars, queueVars, Undisturbed
<1>2. \A k \in DOMAIN assignments : assignments[k].term \in Nat
  <2>1. assignments \in Seq([task : Task, term : 1..MaxTerm])
    BY DEF TypeInv, TypeOK
  <2>2. ASSUME NEW S, assignments \in Seq(S), NEW k \in DOMAIN assignments PROVE assignments[k] \in S
    BY <2>2
  <2>3. \A k \in DOMAIN assignments : assignments[k] \in [task : Task, term : 1..MaxTerm]
    BY ONLY <2>1, <2>2
  <2> QED BY <2>3, DispatchAssumption
<1>3. \A t : ~Sent(t, term)'
  BY <1>1, <1>2 DEF SendsInv, Sent
<1>4. \A t, i : Sent(t, i)' <=> Sent(t, i)
  BY <1>1 DEF Sent
<1>5. \A m \in Node : applying[m].pc = "publish" => applying[m].term \in Nat
  BY ApplyShape DEF TypeInv
<1> QED BY <1>1, <1>2, <1>3, <1>4, <1>5 DEF SendsInv

\* A restart ends a leadership for good, and what its node was about to send.
LEMMA RestartKeepsSends ==
  ASSUME TypeInv, SendsInv, NEW n \in Node, Restart(n)
  PROVE  SendsInv'
<1>1. /\ leader' = IF leader = n THEN NoNode ELSE leader
      /\ UNCHANGED <<term, assignments>>
      /\ Undisturbed' => Undisturbed
      /\ \A m \in Node :
            /\ dispatched'[m] = IF m = n THEN snapshot[n].dispatched ELSE dispatched[m]
            /\ applying'[m] = IF m = n THEN Idle ELSE applying[m]
            /\ restoring'[m] = IF m = n THEN {} ELSE restoring[m]
  <2>1. Undisturbed' => Undisturbed
    BY HistoryGrows DEF Next
  <2> QED BY <2>1 DEF Restart, IsLeader, TypeInv, TypeOK, CallsOK, queueVars
<1>2. \A t, i : Sent(t, i)' <=> Sent(t, i)
  BY <1>1 DEF Sent
<1>3. leader' \in Node => leader' = leader /\ leader # n
  BY <1>1, DispatchAssumption
<1>4. leader \in Node \cup {NoNode} /\ NoNode \notin Node
  BY DispatchAssumption DEF TypeInv, TypeOK
<1>5. \A m \in Node : applying'[m].pc = "publish" => m # n /\ applying'[m] = applying[m]
  BY <1>1 DEF Idle
<1>6. \A m \in Node : applying'[m].pc = "marked" => m # n /\ applying'[m] = applying[m]
  BY <1>1 DEF Idle
<1> QED BY <1>1, <1>2, <1>3, <1>4, <1>5, <1>6 DEF SendsInv

\* Between the installation of a snapshot and its Restore a node has nothing to
\* lose: it does not lead, or has sent nothing since it was elected.
LEMMA InstallKeepsSends ==
  ASSUME TypeInv, SendsInv, NEW n \in Node,
         \/ \E snap \in shipped : InstallSnapshot(n, snap)
         \/ \E snap \in restoring[n] : RestoreInstalled(n, snap)
  PROVE  SendsInv'
<1>0. Undisturbed' => Undisturbed
  BY HistoryGrows DEF Next
<1>1. UNCHANGED <<leader, term, applying, assignments>>
  BY DEF InstallSnapshot, RestoreInstalled, clusterVars, queueVars
<1>2. \A t, i : Sent(t, i)' <=> Sent(t, i)
  BY <1>1 DEF Sent
<1>3. leader \in Node \cup {NoNode} /\ NoNode \notin Node
  BY DispatchAssumption DEF TypeInv, TypeOK
<1>4. ASSUME NEW snap \in shipped, InstallSnapshot(n, snap) PROVE SendsInv'
  <2>1. leader # n /\ UNCHANGED dispatched /\ (Undisturbed' => applying[n] = Idle)
    BY <1>4 DEF InstallSnapshot, IsLeader, Undisturbed
  <2>2. \A m \in Node : m # n => restoring'[m] = restoring[m]
    BY <1>4 DEF InstallSnapshot, TypeInv, CallsOK
  <2> QED BY <1>0, <1>1, <1>2, <2>1, <2>2 DEF SendsInv
<1>5. ASSUME NEW snap \in restoring[n], RestoreInstalled(n, snap) PROVE SendsInv'
  <2>1. Undisturbed => applying[n] = Idle /\ \A t \in Task : leader = n => ~Sent(t, term)
    BY <1>5 DEF SendsInv
  <2>2. /\ \A m \in Node : restoring'[m] \subseteq restoring[m]
        /\ \A m \in Node : m # n => dispatched'[m] = dispatched[m]
    BY <1>5 DEF RestoreInstalled, TypeInv, TypeOK, CallsOK
  <2>3. Undisturbed => applying[n].pc \notin {"marked", "publish"}
    BY <2>1 DEF Idle
  <2> QED BY <1>0, <1>1, <1>2, <1>3, <2>1, <2>2, <2>3 DEF SendsInv
<1> QED BY <1>4, <1>5

\* The steps of Apply: an entry is marked only if it was not, the leader
\* publishes what it has marked, and publishes it once.
LEMMA ApplyKeepsSends ==
  ASSUME TypeInv, SendsInv, OncePerTerm, NEW n \in Node, Apply(n)
  PROVE  SendsInv' /\ OncePerTerm'
<1>a. UNCHANGED <<leader, term, restoring>> /\ (Undisturbed' => Undisturbed)
  <2>1. Undisturbed' => Undisturbed
    BY HistoryGrows DEF Next
  <2> QED BY <2>1 DEF Apply, ApplyMark, ApplyAsFollower, ApplyAsLeader, Publish, PublishFails, ApplyDone,
             clusterVars, snapVars
<1>b. \A m \in Node : m # n => applying'[m] = applying[m] /\ dispatched'[m] = dispatched[m]
  BY DEF Apply, ApplyMark, ApplyAsFollower, ApplyAsLeader, Publish, PublishFails, ApplyDone, Applied,
     Applying, TypeInv, TypeOK, CallsOK
<1>c. /\ leader \in Node \cup {NoNode} /\ NoNode \notin Node /\ term \in Nat
      /\ \A m \in Node : applying[m].pc \in {"marked", "publish"} => applying[m].task \in Task
      /\ \A m \in Node : applying[m].pc = "publish" => applying[m].term \in Nat
  <2>1. leader \in Node \cup {NoNode} /\ NoNode \notin Node /\ term \in Nat
    BY DispatchAssumption DEF TypeInv, TypeOK
  <2>2. CallsOK
    BY DEF TypeInv
  <2>3. ASSUME NEW m \in Node
        PROVE  /\ applying[m].pc \in {"marked", "publish"} => applying[m].task \in Task
               /\ applying[m].pc = "publish" => applying[m].term \in Nat
    BY <2>2, ApplyShape
  <2> QED BY <2>1, <2>3
<1>1. CASE ApplyMark(n)
  <2>1. PICK t \in Task : t = log[applied[n] + 1]
    BY <1>1 DEF ApplyMark, TypeInv, TypeOK
  <2>2. /\ applying'[n] = IF Already(n, t)
                           THEN [pc |-> "done", idx |-> applied[n] + 1]
                           ELSE [pc |-> "marked", idx |-> applied[n] + 1, task |-> t]
        /\ dispatched'[n] = dispatched[n] \cup {t}
        /\ UNCHANGED assignments
        /\ Undisturbed' => restoring[n] = {}
    BY <1>1, <2>1 DEF ApplyMark, Applying, TypeInv, TypeOK, CallsOK, queueVars, Undisturbed
  <2>3. /\ applying'[n].pc \in {"done", "marked"}
        /\ applying'[n].pc = "marked" => applying'[n].task = t /\ t \notin dispatched[n]
    BY <2>2 DEF Already
  <2>4. \A u, i : Sent(u, i)' <=> Sent(u, i)
    BY <2>2 DEF Sent
  <2>5. \A m \in Node : dispatched[m] \subseteq dispatched'[m]
    BY <1>b, <2>2
  <2>6. OncePerTerm'
    BY <1>a, <2>2 DEF OncePerTerm
  <2> QED BY <1>a, <1>b, <1>c, <2>2, <2>3, <2>4, <2>5, <2>6 DEF SendsInv
<1>2. CASE ApplyAsFollower(n) \/ ApplyDone(n)
  <2>1. applying'[n].pc \in {"idle", "done"} /\ UNCHANGED <<dispatched, assignments>>
    BY <1>2 DEF ApplyAsFollower, ApplyDone, Applied, Applying, Idle, TypeInv, CallsOK, queueVars
  <2>2. Undisturbed => restoring[n] = {}
    BY <1>2 DEF SendsInv, ApplyAsFollower, ApplyDone, Idle
  <2>4. \A u, i : Sent(u, i)' <=> Sent(u, i)
    BY <2>1 DEF Sent
  <2>6. OncePerTerm'
    BY <1>a, <2>1 DEF OncePerTerm
  <2> QED BY <1>a, <1>b, <1>c, <2>1, <2>2, <2>4, <2>6 DEF SendsInv
<1>3. CASE ApplyAsLeader(n)
  <2>1. /\ applying[n].pc = "marked" /\ leader = n
        /\ applying'[n] = [pc |-> "publish", idx |-> applying[n].idx,
                            task |-> applying[n].task, term |-> term]
        /\ UNCHANGED <<dispatched, assignments>>
    BY <1>3 DEF ApplyAsLeader, IsLeader, Applying, TypeInv, CallsOK, queueVars
  <2>2. applying'[n].pc = "publish" /\ applying'[n].task = applying[n].task /\ applying'[n].term = term
    BY <2>1
  <2>3. \A m \in Node : m # n /\ applying[m].pc = "publish" => applying[m].term # term
    BY <2>1 DEF SendsInv
  <2>4. \A u, i : Sent(u, i)' <=> Sent(u, i)
    BY <2>1 DEF Sent
  <2>5. Undisturbed => restoring[n] = {}
    BY <2>1 DEF SendsInv, Idle
  <2>6. OncePerTerm'
    BY <1>a, <2>1 DEF OncePerTerm
  <2> QED BY <1>a, <1>b, <1>c, <2>1, <2>2, <2>3, <2>4, <2>5, <2>6 DEF SendsInv
<1>4. CASE Publish(n) \/ PublishFails(n)
  <2>1. applying[n].pc = "publish" /\ applying'[n].pc = "done"
    BY <1>4 DEF Publish, PublishFails, Applied, Applying, TypeInv, CallsOK
  <2>2. PICK a \in [task : Task, term : 1..MaxTerm] :
            a.task = applying[n].task /\ a.term = applying[n].term /\ a = Assignment(n)
    BY <2>1, ApplyShape DEF Assignment, TypeInv
  <2>3. assignments' = assignments \/ assignments' = Append(assignments, a)
    BY <1>4, <2>2 DEF Publish, PublishFails
  <2>4. \A u, i : Sent(u, i)' => Sent(u, i) \/ (u = a.task /\ i = a.term)
    BY <2>3, SentGrows DEF Sent, TypeInv
  <2>5. \A k \in DOMAIN assignments' : assignments'[k].term <= term
    BY <2>1, <2>2, <2>3, SentGrows DEF SendsInv, TypeInv
  <2>6. Undisturbed' => UNCHANGED dispatched
    BY <1>4 DEF Publish, PublishFails, Spend, TypeInv, CallsOK, Bound, Undisturbed
  <2>7. OncePerTerm'
    <3> SUFFICES ASSUME Undisturbed', assignments' = Append(assignments, a),
                        NEW j \in DOMAIN assignments', NEW k \in DOMAIN assignments',
                        assignments'[j] = assignments'[k]
                 PROVE  j = k
      BY <1>a, <2>3 DEF OncePerTerm
    <3>1. \A i \in 1..Len(assignments) : assignments[i] # a
      <4>1. ~Sent(a.task, a.term)
        BY <1>a, <2>1, <2>2 DEF SendsInv
      <4>2. DOMAIN assignments = 1..Len(assignments)
        BY DEF TypeInv, TypeOK
      <4> QED BY <4>1, <4>2 DEF Sent
    <3>2. /\ DOMAIN assignments' = 1..(Len(assignments) + 1) /\ Len(assignments) \in Nat
          /\ \A i \in 1..Len(assignments) : assignments'[i] = assignments[i]
          /\ assignments'[Len(assignments) + 1] = a
          /\ DOMAIN assignments = 1..Len(assignments)
      BY SentGrows DEF TypeInv, TypeOK
    <3> QED BY <1>a, <3>1, <3>2 DEF OncePerTerm
  <2>8. ASSUME Undisturbed'
        PROVE  /\ \A t \in Task : leader # NoNode /\ Sent(t, term)' => t \in dispatched[leader]
               /\ \A m \in Node :
                    /\ restoring[m] # {} =>
                           applying'[m] = Idle /\ \A t \in Task : leader = m => ~Sent(t, term)'
                    /\ applying'[m].pc \in {"marked", "publish"} =>
                           applying'[m].task \in dispatched[m]
                    /\ applying'[m].pc = "marked" /\ leader = m => ~Sent(applying[m].task, term)'
                    /\ applying'[m].pc = "publish" => ~Sent(applying[m].task, applying[m].term)'
    <3>0. UNCHANGED <<leader, term>> /\ Undisturbed
      BY <1>a, <2>8
    <3>1. \A t \in Task : leader # NoNode /\ Sent(t, term)' => t \in dispatched[leader]
      BY <3>0, <1>c, <2>1, <2>2, <2>4 DEF SendsInv
    <3>2. ASSUME NEW m \in Node, m # n, applying[m].pc = "marked", leader = m
          PROVE  ~Sent(applying[m].task, term)'
      <4>1. a.term # term
        BY <2>1, <2>2, <3>2 DEF SendsInv
      <4> QED BY <1>b, <3>0, <3>2, <4>1, <2>4 DEF SendsInv
    <3>3. ASSUME NEW m \in Node, m # n, applying[m].pc = "publish"
          PROVE  ~Sent(applying[m].task, applying[m].term)'
      <4>1. a.term # applying[m].term
        BY <2>1, <2>2, <3>3 DEF SendsInv
      <4> QED BY <1>b, <3>0, <3>3, <4>1, <2>4 DEF SendsInv
    <3>4. ASSUME NEW m \in Node, restoring[m] # {}
          PROVE  applying'[m] = Idle /\ \A t \in Task : leader = m => ~Sent(t, term)'
      <4>1. m # n /\ applying[m] = Idle /\ \A t \in Task : leader = m => ~Sent(t, term)
        BY <2>1, <3>0, <3>4 DEF SendsInv, Idle
      <4>2. leader = m => a.term # term
        BY <2>1, <2>2, <4>1 DEF SendsInv
      <4> QED BY <1>b, <2>4, <3>0, <4>1, <4>2
    <3> QED BY <1>b, <2>1, <3>0, <3>1, <3>2, <3>3, <3>4 DEF SendsInv
  <2> QED BY <1>a, <1>b, <1>c, <2>1, <2>5, <2>6, <2>7, <2>8 DEF SendsInv
<1> QED BY <1>1, <1>2, <1>3, <1>4 DEF Apply

\* Every step keeps SendsInv and OncePerTerm.
LEMMA SendsStep == TypeInv /\ SendsInv /\ OncePerTerm /\ [Next]_vars => SendsInv' /\ OncePerTerm'
<1> SUFFICES ASSUME TypeInv, SendsInv, OncePerTerm, [Next]_vars PROVE SendsInv' /\ OncePerTerm'
  OBVIOUS
<1>1. CASE UNCHANGED vars
  BY <1>1 DEF SendsInv, OncePerTerm, Sent, Undisturbed, vars, clusterVars, stateVars, snapVars, queueVars
<1>2. CASE Next
  <2>0. Undisturbed' => Undisturbed
    BY <1>2, HistoryGrows
  <2>1. ASSUME NEW n \in Node, Apply(n) PROVE SendsInv' /\ OncePerTerm'
    BY <2>1, ApplyKeepsSends
  <2>2. ASSUME UNCHANGED assignments PROVE OncePerTerm'
    BY <2>0, <2>2 DEF OncePerTerm
  <2>3. ASSUME NEW n \in Node, Elect(n) PROVE SendsInv' /\ OncePerTerm'
    BY <2>2, <2>3, ElectKeepsSends DEF Elect, queueVars
  <2>4. ASSUME NEW n \in Node, Restart(n) PROVE SendsInv' /\ OncePerTerm'
    BY <2>2, <2>4, RestartKeepsSends DEF Restart, queueVars
  <2>5. ASSUME UNCHANGED <<leader, term, dispatched, applying, restoring, assignments>>
        PROVE  SendsInv' /\ OncePerTerm'
    BY <2>0, <2>2, <2>5, SendsSame
  <2>6. CASE Commit \/ \E t \in Task : Submit(t) \/ RecoverOrphan(t)
    BY <2>5, <2>6 DEF Commit, Submit, RecoverOrphan, clusterVars, stateVars, snapVars, queueVars
  <2>7. ASSUME NEW n \in Node, TakeSnapshot(n) \/ SendSnapshot(n) \/ Handle(n) \/ GiveUp(n) \/ \E t \in Task : Receive(n, t)
        PROVE  SendsInv' /\ OncePerTerm'
    BY <2>5, <2>7 DEF TakeSnapshot, SendSnapshot, Handle, FastPath, LookupAndPropose, LookupMisses,
       GiveUp, Receive, clusterVars, stateVars, snapVars, queueVars
  <2>8. ASSUME NEW n \in Node,
               \/ \E snap \in shipped : InstallSnapshot(n, snap)
               \/ \E snap \in restoring[n] : RestoreInstalled(n, snap)
        PROVE  SendsInv' /\ OncePerTerm'
    BY <2>2, <2>8, InstallKeepsSends DEF InstallSnapshot, RestoreInstalled, queueVars
  <2> QED BY <1>2, <2>1, <2>3, <2>4, <2>6, <2>7, <2>8 DEF Next
<1> QED BY <1>1, <1>2

\* "Exactly once per term" is at most once: unless a SendMessage reports an
\* error, or a Restore comes after an Apply that followed its installation, no
\* term publishes a task twice, whatever is delivered again, proposed again,
\* replayed after a restart or restored from an installed snapshot.
THEOREM PublishedOncePerTerm == Spec => []OncePerTerm
<1>1. Init => SendsInv /\ OncePerTerm
  BY DispatchAssumption DEF Init, SendsInv, OncePerTerm, Sent, Idle
<1> QED BY <1>1, TypeCorrect, SendsStep, PTL DEF Spec
=============================================================================
