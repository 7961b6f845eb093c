---------------------------- MODULE SnapshotNode ----------------------------
(***************************************************************************)
(* The snapshot machinery of one coordinator (raft/snapshot.go, applyLoop  *)
(* and HandleInstallSnapshot of raft/node.go) at the granularity of its    *)
(* critical sections: applyLoop, RunSnapshotLoop and the RPC handlers are  *)
(* concurrent goroutines that share the node's mutex, and sm.Apply,        *)
(* sm.Snapshot, sm.Restore and store.Save all run outside it.              *)
(*                                                                         *)
(* The node is a follower of a cluster that has committed the entries 1 to *)
(* MaxIndex.  A leader, or a late copy of what it once sent, may offer any *)
(* part of them.  Terms of requests and votes are the subject of Raft and  *)
(* are left out.  The command of entry i is i, and the state machine, the  *)
(* set of tasks dispatched, is the set of commands it has been given.      *)
(***************************************************************************)
EXTENDS Integers, Sequences, RaftLog

CONSTANTS
    MaxIndex,     \* bound: entries the cluster has committed
    EntryTerm,    \* the term of each of them
    NoSnap,       \* "no snapshot": nil
    MaxInstalls,  \* bound: InstallSnapshot requests delivered
    MaxSnapshots, \* bound: snapshots taken
    MaxCrashes    \* bound: restarts

ASSUME CommittedAssumption ==
    /\ MaxIndex \in Nat \ {0}
    /\ EntryTerm \in [1..MaxIndex -> Nat \ {0}]
    /\ \A i \in 1..(MaxIndex - 1) : EntryTerm[i] <= EntryTerm[i + 1]

ASSUME SnapshotBoundAssumption ==
    {MaxInstalls, MaxSnapshots, MaxCrashes} \subseteq Nat

\* nil is not a snapshot.
ASSUME NoSnapAssumption ==
    NoSnap \notin [idx : Nat, term : Nat, data : SUBSET Nat]

VARIABLES
    log, commitIndex, lastApplied,  \* fields of Node
    lastSnapshot,  \* the snapshot cached for InstallSnapshot
    dispatched,    \* the state machine
    applyCh,       \* a wake-up for applyLoop waits in its channel
    apply,         \* applyLoop: where it is, the entry it is applying
    take,          \* TakeSnapshot: its locals
    restoring,     \* HandleInstallSnapshot: snapshots installed, not restored
    store,         \* the snapshot in S3
    used,          \* how much of each bound has been used
    \* history
    installed,     \* floors that came with an installed snapshot
    regressed,     \* an installed snapshot was behind commitIndex
    raced          \* the state machine was used while a Restore was due

history == <<installed, regressed, raced>>

vars == <<log, commitIndex, lastApplied, lastSnapshot, dispatched, applyCh,
          apply, take, restoring, store, used, history>>

TermOf(idx) == IF idx = 0 THEN 0 ELSE EntryTerm[idx]

Committed(idx) == [term |-> TermOf(idx), index |-> idx, cmd |-> idx]

Placeholder(idx, term) == [term |-> term, index |-> idx, cmd |-> 0]

Snap(idx, term, data) == [idx |-> idx, term |-> term, data |-> data]

Idle == [pc |-> "idle"]

Spend(b, max) ==
    /\ used[b] < max
    /\ used' = [used EXCEPT ![b] = @ + 1]

Init ==
    /\ log = <<Placeholder(0, 0)>>
    /\ commitIndex = 0 /\ lastApplied = 0
    /\ lastSnapshot = NoSnap
    /\ dispatched = {}
    /\ applyCh = FALSE
    /\ apply = Idle /\ take = Idle
    /\ restoring = {}
    /\ store = NoSnap
    /\ used = [b \in {"installs", "snapshots", "crashes"} |-> 0]
    /\ installed = {} /\ regressed = FALSE /\ raced = FALSE

\* Something comes between an installation and the Restore it still owes.
UseState == raced' = (raced \/ restoring # {})

-----------------------------------------------------------------------------
(***************************************************************************)
(* RPC handlers                                                            *)
(***************************************************************************)

\* Rules 3 to 5 for a request that carries the entries prev + 1 to last.  The
\* leader sends its whole tail, so its commit index is at most last.
HandleAppendEntries(prev, last, commit) ==
    /\ Consistent(log, prev, TermOf(prev))
    /\ log' = AppendAll(log, prev,
                        [k \in 1..(last - prev) |-> Committed(prev + k)])
    /\ commitIndex' = Max({commitIndex, Min({commit, last})})
    /\ applyCh' = (applyCh \/ commitIndex' > commitIndex)
    /\ UNCHANGED <<lastApplied, lastSnapshot, dispatched, apply, take,
                   restoring, store, used, history>>

\* "Ignore a snapshot that's older than what we already have" compares with
\* the floor of the log, not with commitIndex or lastApplied.
Accepts(snap) == ~(snap.idx <= FirstIndex(log) /\ FirstIndex(log) > 0)

\* The locked part of HandleInstallSnapshot.  sm.Restore comes later.
HandleInstallSnapshot(snap) ==
    /\ Spend("installs", MaxInstalls)
    /\ Accepts(snap)
    /\ log' = <<Placeholder(snap.idx, snap.term)>>
    /\ commitIndex' = snap.idx
    /\ lastApplied' = snap.idx
    /\ lastSnapshot' = snap
    /\ restoring' = restoring \cup {snap}
    /\ installed' = installed \cup {snap.idx}
    /\ regressed' = (regressed \/ snap.idx < commitIndex)
    /\ UseState
    /\ UNCHANGED <<dispatched, applyCh, apply, take, store>>

\* sm.Restore of HandleInstallSnapshot, outside the lock: replace the state.
RestoreInstalled(snap) ==
    /\ snap \in restoring
    /\ restoring' = restoring \ {snap}
    /\ dispatched' = snap.data
    /\ UNCHANGED <<log, commitIndex, lastApplied, lastSnapshot, applyCh, apply,
                   take, store, used, history>>

-----------------------------------------------------------------------------
(***************************************************************************)
(* applyLoop                                                               *)
(***************************************************************************)

\* applyLoop takes the wake-up and enters its inner loop.
ApplyWake ==
    /\ apply = Idle /\ applyCh
    /\ applyCh' = FALSE
    /\ apply' = [pc |-> "loop"]
    /\ UNCHANGED <<log, commitIndex, lastApplied, lastSnapshot, dispatched, take,
                   restoring, store, used, history>>

Picked(idx) == [pc |-> "picked", idx |-> idx, cmd |-> EntryAt(log, idx).cmd]

\* Mutant: lastApplied counts the entry before it has been applied.
ApplyPickBumping ==
    /\ apply.pc = "loop"
    /\ IF lastApplied + 1 <= commitIndex
       THEN apply' = Picked(lastApplied + 1) /\ lastApplied' = lastApplied + 1
       ELSE apply' = Idle /\ UNCHANGED lastApplied
    /\ UNCHANGED <<log, commitIndex, lastSnapshot, dispatched, applyCh, take,
                   restoring, store, used, history>>

\* First critical section: pick the entry after lastApplied, or leave the
\* inner loop when there is none, skipping to the floor if that is ahead.
ApplyPick ==
    /\ apply.pc = "loop"
    /\ LET next == lastApplied + 1
       IN \/ /\ next > commitIndex
             /\ apply' = Idle
             /\ UNCHANGED lastApplied
          \/ /\ next <= commitIndex /\ ~InLog(log, next)
             /\ apply' = Idle
             /\ lastApplied' = IF next <= FirstIndex(log) THEN FirstIndex(log)
                                                         ELSE lastApplied
          \/ /\ next <= commitIndex /\ InLog(log, next)
             /\ apply' = Picked(next)
             /\ UNCHANGED lastApplied
    /\ UNCHANGED <<log, commitIndex, lastSnapshot, dispatched, applyCh, take,
                   restoring, store, used, history>>

\* sm.Apply, outside the lock; the placeholder has no command.
ApplyEntry ==
    /\ apply.pc = "picked"
    /\ dispatched' = dispatched \cup ({apply.cmd} \ {0})
    /\ apply' = [apply EXCEPT !.pc = "applied"]
    /\ UseState
    /\ UNCHANGED <<log, commitIndex, lastApplied, lastSnapshot, applyCh, take,
                   restoring, store, used, installed, regressed>>

\* Second critical section, whatever has happened to lastApplied since.
ApplyDone ==
    /\ apply.pc = "applied"
    /\ lastApplied' = apply.idx
    /\ apply' = [pc |-> "loop"]
    /\ UNCHANGED <<log, commitIndex, lastSnapshot, dispatched, applyCh, take,
                   restoring, store, used, history>>

-----------------------------------------------------------------------------
(***************************************************************************)
(* TakeSnapshot, called by RunSnapshotLoop.  The loop's threshold is at    *)
(* least 1, so the weakest guard is the one TakeSnapshot checks itself.    *)
(***************************************************************************)
\* First critical section: the index and the term the snapshot will have.
TakeSnapshot ==
    /\ take = Idle
    /\ Spend("snapshots", MaxSnapshots)
    /\ lastApplied > FirstIndex(log)
    /\ take' = [pc |-> "read", idx |-> lastApplied,
                term |-> TermAt(log, lastApplied)]
    /\ UNCHANGED <<log, commitIndex, lastApplied, lastSnapshot, dispatched,
                   applyCh, apply, restoring, store, history>>

\* sm.Snapshot, outside the lock: it may already hold later entries.
SerializeState ==
    /\ take.pc = "read"
    /\ take' = [pc |-> "serialized", snap |-> Snap(take.idx, take.term, dispatched)]
    /\ UseState
    /\ UNCHANGED <<log, commitIndex, lastApplied, lastSnapshot, dispatched,
                   applyCh, apply, restoring, store, used, installed, regressed>>

\* Mutant: the log is compacted whether or not the save succeeded.
SaveIgnoringErrors ==
    /\ take.pc = "serialized"
    /\ store' \in {store, take.snap}
    /\ take' = [take EXCEPT !.pc = "saved"]
    /\ UNCHANGED <<log, commitIndex, lastApplied, lastSnapshot, dispatched,
                   applyCh, apply, restoring, used, history>>

\* store.Save succeeds, or fails and TakeSnapshot returns its error.
Save ==
    /\ take.pc = "serialized"
    /\ \/ /\ store' = take.snap
          /\ take' = [take EXCEPT !.pc = "saved"]
       \/ /\ take' = Idle
          /\ UNCHANGED store
    /\ UNCHANGED <<log, commitIndex, lastApplied, lastSnapshot, dispatched,
                   applyCh, apply, restoring, used, history>>

\* The last critical section: compactLogLocked, which does nothing when the
\* floor has passed the snapshot, and the cached copy, which is replaced.
CompactLog ==
    /\ take.pc = "saved"
    /\ log' = Compact(log, take.snap.idx,
                      Placeholder(take.snap.idx, take.snap.term))
    /\ lastSnapshot' = take.snap
    /\ take' = Idle
    /\ UNCHANGED <<commitIndex, lastApplied, dispatched, applyCh, apply,
                   restoring, store, used, history>>

-----------------------------------------------------------------------------
\* Mutant: RestoreSnapshot seeds the node and not the state machine.
NothingRestored == {}

\* What sm.Restore leaves at boot.
RestoredState == IF store = NoSnap THEN {} ELSE store.data

\* The process is lost and main starts it again: NewNode, then
\* RestoreSnapshot before Run.
Restart ==
    /\ Spend("crashes", MaxCrashes)
    /\ applyCh' = FALSE
    /\ apply' = Idle /\ take' = Idle
    /\ restoring' = {}
    /\ lastSnapshot' = store
    /\ LET idx == IF store = NoSnap THEN 0 ELSE store.idx
       IN /\ log' = <<Placeholder(idx, IF store = NoSnap THEN 0 ELSE store.term)>>
          /\ commitIndex' = idx
          /\ lastApplied' = idx
    /\ dispatched' = RestoredState
    /\ installed' = {}
    /\ UNCHANGED <<store, regressed, raced>>

Next ==
    \/ \E prev \in 0..MaxIndex : \E last \in prev..MaxIndex :
           \E commit \in 0..last : HandleAppendEntries(prev, last, commit)
    \/ \E idx \in 1..MaxIndex : \E upTo \in idx..MaxIndex :
           HandleInstallSnapshot(Snap(idx, TermOf(idx), 1..upTo))
    \/ \E snap \in restoring : RestoreInstalled(snap)
    \/ ApplyWake \/ ApplyPick \/ ApplyEntry \/ ApplyDone
    \/ TakeSnapshot \/ SerializeState \/ Save \/ CompactLog
    \/ Restart

Spec == Init /\ [][Next]_vars

-----------------------------------------------------------------------------
Snapshots == {store, lastSnapshot} \ {NoSnap}

\* Every field keeps its type.
TypeOK ==
    /\ Len(log) > 0
    /\ \A k \in 1..Len(log) : log[k] \in [term : Nat, index : 0..MaxIndex,
                                          cmd : 0..MaxIndex]
    /\ {commitIndex, lastApplied} \subseteq 0..MaxIndex
    /\ dispatched \subseteq 1..MaxIndex
    /\ applyCh \in BOOLEAN
    /\ \A s \in Snapshots \cup restoring : s.idx \in 1..MaxIndex /\ s.data \subseteq 1..MaxIndex
    /\ apply.pc \in {"idle", "loop", "picked", "applied"}
    /\ take.pc \in {"idle", "read", "serialized", "saved"}

\* Every interleaving of appends, compaction and installation leaves a
\* contiguous log that holds what the cluster committed, and every snapshot
\* names the term of its last entry: termAt(PrevLogIndex) answers truthfully
\* at the floor, here and on a node that installs or reloads the snapshot.
\* The one exception is a node whose commitIndex an older snapshot took back:
\* TakeSnapshot may then find lastApplied past the end of the log.
LogTruthful ==
    /\ TypeOK
    /\ WellFormed(log)
    /\ \A k \in 2..Len(log) : log[k] = Committed(log[k].index)
    /\ regressed \/ /\ log[1].term = TermOf(log[1].index)
                    /\ \A s \in Snapshots : s.term = TermOf(s.idx)

\* "Only compact AFTER a successful save": what the log no longer holds is in
\* the snapshot a restart would load, through failed saves and restarts and
\* installations that overtake a save.  A floor that was installed is not
\* saved until the next snapshot.
FloorPersisted ==
    FirstIndex(log) \notin installed \cup {0} =>
        store # NoSnap /\ store.idx >= FirstIndex(log)

\* A snapshot holds every entry up to its index, as a restarted node and a
\* follower that installs it rely on ("Snapshot never serializes a state
\* machine that's behind lastApplied"), unless a snapshot was taken between an
\* installation and its Restore, or an older one was installed.
SnapshotComplete ==
    ~raced /\ ~regressed => \A s \in Snapshots : 1..s.idx \subseteq s.data

\* With no installation under way, the state machine holds every entry up to
\* lastApplied, after restarts as well.  HandleInstallSnapshot breaks it: an
\* entry applied before its Restore is wiped.
RestoreLosesNothing ==
    restoring = {} => 1..lastApplied \subseteq dispatched

\* That race and the installation of an older snapshot, which applyLoop does
\* not notice, are the only ways the state machine loses an entry.
AppliedHeld == ~raced /\ ~regressed => RestoreLosesNothing
=============================================================================
