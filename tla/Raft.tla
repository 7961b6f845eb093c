-------------------------------- MODULE Raft --------------------------------
(***************************************************************************)
(* The replicated coordinator of raft/node.go: leader election, log        *)
(* replication and the Propose/apply path of a cluster of nodes, with the  *)
(* run loop of every node, its RPC goroutines and its RPC handlers as      *)
(* interleaved steps.  One action is one critical section of the node's    *)
(* mutex.  Compaction and InstallSnapshot are outside this module: the log *)
(* placeholder stays at index 0 and lastSnapshot is nil.                   *)
(*                                                                         *)
(* Timers are nondeterministic: an election timer may fire whenever its    *)
(* select is waiting, and an RPC may fail whenever it is outstanding       *)
(* (rpcTimeout, a broken connection, a cancelled context).  A request      *)
(* whose caller gave up may still be handled later.                        *)
(***************************************************************************)
EXTENDS Integers, Sequences, FiniteSets, RaftLog

CONSTANTS
    Node,        \* the coordinators
    Cmd,         \* the commands clients propose, each one at most once
    Nil,         \* "no node" in votedFor, "no command" in the placeholder
    MaxTimeouts,  \* bound: follower timeouts in a behaviour
    MaxElections, \* bound: elections started in a behaviour
    MaxAppends,   \* bound: AppendEntries calls made in a behaviour
    MaxCrashes    \* bound: process crashes in a behaviour

ASSUME NodeAssumption == IsFiniteSet(Node) /\ Node # {}
ASSUME NilAssumption == Nil \notin Node /\ Nil \notin Cmd
ASSUME BoundAssumption ==
    {MaxTimeouts, MaxElections, MaxAppends, MaxCrashes} \subseteq Nat

VARIABLES
    \* fields of Node
    state, currentTerm, votedFor, log, commitIndex, nextIndex, matchIndex,
    waits,       \* commitWaits: set of [index, cmd], one per index
    stepDown,    \* stepDownCh holds a signal
    applied,     \* commands given to the state machine; lastApplied is its length
    \* locals of the goroutine that executes Run
    pc,          \* where Run is
    elecTerm,    \* runCandidate: term
    voters,      \* runCandidate: the nodes counted in votes
    awaiting,    \* runCandidate: peers whose RequestVote goroutine is running
    calls,       \* runLeader: outstanding AppendEntries calls, one per peer
    \* RPCs in flight
    voteReqs, voteReps, appReqs, appReps,
    \* what the callers of Propose have been told
    outcome,
    used,        \* how much of each bound has been used
    \* history: votes granted, votes forgotten in their own term, leaderships
    grants, revoked, leaders

nodeVars == <<state, currentTerm, votedFor, log, commitIndex, nextIndex,
              matchIndex, waits, stepDown, applied>>
runVars  == <<pc, elecTerm, voters, awaiting, calls>>
netVars  == <<voteReqs, voteReps, appReqs, appReps>>
histVars == <<grants, revoked, leaders>>
vars == <<nodeVars, runVars, netVars, outcome, used, histVars>>

Follower  == "follower"
Candidate == "candidate"
Leader    == "leader"

Peer(n) == Node \ {n}

Term  == Nat
Index == Nat

Entry == [term : Term, index : Index, cmd : Cmd]

Placeholder == [term |-> 0, index |-> 0, cmd |-> Nil]

Bound == {"timeouts", "elections", "appends", "crashes"}

Spend(b, max) ==
    /\ used[b] < max
    /\ used' = [used EXCEPT ![b] = @ + 1]

\* Mutant: half of the cluster is taken for a majority.
HalfIsEnough(S) == Cardinality(S) >= Cardinality(Node) \div 2

\* majority := (len(n.peer)+1)/2 + 1
Majority(S) == Cardinality(S) >= (Cardinality(Node) \div 2) + 1

-----------------------------------------------------------------------------
(***************************************************************************)
(* A fresh process: NewNode followed by Run entering runFollower.          *)
(***************************************************************************)
Init ==
    /\ state       = [n \in Node |-> Follower]
    /\ currentTerm = [n \in Node |-> 0]
    /\ votedFor    = [n \in Node |-> Nil]
    /\ log         = [n \in Node |-> <<Placeholder>>]
    /\ commitIndex = [n \in Node |-> 0]
    /\ nextIndex   = [n \in Node |-> [p \in Node |-> 0]]
    /\ matchIndex  = [n \in Node |-> [p \in Node |-> 0]]
    /\ waits       = [n \in Node |-> {}]
    /\ stepDown    = [n \in Node |-> FALSE]
    /\ applied     = [n \in Node |-> <<>>]
    /\ pc          = [n \in Node |-> "follower"]
    /\ elecTerm    = [n \in Node |-> 0]
    /\ voters      = [n \in Node |-> {}]
    /\ awaiting    = [n \in Node |-> {}]
    /\ calls       = [n \in Node |-> {}]
    /\ voteReqs = {} /\ voteReps = {} /\ appReqs = {} /\ appReps = {}
    /\ outcome  = [c \in Cmd |-> "none"]
    /\ used     = [b \in Bound |-> 0]
    /\ grants = {} /\ revoked = {} /\ leaders = {}

-----------------------------------------------------------------------------
(***************************************************************************)
(* Run and runFollower                                                     *)
(***************************************************************************)

\* The election timer of runFollower fires.  The term is not touched here:
\* Run and runCandidate each take the lock again before it is bumped.
FollowerTimeout(n) ==
    /\ pc[n] = "follower"
    /\ Spend("timeouts", MaxTimeouts)
    /\ state' = [state EXCEPT ![n] = Candidate]
    /\ pc' = [pc EXCEPT ![n] = "candidate"]
    /\ UNCHANGED <<currentTerm, votedFor, log, commitIndex, nextIndex,
                   matchIndex, waits, stepDown, applied, elecTerm, voters,
                   awaiting, calls, netVars, outcome, histVars>>

\* Run reads the role and finds that a handler has undone the timeout.  When
\* it reads Candidate, before or after such a handler, runCandidate goes on.
RunFollower(n) ==
    /\ pc[n] = "candidate"
    /\ state[n] = Follower
    /\ pc' = [pc EXCEPT ![n] = "follower"]
    /\ UNCHANGED <<nodeVars, elecTerm, voters, awaiting, calls, netVars,
                   outcome, used, histVars>>

-----------------------------------------------------------------------------
(***************************************************************************)
(* runCandidate                                                            *)
(***************************************************************************)

\* Bump the term, vote for ourselves and start one RequestVote per peer.
\* The role is not rechecked: a handler may have made us a follower since.
StartElection(n) ==
    /\ pc[n] = "candidate"
    /\ Spend("elections", MaxElections)
    /\ LET term == currentTerm[n] + 1
       IN /\ currentTerm' = [currentTerm EXCEPT ![n] = term]
          /\ elecTerm' = [elecTerm EXCEPT ![n] = term]
          /\ voteReqs' = voteReqs \cup
                {[src |-> n, dst |-> p, term |-> term,
                  lastIdx |-> LastIndex(log[n]),
                  lastTerm |-> LastTerm(log[n])] : p \in Peer(n)}
          /\ grants' = grants \cup {<<n, n, term>>}
    /\ votedFor' = [votedFor EXCEPT ![n] = n]
    /\ voters' = [voters EXCEPT ![n] = {n}]
    /\ awaiting' = [awaiting EXCEPT ![n] = Peer(n)]
    /\ pc' = [pc EXCEPT ![n] = "electing"]
    /\ UNCHANGED <<state, log, commitIndex, nextIndex, matchIndex, waits,
                   stepDown, applied, calls, voteReps, appReqs, appReps,
                   outcome, revoked, leaders>>

\* The RequestVote goroutine for m.src gets its reply.  A grant is counted
\* whatever the current term and role are by now.
HandleVoteReply(n, m) ==
    /\ m \in voteReps /\ m.dst = n
    /\ m.src \in awaiting[n] /\ m.elecTerm = elecTerm[n]
    /\ voteReps' = voteReps \ {m}
    /\ awaiting' = [awaiting EXCEPT ![n] = @ \ {m.src}]
    /\ IF m.term > currentTerm[n]
       THEN /\ currentTerm' = [currentTerm EXCEPT ![n] = m.term]
            /\ votedFor' = [votedFor EXCEPT ![n] = Nil]
            /\ state' = [state EXCEPT ![n] = Follower]
            /\ UNCHANGED voters
       ELSE /\ voters' = IF m.granted
                         THEN [voters EXCEPT ![n] = @ \cup {m.src}]
                         ELSE voters
            /\ UNCHANGED <<currentTerm, votedFor, state>>
    /\ UNCHANGED <<log, commitIndex, nextIndex, matchIndex, waits, stepDown,
                   applied, pc, elecTerm, calls, voteReqs, appReqs, appReps,
                   outcome, used, histVars>>

InitLeaderState(n) ==
    /\ nextIndex' = [nextIndex EXCEPT ![n] =
                        [p \in Node |-> LastIndex(log[n]) + 1]]
    /\ matchIndex' = [matchIndex EXCEPT ![n] =
                        [p \in Node |-> IF p = n THEN LastIndex(log[n]) ELSE 0]]

\* case <-wonElection: become leader and reset the leader state, without
\* comparing the current term with the one the votes were cast in.
WinElection(n) ==
    /\ pc[n] = "electing"
    /\ Majority(voters[n])
    /\ state' = [state EXCEPT ![n] = Leader]
    /\ InitLeaderState(n)
    /\ pc' = [pc EXCEPT ![n] = "waiting"]
    /\ leaders' = leaders \cup {[node |-> n, term |-> currentTerm[n],
                                 elected |-> elecTerm[n]]}
    /\ UNCHANGED <<currentTerm, votedFor, log, commitIndex, waits, stepDown,
                   applied, elecTerm, voters, awaiting, calls,
                   netVars, outcome, used, grants, revoked>>

\* case <-timer.C, which may be chosen at any time, and case <-steppedDown,
\* whose goroutine has already made us a follower: leave the select.
ElectionEnds(n) ==
    /\ pc[n] = "electing"
    /\ pc' = [pc EXCEPT ![n] = "waiting"]
    /\ UNCHANGED <<nodeVars, elecTerm, voters, awaiting, calls,
                   netVars, outcome, used, histVars>>

\* wg.Wait() returns: every RequestVote call has been answered or has failed,
\* so a reply still under way finds nobody waiting.  Run then enters the loop
\* of the role it reads; runLeader drains a stale step-down signal.
ElectionDone(n) ==
    /\ pc[n] = "waiting"
    /\ awaiting' = [awaiting EXCEPT ![n] = {}]
    /\ voteReps' = {m \in voteReps : m.dst # n}
    /\ pc' = [pc EXCEPT ![n] = state[n]]
    /\ stepDown' = [stepDown EXCEPT ![n] = @ /\ state[n] # Leader]
    /\ UNCHANGED <<state, currentTerm, votedFor, log, commitIndex, nextIndex,
                   matchIndex, waits, applied, elecTerm, voters, calls,
                   voteReqs, appReqs, appReps, outcome, used, histVars>>

-----------------------------------------------------------------------------
(***************************************************************************)
(* runLeader, replicatePeer and sendAppend                                 *)
(***************************************************************************)

\* First half of sendAppend, up to the unlock before the call.  The replicator
\* makes one call at a time: the one still outstanding, if any, has failed.
SendAppend(n, p) ==
    /\ pc[n] = "leader" /\ state[n] = Leader
    /\ Spend("appends", MaxAppends)
    /\ LET next == IF nextIndex[n][p] <= FirstIndex(log[n])
                   THEN FirstIndex(log[n]) + 1
                   ELSE nextIndex[n][p]
           entries == EntriesFrom(log[n], next)
       IN /\ nextIndex' = [nextIndex EXCEPT ![n][p] = next]
          /\ appReqs' = appReqs \cup
                {[src |-> n, dst |-> p, term |-> currentTerm[n],
                  prevIdx |-> next - 1,
                  prevTerm |-> TermAt(log[n], next - 1),
                  entries |-> entries, commit |-> commitIndex[n]]}
          /\ calls' = [calls EXCEPT ![n] =
                {call \in @ : call.dst # p} \cup
                {[dst |-> p, term |-> currentTerm[n], prevIdx |-> next - 1,
                  len |-> Len(entries)]}]
    /\ appReps' = {m \in appReps : ~(m.dst = n /\ m.src = p)}
    /\ UNCHANGED <<state, currentTerm, votedFor, log, commitIndex, matchIndex,
                   waits, stepDown, applied, pc, elecTerm, voters, awaiting,
                   voteReqs, voteReps, outcome, histVars>>

\* Mutant: a follower is counted when it lacks the last entry.
ReplicatedButOne(n, match, idx) ==
    Majority({n} \cup {p \in Peer(n) : match[p] + 1 >= idx})

\* maybeAdvanceCommitLocked: the largest index above commitIndex that holds an
\* entry of the current term and that a majority, ourselves included, holds.
Replicated(n, match, idx) ==
    Majority({n} \cup {p \in Peer(n) : match[p] >= idx})

\* Mutant: entries of earlier terms are committed by counting copies.
CommittableAnyTerm(n, entries, match) ==
    {idx \in (commitIndex[n] + 1)..LastIndex(entries) :
        Replicated(n, match, idx)}

Committable(n, entries, match) ==
    {idx \in (commitIndex[n] + 1)..LastIndex(entries) :
        /\ idx >= FirstIndex(entries)
        /\ TermAt(entries, idx) = currentTerm[n]
        /\ Replicated(n, match, idx)}

AdvancedCommit(n, entries, match) ==
    IF Committable(n, entries, match) = {}
    THEN commitIndex[n]
    ELSE Max(Committable(n, entries, match))

\* Second half of sendAppend: the reply to an outstanding call.
HandleAppendReply(n, m) ==
    /\ m \in appReps /\ m.dst = n
    /\ m.call \in calls[n]
    /\ appReps' = {r \in appReps : ~(r.dst = n /\ r.src = m.src)}
    /\ calls' = [calls EXCEPT ![n] = @ \ {m.call}]
    /\ \/ /\ m.term > currentTerm[n]
          /\ currentTerm' = [currentTerm EXCEPT ![n] = m.term]
          /\ votedFor' = [votedFor EXCEPT ![n] = Nil]
          /\ state' = [state EXCEPT ![n] = Follower]
          /\ stepDown' = [stepDown EXCEPT ![n] = TRUE]
          /\ UNCHANGED <<nextIndex, matchIndex, commitIndex>>
       \/ /\ m.term <= currentTerm[n]
          /\ state[n] # Leader \/ currentTerm[n] # m.call.term
          /\ UNCHANGED <<currentTerm, votedFor, state, stepDown, nextIndex,
                         matchIndex, commitIndex>>
       \/ /\ m.term <= currentTerm[n]
          /\ state[n] = Leader /\ currentTerm[n] = m.call.term
          /\ m.success
          /\ LET p     == m.src
                 match == m.call.prevIdx + m.call.len
             IN /\ matchIndex' = [matchIndex EXCEPT ![n][p] = Max({@, match})]
                /\ nextIndex' = [nextIndex EXCEPT ![n][p] = Max({@, match + 1})]
          /\ commitIndex' = [commitIndex EXCEPT ![n] =
                                AdvancedCommit(n, log[n], matchIndex'[n])]
          /\ UNCHANGED <<currentTerm, votedFor, state, stepDown>>
       \/ /\ m.term <= currentTerm[n]
          /\ state[n] = Leader /\ currentTerm[n] = m.call.term
          /\ ~m.success
          /\ nextIndex' = [nextIndex EXCEPT ![n][m.src] =
                              IF @ > FirstIndex(log[n]) + 1 THEN @ - 1 ELSE @]
          /\ UNCHANGED <<currentTerm, votedFor, state, stepDown, matchIndex,
                         commitIndex>>
    /\ UNCHANGED <<log, waits, applied, pc, elecTerm, voters, awaiting,
                   voteReqs, voteReps, appReqs, outcome, used, histVars>>

\* case <-n.stepDownCh in runLeader, then cancel().
LeaderStepsDown(n) ==
    /\ pc[n] = "leader"
    /\ stepDown[n]
    /\ stepDown' = [stepDown EXCEPT ![n] = FALSE]
    /\ state' = [state EXCEPT ![n] = Follower]
    /\ pc' = [pc EXCEPT ![n] = "draining"]
    /\ UNCHANGED <<currentTerm, votedFor, log, commitIndex, nextIndex,
                   matchIndex, waits, applied, elecTerm, voters, awaiting,
                   calls, netVars, outcome, used, histVars>>

\* Every waiter above commitIndex is answered with Committed: false.
AbortPendingProposals(n) ==
    LET aborted == {w \in waits[n] : w.index > commitIndex[n]}
    IN  /\ waits' = [waits EXCEPT ![n] = @ \ aborted]
        /\ outcome' = [c \in Cmd |-> IF \E w \in aborted : w.cmd = c
                                     THEN "aborted" ELSE outcome[c]]

\* wg.Wait() returns and the cancelled calls have failed.  Run then reads
\* Follower: handlers set no other role.
LeaderDone(n) ==
    /\ pc[n] = "draining"
    /\ calls' = [calls EXCEPT ![n] = {}]
    /\ appReps' = {m \in appReps : m.dst # n}
    /\ AbortPendingProposals(n)
    /\ pc' = [pc EXCEPT ![n] = "follower"]
    /\ UNCHANGED <<state, currentTerm, votedFor, log, commitIndex, nextIndex,
                   matchIndex, stepDown, applied, elecTerm, voters, awaiting,
                   voteReqs, voteReps, appReqs, used, histVars>>

-----------------------------------------------------------------------------
(***************************************************************************)
(* RPC handlers, run by the gRPC server whatever Run is doing              *)
(***************************************************************************)
Up(n) == pc[n] # "down"

\* Mutant: the vote already cast in this term is not looked at.
GrantsVoteAgain(n, m) ==
    /\ m.term >= currentTerm[n]
    /\ UpToDate(m.lastTerm, m.lastIdx, log[n])

\* the vote decision of HandleRequestVote, after the term has been adopted
GrantsVote(n, m) ==
    /\ m.term >= currentTerm[n]
    /\ m.term > currentTerm[n] \/ votedFor[n] \in {Nil, m.src}
    /\ UpToDate(m.lastTerm, m.lastIdx, log[n])

HandleRequestVote(n, m) ==
    /\ Up(n)
    /\ m \in voteReqs /\ m.dst = n
    /\ voteReqs' = voteReqs \ {m}
    /\ LET higher  == m.term > currentTerm[n]
           granted == GrantsVote(n, m)
       IN /\ currentTerm' = [currentTerm EXCEPT ![n] =
                                IF higher THEN m.term ELSE @]
          /\ state' = [state EXCEPT ![n] = IF higher THEN Follower ELSE @]
          /\ votedFor' = [votedFor EXCEPT ![n] = IF granted THEN m.src
                                                 ELSE IF higher THEN Nil ELSE @]
          /\ grants' = IF granted THEN grants \cup {<<n, m.src, m.term>>}
                                  ELSE grants
          /\ voteReps' = IF n \in awaiting[m.src] /\ elecTerm[m.src] = m.term
                         THEN voteReps \cup
                                {[src |-> n, dst |-> m.src, elecTerm |-> m.term,
                                  term |-> currentTerm'[n], granted |-> granted]}
                         ELSE voteReps
    /\ UNCHANGED <<log, commitIndex, nextIndex, matchIndex, waits, stepDown,
                   applied, runVars, appReqs, appReps, outcome, used,
                   revoked, leaders>>

\* rule 5: min(LeaderCommit, index of the last new entry), never backwards
FollowerCommit(commit, leaderCommit, lastNew) ==
    Max({commit, Min({leaderCommit, lastNew})})

\* the reply of node n to request m reaches the call that sent m, if it is
\* still outstanding
AppendReply(n, m, term, success) ==
    LET call == [dst |-> n, term |-> m.term, prevIdx |-> m.prevIdx,
                 len |-> Len(m.entries)]
    IN  IF call \in calls[m.src]
        THEN appReps \cup {[src |-> n, dst |-> m.src, call |-> call,
                            term |-> term, success |-> success]}
        ELSE appReps

\* rule 1: a request of an older term changes nothing
RejectAppendEntries(n, m) ==
    /\ Up(n)
    /\ m \in appReqs /\ m.dst = n
    /\ m.term < currentTerm[n]
    /\ appReps' = AppendReply(n, m, currentTerm[n], FALSE)
    /\ UNCHANGED <<nodeVars, runVars, voteReqs, voteReps, appReqs, outcome,
                   used, histVars>>

\* rules 2 to 5.  The request stays in flight: the leader repeats it with
\* every heartbeat, so copies whose calls timed out may still be handled.
\* Rule 2 clears votedFor also when the term does not change.
HandleAppendEntries(n, m) ==
    /\ Up(n)
    /\ m \in appReqs /\ m.dst = n
    /\ m.term >= currentTerm[n]
    /\ LET recognize == m.term > currentTerm[n] \/ state[n] # Follower
           ok == Consistent(log[n], m.prevIdx, m.prevTerm)
       IN /\ currentTerm' = [currentTerm EXCEPT ![n] = m.term]
          /\ state' = [state EXCEPT ![n] = Follower]
          /\ votedFor' = [votedFor EXCEPT ![n] = IF recognize THEN Nil ELSE @]
          /\ revoked' = IF m.term = currentTerm[n] /\ votedFor'[n] # votedFor[n]
                        THEN revoked \cup {<<n, m.term>>}
                        ELSE revoked
          /\ log' = [log EXCEPT ![n] =
                        IF ok THEN AppendAll(@, m.prevIdx, m.entries) ELSE @]
          /\ commitIndex' = [commitIndex EXCEPT ![n] =
                IF ok THEN FollowerCommit(@, m.commit, m.prevIdx + Len(m.entries))
                      ELSE @]
          /\ appReps' = AppendReply(n, m, m.term, ok)
    /\ UNCHANGED <<nextIndex, matchIndex, waits, stepDown, applied, runVars,
                   voteReqs, voteReps, appReqs, outcome, used, grants,
                   leaders>>

-----------------------------------------------------------------------------
(***************************************************************************)
(* Propose and applyLoop                                                   *)
(***************************************************************************)

\* Mutant: the loop the node is in is taken for its role.
MayProposeInLoop(n) == pc[n] = "leader"

MayPropose(n) == state[n] = Leader

\* A new waiter replaces the one that commitWaits may hold for this index.
Propose(n, c) ==
    /\ MayPropose(n)
    /\ outcome[c] = "none"
    /\ outcome' = [outcome EXCEPT ![c] = "pending"]
    /\ LET idx == LastIndex(log[n]) + 1
       IN /\ log' = [log EXCEPT ![n] =
                Append(@, [term |-> currentTerm[n], index |-> idx, cmd |-> c])]
          /\ matchIndex' = [matchIndex EXCEPT ![n][n] = idx]
          /\ waits' = [waits EXCEPT ![n] =
                {w \in @ : w.index # idx} \cup {[index |-> idx, cmd |-> c]}]
    /\ commitIndex' = [commitIndex EXCEPT ![n] =
                          AdvancedCommit(n, log'[n], matchIndex'[n])]
    /\ UNCHANGED <<state, currentTerm, votedFor, nextIndex, stepDown, applied,
                   runVars, netVars, used, histVars>>

\* Mutant: the command at lastApplied is given to the state machine again.
LastCommand(n) == EntryAt(log[n], Len(applied[n])).cmd

\* the command applyLoop takes next: the entry at lastApplied + 1
NextCommand(n) == EntryAt(log[n], Len(applied[n]) + 1).cmd

\* One turn of applyLoop: the waiter is looked up by index alone.  Without
\* snapshots nothing else writes lastApplied, so its two critical sections
\* are one step.
Apply(n) ==
    LET next == Len(applied[n]) + 1
        here == {w \in waits[n] : w.index = next}
    IN /\ Up(n)
       /\ next <= commitIndex[n]
       /\ InLog(log[n], next)
       /\ applied' = [applied EXCEPT ![n] = Append(@, NextCommand(n))]
       /\ waits' = [waits EXCEPT ![n] = @ \ here]
       /\ outcome' = [c \in Cmd |-> IF \E w \in here : w.cmd = c
                                    THEN "committed" ELSE outcome[c]]
       /\ UNCHANGED <<state, currentTerm, votedFor, log, commitIndex,
                      nextIndex, matchIndex, stepDown, runVars, netVars,
                      used, histVars>>

-----------------------------------------------------------------------------
(***************************************************************************)
(* The process stops and loses everything it holds in memory, which is     *)
(* everything while no snapshot has been saved; main starts it afresh.     *)
(***************************************************************************)
Crash(n) ==
    /\ Up(n)
    /\ Spend("crashes", MaxCrashes)
    /\ state'       = [state       EXCEPT ![n] = Follower]
    /\ currentTerm' = [currentTerm EXCEPT ![n] = 0]
    /\ votedFor'    = [votedFor    EXCEPT ![n] = Nil]
    /\ log'         = [log         EXCEPT ![n] = <<Placeholder>>]
    /\ commitIndex' = [commitIndex EXCEPT ![n] = 0]
    /\ nextIndex'   = [nextIndex   EXCEPT ![n] = [p \in Node |-> 0]]
    /\ matchIndex'  = [matchIndex  EXCEPT ![n] = [p \in Node |-> 0]]
    /\ waits'       = [waits       EXCEPT ![n] = {}]
    /\ stepDown'    = [stepDown    EXCEPT ![n] = FALSE]
    /\ applied'     = [applied     EXCEPT ![n] = <<>>]
    /\ elecTerm'    = [elecTerm    EXCEPT ![n] = 0]
    /\ voters'      = [voters      EXCEPT ![n] = {}]
    /\ awaiting'    = [awaiting    EXCEPT ![n] = {}]
    /\ calls'       = [calls       EXCEPT ![n] = {}]
    /\ pc'          = [pc          EXCEPT ![n] = "down"]
    /\ voteReps' = {m \in voteReps : m.dst # n}
    /\ appReps'  = {m \in appReps : m.dst # n}
    /\ revoked'  = revoked \cup {<<n, t>> : t \in 0..currentTerm[n]}
    /\ UNCHANGED <<voteReqs, appReqs, outcome, grants, leaders>>

Boot(n) ==
    /\ pc[n] = "down"
    /\ pc' = [pc EXCEPT ![n] = "follower"]
    /\ UNCHANGED <<nodeVars, elecTerm, voters, awaiting, calls, netVars,
                   outcome, used, histVars>>

-----------------------------------------------------------------------------
NodeStep(n) ==
    \/ FollowerTimeout(n)
    \/ RunFollower(n)
    \/ StartElection(n)
    \/ \E m \in voteReps : HandleVoteReply(n, m)
    \/ WinElection(n)
    \/ ElectionEnds(n)
    \/ ElectionDone(n)
    \/ \E p \in Peer(n) : SendAppend(n, p)
    \/ \E m \in appReps : HandleAppendReply(n, m)
    \/ LeaderStepsDown(n)
    \/ LeaderDone(n)
    \/ \E m \in voteReqs : HandleRequestVote(n, m)
    \/ \E m \in appReqs : RejectAppendEntries(n, m)
    \/ \E m \in appReqs : HandleAppendEntries(n, m)
    \/ \E c \in Cmd : Propose(n, c)
    \/ Apply(n)
    \/ Crash(n)
    \/ Boot(n)

Next == \E n \in Node : NodeStep(n)

Spec == Init /\ [][Next]_vars

-----------------------------------------------------------------------------
(***************************************************************************)
(* Type invariant                                                          *)
(***************************************************************************)
Place == {"follower", "candidate", "electing", "waiting", "leader",
          "draining", "down"}

VoteReq == [src : Node, dst : Node, term : Term, lastIdx : Index,
            lastTerm : Term]
VoteRep == [src : Node, dst : Node, elecTerm : Term, term : Term,
            granted : BOOLEAN]
Call    == [dst : Node, term : Term, prevIdx : Index, len : Nat]
AppReq  == [src : Node, dst : Node, term : Term, prevIdx : Index,
            prevTerm : Term, entries : Seq(Entry), commit : Index]
AppRep  == [src : Node, dst : Node, call : Call, term : Term,
            success : BOOLEAN]

\* Every field keeps its type.  In particular the state machine is only ever
\* given client commands, never the placeholder's nil command.
TypeOK ==
    /\ state       \in [Node -> {Follower, Candidate, Leader}]
    /\ currentTerm \in [Node -> Term]
    /\ votedFor    \in [Node -> Node \cup {Nil}]
    /\ log         \in [Node -> Seq(Entry \cup {Placeholder})]
    /\ commitIndex \in [Node -> Index]
    /\ nextIndex   \in [Node -> [Node -> Index]]
    /\ matchIndex  \in [Node -> [Node -> Index]]
    /\ waits       \in [Node -> SUBSET [index : Index, cmd : Cmd]]
    /\ stepDown    \in [Node -> BOOLEAN]
    /\ applied     \in [Node -> Seq(Cmd)]
    /\ pc          \in [Node -> Place]
    /\ elecTerm    \in [Node -> Term]
    /\ voters      \in [Node -> SUBSET Node]
    /\ awaiting    \in [Node -> SUBSET Node]
    /\ calls       \in [Node -> SUBSET Call]
    /\ voteReqs \subseteq VoteReq
    /\ voteReps \subseteq VoteRep
    /\ appReqs \subseteq AppReq
    /\ appReps \subseteq AppRep
    /\ outcome \in [Cmd -> {"none", "pending", "committed", "aborted"}]
    /\ used \in [Bound -> Nat]
    /\ grants \subseteq Node \X Node \X Term
    /\ revoked \subseteq Node \X Term
    /\ leaders \subseteq [node : Node, term : Term, elected : Term]

-----------------------------------------------------------------------------
(***************************************************************************)
(* Elections                                                               *)
(***************************************************************************)

\* At most one leader per term, as the observer's split-brain alert assumes.
\* The code does not provide it: see SplitBrainCause.
ElectionSafety ==
    \A i, j \in Node :
        /\ state[i] = Leader /\ state[j] = Leader
        /\ currentTerm[i] = currentTerm[j]
        => i = j

ElectedInTerm(l) == l.elected = l.term

\* The only ways the code can give one term two leaders, ever: one of them
\* won with the votes of an earlier term (the select of runCandidate does not
\* compare terms), or a node that voted for both had forgotten its first vote
\* while still in that term (rule 2 of HandleAppendEntries, or a restart).
SplitBrainCause ==
    \A k, l \in leaders :
        k.term = l.term /\ k.node # l.node =>
            \/ ~ElectedInTerm(k)
            \/ ~ElectedInTerm(l)
            \/ \E v \in Node :
                  /\ <<v, k.node, k.term>> \in grants
                  /\ <<v, l.node, l.term>> \in grants
                  /\ <<v, k.term>> \in revoked

\* Every node that acts as a leader has won an election it is on record for,
\* and a leadership is always backed by the votes of a majority: late grants,
\* grants of an earlier election and repeated replies are never counted.
LeadershipBacked ==
    /\ \A n \in Node : state[n] = Leader =>
          \E l \in leaders : l.node = n /\ l.term = currentTerm[n]
    /\ \A l \in leaders :
          2 * Cardinality({v \in Node : <<v, l.node, l.elected>> \in grants})
              > Cardinality(Node)

-----------------------------------------------------------------------------
(***************************************************************************)
(* Log replication.  These are the properties the replication code is      *)
(* meant to give once elections are sound, so they are stated for          *)
(* behaviours in which the two defects of SplitBrainCause have not struck  *)
(* and no process has lost its memory.                                     *)
(***************************************************************************)
ElectionsSound ==
    /\ used["crashes"] = 0
    /\ \A k, l \in leaders : /\ ElectedInTerm(k)
                             /\ k.term = l.term => k.node = l.node

\* Entry lookups subtract firstIndex (termAt, entryAt, entriesFrom): they are
\* right only while indices are contiguous from the placeholder on.
LogContiguous ==
    \A n \in Node : Len(log[n]) > 0 /\ WellFormed(log[n])

\* AppendAll, the closed form of rule 4, is what the loop of
\* HandleAppendEntries makes of every request in flight, late ones included,
\* against the log it is sent to, conflicting or not.
AppendAllIsTheLoop ==
    \A m \in appReqs :
        LET l == log[m.dst]
        IN  Consistent(l, m.prevIdx, m.prevTerm) =>
                AppendAll(l, m.prevIdx, m.entries) = AppendLoop(l, m.prevIdx, m.entries)

SameUpTo(i, j, idx) ==
    \A k \in 1..idx : /\ InLog(log[i], k) /\ InLog(log[j], k)
                      /\ EntryAt(log[i], k) = EntryAt(log[j], k)

\* Two logs that hold an entry of the same term at the same index are equal
\* up to that index (the consistency check and truncation of
\* HandleAppendEntries, under late and repeated requests).
LogMatching ==
    ElectionsSound =>
        \A i, j \in Node : \A k \in 1..LastIndex(log[i]) :
            /\ InLog(log[j], k)
            /\ TermAt(log[i], k) = TermAt(log[j], k)
            => SameUpTo(i, j, k)

\* What a leader believes of a follower of its own term is true: the follower
\* holds the leader's log up to matchIndex, whatever replies were late.
MatchIsReplicated ==
    ElectionsSound =>
        \A n \in Node : \A p \in Peer(n) :
            state[n] = Leader /\ currentTerm[p] = currentTerm[n]
            => SameUpTo(n, p, matchIndex[n][p])

\* Whatever a node takes to be committed is in the log of the newest leader
\* (the vote's up-to-date check, the majority count and the current-term rule
\* of maybeAdvanceCommitLocked).
LeaderCompleteness ==
    ElectionsSound =>
        \A l \in Node :
            /\ state[l] = Leader
            /\ \A n \in Node : currentTerm[n] <= currentTerm[l]
            => \A n \in Node : SameUpTo(l, n, commitIndex[n])

\* Two state machines never apply different commands at the same index.
StateMachineSafety ==
    ElectionsSound =>
        \A i, j \in Node :
            \A k \in 1..Min({Len(applied[i]), Len(applied[j])}) :
                applied[i][k] = applied[j][k]

\* No step takes back a committed entry: a late or repeated AppendEntries
\* never truncates or replaces below commitIndex, which never moves back.
CommittedStable ==
    [][ElectionsSound' =>
          \A n \in Node :
              /\ commitIndex[n] <= commitIndex'[n]
              /\ \A k \in 1..commitIndex[n] :
                    /\ InLog(log'[n], k)
                    /\ EntryAt(log'[n], k) = EntryAt(log[n], k)]_vars

-----------------------------------------------------------------------------
\* A node blocked in runLeader although a handler has made it a follower:
\* nothing it waits for can signal stepDownCh, and it has no election timer.
Stuck(n) ==
    pc[n] = "leader" /\ state[n] # Leader /\ ~stepDown[n] /\ calls[n] = {}

\* While a majority is up, some node that is up leads or can stand for
\* election.  This is what surviving the failure of a minority needs.
SomeoneCanLead ==
    Majority({n \in Node : Up(n)}) => \E n \in Node : Up(n) /\ ~Stuck(n)
=============================================================================
