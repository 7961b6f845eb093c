----------------------------- MODULE RaftProofs -----------------------------
(***************************************************************************)
(* Type correctness of Raft, the contiguity of every log, what the         *)
(* elections guarantee and how logs are replicated while they are sound,   *)
(* for every number of nodes and commands and every bound.                 *)
(*                                                                         *)
(* TypeOK alone is not inductive: applyLoop hands entry                    *)
(* lastApplied + 1 to the state machine, which is a client command only    *)
(* because each log is contiguous from the placeholder on (LogOK), which   *)
(* HandleAppendEntries preserves only because the entries of every request *)
(* follow its prevIdx (RequestsOK).  The last part is about what is        *)
(* committed.                                                              *)
(***************************************************************************)
EXTENDS Raft, RaftLogProofs, FiniteSetTheorems

Slot == Entry \cup {Placeholder}

\* every log starts with the placeholder's index, 0, and holds client
\* commands from there on
LogOK ==
    \A n \in Node : /\ LogFrom0(log[n], Slot)
                    /\ \A k \in 2..Len(log[n]) : log[n][k] \in Entry

\* the entries of a request follow its prevIdx
RequestsOK ==
    \A m \in appReqs : BatchAfter(m.entries, m.prevIdx, Entry)

TypeInv == TypeOK /\ LogOK /\ RequestsOK

\* The larger of two naturals (matchIndex, nextIndex, commitIndex updates).
LEMMA MaxOfTwo ==
    ASSUME NEW a \in Nat, NEW b \in Nat
    PROVE  Max({a, b}) \in Nat /\ Max({a, b}) >= a /\ Max({a, b}) >= b
  <1>1. {a, b} \in SUBSET (0..(a + b)) /\ {a, b} # {}
    OBVIOUS
  <1>2. a + b \in Nat
    OBVIOUS
  <1> QED
    BY <1>1, <1>2, MaxIsGreatest

\* The smaller of two naturals (the commit index of rule 5).
LEMMA MinOfTwo ==
    ASSUME NEW a \in Nat, NEW b \in Nat
    PROVE  Min({a, b}) \in Nat /\ Min({a, b}) <= a /\ Min({a, b}) <= b
  <1>1. {a, b} \in SUBSET Nat /\ {a, b} # {}
    OBVIOUS
  <1> QED
    BY <1>1, MinIsLeast

\* maybeAdvanceCommitLocked leaves a natural number in commitIndex.
LEMMA AdvancedCommitType ==
    ASSUME NEW n \in Node, NEW l, NEW match, LogFrom0(l, Slot),
           commitIndex[n] \in Nat
    PROVE  AdvancedCommit(n, l, match) \in Nat
  <1> DEFINE S == Committable(n, l, match)
  <1>1. LastIndex(l) \in Nat
    <2>1. LastIndex(l) = Len(l) - 1
      BY LogFrom0Lookups
    <2> QED
      BY <2>1 DEF LogFrom0
  <1>2. S \in SUBSET (0..LastIndex(l))
    BY <1>1 DEF Committable
  <1>3. CASE S = {}
    BY <1>3 DEF AdvancedCommit
  <1>4. CASE S # {}
    <2>1. Max(S) \in S
      BY <1>1, <1>2, <1>4, MaxIsGreatest
    <2>2. Max(S) \in Nat
      BY <1>1, <1>2, <2>1
    <2> QED
      BY <2>2, <1>4 DEF AdvancedCommit
  <1> QED
    BY <1>3, <1>4

\* What TypeInv says of one log: its shape, its ends and its terms.
LEMMA LogTypes ==
    ASSUME TypeInv, NEW n \in Node
    PROVE  /\ LogFrom0(log[n], Slot)
           /\ Len(log[n]) \in Nat /\ Len(log[n]) > 0
           /\ FirstIndex(log[n]) = 0
           /\ LastIndex(log[n]) = Len(log[n]) - 1
           /\ LastIndex(log[n]) \in Nat
           /\ LastTerm(log[n]) \in Nat
           /\ \A i \in Int : TermAt(log[n], i) \in Nat
  <1>1. LogFrom0(log[n], Slot)
    BY DEF TypeInv, LogOK
  <1>2. /\ FirstIndex(log[n]) = 0
        /\ LastIndex(log[n]) = Len(log[n]) - 1
        /\ LastTerm(log[n]) = log[n][Len(log[n])].term
        /\ \A i \in Int : InLog(log[n], i) <=> i \in 0..(Len(log[n]) - 1)
        /\ \A i \in 0..(Len(log[n]) - 1) : TermAt(log[n], i) = log[n][i + 1].term
    BY <1>1, LogFrom0Lookups
  <1>3. Len(log[n]) \in Nat /\ Len(log[n]) > 0 /\ log[n] \in Seq(Slot)
    BY <1>1 DEF LogFrom0
  <1>4. \A k \in 1..Len(log[n]) : log[n][k].term \in Nat
    BY <1>3 DEF Slot, Entry, Placeholder, Term
  <1>5. \A i \in Int : TermAt(log[n], i) \in Nat
    <2> SUFFICES ASSUME NEW i \in Int PROVE TermAt(log[n], i) \in Nat
      OBVIOUS
    <2>1. CASE InLog(log[n], i)
      <3>1. i \in 0..(Len(log[n]) - 1)
        BY <2>1, <1>2
      <3>2. TermAt(log[n], i) = log[n][i + 1].term
        BY <3>1, <1>2
      <3>3. i + 1 \in 1..Len(log[n])
        BY <3>1, <1>3
      <3> QED
        BY <3>2, <3>3, <1>4
    <2>2. CASE ~InLog(log[n], i)
      BY <2>2 DEF TermAt
    <2> QED
      BY <2>1, <2>2
  <1>6. LastIndex(log[n]) \in Nat
    BY <1>2, <1>3
  <1>7. LastTerm(log[n]) \in Nat
    <2>1. Len(log[n]) \in 1..Len(log[n])
      BY <1>3
    <2> QED
      BY <2>1, <1>2, <1>4
  <1> QED
    BY <1>1, <1>2, <1>3, <1>5, <1>6, <1>7

\* An update of one entry of nextIndex or matchIndex keeps its type.
LEMMA UpdateType ==
    ASSUME NEW f \in [Node -> [Node -> Nat]], NEW n \in Node, NEW p \in Node,
           NEW v \in Nat
    PROVE  [f EXCEPT ![n][p] = v] \in [Node -> [Node -> Nat]]
  <1>1. [f[n] EXCEPT ![p] = v] \in [Node -> Nat]
    OBVIOUS
  <1> QED
    BY <1>1

\* Replies to AppendEntries keep their type.
LEMMA AppendReplyType ==
    ASSUME TypeInv, NEW n \in Node, NEW m \in AppReq, NEW t \in Term,
           NEW ok \in BOOLEAN
    PROVE  AppendReply(n, m, t, ok) \subseteq AppRep
  <1>1. [dst |-> n, term |-> m.term, prevIdx |-> m.prevIdx,
         len |-> Len(m.entries)] \in Call
    BY DEF AppReq, Call, Index, Term
  <1>2. m.src \in Node
    BY DEF AppReq
  <1> QED
    BY <1>1, <1>2 DEF TypeInv, TypeOK, AppendReply, AppRep

\* A freshly started cluster satisfies TypeInv.
LEMMA InitTypeInv == Init => TypeInv
  <1> SUFFICES ASSUME Init PROVE TypeInv
    OBVIOUS
  <1> USE NodeAssumption, NilAssumption
  <1>1. TypeOK
    BY DEF Init, TypeOK, Placeholder, Entry, Follower, Candidate, Leader, Place,
           Term, Index, Bound
  <1>2. LogOK
    BY DEF Init, LogOK, LogFrom0, Slot, Placeholder
  <1>3. RequestsOK
    BY DEF Init, RequestsOK
  <1> QED
    BY <1>1, <1>2, <1>3 DEF TypeInv

-----------------------------------------------------------------------------
\* The follower timer preserves TypeInv.
LEMMA FollowerTimeoutType ==
    ASSUME TypeInv, NEW n \in Node, FollowerTimeout(n)
    PROVE  TypeInv'
  <1>1. TypeOK'
    BY DEF TypeInv, TypeOK, FollowerTimeout, Spend, netVars, histVars, nodeVars,
       Follower, Candidate, Leader, Place, Bound
  <1>2. LogOK' /\ RequestsOK'
    BY DEF TypeInv, LogOK, RequestsOK, FollowerTimeout, netVars
  <1> QED
    BY <1>1, <1>2 DEF TypeInv

\* Run entering runFollower again preserves TypeInv.
LEMMA RunFollowerType ==
    ASSUME TypeInv, NEW n \in Node, RunFollower(n)
    PROVE  TypeInv'
  <1>1. TypeOK'
    BY DEF TypeInv, TypeOK, RunFollower, nodeVars, netVars, histVars, Follower,
           Candidate, Leader, Place
  <1>2. LogOK' /\ RequestsOK'
    BY DEF TypeInv, LogOK, RequestsOK, RunFollower, nodeVars, netVars
  <1> QED
    BY <1>1, <1>2 DEF TypeInv

\* The start of runCandidate preserves TypeInv.
LEMMA StartElectionType ==
    ASSUME TypeInv, NEW n \in Node, StartElection(n)
    PROVE  TypeInv'
  <1>a. LastIndex(log[n]) \in Nat /\ LastTerm(log[n]) \in Nat
    BY LogTypes
  <1>b. currentTerm[n] + 1 \in Nat
    BY DEF TypeInv, TypeOK, Term
  <1>c. voteReqs' \subseteq VoteReq
    BY <1>a, <1>b DEF TypeInv, TypeOK, StartElection, VoteReq, Peer, Term, Index
  <1>d. grants' \subseteq Node \X Node \X Term
    BY <1>b DEF TypeInv, TypeOK, StartElection, Term
  <1>e. /\ currentTerm' \in [Node -> Term] /\ elecTerm' \in [Node -> Term]
        /\ votedFor' \in [Node -> Node \cup {Nil}]
    BY <1>b DEF TypeInv, TypeOK, StartElection, Term
  <1>f. /\ voters' \in [Node -> SUBSET Node] /\ awaiting' \in [Node -> SUBSET Node]
        /\ pc' \in [Node -> Place] /\ used' \in [Bound -> Nat]
    BY DEF TypeInv, TypeOK, StartElection, Peer, Place, Spend, Bound
  <1>1. TypeOK'
    BY <1>c, <1>d, <1>e, <1>f DEF TypeInv, TypeOK, StartElection
  <1>2. LogOK' /\ RequestsOK'
    BY DEF TypeInv, LogOK, RequestsOK, StartElection, nodeVars, netVars
  <1> QED
    BY <1>1, <1>2 DEF TypeInv

\* A RequestVote reply preserves TypeInv.
LEMMA HandleVoteReplyType ==
    ASSUME TypeInv, NEW n \in Node, NEW m, HandleVoteReply(n, m)
    PROVE  TypeInv'
  <1>a. m \in VoteRep
    BY DEF TypeInv, TypeOK, HandleVoteReply
  <1>b. m.term \in Term /\ m.src \in Node
    BY <1>a DEF VoteRep
  <1>c. voters' \in [Node -> SUBSET Node]
    <2>1. \/ voters' = voters
          \/ voters' = [voters EXCEPT ![n] = @ \cup {m.src}]
      BY DEF HandleVoteReply
    <2>2. voters \in [Node -> SUBSET Node]
      BY DEF TypeInv, TypeOK
    <2> QED
      BY <2>1, <2>2, <1>b
  <1>d. /\ currentTerm' \in [Node -> Term]
        /\ votedFor' \in [Node -> Node \cup {Nil}]
        /\ state' \in [Node -> {Follower, Candidate, Leader}]
    <2>1. CASE m.term > currentTerm[n]
      <3>1. /\ currentTerm' = [currentTerm EXCEPT ![n] = m.term]
            /\ votedFor' = [votedFor EXCEPT ![n] = Nil]
            /\ state' = [state EXCEPT ![n] = Follower]
        BY <2>1 DEF HandleVoteReply
      <3> QED
        BY <3>1, <1>b DEF TypeInv, TypeOK
    <2>2. CASE ~(m.term > currentTerm[n])
      BY <2>2, <1>b DEF TypeInv, TypeOK, HandleVoteReply
    <2> QED
      BY <2>1, <2>2
  <1>e. /\ awaiting' \in [Node -> SUBSET Node]
        /\ voteReps' \subseteq VoteRep
    BY DEF TypeInv, TypeOK, HandleVoteReply
  <1>1. TypeOK'
    BY <1>c, <1>d, <1>e DEF TypeInv, TypeOK, HandleVoteReply, histVars
  <1>2. LogOK' /\ RequestsOK'
    BY DEF TypeInv, LogOK, RequestsOK, HandleVoteReply, nodeVars, netVars
  <1> QED
    BY <1>1, <1>2 DEF TypeInv

\* Becoming leader preserves TypeInv.
LEMMA WinElectionType ==
    ASSUME TypeInv, NEW n \in Node, WinElection(n)
    PROVE  TypeInv'
  <1>a. LastIndex(log[n]) \in Nat
    BY LogTypes
  <1>b. /\ nextIndex' \in [Node -> [Node -> Index]]
        /\ matchIndex' \in [Node -> [Node -> Index]]
    BY <1>a DEF TypeInv, TypeOK, WinElection, InitLeaderState, Index
  <1>c. leaders' \subseteq [node : Node, term : Term, elected : Term]
    BY DEF TypeInv, TypeOK, WinElection
  <1>1. TypeOK'
    BY <1>b, <1>c
       DEF TypeInv, TypeOK, WinElection, netVars, histVars, Term, Index,
           Follower, Candidate, Leader, Place
  <1>2. LogOK' /\ RequestsOK'
    BY DEF TypeInv, LogOK, RequestsOK, WinElection, nodeVars, netVars
  <1> QED
    BY <1>1, <1>2 DEF TypeInv

\* Leaving the select of runCandidate preserves TypeInv.
LEMMA ElectionEndsType ==
    ASSUME TypeInv, NEW n \in Node, ElectionEnds(n)
    PROVE  TypeInv'
  <1>1. TypeOK'
    BY DEF TypeInv, TypeOK, ElectionEnds, nodeVars, netVars, histVars, Follower,
           Candidate, Leader, Place
  <1>2. LogOK' /\ RequestsOK'
    BY DEF TypeInv, LogOK, RequestsOK, ElectionEnds, nodeVars, netVars
  <1> QED
    BY <1>1, <1>2 DEF TypeInv

\* The end of runCandidate preserves TypeInv.
LEMMA ElectionDoneType ==
    ASSUME TypeInv, NEW n \in Node, ElectionDone(n)
    PROVE  TypeInv'
  <1>1. TypeOK'
    BY DEF TypeInv, TypeOK, ElectionDone, nodeVars, netVars, histVars, Follower,
           Candidate, Leader, Place
  <1>2. LogOK' /\ RequestsOK'
    BY DEF TypeInv, LogOK, RequestsOK, ElectionDone, nodeVars, netVars
  <1> QED
    BY <1>1, <1>2 DEF TypeInv

\* The step-down of runLeader preserves TypeInv.
LEMMA LeaderStepsDownType ==
    ASSUME TypeInv, NEW n \in Node, LeaderStepsDown(n)
    PROVE  TypeInv'
  <1>1. TypeOK'
    BY DEF TypeInv, TypeOK, LeaderStepsDown, nodeVars, netVars, histVars,
           Follower, Candidate, Leader, Place
  <1>2. LogOK' /\ RequestsOK'
    BY DEF TypeInv, LogOK, RequestsOK, LeaderStepsDown, nodeVars, netVars
  <1> QED
    BY <1>1, <1>2 DEF TypeInv

\* The end of runLeader preserves TypeInv.
LEMMA LeaderDoneType ==
    ASSUME TypeInv, NEW n \in Node, LeaderDone(n)
    PROVE  TypeInv'
  <1>1. TypeOK'
    BY DEF TypeInv, TypeOK, LeaderDone, AbortPendingProposals, nodeVars, netVars, histVars, Follower,
           Candidate, Leader, Place
  <1>2. LogOK' /\ RequestsOK'
    BY DEF TypeInv, LogOK, RequestsOK, LeaderDone, AbortPendingProposals, nodeVars, netVars
  <1> QED
    BY <1>1, <1>2 DEF TypeInv

\* HandleRequestVote preserves TypeInv.
LEMMA HandleRequestVoteType ==
    ASSUME TypeInv, NEW n \in Node, NEW m, HandleRequestVote(n, m)
    PROVE  TypeInv'
  <1>a. m \in VoteReq
    BY DEF TypeInv, TypeOK, HandleRequestVote
  <1>b. m.term \in Term /\ m.src \in Node
    BY <1>a DEF VoteReq
  <1>c. currentTerm' \in [Node -> Term] /\ votedFor' \in [Node -> Node \cup {Nil}]
          /\ state' \in [Node -> {Follower, Candidate, Leader}]
    BY <1>b DEF TypeInv, TypeOK, HandleRequestVote
  <1>d. grants' \subseteq Node \X Node \X Term
    BY <1>b DEF TypeInv, TypeOK, HandleRequestVote
  <1>e. voteReps' \subseteq VoteRep
    <2>1. GrantsVote(n, m) \in BOOLEAN
      BY DEF GrantsVote
    <2> HIDE DEF GrantsVote
    <2>2. currentTerm'[n] \in Term
      BY <1>c
    <2> QED
      BY <2>1, <2>2, <1>b DEF TypeInv, TypeOK, HandleRequestVote, VoteRep
  <1>1. TypeOK'
    BY <1>c, <1>d, <1>e
       DEF TypeInv, TypeOK, HandleRequestVote, runVars, netVars, histVars,
           VoteReq, VoteRep, Term, Follower, Candidate, Leader, Place
  <1>2. LogOK' /\ RequestsOK'
    BY DEF TypeInv, LogOK, RequestsOK, HandleRequestVote, nodeVars, netVars
  <1> QED
    BY <1>1, <1>2 DEF TypeInv

\* Rule 1 of HandleAppendEntries preserves TypeInv.
LEMMA RejectAppendEntriesType ==
    ASSUME TypeInv, NEW n \in Node, NEW m, RejectAppendEntries(n, m)
    PROVE  TypeInv'
  <1>a. m \in AppReq
    BY DEF TypeInv, TypeOK, RejectAppendEntries
  <1>b. AppendReply(n, m, currentTerm[n], FALSE) \subseteq AppRep
    BY <1>a, AppendReplyType DEF TypeInv, TypeOK
  <1>c. appReps' \subseteq AppRep
    BY <1>b DEF RejectAppendEntries
  <1>1. TypeOK'
    BY <1>c
       DEF TypeInv, TypeOK, RejectAppendEntries, nodeVars, runVars, histVars,
           Follower, Candidate, Leader, Place
  <1>2. LogOK' /\ RequestsOK'
    BY DEF TypeInv, LogOK, RequestsOK, RejectAppendEntries, nodeVars, netVars
  <1> QED
    BY <1>1, <1>2 DEF TypeInv

\* sendAppend preserves TypeInv: what it sends follows prevIdx contiguously.
LEMMA SendAppendType ==
    ASSUME TypeInv, NEW n \in Node, NEW p \in Peer(n), SendAppend(n, p)
    PROVE  TypeInv'
  <1> DEFINE next == IF nextIndex[n][p] <= FirstIndex(log[n])
                     THEN FirstIndex(log[n]) + 1
                     ELSE nextIndex[n][p]
  <1> DEFINE entries == EntriesFrom(log[n], next)
  <1> DEFINE req == [src |-> n, dst |-> p, term |-> currentTerm[n],
                     prevIdx |-> next - 1,
                     prevTerm |-> TermAt(log[n], next - 1),
                     entries |-> entries, commit |-> commitIndex[n]]
  <1> DEFINE call == [dst |-> p, term |-> currentTerm[n],
                      prevIdx |-> next - 1, len |-> Len(entries)]
  <1>p. p \in Node
    BY DEF Peer
  <1>a. /\ LogFrom0(log[n], Slot) /\ FirstIndex(log[n]) = 0
        /\ Len(log[n]) \in Nat /\ Len(log[n]) > 0
        /\ \A i \in Int : TermAt(log[n], i) \in Nat
    BY LogTypes
  <1>t. /\ currentTerm[n] \in Nat /\ commitIndex[n] \in Nat
        /\ nextIndex[n][p] \in Nat
    BY <1>p DEF TypeInv, TypeOK, Term, Index
  <1>b. next \in Nat /\ next >= 1
    BY <1>a, <1>t
  <1>d. \A k \in 2..Len(log[n]) : log[n][k] \in Entry /\ log[n][k].index = k - 1
    <2>1. \A k \in 2..Len(log[n]) : log[n][k] \in Entry
      BY DEF TypeInv, LogOK
    <2>2. \A k \in 1..Len(log[n]) : log[n][k].index = k - 1
      BY <1>a DEF LogFrom0
    <2> QED
      BY <2>1, <2>2, <1>a
  <1>e. BatchAfter(entries, next - 1, Entry)
    <2> HIDE DEF next
    <2>0. LogFrom0(log[n], Slot)
      BY <1>a
    <2>1. /\ entries \in Seq(Slot) /\ Len(entries) \in Nat
          /\ \A k \in 1..Len(entries) : /\ next + k \in 2..Len(log[n])
                                         /\ entries[k] = log[n][next + k]
      BY <2>0, <1>b, EntriesFromShape
    <2> HIDE DEF entries
    <2>2. \A k \in 1..Len(entries) :
             entries[k] \in Entry /\ entries[k].index = next + k - 1
      BY SMTT(30), <2>1, <1>b, <1>d
    <2>3. entries \in Seq(Entry)
      BY <2>1, <2>2
    <2> QED
      BY <2>1, <2>2, <2>3, <1>b DEF BatchAfter
  <1>f. entries \in Seq(Entry) /\ Len(entries) \in Nat
    BY <1>e DEF BatchAfter
  <1>g. TermAt(log[n], next - 1) \in Nat /\ next - 1 \in Nat
    <2> HIDE DEF next
    <2>1. next - 1 \in Nat /\ next - 1 \in Int
      BY <1>b
    <2> QED
      BY <2>1, <1>a
  <1>h. /\ nextIndex' = [nextIndex EXCEPT ![n][p] = next]
        /\ appReqs' = appReqs \cup {req}
        /\ calls' = [calls EXCEPT ![n] = {c \in @ : c.dst # p} \cup {call}]
    BY DEF SendAppend
  <1> HIDE DEF next, entries
  <1>i. req \in AppReq /\ call \in Call
    BY <1>p, <1>f, <1>g, <1>t DEF AppReq, Call, Term, Index
  <1>j. BatchAfter(req.entries, req.prevIdx, Entry)
    BY <1>e
  <1> HIDE DEF req, call
  <1>k. /\ nextIndex' \in [Node -> [Node -> Index]]
        /\ appReqs' \subseteq AppReq
        /\ calls' \in [Node -> SUBSET Call]
    BY <1>b, <1>h, <1>i DEF TypeInv, TypeOK, Index
  <1>l. used' \in [Bound -> Nat] /\ appReps' \subseteq AppRep
    BY DEF TypeInv, TypeOK, SendAppend, Spend, Bound
  <1>1. TypeOK'
    BY <1>k, <1>l DEF TypeInv, TypeOK, SendAppend, histVars
  <1>2. LogOK'
    BY DEF TypeInv, LogOK, SendAppend
  <1>3. RequestsOK'
    BY <1>h, <1>j DEF TypeInv, RequestsOK
  <1> QED
    BY <1>1, <1>2, <1>3 DEF TypeInv

\* An AppendEntries reply preserves TypeInv.
LEMMA HandleAppendReplyType ==
    ASSUME TypeInv, NEW n \in Node, NEW m, HandleAppendReply(n, m)
    PROVE  TypeInv'
  <1>a. m \in AppRep
    BY DEF TypeInv, TypeOK, HandleAppendReply
  <1>b. /\ m.term \in Nat /\ m.src \in Node
        /\ m.call.prevIdx + m.call.len \in Nat
    BY <1>a DEF AppRep, Call, Term, Index
  <1>c. /\ currentTerm' \in [Node -> Term]
        /\ votedFor' \in [Node -> Node \cup {Nil}]
        /\ state' \in [Node -> {Follower, Candidate, Leader}]
        /\ stepDown' \in [Node -> BOOLEAN]
    <2>1. \/ UNCHANGED <<currentTerm, votedFor, state, stepDown>>
          \/ /\ currentTerm' = [currentTerm EXCEPT ![n] = m.term]
             /\ votedFor' = [votedFor EXCEPT ![n] = Nil]
             /\ state' = [state EXCEPT ![n] = Follower]
             /\ stepDown' = [stepDown EXCEPT ![n] = TRUE]
      BY DEF HandleAppendReply
    <2> QED
      BY ZenonT(30), <2>1, <1>b DEF TypeInv, TypeOK, Term
  <1>d. matchIndex' \in [Node -> [Node -> Index]]
    <2> DEFINE match == m.call.prevIdx + m.call.len
    <2> DEFINE new == Max({matchIndex[n][m.src], match})
    <2>1. \/ matchIndex' = matchIndex
          \/ matchIndex' = [matchIndex EXCEPT ![n][m.src] = new]
      BY DEF HandleAppendReply
    <2>2. matchIndex[n][m.src] \in Nat
      BY <1>b DEF TypeInv, TypeOK, Index
    <2>3. new \in Nat
      BY <2>2, <1>b, MaxOfTwo
    <2>4. matchIndex \in [Node -> [Node -> Nat]]
      BY DEF TypeInv, TypeOK, Index
    <2> HIDE DEF new
    <2> QED
      BY <2>1, <2>3, <2>4, <1>b, UpdateType DEF Index
  <1>e. nextIndex' \in [Node -> [Node -> Index]]
    <2> DEFINE next == m.call.prevIdx + m.call.len + 1
    <2> DEFINE old == nextIndex[n][m.src]
    <2> DEFINE back == IF old > FirstIndex(log[n]) + 1 THEN old - 1 ELSE old
    <2>1. \/ nextIndex' = nextIndex
          \/ nextIndex' = [nextIndex EXCEPT ![n][m.src] = Max({old, next})]
          \/ nextIndex' = [nextIndex EXCEPT ![n][m.src] = back]
      BY DEF HandleAppendReply
    <2>0. nextIndex \in [Node -> [Node -> Nat]]
      BY DEF TypeInv, TypeOK, Index
    <2>2. old \in Nat /\ next \in Nat
      BY <1>b, <2>0
    <2>3. Max({old, next}) \in Nat
      BY <2>2, MaxOfTwo
    <2>4. FirstIndex(log[n]) = 0
      BY LogTypes
    <2>5. back \in Nat
      BY <2>2, <2>4
    <2> HIDE DEF next, old, back
    <2> QED
      BY <2>0, <2>1, <2>3, <2>5, <1>b, UpdateType DEF Index
  <1>f. commitIndex' \in [Node -> Index]
    <2>1. LogFrom0(log[n], Slot)
      BY LogTypes
    <2>2. commitIndex[n] \in Nat
      BY DEF TypeInv, TypeOK, Index
    <2>3. AdvancedCommit(n, log[n], matchIndex'[n]) \in Nat
      BY <2>1, <2>2, AdvancedCommitType
    <2>4. \/ commitIndex' = commitIndex
          \/ commitIndex' = [commitIndex EXCEPT ![n] =
                                AdvancedCommit(n, log[n], matchIndex'[n])]
      BY DEF HandleAppendReply
    <2> QED
      BY <2>3, <2>4 DEF TypeInv, TypeOK, Index
  <1>g. /\ calls' \in [Node -> SUBSET Call] /\ appReps' \subseteq AppRep
    BY DEF TypeInv, TypeOK, HandleAppendReply
  <1>1. TypeOK'
    BY <1>c, <1>d, <1>e, <1>f, <1>g
       DEF TypeInv, TypeOK, HandleAppendReply, histVars
  <1>2. LogOK' /\ RequestsOK'
    BY DEF TypeInv, LogOK, RequestsOK, HandleAppendReply
  <1> QED
    BY <1>1, <1>2 DEF TypeInv

\* A request accepted by rule 3 leaves a contiguous log of real entries.
LEMMA AppendAllType ==
    ASSUME TypeInv, NEW n \in Node, NEW m \in appReqs,
           Consistent(log[n], m.prevIdx, m.prevTerm)
    PROVE  LET new == AppendAll(log[n], m.prevIdx, m.entries)
           IN  /\ LogFrom0(new, Slot)
               /\ \A k \in 2..Len(new) : new[k] \in Entry
  <1> DEFINE new == AppendAll(log[n], m.prevIdx, m.entries)
  <1> DEFINE es == m.entries
  <1> DEFINE prev == m.prevIdx
  <1>1. /\ LogFrom0(log[n], Slot) /\ Len(log[n]) \in Nat /\ Len(log[n]) > 0
        /\ LastIndex(log[n]) = Len(log[n]) - 1
    BY LogTypes
  <1>2. prev \in Nat /\ es \in Seq(Entry)
    BY DEF TypeInv, TypeOK, AppReq, Index
  <1>3. prev <= LastIndex(log[n])
    BY DEF Consistent
  <1>4. /\ BatchAfter(es, prev, Entry)
        /\ BatchAfter(es, prev, Slot)
    <2>1. BatchAfter(es, prev, Entry)
      BY DEF TypeInv, RequestsOK
    <2> QED
      BY <2>1 DEF BatchAfter, Slot
  <1>5. \/ new = log[n]
        \/ \E k \in 1..Len(es) :
              /\ prev + k <= Len(log[n])
              /\ new \in Seq(Slot)
              /\ Len(new) = prev + Len(es) + 1
              /\ \A j \in 1..(prev + k) : new[j] = log[n][j]
              /\ \A j \in (prev + k + 1)..Len(new) : new[j] = es[j - prev - 1]
    <2>1. LogFrom0(log[n], Slot) /\ BatchAfter(es, prev, Slot)
      BY <1>1, <1>4
    <2>2. prev \in Nat /\ prev <= LastIndex(log[n])
      BY <1>2, <1>3
    <2> HIDE DEF es, prev
    <2>3. new = AppendAll(log[n], prev, es)
      BY DEF es, prev
    <2> HIDE DEF new
    <2>4. Appended(Slot, log[n], prev, es, new)
      BY <2>1, <2>2, <2>3, AppendAllShape
    <2> QED
      BY <2>4 DEF Appended
  <1>6. \A k \in 1..Len(log[n]) : /\ log[n][k].index = k - 1
                                  /\ k > 1 => log[n][k] \in Entry
    <2>1. \A k \in 2..Len(log[n]) : log[n][k] \in Entry
      BY DEF TypeInv, LogOK
    <2>2. \A k \in 1..Len(log[n]) : log[n][k].index = k - 1
      BY <1>1 DEF LogFrom0
    <2> QED
      BY <2>1, <2>2, <1>1
  <1>7. \A k \in 1..Len(es) : es[k].index = prev + k /\ es[k] \in Entry
    BY <1>2, <1>4 DEF BatchAfter
  <1> HIDE DEF new, es, prev
  <1>8. CASE new = log[n]
    BY <1>8, <1>1, <1>6 DEF new, es, prev
  <1>9. CASE new # log[n]
    <2>1. PICK k \in 1..Len(es) :
              /\ prev + k <= Len(log[n])
              /\ new \in Seq(Slot)
              /\ Len(new) = prev + Len(es) + 1
              /\ \A j \in 1..(prev + k) : new[j] = log[n][j]
              /\ \A j \in (prev + k + 1)..Len(new) : new[j] = es[j - prev - 1]
      BY <1>5, <1>9
    <2>2. ASSUME NEW j \in 1..Len(new)
          PROVE  new[j].index = j - 1 /\ (j > 1 => new[j] \in Entry)
      <3>1. Len(es) \in Nat
        BY <1>2
      <3>2. CASE j <= prev + k
        <4>1. j \in 1..Len(log[n]) /\ j \in 1..(prev + k)
          BY <3>1, <3>2, <2>1, <1>1, <1>2
        <4>2. new[j] = log[n][j]
          BY <4>1, <2>1
        <4> QED
          BY <4>1, <4>2, <1>6
      <3>3. CASE j > prev + k
        <4>1. j - prev - 1 \in 1..Len(es)
          BY <3>1, <3>3, <2>1, <1>2
        <4>2. new[j] = es[j - prev - 1]
          BY <3>1, <3>3, <2>1, <1>2
        <4> QED
          BY <4>1, <4>2, <1>2, <1>7
      <3> QED
        BY <3>2, <3>3, <2>1, <1>2
    <2>3. Len(new) > 0 /\ Len(new) \in Nat
      BY <2>1, <1>2
    <2>4. LogFrom0(new, Slot)
      BY <2>1, <2>2, <2>3 DEF LogFrom0
    <2>5. \A j \in 2..Len(new) : new[j] \in Entry
      BY <2>2, <2>3
    <2> QED
      BY <2>4, <2>5 DEF new, es, prev
  <1> QED
    BY <1>8, <1>9

\* Rules 2 to 5 of HandleAppendEntries preserve TypeInv.
LEMMA HandleAppendEntriesType ==
    ASSUME TypeInv, NEW n \in Node, NEW m, HandleAppendEntries(n, m)
    PROVE  TypeInv'
  <1> DEFINE ok == Consistent(log[n], m.prevIdx, m.prevTerm)
  <1> DEFINE new == AppendAll(log[n], m.prevIdx, m.entries)
  <1> DEFINE commit == FollowerCommit(commitIndex[n], m.commit,
                                      m.prevIdx + Len(m.entries))
  <1>a. m \in appReqs /\ m \in AppReq
    BY DEF TypeInv, TypeOK, HandleAppendEntries
  <1>b. /\ m.term \in Nat /\ m.prevIdx \in Nat /\ m.commit \in Nat
        /\ Len(m.entries) \in Nat
    BY <1>a DEF AppReq, Term, Index
  <1>c. currentTerm' \in [Node -> Term]
    BY <1>b DEF TypeInv, TypeOK, HandleAppendEntries, Term
  <1>d. /\ votedFor' \in [Node -> Node \cup {Nil}]
        /\ state' \in [Node -> {Follower, Candidate, Leader}]
    BY DEF TypeInv, TypeOK, HandleAppendEntries
  <1>e. revoked' \subseteq Node \X Term
    <2>1. revoked' = revoked \/ revoked' = revoked \cup {<<n, m.term>>}
      BY DEF HandleAppendEntries
    <2> QED
      BY <2>1, <1>b DEF TypeInv, TypeOK, Term
  <1>f. log' = [log EXCEPT ![n] = IF ok THEN new ELSE log[n]]
    BY DEF HandleAppendEntries
  <1>g. ok => LogFrom0(new, Slot) /\ \A k \in 2..Len(new) : new[k] \in Entry
    BY <1>a, AppendAllType
  <1>h. commit \in Nat
    <2>1. commitIndex[n] \in Nat
      BY DEF TypeInv, TypeOK, Index
    <2>2. Min({m.commit, m.prevIdx + Len(m.entries)}) \in Nat
      BY <1>b, MinOfTwo
    <2> QED
      BY <2>1, <2>2, MaxOfTwo DEF FollowerCommit
  <1>i. commitIndex' = [commitIndex EXCEPT ![n] = IF ok THEN commit ELSE commitIndex[n]]
    BY DEF HandleAppendEntries
  <1>j. appReps' \subseteq AppRep
    <2>1. ok \in BOOLEAN
      BY DEF Consistent
    <2>2. appReps' = AppendReply(n, m, m.term, ok)
      BY DEF HandleAppendEntries
    <2> HIDE DEF ok
    <2> QED
      BY <2>1, <2>2, <1>a, <1>b, AppendReplyType DEF Term
  <1> HIDE DEF ok, new, commit
  <1>k. log' \in [Node -> Seq(Slot)]
    <2>1. (IF ok THEN new ELSE log[n]) \in Seq(Slot)
      BY <1>g DEF TypeInv, LogOK, LogFrom0
    <2> QED
      BY <2>1, <1>f DEF TypeInv, TypeOK, Slot
  <1>l. commitIndex' \in [Node -> Index]
    BY <1>h, <1>i DEF TypeInv, TypeOK, Index
  <1>1. TypeOK'
    BY <1>c, <1>d, <1>e, <1>j, <1>k, <1>l
       DEF TypeInv, TypeOK, HandleAppendEntries, runVars, Slot
  <1>2. LogOK'
    <2>1. \A i \in Node : log'[i] = IF i = n /\ ok THEN new ELSE log[i]
      BY <1>f DEF TypeInv, TypeOK
    <2> QED
      BY <2>1, <1>g DEF TypeInv, LogOK
  <1>3. RequestsOK'
    BY DEF TypeInv, RequestsOK, HandleAppendEntries
  <1> QED
    BY <1>1, <1>2, <1>3 DEF TypeInv

\* Propose preserves TypeInv.
LEMMA ProposeType ==
    ASSUME TypeInv, NEW n \in Node, NEW c \in Cmd, Propose(n, c)
    PROVE  TypeInv'
  <1> DEFINE idx == LastIndex(log[n]) + 1
  <1> DEFINE e == [term |-> currentTerm[n], index |-> idx, cmd |-> c]
  <1> DEFINE new == Append(log[n], e)
  <1>a. /\ LogFrom0(log[n], Slot) /\ Len(log[n]) \in Nat /\ Len(log[n]) > 0
        /\ LastIndex(log[n]) = Len(log[n]) - 1
    BY LogTypes
  <1>b. idx = Len(log[n]) /\ idx \in Nat
    BY <1>a
  <1>t. currentTerm[n] \in Nat /\ commitIndex[n] \in Nat
    BY DEF TypeInv, TypeOK, Term, Index
  <1>c. /\ log' = [log EXCEPT ![n] = new]
        /\ matchIndex' = [matchIndex EXCEPT ![n][n] = idx]
        /\ waits' = [waits EXCEPT ![n] = {w \in waits[n] : w.index # idx}
                                            \cup {[index |-> idx, cmd |-> c]}]
        /\ outcome' = [outcome EXCEPT ![c] = "pending"]
        /\ commitIndex' = [commitIndex EXCEPT ![n] =
                              AdvancedCommit(n, log'[n], matchIndex'[n])]
    BY DEF Propose
  <1> HIDE DEF idx
  <1>d. e \in Entry /\ e \in Slot /\ e.index = Len(log[n])
    BY <1>b, <1>t DEF Entry, Slot, Term, Index
  <1> HIDE DEF e
  <1>e. /\ new \in Seq(Slot) /\ Len(new) = Len(log[n]) + 1
        /\ \A k \in 1..Len(log[n]) : new[k] = log[n][k]
        /\ new[Len(log[n]) + 1] = e
    <2>1. log[n] \in Seq(Slot)
      BY <1>a DEF LogFrom0
    <2> QED
      BY <2>1, <1>d, AppendProperties
  <1> HIDE DEF new
  <1>f. \A k \in 1..Len(log[n]) : /\ log[n][k].index = k - 1
                                  /\ k > 1 => log[n][k] \in Entry
    <2>1. \A k \in 2..Len(log[n]) : log[n][k] \in Entry
      BY DEF TypeInv, LogOK
    <2>2. \A k \in 1..Len(log[n]) : log[n][k].index = k - 1
      BY <1>a DEF LogFrom0
    <2> QED
      BY <2>1, <2>2, <1>a
  <1>g. \A k \in 1..Len(new) : /\ new[k].index = k - 1
                               /\ k > 1 => new[k] \in Entry
    <2> SUFFICES ASSUME NEW k \in 1..Len(new)
                 PROVE  new[k].index = k - 1 /\ (k > 1 => new[k] \in Entry)
      OBVIOUS
    <2>1. CASE k = Len(log[n]) + 1
      BY <2>1, <1>d, <1>e, <1>a
    <2>2. CASE k # Len(log[n]) + 1
      <3>1. k \in 1..Len(log[n])
        BY <2>2, <1>e, <1>a
      <3> QED
        BY <3>1, <1>e, <1>f
    <2> QED
      BY <2>1, <2>2
  <1>h. LogFrom0(new, Slot) /\ \A k \in 2..Len(new) : new[k] \in Entry
    <2>1. Len(new) \in Nat /\ Len(new) > 0
      BY <1>e, <1>a
    <2> QED
      BY <2>1, <1>e, <1>g DEF LogFrom0
  <1>i. \A i \in Node : log'[i] = IF i = n THEN new ELSE log[i]
    BY <1>c DEF TypeInv, TypeOK
  <1>j. AdvancedCommit(n, log'[n], matchIndex'[n]) \in Nat
    <2>1. LogFrom0(log'[n], Slot)
      BY <1>h, <1>i
    <2> QED
      BY <2>1, <1>t, AdvancedCommitType
  <1>k. matchIndex' \in [Node -> [Node -> Index]]
    <2>1. matchIndex \in [Node -> [Node -> Nat]]
      BY DEF TypeInv, TypeOK, Index
    <2> QED
      BY <2>1, <1>b, <1>c, UpdateType DEF Index
  <1>l. log' \in [Node -> Seq(Slot)]
    BY <1>c, <1>e DEF TypeInv, TypeOK, Slot
  <1>m. waits' \in [Node -> SUBSET [index : Index, cmd : Cmd]]
    <2>1. [index |-> idx, cmd |-> c] \in [index : Index, cmd : Cmd]
      BY <1>b DEF Index
    <2> QED
      BY <2>1, <1>c DEF TypeInv, TypeOK
  <1>n. commitIndex' \in [Node -> Index]
    BY <1>c, <1>j DEF TypeInv, TypeOK, Index
  <1>o. outcome' \in [Cmd -> {"none", "pending", "committed", "aborted"}]
    BY <1>c DEF TypeInv, TypeOK
  <1>1. TypeOK'
    BY <1>k, <1>l, <1>m, <1>n, <1>o
       DEF TypeInv, TypeOK, Propose, runVars, netVars, histVars, Slot
  <1>2. LogOK'
    BY <1>h, <1>i DEF TypeInv, LogOK
  <1>3. RequestsOK'
    BY DEF TypeInv, RequestsOK, Propose, netVars
  <1> QED
    BY <1>1, <1>2, <1>3 DEF TypeInv

\* applyLoop preserves TypeInv: it never reaches the placeholder.
LEMMA ApplyType ==
    ASSUME TypeInv, NEW n \in Node, Apply(n)
    PROVE  TypeInv'
  <1> DEFINE next == Len(applied[n]) + 1
  <1>a. applied[n] \in Seq(Cmd) /\ Len(applied[n]) \in Nat
    BY DEF TypeInv, TypeOK
  <1>b. NextCommand(n) \in Cmd
    <2>1. InLog(log[n], Len(applied[n]) + 1)
      BY DEF Apply
    <2>2. LogFrom0(log[n], Slot)
      BY LogTypes
    <2>3. /\ \A i \in Int : InLog(log[n], i) <=> i \in 0..(Len(log[n]) - 1)
          /\ \A i \in Int : EntryAt(log[n], i) = log[n][i + 1]
          /\ Len(log[n]) \in Nat
      BY <2>2, LogFrom0Lookups
    <2>n. next \in Int /\ next >= 1
      BY <1>a
    <2> HIDE DEF next
    <2>i. next \in 0..(Len(log[n]) - 1)
      <3>1. InLog(log[n], next)
        BY <2>1 DEF next
      <3> QED
        BY <3>1, <2>3, <2>n
    <2>4. next + 1 \in 2..Len(log[n]) /\ EntryAt(log[n], next) = log[n][next + 1]
      <3>1. next + 1 \in 2..Len(log[n])
        <4>1. Len(log[n]) \in Nat
          BY <2>3
        <4> QED
          BY <4>1, <2>n, <2>i
      <3>2. EntryAt(log[n], next) = log[n][next + 1]
        BY <2>3, <2>n
      <3> QED
        BY <3>1, <3>2
    <2>5. log[n][next + 1] \in Entry
      BY <2>4 DEF TypeInv, LogOK
    <2> QED
      BY <2>4, <2>5 DEF NextCommand, Entry, next
  <1>c. applied' = [applied EXCEPT ![n] = Append(applied[n], NextCommand(n))]
    BY DEF Apply
  <1>d. applied' \in [Node -> Seq(Cmd)]
    <2>1. Append(applied[n], NextCommand(n)) \in Seq(Cmd)
      BY <1>a, <1>b
    <2> QED
      BY <2>1, <1>c DEF TypeInv, TypeOK
  <1>e. waits' \in [Node -> SUBSET [index : Index, cmd : Cmd]]
    BY DEF TypeInv, TypeOK, Apply
  <1>f. outcome' \in [Cmd -> {"none", "pending", "committed", "aborted"}]
    BY DEF TypeInv, TypeOK, Apply
  <1>1. TypeOK'
    BY <1>d, <1>e, <1>f DEF TypeInv, TypeOK, Apply, runVars, netVars, histVars
  <1>2. LogOK' /\ RequestsOK'
    BY DEF TypeInv, LogOK, RequestsOK, Apply, netVars
  <1> QED
    BY <1>1, <1>2 DEF TypeInv

\* The loss of a process preserves TypeInv.
LEMMA CrashType ==
    ASSUME TypeInv, NEW n \in Node, Crash(n)
    PROVE  TypeInv'
  <1> USE DEF Term, Index
  <1>a. /\ state' \in [Node -> {Follower, Candidate, Leader}]
        /\ currentTerm' \in [Node -> Term]
        /\ votedFor' \in [Node -> Node \cup {Nil}]
        /\ commitIndex' \in [Node -> Index]
    BY DEF TypeInv, TypeOK, Crash
  <1>b. log' \in [Node -> Seq(Slot)]
    <2>1. <<Placeholder>> \in Seq(Slot)
      BY DEF Slot
    <2> QED
      BY <2>1 DEF TypeInv, TypeOK, Crash, Slot
  <1>c. /\ nextIndex' \in [Node -> [Node -> Index]]
        /\ matchIndex' \in [Node -> [Node -> Index]]
    BY DEF TypeInv, TypeOK, Crash
  <1>d. /\ waits' \in [Node -> SUBSET [index : Index, cmd : Cmd]]
        /\ stepDown' \in [Node -> BOOLEAN]
        /\ applied' \in [Node -> Seq(Cmd)]
    BY DEF TypeInv, TypeOK, Crash
  <1>e. /\ pc' \in [Node -> Place] /\ elecTerm' \in [Node -> Term]
        /\ voters' \in [Node -> SUBSET Node]
        /\ awaiting' \in [Node -> SUBSET Node]
        /\ calls' \in [Node -> SUBSET Call]
    BY DEF TypeInv, TypeOK, Crash, Place
  <1>f. voteReps' \subseteq VoteRep /\ appReps' \subseteq AppRep
    BY DEF TypeInv, TypeOK, Crash
  <1>g. revoked' \subseteq Node \X Term
    <2>1. revoked' = revoked \cup {<<n, t>> : t \in 0..currentTerm[n]}
      BY DEF Crash
    <2> QED
      BY <2>1 DEF TypeInv, TypeOK
  <1>h. used' \in [Bound -> Nat]
    BY DEF TypeInv, TypeOK, Crash, Spend, Bound
  <1>1. TypeOK'
    BY <1>a, <1>b, <1>c, <1>d, <1>e, <1>f, <1>g, <1>h
       DEF TypeInv, TypeOK, Crash, Slot
  <1>2. LogOK'
    <2>1. \A i \in Node : log'[i] = IF i = n THEN <<Placeholder>> ELSE log[i]
      BY DEF TypeInv, TypeOK, Crash
    <2>2. LogFrom0(<<Placeholder>>, Slot)
      BY DEF LogFrom0, Slot, Placeholder
    <2> QED
      BY <2>1, <2>2 DEF TypeInv, LogOK
  <1>3. RequestsOK'
    BY DEF TypeInv, RequestsOK, Crash
  <1> QED
    BY <1>1, <1>2, <1>3 DEF TypeInv

\* The start of a process preserves TypeInv.
LEMMA BootType ==
    ASSUME TypeInv, NEW n \in Node, Boot(n)
    PROVE  TypeInv'
  <1>1. TypeOK'
    BY DEF TypeInv, TypeOK, Boot, nodeVars, netVars, histVars, Follower,
           Candidate, Leader, Place
  <1>2. LogOK' /\ RequestsOK'
    BY DEF TypeInv, LogOK, RequestsOK, Boot, nodeVars, netVars
  <1> QED
    BY <1>1, <1>2 DEF TypeInv

-----------------------------------------------------------------------------
\* Every step of the cluster preserves TypeInv.
LEMMA NextTypeInv == TypeInv /\ [Next]_vars => TypeInv'
  <1> SUFFICES ASSUME TypeInv, [Next]_vars PROVE TypeInv'
    OBVIOUS
  <1>1. CASE UNCHANGED vars
    BY <1>1 DEF vars, nodeVars, runVars, netVars, histVars, TypeInv, TypeOK,
                LogOK, RequestsOK
  <1>2. ASSUME NEW n \in Node, NodeStep(n) PROVE TypeInv'
    BY <1>2, FollowerTimeoutType, RunFollowerType, StartElectionType,
       HandleVoteReplyType, WinElectionType, ElectionEndsType,
       ElectionDoneType, SendAppendType, HandleAppendReplyType,
       LeaderStepsDownType, LeaderDoneType, HandleRequestVoteType,
       RejectAppendEntriesType, HandleAppendEntriesType, ProposeType,
       ApplyType, CrashType, BootType DEF NodeStep
  <1> QED
    BY <1>1, <1>2 DEF Next

\* TypeInv holds in every state of every cluster.
LEMMA TypeInvariant == Spec => []TypeInv
  <1> QED
    BY InitTypeInv, NextTypeInv, PTL DEF Spec

\* Every field keeps its type in every reachable state: in particular applyLoop
\* only ever hands client commands to the state machine.
THEOREM TypeCorrect == Spec => []TypeOK
  <1>1. TypeInv => TypeOK
    BY DEF TypeInv
  <1> QED
    BY <1>1, TypeInvariant, PTL

\* The logs of HandleAppendEntries and Propose are contiguous in every
\* reachable state, so the index arithmetic of termAt, entryAt, entriesFrom
\* and truncateAt is right.
THEOREM LogsContiguous == Spec => []LogContiguous
  <1>1. TypeInv => LogContiguous
    <2> SUFFICES ASSUME TypeInv, NEW n \in Node
                 PROVE  Len(log[n]) > 0 /\ WellFormed(log[n])
      BY DEF LogContiguous
    <2>1. LogFrom0(log[n], Slot) /\ FirstIndex(log[n]) = 0
      BY LogTypes
    <2> QED
      BY <2>1 DEF LogFrom0, WellFormed
  <1> QED
    BY <1>1, TypeInvariant, PTL

\* The step of rule 4 in this model is what the loop of HandleAppendEntries does
\* with any request that rule 3 accepts: a late or shorter one, one that
\* conflicts, one that is held already.
THEOREM RuleFourIsTheLoop == Spec => []AppendAllIsTheLoop
  <1>1. TypeInv => AppendAllIsTheLoop
    <2> SUFFICES ASSUME TypeInv, NEW m \in appReqs,
                        Consistent(log[m.dst], m.prevIdx, m.prevTerm)
                 PROVE  AppendAll(log[m.dst], m.prevIdx, m.entries)
                            = AppendLoop(log[m.dst], m.prevIdx, m.entries)
      BY DEF AppendAllIsTheLoop
    <2>1. m.dst \in Node /\ m.prevIdx \in Nat
      BY DEF TypeInv, TypeOK, AppReq, Index
    <2>2. LogFrom0(log[m.dst], Slot)
      BY <2>1, LogTypes
    <2>3. m.prevIdx <= LastIndex(log[m.dst])
      BY DEF Consistent
    <2>4. BatchAfter(m.entries, m.prevIdx, Slot)
      BY DEF TypeInv, RequestsOK, BatchAfter, Slot
    <2> QED
      BY <2>1, <2>2, <2>3, <2>4, ClosedFormIsLoop
  <1> QED
    BY <1>1, TypeInvariant, PTL

-----------------------------------------------------------------------------
(***************************************************************************)
(* What the election code of raft/node.go guarantees for every cluster and *)
(* every interleaving, restarts included: a leadership always rests on the *)
(* recorded votes of a majority, and one term has two leaders only through *)
(* one of the two causes named by SplitBrainCause.                         *)
(*                                                                         *)
(* The argument is the one of Raft, made relative to the votes that a node *)
(* has forgotten (revoked): a vote that was not forgotten is still visible *)
(* in votedFor while its term lasts, hence is unique; a tally contains     *)
(* only votes of its own election; and two majorities share a voter.       *)
(***************************************************************************)

\* A vote is of a past or the current term of the voter, or was forgotten.
VotesPast ==
    \A v, c \in Node : \A t \in Term :
        <<v, c, t>> \in grants => t <= currentTerm[v] \/ <<v, t>> \in revoked

\* A vote of the current term is the one in votedFor, unless forgotten.
VoteVisible ==
    \A v, c \in Node : \A t \in Term :
        /\ <<v, c, t>> \in grants
        /\ t = currentTerm[v]
        /\ <<v, t>> \notin revoked
        => votedFor[v] = c

\* A node that has not forgotten its vote has cast one only.
VoteUnique ==
    \A v, c, d \in Node : \A t \in Term :
        /\ <<v, c, t>> \in grants
        /\ <<v, d, t>> \in grants
        /\ <<v, t>> \notin revoked
        => c = d

\* Grants under way and grants counted are votes of that election.
TallySound ==
    /\ \A m \in voteReps : m.granted => <<m.src, m.dst, m.elecTerm>> \in grants
    /\ \A n \in Node : \A v \in voters[n] : <<v, n, elecTerm[n]>> \in grants

Backers(l) == {v \in Node : <<v, l.node, l.elected>> \in grants}

\* Every leadership on record has the votes of a majority.
MajorityBacked == \A l \in leaders : Majority(Backers(l))

\* The leader role is held only by the goroutine that won, in the term the
\* leadership is recorded for.
RoleRecorded ==
    \A n \in Node : state[n] = Leader =>
        /\ pc[n] \in {"waiting", "leader"}
        /\ \E l \in leaders : l.node = n /\ l.term = currentTerm[n]

VotesInv == VotesPast /\ VoteVisible /\ VoteUnique

ElectionInv == VotesInv /\ TallySound /\ MajorityBacked /\ RoleRecorded

-----------------------------------------------------------------------------
\* A superset of a majority is a majority.
LEMMA MajorityMonotone ==
    ASSUME NEW S \in SUBSET Node, NEW T \in SUBSET Node, S \subseteq T,
           Majority(S)
    PROVE  Majority(T)
  <1>1. IsFiniteSet(T) /\ IsFiniteSet(S)
    BY NodeAssumption, FS_Subset
  <1>2. Cardinality(S) <= Cardinality(T)
    BY <1>1, FS_Subset
  <1>3. Cardinality(S) \in Nat /\ Cardinality(T) \in Nat /\ Cardinality(Node) \in Nat
    BY <1>1, NodeAssumption, FS_CardinalityType
  <1> QED
    BY <1>2, <1>3 DEF Majority

\* More than half of the cluster, in the arithmetic of the code.
LEMMA MajorityIsMoreThanHalf ==
    ASSUME NEW S \in SUBSET Node, Majority(S)
    PROVE  2 * Cardinality(S) > Cardinality(Node)
  <1>1. IsFiniteSet(S)
    BY NodeAssumption, FS_Subset
  <1>2. Cardinality(S) \in Nat /\ Cardinality(Node) \in Nat
    BY <1>1, NodeAssumption, FS_CardinalityType
  <1> DEFINE a == Cardinality(S)
             b == Cardinality(Node)
  <1>3. a >= (b \div 2) + 1
    BY DEF Majority
  <1>4. a \in Nat /\ b \in Nat
    BY <1>2
  <1> HIDE DEF a, b
  <1>5. 2 * a > b
    BY <1>3, <1>4
  <1> QED
    BY <1>5 DEF a, b

\* Any two majorities have a node in common.
LEMMA MajoritiesMeet ==
    ASSUME NEW S \in SUBSET Node, NEW T \in SUBSET Node, Majority(S), Majority(T)
    PROVE  \E v \in Node : v \in S /\ v \in T
  <1>1. 2 * Cardinality(S) > Cardinality(Node) /\ 2 * Cardinality(T) > Cardinality(Node)
    BY MajorityIsMoreThanHalf
  <1>2. IsFiniteSet(S) /\ IsFiniteSet(T) /\ IsFiniteSet(Node)
    BY NodeAssumption, FS_Subset
  <1>3. Cardinality(S) \in Nat /\ Cardinality(T) \in Nat /\ Cardinality(Node) \in Nat
    BY <1>2, FS_CardinalityType
  <1>4. Cardinality(S) + Cardinality(T) > Cardinality(Node)
    BY <1>1, <1>3
  <1>5. S \cap T # {}
    BY <1>2, <1>4, FS_MajoritiesIntersect
  <1> QED
    BY <1>5

-----------------------------------------------------------------------------
(***************************************************************************)
(* How the votes change: not at all, by a newer term, by a new vote, by a  *)
(* vote that is forgotten.                                                 *)
(***************************************************************************)

\* Votes stay sound when a node enters a newer term without voting in it.
LEMMA NewerTerm ==
    ASSUME TypeOK, VotesInv, NEW n \in Node, NEW t \in Nat, t > currentTerm[n],
           NEW x, currentTerm' = [currentTerm EXCEPT ![n] = t],
           votedFor' = [votedFor EXCEPT ![n] = x],
           grants' = grants, revoked' = revoked
    PROVE  VotesInv'
  <1>a. /\ currentTerm \in [Node -> Nat] /\ Term = Nat
        /\ votedFor \in [Node -> Node \cup {Nil}]
    BY DEF TypeOK, Term
  <1>1. VotesPast'
    BY <1>a DEF VotesInv, VotesPast
  <1>2. VoteVisible'
    BY <1>a DEF VotesInv, VotesPast, VoteVisible
  <1>3. VoteUnique'
    BY DEF VotesInv, VoteUnique
  <1> QED
    BY <1>1, <1>2, <1>3 DEF VotesInv

\* Votes stay sound when a node votes in a newer term, or in its current one
\* when it has no other vote there (StartElection, HandleRequestVote).
LEMMA VoteCast ==
    ASSUME TypeOK, VotesInv, NEW n \in Node, NEW c \in Node, NEW t \in Nat,
           t > currentTerm[n] \/ (t = currentTerm[n] /\ votedFor[n] \in {Nil, c}),
           currentTerm' = [currentTerm EXCEPT ![n] = t],
           votedFor' = [votedFor EXCEPT ![n] = c],
           grants' = grants \cup {<<n, c, t>>}, revoked' = revoked
    PROVE  VotesInv'
  <1>a. /\ currentTerm \in [Node -> Nat] /\ Term = Nat
        /\ votedFor \in [Node -> Node \cup {Nil}]
    BY DEF TypeOK, Term
  <1>b. \A d \in Node : <<n, d, t>> \in grants /\ <<n, t>> \notin revoked => d = c
    <2> SUFFICES ASSUME NEW d \in Node, <<n, d, t>> \in grants,
                        <<n, t>> \notin revoked
                 PROVE  d = c
      OBVIOUS
    <2>1. t <= currentTerm[n]
      BY <1>a DEF VotesInv, VotesPast
    <2>2. t = currentTerm[n] /\ votedFor[n] \in {Nil, c}
      BY <2>1, <1>a
    <2>3. votedFor[n] = d
      BY <2>2, <1>a DEF VotesInv, VoteVisible
    <2> QED
      BY <2>2, <2>3, NilAssumption
  <1>1. VotesPast'
    BY <1>a DEF VotesInv, VotesPast
  <1>2. VoteVisible'
    <2> SUFFICES ASSUME NEW v \in Node, NEW d \in Node, NEW u \in Nat,
                        <<v, d, u>> \in grants', u = currentTerm'[v],
                        <<v, u>> \notin revoked'
                 PROVE  votedFor'[v] = d
      BY <1>a DEF VoteVisible
    <2>1. CASE v = n
      BY <2>1, <1>a, <1>b
    <2>2. CASE v # n
      BY <2>2, <1>a DEF VotesInv, VoteVisible
    <2> QED
      BY <2>1, <2>2
  <1>3. VoteUnique'
    <2> SUFFICES ASSUME NEW v \in Node, NEW d \in Node, NEW e \in Node,
                        NEW u \in Nat, <<v, d, u>> \in grants',
                        <<v, e, u>> \in grants', <<v, u>> \notin revoked'
                 PROVE  d = e
      BY <1>a DEF VoteUnique
    <2>1. CASE v = n /\ u = t
      BY <2>1, <1>b
    <2>2. CASE ~(v = n /\ u = t)
      <3>1. <<v, d, u>> \in grants /\ <<v, e, u>> \in grants /\ <<v, u>> \notin revoked
        BY <2>2
      <3> QED
        BY <3>1, <1>a DEF VotesInv, VoteUnique
    <2> QED
      BY <2>1, <2>2
  <1> QED
    BY <1>1, <1>2, <1>3 DEF VotesInv

\* New votes take no leadership's majority away.
LEMMA BackersGrow ==
    ASSUME MajorityBacked, grants \subseteq grants', leaders' = leaders
    PROVE  MajorityBacked'
  <1> SUFFICES ASSUME NEW l \in leaders
               PROVE  Majority({v \in Node : <<v, l.node, l.elected>> \in grants'})
    BY DEF MajorityBacked, Backers, Majority
  <1>1. Majority({v \in Node : <<v, l.node, l.elected>> \in grants})
    BY DEF MajorityBacked, Backers
  <1> QED
    BY <1>1, MajorityMonotone

\* A step that touches neither terms, votes nor tallies, and makes nobody a
\* leader, preserves the invariant.
LEMMA ElectionFrame ==
    ASSUME ElectionInv,
           UNCHANGED <<currentTerm, votedFor, voters, elecTerm, histVars>>,
           voteReps' \subseteq voteReps,
           \A n \in Node : state'[n] = Leader =>
               state[n] = Leader /\ pc'[n] \in {"waiting", "leader"}
    PROVE  ElectionInv'
  <1>1. VotesInv'
    BY DEF ElectionInv, VotesInv, VotesPast, VoteVisible, VoteUnique, histVars
  <1>2. TallySound'
    BY DEF ElectionInv, TallySound, histVars
  <1>3. MajorityBacked'
    BY BackersGrow DEF ElectionInv, histVars
  <1>4. RoleRecorded'
    BY DEF ElectionInv, RoleRecorded, histVars
  <1> QED
    BY <1>1, <1>2, <1>3, <1>4 DEF ElectionInv

-----------------------------------------------------------------------------
(***************************************************************************)
(* One lemma per action that ElectionFrame does not cover at once.         *)
(***************************************************************************)

\* runFollower, Run and the ends of runCandidate and runLeader.
LEMMA RunLoopElection ==
    ASSUME TypeInv, ElectionInv, NEW n \in Node,
           \/ FollowerTimeout(n) \/ RunFollower(n) \/ ElectionEnds(n)
           \/ ElectionDone(n) \/ LeaderStepsDown(n) \/ LeaderDone(n) \/ Boot(n)
    PROVE  ElectionInv'
  <1>a. /\ state \in [Node -> {Follower, Candidate, Leader}]
        /\ pc \in [Node -> Place]
    BY DEF TypeInv, TypeOK
  <1>b. \A i \in Node : state[i] = Leader => pc[i] \in {"waiting", "leader"}
    BY DEF ElectionInv, RoleRecorded
  <1>1. UNCHANGED <<currentTerm, votedFor, voters, elecTerm, histVars>>
    BY DEF FollowerTimeout, RunFollower, ElectionEnds, ElectionDone,
           LeaderStepsDown, LeaderDone, Boot, nodeVars
  <1>2. voteReps' \subseteq voteReps
    BY DEF FollowerTimeout, RunFollower, ElectionEnds, ElectionDone,
           LeaderStepsDown, LeaderDone, Boot, netVars
  <1>3. ASSUME NEW i \in Node, state'[i] = Leader
        PROVE  state[i] = Leader /\ pc'[i] \in {"waiting", "leader"}
    <2>1. CASE i # n
      BY <2>1, <1>3, <1>a, <1>b
         DEF FollowerTimeout, RunFollower, ElectionEnds, ElectionDone,
             LeaderStepsDown, LeaderDone, Boot, nodeVars
    <2>2. CASE i = n
      BY <2>2, <1>3, <1>a, <1>b
         DEF FollowerTimeout, RunFollower, ElectionEnds, ElectionDone,
             LeaderStepsDown, LeaderDone, Boot, nodeVars, Follower, Candidate,
             Leader
    <2> QED
      BY <2>1, <2>2
  <1> QED
    BY <1>1, <1>2, <1>3, ElectionFrame

\* Replication, Propose and applyLoop, which leave terms and roles alone.
LEMMA ReplicationElection ==
    ASSUME ElectionInv, NEW n \in Node,
           \/ \E p \in Peer(n) : SendAppend(n, p)
           \/ \E m \in appReqs : RejectAppendEntries(n, m)
           \/ \E c \in Cmd : Propose(n, c)
           \/ Apply(n)
    PROVE  ElectionInv'
  <1>1. UNCHANGED <<currentTerm, votedFor, voters, elecTerm, histVars, state, pc,
                    voteReps>>
    BY DEF SendAppend, RejectAppendEntries, Propose, Apply, nodeVars, runVars,
           netVars
  <1>2. \A i \in Node : state'[i] = Leader =>
            state[i] = Leader /\ pc'[i] \in {"waiting", "leader"}
    BY <1>1 DEF ElectionInv, RoleRecorded
  <1> QED
    BY <1>1, <1>2, ElectionFrame

\* The role invariant when node n ends up a follower or keeps role and term.
LEMMA RoleFrame ==
    ASSUME RoleRecorded, NEW n \in Node, leaders' = leaders, pc' = pc,
           \A i \in Node \ {n} : /\ state'[i] = state[i]
                                 /\ currentTerm'[i] = currentTerm[i],
           \/ state'[n] # Leader
           \/ state'[n] = state[n] /\ currentTerm'[n] = currentTerm[n]
    PROVE  RoleRecorded'
  <1> SUFFICES ASSUME NEW i \in Node, state'[i] = Leader
               PROVE  /\ pc'[i] \in {"waiting", "leader"}
                      /\ \E l \in leaders' : l.node = i /\ l.term = currentTerm'[i]
    BY DEF RoleRecorded
  <1>1. state[i] = Leader /\ currentTerm'[i] = currentTerm[i]
    OBVIOUS
  <1> QED
    BY <1>1 DEF RoleRecorded

\* A candidate votes for itself in a term it has not voted in.
LEMMA StartElectionElection ==
    ASSUME TypeInv, ElectionInv, NEW n \in Node, StartElection(n)
    PROVE  ElectionInv'
  <1> DEFINE t == currentTerm[n] + 1
  <1>a. TypeOK /\ currentTerm \in [Node -> Nat]
    BY DEF TypeInv, TypeOK, Term
  <1>b. t \in Nat /\ t > currentTerm[n]
    BY <1>a
  <1>c. /\ currentTerm' = [currentTerm EXCEPT ![n] = t]
        /\ votedFor' = [votedFor EXCEPT ![n] = n]
        /\ grants' = grants \cup {<<n, n, t>>} /\ revoked' = revoked
        /\ voters' = [voters EXCEPT ![n] = {n}]
        /\ elecTerm' = [elecTerm EXCEPT ![n] = t]
        /\ voteReps' = voteReps /\ leaders' = leaders /\ state' = state
        /\ pc' = [pc EXCEPT ![n] = "electing"] /\ pc[n] = "candidate"
    BY DEF StartElection
  <1> HIDE DEF t
  <1>1. VotesInv'
    BY <1>a, <1>b, <1>c, VoteCast DEF ElectionInv
  <1>2. TallySound'
    <2>1. voters \in [Node -> SUBSET Node] /\ elecTerm \in [Node -> Term]
      BY <1>a DEF TypeOK
    <2>2. \A m \in voteReps' : m.granted => <<m.src, m.dst, m.elecTerm>> \in grants'
      BY <1>c DEF ElectionInv, TallySound
    <2>3. ASSUME NEW i \in Node, NEW v \in voters'[i]
          PROVE  <<v, i, elecTerm'[i]>> \in grants'
      <3>1. CASE i = n
        BY <3>1, <2>1, <1>c
      <3>2. CASE i # n
        BY <3>2, <2>1, <1>c DEF ElectionInv, TallySound
      <3> QED
        BY <3>1, <3>2
    <2> QED
      BY <2>2, <2>3 DEF TallySound
  <1>3. MajorityBacked'
    BY <1>c, BackersGrow DEF ElectionInv
  <1>4. RoleRecorded'
    <2>1. pc \in [Node -> Place]
      BY <1>a DEF TypeOK
    <2>2. state[n] # Leader
      BY <1>c DEF ElectionInv, RoleRecorded
    <2> SUFFICES ASSUME NEW i \in Node, state'[i] = Leader
                 PROVE  /\ pc'[i] \in {"waiting", "leader"}
                        /\ \E l \in leaders' : l.node = i /\ l.term = currentTerm'[i]
      BY DEF RoleRecorded
    <2>3. i # n /\ state[i] = Leader
      BY <2>2, <1>c
    <2>4. pc'[i] = pc[i] /\ currentTerm'[i] = currentTerm[i]
      BY <2>1, <2>3, <1>a, <1>c
    <2> QED
      BY <2>3, <2>4, <1>c DEF ElectionInv, RoleRecorded
  <1> QED
    BY <1>1, <1>2, <1>3, <1>4 DEF ElectionInv

\* A reply adds to the tally only a vote of that election.
LEMMA HandleVoteReplyElection ==
    ASSUME TypeInv, ElectionInv, NEW n \in Node, NEW m, HandleVoteReply(n, m)
    PROVE  ElectionInv'
  <1>a. /\ TypeOK /\ currentTerm \in [Node -> Nat]
        /\ state \in [Node -> {Follower, Candidate, Leader}]
        /\ voters \in [Node -> SUBSET Node]
    BY DEF TypeInv, TypeOK, Term
  <1>b. m \in voteReps /\ m \in VoteRep
    BY DEF TypeInv, TypeOK, HandleVoteReply
  <1>c. m.term \in Nat /\ m.src \in Node
    BY <1>b DEF VoteRep, Term
  <1>d. /\ m.dst = n /\ m.elecTerm = elecTerm[n]
        /\ voteReps' = voteReps \ {m} /\ elecTerm' = elecTerm /\ pc' = pc
        /\ grants' = grants /\ revoked' = revoked /\ leaders' = leaders
    BY DEF HandleVoteReply, histVars
  <1>e. MajorityBacked'
    BY <1>d, BackersGrow DEF ElectionInv
  <1>1. CASE m.term > currentTerm[n]
    <2>1. /\ currentTerm' = [currentTerm EXCEPT ![n] = m.term]
          /\ votedFor' = [votedFor EXCEPT ![n] = Nil]
          /\ state' = [state EXCEPT ![n] = Follower] /\ voters' = voters
      BY <1>1 DEF HandleVoteReply
    <2>2. VotesInv'
      BY <2>1, <1>1, <1>a, <1>c, <1>d, NewerTerm DEF ElectionInv
    <2>3. TallySound'
      BY <2>1, <1>d DEF ElectionInv, TallySound
    <2>4. RoleRecorded'
      <3>1. state'[n] # Leader
        BY <2>1, <1>a DEF Follower, Leader
      <3>2. \A i \in Node \ {n} : /\ state'[i] = state[i]
                                  /\ currentTerm'[i] = currentTerm[i]
        BY <2>1, <1>a
      <3> QED
        BY <3>1, <3>2, <1>d, RoleFrame DEF ElectionInv
    <2> QED
      BY <2>2, <2>3, <2>4, <1>e DEF ElectionInv
  <1>2. CASE ~(m.term > currentTerm[n])
    <2>1. /\ currentTerm' = currentTerm /\ votedFor' = votedFor /\ state' = state
          /\ voters' = IF m.granted THEN [voters EXCEPT ![n] = @ \cup {m.src}]
                                    ELSE voters
      BY <1>2 DEF HandleVoteReply
    <2>2. VotesInv'
      BY <2>1, <1>d DEF ElectionInv, VotesInv, VotesPast, VoteVisible, VoteUnique
    <2>3. TallySound'
      <3>1. \A r \in voteReps' : r.granted => <<r.src, r.dst, r.elecTerm>> \in grants'
        BY <1>d DEF ElectionInv, TallySound
      <3>2. m.granted => <<m.src, n, elecTerm[n]>> \in grants
        BY <1>b, <1>d DEF ElectionInv, TallySound
      <3>3. ASSUME NEW i \in Node, NEW v \in voters'[i]
            PROVE  <<v, i, elecTerm'[i]>> \in grants'
        <4>1. v \in voters[i] \/ (m.granted /\ i = n /\ v = m.src)
          BY <3>3, <2>1, <1>a
        <4> QED
          BY <4>1, <3>2, <1>d DEF ElectionInv, TallySound
      <3> QED
        BY <3>1, <3>3 DEF TallySound
    <2>4. RoleRecorded'
      BY <2>1, <1>d DEF ElectionInv, RoleRecorded
    <2> QED
      BY <2>2, <2>3, <2>4, <1>e DEF ElectionInv
  <1> QED
    BY <1>1, <1>2

\* A leadership is recorded with the majority that the tally holds.
LEMMA WinElectionElection ==
    ASSUME TypeInv, ElectionInv, NEW n \in Node, WinElection(n)
    PROVE  ElectionInv'
  <1> DEFINE new == [node |-> n, term |-> currentTerm[n], elected |-> elecTerm[n]]
  <1>a. /\ currentTerm' = currentTerm /\ votedFor' = votedFor /\ voters' = voters
        /\ elecTerm' = elecTerm /\ voteReps' = voteReps
        /\ grants' = grants /\ revoked' = revoked
        /\ leaders' = leaders \cup {new} /\ Majority(voters[n])
        /\ state' = [state EXCEPT ![n] = Leader]
        /\ pc' = [pc EXCEPT ![n] = "waiting"]
    BY DEF WinElection, netVars
  <1>b. /\ voters[n] \subseteq Node /\ pc \in [Node -> Place]
        /\ state \in [Node -> {Follower, Candidate, Leader}]
    BY DEF TypeInv, TypeOK
  <1>1. VotesInv'
    BY <1>a DEF ElectionInv, VotesInv, VotesPast, VoteVisible, VoteUnique
  <1>2. TallySound'
    BY <1>a DEF ElectionInv, TallySound
  <1>3. MajorityBacked'
    <2>1. voters[n] \subseteq Backers(new)
      BY <1>b DEF ElectionInv, TallySound, Backers
    <2>2. Backers(new) \subseteq Node
      BY DEF Backers
    <2>3. Majority(Backers(new))
      BY <2>1, <2>2, <1>a, <1>b, MajorityMonotone
    <2>4. \A l : Backers(l)' = Backers(l)
      BY <1>a DEF Backers
    <2> HIDE DEF new
    <2> QED
      BY <2>3, <2>4, <1>a DEF ElectionInv, MajorityBacked, Majority
  <1>4. RoleRecorded'
    <2> SUFFICES ASSUME NEW i \in Node, state'[i] = Leader
                 PROVE  /\ pc'[i] \in {"waiting", "leader"}
                        /\ \E l \in leaders' : l.node = i /\ l.term = currentTerm'[i]
      BY DEF RoleRecorded
    <2>1. CASE i = n
      <3>1. new \in leaders' /\ new.node = n /\ new.term = currentTerm'[n]
        BY <1>a
      <3> QED
        BY <2>1, <3>1, <1>a, <1>b
    <2>2. CASE i # n
      BY <2>2, <1>a, <1>b DEF ElectionInv, RoleRecorded
    <2> QED
      BY <2>1, <2>2
  <1> QED
    BY <1>1, <1>2, <1>3, <1>4 DEF ElectionInv

\* A reply of a newer term demotes the leader and casts no vote.
LEMMA HandleAppendReplyElection ==
    ASSUME TypeInv, ElectionInv, NEW n \in Node, NEW m, HandleAppendReply(n, m)
    PROVE  ElectionInv'
  <1>a. /\ TypeOK /\ currentTerm \in [Node -> Nat]
        /\ state \in [Node -> {Follower, Candidate, Leader}]
    BY DEF TypeInv, TypeOK, Term
  <1>b. m \in AppRep /\ m.term \in Nat
    <2>1. m \in AppRep
      BY DEF TypeInv, TypeOK, HandleAppendReply
    <2> QED
      BY <2>1 DEF AppRep, Term
  <1>c. /\ voters' = voters /\ elecTerm' = elecTerm /\ voteReps' = voteReps
        /\ pc' = pc /\ grants' = grants /\ revoked' = revoked /\ leaders' = leaders
    BY DEF HandleAppendReply, histVars
  <1>d. \/ UNCHANGED <<currentTerm, votedFor, state>>
        \/ /\ m.term > currentTerm[n]
           /\ currentTerm' = [currentTerm EXCEPT ![n] = m.term]
           /\ votedFor' = [votedFor EXCEPT ![n] = Nil]
           /\ state' = [state EXCEPT ![n] = Follower]
    BY DEF HandleAppendReply
  <1>e. MajorityBacked' /\ TallySound'
    BY <1>c, BackersGrow DEF ElectionInv, TallySound
  <1>1. CASE UNCHANGED <<currentTerm, votedFor, state>>
    <2>1. VotesInv'
      BY <1>1, <1>c DEF ElectionInv, VotesInv, VotesPast, VoteVisible, VoteUnique
    <2>2. RoleRecorded'
      BY <1>1, <1>c DEF ElectionInv, RoleRecorded
    <2> QED
      BY <2>1, <2>2, <1>e DEF ElectionInv
  <1>2. CASE ~UNCHANGED <<currentTerm, votedFor, state>>
    <2>1. /\ m.term > currentTerm[n]
          /\ currentTerm' = [currentTerm EXCEPT ![n] = m.term]
          /\ votedFor' = [votedFor EXCEPT ![n] = Nil]
          /\ state' = [state EXCEPT ![n] = Follower]
      BY <1>2, <1>d
    <2>2. VotesInv'
      BY <2>1, <1>a, <1>b, <1>c, NewerTerm DEF ElectionInv
    <2>3. state'[n] # Leader
      BY <2>1, <1>a DEF Follower, Leader
    <2>4. \A i \in Node \ {n} : /\ state'[i] = state[i]
                                /\ currentTerm'[i] = currentTerm[i]
      BY <2>1, <1>a
    <2>5. RoleRecorded'
      BY <2>3, <2>4, <1>c, RoleFrame DEF ElectionInv
    <2> QED
      BY <2>2, <2>5, <1>e DEF ElectionInv
  <1> QED
    BY <1>1, <1>2

\* HandleRequestVote casts one vote per term that is not forgotten.
LEMMA HandleRequestVoteElection ==
    ASSUME TypeInv, ElectionInv, NEW n \in Node, NEW m, HandleRequestVote(n, m)
    PROVE  ElectionInv'
  <1> DEFINE higher == m.term > currentTerm[n]
  <1> DEFINE granted == GrantsVote(n, m)
  <1>a. /\ TypeOK /\ currentTerm \in [Node -> Nat]
        /\ state \in [Node -> {Follower, Candidate, Leader}]
        /\ votedFor \in [Node -> Node \cup {Nil}]
    BY DEF TypeInv, TypeOK, Term
  <1>b. m.term \in Nat /\ m.src \in Node
    <2>1. m \in VoteReq
      BY DEF TypeInv, TypeOK, HandleRequestVote
    <2> QED
      BY <2>1 DEF VoteReq, Term
  <1>c. /\ voters' = voters /\ elecTerm' = elecTerm /\ pc' = pc
        /\ revoked' = revoked /\ leaders' = leaders
    BY DEF HandleRequestVote, runVars
  <1>d. /\ currentTerm' = [currentTerm EXCEPT ![n] =
                             IF higher THEN m.term ELSE currentTerm[n]]
        /\ state' = [state EXCEPT ![n] = IF higher THEN Follower ELSE state[n]]
        /\ votedFor' = [votedFor EXCEPT ![n] = IF granted THEN m.src
                          ELSE IF higher THEN Nil ELSE votedFor[n]]
        /\ grants' = IF granted THEN grants \cup {<<n, m.src, m.term>>} ELSE grants
    BY DEF HandleRequestVote
  <1>e. granted => /\ m.term >= currentTerm[n]
                   /\ m.term > currentTerm[n] \/ votedFor[n] \in {Nil, m.src}
    BY DEF GrantsVote
  <1>f. \A r \in voteReps' : r \in voteReps \/
            (r.granted => granted /\ r.src = n /\ r.dst = m.src /\ r.elecTerm = m.term)
    BY DEF HandleRequestVote
  <1> HIDE DEF granted
  <1>1. VotesInv'
    <2>1. CASE granted
      <3>1. /\ currentTerm' = [currentTerm EXCEPT ![n] = m.term]
            /\ votedFor' = [votedFor EXCEPT ![n] = m.src]
            /\ grants' = grants \cup {<<n, m.src, m.term>>}
        <4>1. (IF higher THEN m.term ELSE currentTerm[n]) = m.term
          BY <2>1, <1>a, <1>b, <1>e
        <4> HIDE DEF higher
        <4> QED
          BY <2>1, <4>1, <1>d
      <3>2. \/ m.term > currentTerm[n]
            \/ m.term = currentTerm[n] /\ votedFor[n] \in {Nil, m.src}
        BY <2>1, <1>a, <1>b, <1>e
      <3> QED
        BY <3>1, <3>2, <1>a, <1>b, <1>c, VoteCast DEF ElectionInv
    <2>2. CASE ~granted /\ higher
      <3>1. /\ currentTerm' = [currentTerm EXCEPT ![n] = m.term]
            /\ votedFor' = [votedFor EXCEPT ![n] = Nil] /\ grants' = grants
        BY <2>2, <1>d
      <3> QED
        BY <2>2, <3>1, <1>a, <1>b, <1>c, NewerTerm DEF ElectionInv
    <2>3. CASE ~granted /\ ~higher
      <3>1. currentTerm' = currentTerm /\ votedFor' = votedFor /\ grants' = grants
        BY <2>3, <1>a, <1>d
      <3> QED
        BY <3>1, <1>c DEF ElectionInv, VotesInv, VotesPast, VoteVisible, VoteUnique
    <2> QED
      BY <2>1, <2>2, <2>3
  <1>2. TallySound'
    <2>1. grants \subseteq grants' /\ (granted => <<n, m.src, m.term>> \in grants')
      BY <1>d
    <2>2. \A r \in voteReps' : r.granted => <<r.src, r.dst, r.elecTerm>> \in grants'
      BY <2>1, <1>f DEF ElectionInv, TallySound
    <2> QED
      BY <2>1, <2>2, <1>c DEF ElectionInv, TallySound
  <1>3. MajorityBacked'
    <2>1. grants \subseteq grants'
      BY <1>d
    <2> QED
      BY <2>1, <1>c, BackersGrow DEF ElectionInv
  <1>4. RoleRecorded'
    <2>1. \/ state'[n] # Leader
          \/ state'[n] = state[n] /\ currentTerm'[n] = currentTerm[n]
      BY <1>a, <1>d DEF Follower, Leader
    <2>2. \A i \in Node \ {n} : /\ state'[i] = state[i]
                                /\ currentTerm'[i] = currentTerm[i]
      BY <1>a, <1>d
    <2> QED
      BY <2>1, <2>2, <1>c, RoleFrame DEF ElectionInv
  <1> QED
    BY <1>1, <1>2, <1>3, <1>4 DEF ElectionInv

\* Rule 2 forgets a vote of the current term only on record.
LEMMA HandleAppendEntriesElection ==
    ASSUME TypeInv, ElectionInv, NEW n \in Node, NEW m, HandleAppendEntries(n, m)
    PROVE  ElectionInv'
  <1>a. /\ TypeOK /\ currentTerm \in [Node -> Nat]
        /\ state \in [Node -> {Follower, Candidate, Leader}]
        /\ votedFor \in [Node -> Node \cup {Nil}]
    BY DEF TypeInv, TypeOK, Term
  <1>b. m.term \in Nat /\ m.term >= currentTerm[n]
    <2>1. m \in AppReq
      BY DEF TypeInv, TypeOK, HandleAppendEntries
    <2> QED
      BY <2>1 DEF AppReq, Term, HandleAppendEntries
  <1>c. /\ voters' = voters /\ elecTerm' = elecTerm /\ pc' = pc
        /\ voteReps' = voteReps /\ grants' = grants /\ leaders' = leaders
    BY DEF HandleAppendEntries, runVars
  <1>d. /\ currentTerm' = [currentTerm EXCEPT ![n] = m.term]
        /\ state' = [state EXCEPT ![n] = Follower]
        /\ revoked' = IF m.term = currentTerm[n] /\ votedFor'[n] # votedFor[n]
                      THEN revoked \cup {<<n, m.term>>} ELSE revoked
    BY DEF HandleAppendEntries
  <1>e. PICK x : /\ votedFor' = [votedFor EXCEPT ![n] = x]
                 /\ m.term > currentTerm[n] => x = Nil
    BY DEF HandleAppendEntries
  <1>1. VotesInv'
    <2>1. CASE m.term > currentTerm[n]
      <3>1. revoked' = revoked
        BY <2>1, <1>a, <1>b, <1>d
      <3> QED
        BY <2>1, <3>1, <1>a, <1>b, <1>c, <1>d, <1>e, NewerTerm DEF ElectionInv
    <2>2. CASE m.term = currentTerm[n]
      <3>1. currentTerm' = currentTerm /\ Term = Nat
        BY <2>2, <1>a, <1>d DEF Term
      <3>2. revoked \subseteq revoked'
        BY <1>d
      <3>3. \A v \in Node : votedFor'[v] = votedFor[v] \/ <<v, currentTerm[v]>> \in revoked'
        BY <2>2, <1>a, <1>d, <1>e
      <3>4. VotesPast'
        BY <3>1, <3>2, <1>c DEF ElectionInv, VotesInv, VotesPast
      <3>5. VoteVisible'
        BY <3>1, <3>2, <3>3, <1>c DEF ElectionInv, VotesInv, VoteVisible
      <3>6. VoteUnique'
        BY <3>2, <1>c DEF ElectionInv, VotesInv, VoteUnique
      <3> QED
        BY <3>4, <3>5, <3>6 DEF VotesInv
    <2> QED
      BY <2>1, <2>2, <1>a, <1>b
  <1>2. TallySound' /\ MajorityBacked'
    BY <1>c, BackersGrow DEF ElectionInv, TallySound
  <1>3. RoleRecorded'
    <2>1. state'[n] # Leader
      BY <1>a, <1>d DEF Follower, Leader
    <2>2. \A i \in Node \ {n} : /\ state'[i] = state[i]
                                /\ currentTerm'[i] = currentTerm[i]
      BY <1>a, <1>d
    <2> QED
      BY <2>1, <2>2, <1>c, RoleFrame DEF ElectionInv
  <1> QED
    BY <1>1, <1>2, <1>3 DEF ElectionInv

\* A process that is lost forgets all its votes, on record.
LEMMA CrashElection ==
    ASSUME TypeInv, ElectionInv, NEW n \in Node, Crash(n)
    PROVE  ElectionInv'
  <1>a. /\ currentTerm \in [Node -> Nat] /\ Term = Nat
        /\ state \in [Node -> {Follower, Candidate, Leader}]
        /\ votedFor \in [Node -> Node \cup {Nil}] /\ pc \in [Node -> Place]
        /\ voters \in [Node -> SUBSET Node] /\ elecTerm \in [Node -> Nat]
    BY DEF TypeInv, TypeOK, Term
  <1>b. /\ currentTerm' = [currentTerm EXCEPT ![n] = 0]
        /\ votedFor' = [votedFor EXCEPT ![n] = Nil]
        /\ state' = [state EXCEPT ![n] = Follower]
        /\ pc' = [pc EXCEPT ![n] = "down"]
        /\ voters' = [voters EXCEPT ![n] = {}]
        /\ elecTerm' = [elecTerm EXCEPT ![n] = 0]
        /\ voteReps' \subseteq voteReps
        /\ grants' = grants /\ leaders' = leaders
        /\ revoked' = revoked \cup {<<n, t>> : t \in 0..currentTerm[n]}
    BY DEF Crash
  <1>c. ASSUME NEW c \in Node, NEW t \in Nat, <<n, c, t>> \in grants
        PROVE  <<n, t>> \in revoked'
    <2>1. t <= currentTerm[n] \/ <<n, t>> \in revoked
      BY <1>a, <1>c DEF ElectionInv, VotesInv, VotesPast
    <2>2. CASE t <= currentTerm[n]
      <3>1. t \in 0..currentTerm[n]
        BY <2>2, <1>a
      <3> QED
        BY <3>1, <1>b
    <2> QED
      BY <2>1, <2>2, <1>b
  <1>d. revoked \subseteq revoked'
    BY <1>b
  <1>1. VotesInv'
    <2>1. VotesPast'
      <3> SUFFICES ASSUME NEW v \in Node, NEW c \in Node, NEW t \in Nat,
                          <<v, c, t>> \in grants
                   PROVE  t <= currentTerm'[v] \/ <<v, t>> \in revoked'
        BY <1>a, <1>b DEF VotesPast
      <3>1. CASE v = n
        BY <3>1, <1>c
      <3>2. CASE v # n
        BY <3>2, <1>a, <1>b, <1>d DEF ElectionInv, VotesInv, VotesPast
      <3> QED
        BY <3>1, <3>2
    <2>2. VoteVisible'
      <3> SUFFICES ASSUME NEW v \in Node, NEW c \in Node, NEW t \in Nat,
                          <<v, c, t>> \in grants, t = currentTerm'[v],
                          <<v, t>> \notin revoked'
                   PROVE  votedFor'[v] = c
        BY <1>a, <1>b DEF VoteVisible
      <3>1. v # n
        BY <1>c
      <3>2. t = currentTerm[v] /\ votedFor'[v] = votedFor[v] /\ <<v, t>> \notin revoked
        BY <3>1, <1>a, <1>b, <1>d
      <3> QED
        BY <3>2, <1>a DEF ElectionInv, VotesInv, VoteVisible
    <2>3. VoteUnique'
      BY <1>b, <1>d DEF ElectionInv, VotesInv, VoteUnique
    <2> QED
      BY <2>1, <2>2, <2>3 DEF VotesInv
  <1>2. TallySound'
    <2>1. \A r \in voteReps' : r.granted => <<r.src, r.dst, r.elecTerm>> \in grants'
      BY <1>b DEF ElectionInv, TallySound
    <2>2. \A i \in Node : \A v \in voters'[i] : <<v, i, elecTerm'[i]>> \in grants'
      BY <1>a, <1>b DEF ElectionInv, TallySound
    <2> QED
      BY <2>1, <2>2 DEF TallySound
  <1>3. MajorityBacked'
    BY <1>b, BackersGrow DEF ElectionInv
  <1>4. RoleRecorded'
    <2> SUFFICES ASSUME NEW i \in Node, state'[i] = Leader
                 PROVE  /\ pc'[i] \in {"waiting", "leader"}
                        /\ \E l \in leaders' : l.node = i /\ l.term = currentTerm'[i]
      BY DEF RoleRecorded
    <2>1. i # n
      BY <1>a, <1>b DEF Follower, Leader
    <2>2. state[i] = Leader /\ pc'[i] = pc[i] /\ currentTerm'[i] = currentTerm[i]
      BY <2>1, <1>a, <1>b
    <2> QED
      BY <2>2, <1>b DEF ElectionInv, RoleRecorded
  <1> QED
    BY <1>1, <1>2, <1>3, <1>4 DEF ElectionInv

-----------------------------------------------------------------------------
\* The election invariant holds in every reachable state.
LEMMA ElectionInvariant == Spec => []ElectionInv
  <1>1. Init => ElectionInv
    <2> SUFFICES ASSUME Init PROVE ElectionInv
      OBVIOUS
    <2>1. VotesInv /\ TallySound /\ MajorityBacked
      BY DEF Init, VotesInv, VotesPast, VoteVisible, VoteUnique, TallySound,
             MajorityBacked
    <2>2. RoleRecorded
      BY DEF Init, RoleRecorded, Follower, Leader
    <2> QED
      BY <2>1, <2>2 DEF ElectionInv
  <1>2. TypeInv /\ ElectionInv /\ [Next]_vars => ElectionInv'
    <2> SUFFICES ASSUME TypeInv, ElectionInv, [Next]_vars PROVE ElectionInv'
      OBVIOUS
    <2>1. CASE UNCHANGED vars
      <3>1. UNCHANGED <<currentTerm, votedFor, voters, elecTerm, histVars, state,
                        pc, voteReps>>
        BY <2>1 DEF vars, nodeVars, runVars, netVars
      <3>2. \A i \in Node : state'[i] = Leader =>
                state[i] = Leader /\ pc'[i] \in {"waiting", "leader"}
        BY <3>1 DEF ElectionInv, RoleRecorded
      <3> QED
        BY <3>1, <3>2, ElectionFrame
    <2>2. ASSUME NEW n \in Node, NodeStep(n) PROVE ElectionInv'
      BY <2>2, RunLoopElection, ReplicationElection, StartElectionElection,
         HandleVoteReplyElection, WinElectionElection,
         HandleAppendReplyElection, HandleRequestVoteElection,
         HandleAppendEntriesElection, CrashElection DEF NodeStep
    <2> QED
      BY <2>1, <2>2 DEF Next
  <1> QED
    BY <1>1, <1>2, TypeInvariant, PTL DEF Spec

\* One term has two leaders only if one of them won with the votes of an
\* earlier term, or if a node that voted for both had forgotten its vote.
THEOREM SplitBrainOnlySo == Spec => []SplitBrainCause
  <1>1. TypeInv /\ ElectionInv => SplitBrainCause
    <2> SUFFICES ASSUME TypeInv, ElectionInv,
                        NEW k \in leaders, NEW l \in leaders,
                        k.term = l.term, k.node # l.node,
                        k.elected = k.term, l.elected = l.term
                 PROVE  \E v \in Node : /\ <<v, k.node, k.term>> \in grants
                                        /\ <<v, l.node, l.term>> \in grants
                                        /\ <<v, k.term>> \in revoked
      BY DEF SplitBrainCause, ElectedInTerm
    <2>1. k.node \in Node /\ l.node \in Node /\ k.term \in Term
      BY DEF TypeInv, TypeOK
    <2>2. Majority(Backers(k)) /\ Majority(Backers(l))
      BY DEF ElectionInv, MajorityBacked
    <2>3. Backers(k) \in SUBSET Node /\ Backers(l) \in SUBSET Node
      BY DEF Backers
    <2>4. PICK v \in Node : v \in Backers(k) /\ v \in Backers(l)
      BY <2>2, <2>3, MajoritiesMeet
    <2>5. <<v, k.node, k.term>> \in grants /\ <<v, l.node, k.term>> \in grants
      BY <2>4 DEF Backers
    <2>6. <<v, k.term>> \in revoked
      BY <2>1, <2>5 DEF ElectionInv, VotesInv, VoteUnique
    <2> QED
      BY <2>5, <2>6
  <1> QED
    BY <1>1, TypeInvariant, ElectionInvariant, PTL

\* Every node in the leader role has won an election, and every leadership
\* rests on the votes of a majority of the cluster.
THEOREM LeadersAreBacked == Spec => []LeadershipBacked
  <1>1. ElectionInv => LeadershipBacked
    <2> SUFFICES ASSUME ElectionInv PROVE LeadershipBacked
      OBVIOUS
    <2>1. \A n \in Node : state[n] = Leader =>
              \E l \in leaders : l.node = n /\ l.term = currentTerm[n]
      BY DEF ElectionInv, RoleRecorded
    <2>2. ASSUME NEW l \in leaders
          PROVE  2 * Cardinality({v \in Node : <<v, l.node, l.elected>> \in grants})
                     > Cardinality(Node)
      <3>1. Majority({v \in Node : <<v, l.node, l.elected>> \in grants})
        BY DEF ElectionInv, MajorityBacked, Backers
      <3> QED
        BY <3>1, MajorityIsMoreThanHalf
    <2> QED
      BY <2>1, <2>2 DEF LeadershipBacked
  <1> QED
    BY <1>1, ElectionInvariant, PTL

-----------------------------------------------------------------------------
(***************************************************************************)
(* Log replication of raft/node.go while elections are sound               *)
(* (ElectionsSound): LogMatching and MatchIsReplicated, for every cluster, *)
(* every number of commands and every interleaving of late and repeated    *)
(* requests.                                                               *)
(*                                                                         *)
(* LogMatching alone is not inductive, because a log is overwritten from a *)
(* request that may be old.  So the logs and the requests in flight are    *)
(* looked at as one kind of thing, a chain of entries that follow an index *)
(* whose term is known, and any two chains are shown to match: where both  *)
(* have an entry of the same term at an index, they agree on everything    *)
(* below it that both know.  A new entry starts no conflict because the    *)
(* one leader of its term holds every entry of that term (LeaderHolds).    *)
(*                                                                         *)
(* MatchIsReplicated needs what is in flight as well: the requests and the *)
(* calls of a leader's term are parts of its log (Sent), and an answer     *)
(* that reports success is true of the follower for as long as it stays in *)
(* the term (Acked).                                                       *)
(***************************************************************************)

\* The entries at the indices base + 1 .. top, and the term of the entry at base.
LogChain(l) ==
    [base |-> 0, prev |-> l[1].term, top |-> Len(l) - 1,
     at |-> [k \in 1..(Len(l) - 1) |-> l[k + 1]]]

ReqChain(m) ==
    [base |-> m.prevIdx, prev |-> m.prevTerm, top |-> m.prevIdx + Len(m.entries),
     at |-> [k \in (m.prevIdx + 1)..(m.prevIdx + Len(m.entries)) |->
                m.entries[k - m.prevIdx]]]

Chains == {LogChain(log[n]) : n \in Node} \cup {ReqChain(m) : m \in appReqs}

\* The chain has an entry at index k.
Holds(c, k) == c.base < k /\ k <= c.top

TermIn(c, k) == IF k = c.base THEN c.prev ELSE c.at[k].term

\* The chains have the same entries up to k, where both have one, and the term
\* that one of them gives for its base is that of the other there.
AgreeUpTo(c, d, k) ==
    /\ \A j \in 1..k : c.base < j /\ d.base < j => c.at[j] = d.at[j]
    /\ d.base <= c.base => TermIn(d, c.base) = c.prev
    /\ c.base <= d.base => TermIn(c, d.base) = d.prev

Match(c, d) ==
    \A k \in Nat :
        Holds(c, k) /\ Holds(d, k) /\ c.at[k].term = d.at[k].term => AgreeUpTo(c, d, k)

\* Every log keeps its placeholder.
Rooted == \A n \in Node : log[n][1] = Placeholder

\* Every entry was made by the leader of a recorded leadership of its term.
Owned ==
    \A c \in Chains : \A k \in Nat :
        Holds(c, k) => \E l \in leaders : l.term = c.at[k].term

\* While no process is lost, a node wins no election twice.
NoSecondWin ==
    used["crashes"] = 0 =>
        \A n \in Node :
            /\ elecTerm[n] <= currentTerm[n]
            /\ \A l \in leaders : l.node = n =>
                  /\ l.elected <= elecTerm[n]
                  /\ pc[n] = "electing" => l.elected < elecTerm[n]

\* A leader holds every entry of its term.
LeaderHolds ==
    \A n \in Node : state[n] = Leader =>
        \A c \in Chains : \A k \in Nat :
            Holds(c, k) /\ c.at[k].term = currentTerm[n] =>
                Holds(LogChain(log[n]), k) /\ log[n][k + 1].term = currentTerm[n]

ChainsMatch == \A c, d \in Chains : Match(c, d)

ReplInv ==
    /\ Rooted /\ Owned /\ NoSecondWin
    /\ ElectionsSound => LeaderHolds /\ ChainsMatch

-----------------------------------------------------------------------------
(***************************************************************************)
(* Chains                                                                  *)
(***************************************************************************)
IsChain(c) == c.base \in Nat /\ c.top \in Nat /\ c.base <= c.top

\* Matching is symmetric.
LEMMA MatchSymmetric ==
    ASSUME NEW c, NEW d, Match(c, d)
    PROVE  Match(d, c)
  <1> SUFFICES ASSUME NEW k \in Nat, Holds(d, k), Holds(c, k),
                      d.at[k].term = c.at[k].term
               PROVE  AgreeUpTo(d, c, k)
    BY DEF Match
  <1>1. AgreeUpTo(c, d, k)
    BY DEF Match
  <1>2. \A j \in 1..k : d.base < j /\ c.base < j => d.at[j] = c.at[j]
    BY <1>1 DEF AgreeUpTo
  <1> QED
    BY <1>1, <1>2 DEF AgreeUpTo

\* A chain matches itself.
LEMMA MatchReflexive ==
    ASSUME NEW c
    PROVE  Match(c, c)
  BY DEF Match, AgreeUpTo, TermIn

\* sendAppend: a part of a chain matches what the chain matches.
LEMMA SliceMatches ==
    ASSUME NEW c, NEW d, NEW r, IsChain(c), IsChain(d), IsChain(r), Match(c, d),
           c.base <= r.base,
           r.base < r.top => r.top <= c.top /\ r.prev = TermIn(c, r.base),
           \A k \in Nat : Holds(r, k) => r.at[k] = c.at[k]
    PROVE  Match(r, d)
  <1> SUFFICES ASSUME NEW k \in Nat, Holds(r, k), Holds(d, k),
                      r.at[k].term = d.at[k].term
               PROVE  AgreeUpTo(r, d, k)
    BY DEF Match
  <1>1. Holds(c, k) /\ r.at[k] = c.at[k] /\ r.base < r.top
    BY DEF Holds, IsChain
  <1>2. AgreeUpTo(c, d, k)
    BY <1>1 DEF Match
  <1>3. \A j \in 1..k : r.base < j => r.at[j] = c.at[j]
    BY DEF Holds, IsChain
  <1>4. \A j \in 1..k : r.base < j /\ d.base < j => r.at[j] = d.at[j]
    BY <1>2, <1>3 DEF AgreeUpTo, IsChain
  <1>5. r.prev = TermIn(c, r.base) /\ r.base < k /\ d.base < k
    BY <1>1 DEF Holds
  <1>6. ASSUME d.base <= r.base PROVE TermIn(d, r.base) = r.prev
    <2>1. CASE r.base = c.base
      BY <2>1, <1>2, <1>5, <1>6 DEF AgreeUpTo, TermIn
    <2>2. CASE c.base < r.base /\ d.base < r.base
      <3>1. c.at[r.base] = d.at[r.base]
        BY <2>2, <1>2, <1>5 DEF AgreeUpTo, IsChain
      <3> QED
        BY <3>1, <2>2, <1>5 DEF TermIn, IsChain
    <2>3. CASE c.base < r.base /\ d.base = r.base
      BY <2>3, <1>2, <1>5 DEF AgreeUpTo, TermIn, IsChain
    <2> QED
      BY <2>1, <2>2, <2>3, <1>6 DEF IsChain
  <1>7. ASSUME r.base <= d.base PROVE TermIn(r, d.base) = d.prev
    <2>1. TermIn(c, d.base) = d.prev
      BY <1>2, <1>7 DEF AgreeUpTo, IsChain
    <2>2. CASE r.base = d.base
      BY <2>1, <2>2, <1>5 DEF TermIn
    <2>3. CASE r.base < d.base
      <3>1. r.at[d.base] = c.at[d.base]
        BY <2>3, <1>3, <1>5 DEF IsChain
      <3> QED
        BY <3>1, <2>1, <2>3 DEF TermIn, IsChain
    <2> QED
      BY <2>2, <2>3, <1>7 DEF IsChain
  <1> QED
    BY <1>4, <1>6, <1>7 DEF AgreeUpTo

\* Propose: a chain with one more entry matches what it matched, as long as
\* nothing has an entry of that term there.
LEMMA ExtensionMatches ==
    ASSUME NEW c, NEW d, NEW x, IsChain(c), IsChain(d), IsChain(x), Match(c, d),
           x.base = c.base, x.prev = c.prev, x.top = c.top + 1,
           \A k \in Nat : Holds(c, k) => x.at[k] = c.at[k],
           ~(Holds(d, x.top) /\ d.at[x.top].term = x.at[x.top].term)
    PROVE  Match(x, d)
  <1> SUFFICES ASSUME NEW k \in Nat, Holds(x, k), Holds(d, k),
                      x.at[k].term = d.at[k].term
               PROVE  AgreeUpTo(x, d, k)
    BY DEF Match
  <1>1. k # x.top
    OBVIOUS
  <1>2. Holds(c, k)
    BY <1>1 DEF Holds, IsChain
  <1>3. AgreeUpTo(c, d, k)
    BY <1>2 DEF Match
  <1>4. \A j \in 1..k : c.base < j => x.at[j] = c.at[j]
    BY <1>2 DEF Holds, IsChain
  <1>5. c.base <= d.base => TermIn(x, d.base) = TermIn(c, d.base)
    <2>1. d.base < k
      BY DEF Holds
    <2> QED
      BY <2>1, <1>4 DEF TermIn, IsChain
  <1> QED
    BY <1>3, <1>4, <1>5 DEF AgreeUpTo

\* Rules 3 and 4 of HandleAppendEntries: a log that is cut above some index and
\* continued by a request that is consistent with it matches what both matched.
LEMMA SpliceMatches ==
    ASSUME NEW l, NEW r, NEW d, NEW x, NEW cut \in Nat,
           IsChain(l), IsChain(r), IsChain(d), IsChain(x),
           Match(l, d), Match(r, d), Match(r, l),
           l.base = 0, TermIn(l, r.base) = r.prev,
           r.base <= cut, cut <= l.top, cut < r.top,
           \A j \in Nat : r.base < j /\ j <= cut => l.at[j].term = r.at[j].term,
           x.base = 0, x.prev = l.prev, x.top = r.top,
           \A j \in Nat : 0 < j /\ j <= cut => x.at[j] = l.at[j],
           \A j \in Nat : cut < j /\ j <= r.top => x.at[j] = r.at[j]
    PROVE  Match(x, d)
  <1>1. \A j \in Nat : r.base < j /\ j <= r.top => x.at[j] = r.at[j]
    <2>1. CASE cut = r.base
      BY <2>1
    <2>2. CASE r.base < cut
      <3>1. Holds(r, cut) /\ Holds(l, cut) /\ r.at[cut].term = l.at[cut].term
        BY <2>2 DEF Holds, IsChain
      <3>2. AgreeUpTo(r, l, cut)
        BY <3>1 DEF Match
      <3>3. \A j \in Nat : r.base < j /\ j <= cut => r.at[j] = l.at[j]
        BY <3>2 DEF AgreeUpTo, IsChain
      <3> QED
        BY <3>3 DEF IsChain
    <2> QED
      BY <2>1, <2>2 DEF IsChain
  <1>2. \A j \in Nat : j <= cut => TermIn(x, j) = TermIn(l, j)
    BY DEF TermIn
  <1>3. TermIn(x, r.base) = r.prev
    BY <1>2 DEF IsChain
  <1> SUFFICES ASSUME NEW k \in Nat, Holds(x, k), Holds(d, k),
                      x.at[k].term = d.at[k].term
               PROVE  AgreeUpTo(x, d, k)
    BY DEF Match
  <1>4. CASE k <= cut
    <2>1. Holds(l, k) /\ l.at[k].term = d.at[k].term
      BY <1>4 DEF Holds, IsChain
    <2>2. AgreeUpTo(l, d, k)
      BY <2>1 DEF Match
    <2>3. \A j \in 1..k : x.at[j] = l.at[j]
      BY <1>4
    <2>4. TermIn(x, d.base) = TermIn(l, d.base)
      BY <1>2, <1>4 DEF Holds, IsChain
    <2> QED
      BY <2>2, <2>3, <2>4 DEF AgreeUpTo
  <1>5. CASE cut < k
    <2>1. Holds(r, k) /\ r.at[k].term = d.at[k].term
      BY <1>5, <1>1 DEF Holds, IsChain
    <2>2. AgreeUpTo(r, d, k)
      BY <2>1 DEF Match
    <2>3. \A j \in 1..k : r.base < j /\ d.base < j => x.at[j] = d.at[j]
      BY <2>1, <2>2, <1>1 DEF AgreeUpTo, Holds, IsChain
    <2>4. CASE r.base <= d.base
      <3>1. TermIn(r, d.base) = d.prev
        BY <2>2, <2>4 DEF AgreeUpTo
      <3>2. TermIn(x, d.base) = d.prev
        <4>1. CASE r.base = d.base
          BY <4>1, <3>1, <1>3 DEF TermIn
        <4>2. CASE r.base < d.base
          <5>1. x.at[d.base] = r.at[d.base]
            BY <4>2, <2>1, <1>1 DEF Holds, IsChain
          <5> QED
            BY <5>1, <4>2, <3>1 DEF TermIn, IsChain
        <4> QED
          BY <4>1, <4>2, <2>4 DEF IsChain
      <3>3. d.base <= x.base => TermIn(d, x.base) = x.prev
        BY <3>2 DEF TermIn, IsChain
      <3> QED
        BY <2>3, <2>4, <3>2, <3>3 DEF AgreeUpTo, IsChain
    <2>5. CASE d.base < r.base
      <3>1. TermIn(d, r.base) = r.prev
        BY <2>2, <2>5 DEF AgreeUpTo, IsChain
      <3>2. Holds(d, r.base) /\ Holds(l, r.base) /\ l.at[r.base].term = d.at[r.base].term
        BY <2>5, <3>1, <2>1 DEF Holds, IsChain, TermIn
      <3>3. AgreeUpTo(l, d, r.base)
        BY <3>2 DEF Match, IsChain
      <3>4. \A j \in 1..k : d.base < j => x.at[j] = d.at[j]
        <4>1. \A j \in 1..k : d.base < j /\ j <= r.base => x.at[j] = d.at[j]
          BY <3>3 DEF AgreeUpTo, IsChain
        <4> QED
          BY <4>1, <2>3 DEF IsChain
      <3>5. TermIn(x, d.base) = TermIn(l, d.base)
        BY <1>2, <2>5 DEF IsChain
      <3> QED
        BY <3>3, <3>4, <3>5 DEF AgreeUpTo
    <2> QED
      BY <2>4, <2>5 DEF IsChain
  <1> QED
    BY <1>4, <1>5 DEF IsChain

-----------------------------------------------------------------------------
(***************************************************************************)
(* The chains of a state                                                   *)
(***************************************************************************)

\* The fields of a log's chain.
LEMMA LogChainFields ==
    ASSUME NEW S, NEW l, LogFrom0(l, S)
    PROVE  /\ IsChain(LogChain(l))
           /\ LogChain(l).base = 0
           /\ LogChain(l).prev = l[1].term
           /\ LogChain(l).top = Len(l) - 1
           /\ \A k \in Nat : Holds(LogChain(l), k) =>
                  /\ k + 1 \in 2..Len(l)
                  /\ LogChain(l).at[k] = l[k + 1]
  <1>1. Len(l) \in Nat /\ Len(l) > 0
    BY DEF LogFrom0
  <1>2. /\ LogChain(l).base = 0 /\ LogChain(l).prev = l[1].term
        /\ LogChain(l).top = Len(l) - 1
        /\ LogChain(l).at = [k \in 1..(Len(l) - 1) |-> l[k + 1]]
    BY DEF LogChain
  <1> HIDE DEF LogChain
  <1>3. \A k \in Nat : Holds(LogChain(l), k) =>
            k \in 1..(Len(l) - 1) /\ k + 1 \in 2..Len(l)
    BY <1>1, <1>2 DEF Holds
  <1> QED
    BY <1>1, <1>2, <1>3 DEF IsChain

\* The fields of a request's chain.
LEMMA ReqChainFields ==
    ASSUME NEW m \in AppReq
    PROVE  /\ IsChain(ReqChain(m))
           /\ ReqChain(m).base = m.prevIdx
           /\ ReqChain(m).prev = m.prevTerm
           /\ ReqChain(m).top = m.prevIdx + Len(m.entries)
           /\ \A k \in Nat : Holds(ReqChain(m), k) =>
                  /\ k - m.prevIdx \in 1..Len(m.entries)
                  /\ ReqChain(m).at[k] = m.entries[k - m.prevIdx]
  <1>1. m.prevIdx \in Nat /\ Len(m.entries) \in Nat
    BY DEF AppReq, Index
  <1>2. /\ ReqChain(m).base = m.prevIdx /\ ReqChain(m).prev = m.prevTerm
        /\ ReqChain(m).top = m.prevIdx + Len(m.entries)
        /\ ReqChain(m).at = [k \in (m.prevIdx + 1)..(m.prevIdx + Len(m.entries)) |->
                                 m.entries[k - m.prevIdx]]
    BY DEF ReqChain
  <1> HIDE DEF ReqChain
  <1>3. \A k \in Nat : Holds(ReqChain(m), k) =>
            /\ k \in (m.prevIdx + 1)..(m.prevIdx + Len(m.entries))
            /\ k - m.prevIdx \in 1..Len(m.entries)
    BY <1>1, <1>2 DEF Holds
  <1> QED
    BY <1>1, <1>2, <1>3 DEF IsChain

\* Every log and every request in flight is a chain, and nothing else is.
LEMMA ChainsAre ==
    ASSUME TypeInv
    PROVE  /\ \A n \in Node : LogChain(log[n]) \in Chains
           /\ \A m \in appReqs : ReqChain(m) \in Chains
           /\ \A c \in Chains : IsChain(c)
  <1>1. \A c \in Chains : IsChain(c)
    <2> SUFFICES ASSUME NEW c \in Chains PROVE IsChain(c)
      OBVIOUS
    <2>1. CASE \E n \in Node : c = LogChain(log[n])
      BY <2>1, LogChainFields, LogTypes
    <2>2. CASE \E m \in appReqs : c = ReqChain(m)
      BY <2>2, ReqChainFields DEF TypeInv, TypeOK
    <2> QED
      BY <2>1, <2>2 DEF Chains
  <1> QED
    BY <1>1 DEF Chains

\* Elections that are sound now have always been.
LEMMA SoundBefore ==
    ASSUME TypeInv, [Next]_vars, ElectionsSound'
    PROVE  ElectionsSound
  <1>1. leaders \subseteq leaders' /\ used["crashes"] <= used'["crashes"]
    <2>1. CASE UNCHANGED vars
      BY <2>1 DEF vars, histVars, TypeInv, TypeOK, Bound
    <2>2. ASSUME NEW n \in Node, NodeStep(n)
          PROVE  leaders \subseteq leaders' /\ used["crashes"] <= used'["crashes"]
      <3>1. used["crashes"] \in Nat /\ used \in [Bound -> Nat]
        BY DEF TypeInv, TypeOK, Bound
      <3>2. \A b \in Bound : \A max : Spend(b, max) => used["crashes"] <= used'["crashes"]
        BY <3>1 DEF Spend, Bound
      <3>3. leaders \subseteq leaders'
        BY <2>2 DEF NodeStep, FollowerTimeout, RunFollower, StartElection,
             HandleVoteReply, WinElection, ElectionEnds, ElectionDone, SendAppend,
             HandleAppendReply, LeaderStepsDown, LeaderDone, HandleRequestVote,
             RejectAppendEntries, HandleAppendEntries, Propose, Apply, Crash, Boot,
             histVars
      <3>4. UNCHANGED used \/ \E b \in Bound, max \in Nat : Spend(b, max)
        BY <2>2, BoundAssumption
           DEF NodeStep, FollowerTimeout, RunFollower, StartElection,
             HandleVoteReply, WinElection, ElectionEnds, ElectionDone, SendAppend,
             HandleAppendReply, LeaderStepsDown, LeaderDone, HandleRequestVote,
             RejectAppendEntries, HandleAppendEntries, Propose, Apply, Crash, Boot,
             Bound
      <3> QED
        BY <3>1, <3>2, <3>3, <3>4
    <2> QED
      BY <2>1, <2>2 DEF Next
  <1>2. used["crashes"] = 0
    BY <1>1 DEF ElectionsSound, TypeInv, TypeOK, Bound
  <1> QED
    BY <1>1, <1>2 DEF ElectionsSound, ElectedInTerm

\* The chains stay matched when one more is added that matches them all.
LEMMA OneMoreChain ==
    ASSUME ChainsMatch, NEW x, Chains' \subseteq Chains \cup {x},
           \A d \in Chains : Match(x, d)
    PROVE  ChainsMatch'
  <1> SUFFICES ASSUME NEW c \in Chains', NEW d \in Chains'
               PROVE  Match(c, d)
    BY DEF ChainsMatch
  <1>1. CASE c = x /\ d = x
    BY <1>1, MatchReflexive
  <1>2. CASE c = x /\ d \in Chains
    BY <1>2
  <1>3. CASE c \in Chains /\ d = x
    BY <1>3, MatchSymmetric
  <1>4. CASE c \in Chains /\ d \in Chains
    BY <1>4 DEF ChainsMatch
  <1> QED
    BY <1>1, <1>2, <1>3, <1>4

-----------------------------------------------------------------------------
(***************************************************************************)
(* Leaderships                                                             *)
(***************************************************************************)

\* Only WinElection makes a leader, and a leader that stays one keeps its term.
LEMMA LeaderStays ==
    ASSUME TypeInv, ElectionInv, NEW n \in Node, NodeStep(n),
           NEW i \in Node, state'[i] = Leader
    PROVE  \/ state[i] = Leader /\ currentTerm'[i] = currentTerm[i]
           \/ i = n /\ WinElection(n)
  <1>1. /\ state \in [Node -> {Follower, Candidate, Leader}]
        /\ currentTerm \in [Node -> Term]
    BY DEF TypeInv, TypeOK
  <1>2. Follower # Leader /\ Candidate # Leader
    BY DEF Follower, Candidate, Leader
  <1>3. state[i] = Leader => pc[i] \in {"waiting", "leader"}
    BY DEF ElectionInv, RoleRecorded
  <1>4. CASE StartElection(n)
    <2>1. i # n \/ state[i] # Leader
      BY <1>3, <1>4 DEF StartElection
    <2> QED
      BY <2>1, <1>1, <1>4 DEF StartElection
  <1>5. CASE WinElection(n)
    BY <1>1, <1>5 DEF WinElection
  <1>6. CASE \E m \in voteReps : HandleVoteReply(n, m)
    BY <1>1, <1>2, <1>6 DEF HandleVoteReply
  <1>7. CASE \E m \in appReps : HandleAppendReply(n, m)
    BY <1>1, <1>2, <1>7 DEF HandleAppendReply
  <1>8. CASE \E m \in voteReqs : HandleRequestVote(n, m)
    BY <1>1, <1>2, <1>8 DEF HandleRequestVote
  <1>9. CASE \E m \in appReqs : HandleAppendEntries(n, m)
    BY <1>1, <1>2, <1>9 DEF HandleAppendEntries
  <1>10. CASE Crash(n)
    BY <1>1, <1>2, <1>10 DEF Crash
  <1>11. CASE FollowerTimeout(n) \/ LeaderStepsDown(n)
    BY <1>1, <1>2, <1>11 DEF FollowerTimeout, LeaderStepsDown
  <1>12. CASE \/ RunFollower(n) \/ ElectionEnds(n) \/ ElectionDone(n) \/ LeaderDone(n)
              \/ (\E p \in Peer(n) : SendAppend(n, p))
              \/ (\E m \in appReqs : RejectAppendEntries(n, m))
              \/ (\E c \in Cmd : Propose(n, c)) \/ Apply(n) \/ Boot(n)
    BY <1>12 DEF RunFollower, ElectionEnds, ElectionDone, LeaderDone, SendAppend,
                 RejectAppendEntries, Propose, Apply, Boot, nodeVars
  <1> QED
    BY <1>4, <1>5, <1>6, <1>7, <1>8, <1>9, <1>10, <1>11, <1>12 DEF NodeStep

\* No step but the loss of its process takes a node back to an earlier term.
LEMMA TermsGrow ==
    ASSUME TypeInv, NEW n \in Node, NodeStep(n), ~Crash(n), NEW i \in Node
    PROVE  currentTerm'[i] \in Nat /\ currentTerm[i] <= currentTerm'[i]
  <1> DEFINE Newer(t) == /\ t \in Nat /\ t >= currentTerm[n]
                         /\ currentTerm' = [currentTerm EXCEPT ![n] = t]
  <1>1. currentTerm \in [Node -> Nat]
    BY DEF TypeInv, TypeOK, Term
  <1>2. CASE StartElection(n)
    <2>1. Newer(currentTerm[n] + 1)
      BY <1>1, <1>2 DEF StartElection
    <2> QED
      BY <2>1, <1>1
  <1>3. ASSUME NEW m \in voteReps, HandleVoteReply(n, m)
        PROVE  UNCHANGED currentTerm \/ Newer(m.term)
    <2>1. m.term \in Nat
      BY DEF TypeInv, TypeOK, VoteRep, Term
    <2> QED
      BY <2>1, <1>1, <1>3 DEF HandleVoteReply
  <1>4. ASSUME NEW m \in appReps, HandleAppendReply(n, m)
        PROVE  UNCHANGED currentTerm \/ Newer(m.term)
    <2>1. m.term \in Nat
      BY DEF TypeInv, TypeOK, AppRep, Term
    <2> QED
      BY <2>1, <1>1, <1>4 DEF HandleAppendReply
  <1>5. ASSUME NEW m \in voteReqs, HandleRequestVote(n, m)
        PROVE  Newer(currentTerm[n]) \/ Newer(m.term)
    <2>1. m.term \in Nat
      BY DEF TypeInv, TypeOK, VoteReq, Term
    <2>2. currentTerm' = [currentTerm EXCEPT ![n] =
             IF m.term > currentTerm[n] THEN m.term ELSE currentTerm[n]]
      BY <1>5 DEF HandleRequestVote
    <2>3. CASE m.term > currentTerm[n]
      BY <2>1, <2>2, <2>3, <1>1
    <2>4. CASE ~(m.term > currentTerm[n])
      BY <2>2, <2>4, <1>1
    <2> QED
      BY <2>3, <2>4
  <1>6. ASSUME NEW m \in appReqs, HandleAppendEntries(n, m)
        PROVE  Newer(m.term)
    <2>1. m.term \in Nat
      BY DEF TypeInv, TypeOK, AppReq, Term
    <2> QED
      BY <2>1, <1>1, <1>6 DEF HandleAppendEntries
  <1>7. CASE \/ FollowerTimeout(n) \/ RunFollower(n) \/ WinElection(n) \/ ElectionEnds(n)
             \/ ElectionDone(n) \/ (\E p \in Peer(n) : SendAppend(n, p))
             \/ LeaderStepsDown(n) \/ LeaderDone(n)
             \/ (\E m \in appReqs : RejectAppendEntries(n, m))
             \/ (\E c \in Cmd : Propose(n, c)) \/ Apply(n) \/ Boot(n)
    <2>1. UNCHANGED currentTerm
      BY <1>7 DEF FollowerTimeout, RunFollower, WinElection, ElectionEnds, ElectionDone,
                  SendAppend, LeaderStepsDown, LeaderDone, RejectAppendEntries, Propose,
                  Apply, Boot, nodeVars
    <2> QED
      BY <2>1, <1>1
  <1>8. ASSUME NEW t, Newer(t)
        PROVE  currentTerm'[i] \in Nat /\ currentTerm[i] <= currentTerm'[i]
    BY <1>1, <1>8
  <1>9. ASSUME UNCHANGED currentTerm
        PROVE  currentTerm'[i] \in Nat /\ currentTerm[i] <= currentTerm'[i]
    BY <1>1, <1>9
  <1> HIDE DEF Newer
  <1> QED
    BY <1>2, <1>3, <1>4, <1>5, <1>6, <1>7, <1>8, <1>9 DEF NodeStep

\* A node does not win twice: the term of its next election is a new one.
LEMMA NoSecondWinStep ==
    ASSUME TypeInv, NoSecondWin, NEW n \in Node, NodeStep(n)
    PROVE  NoSecondWin'
  <1>1. /\ elecTerm \in [Node -> Nat] /\ currentTerm \in [Node -> Nat]
        /\ pc \in [Node -> Place] /\ used \in [Bound -> Nat]
        /\ \A l \in leaders : l.elected \in Nat
    BY DEF TypeInv, TypeOK, Term
  <1>2. CASE Crash(n)
    <2>1. used'["crashes"] = used["crashes"] + 1
      BY <1>1, <1>2 DEF Crash, Spend, Bound
    <2> QED
      BY <2>1, <1>1 DEF NoSecondWin, Bound
  <1>3. CASE ~Crash(n)
    <2> SUFFICES ASSUME used'["crashes"] = 0, NEW i \in Node
                 PROVE  /\ elecTerm'[i] <= currentTerm'[i]
                        /\ \A l \in leaders' : l.node = i =>
                              /\ l.elected <= elecTerm'[i]
                              /\ pc'[i] = "electing" => l.elected < elecTerm'[i]
      BY DEF NoSecondWin
    <2>1. used["crashes"] = 0
      <3>1. \/ UNCHANGED used
            \/ \E b \in Bound \ {"crashes"}, max \in Nat : Spend(b, max)
        BY <1>3, BoundAssumption
           DEF NodeStep, FollowerTimeout, RunFollower, StartElection,
             HandleVoteReply, WinElection, ElectionEnds, ElectionDone, SendAppend,
             HandleAppendReply, LeaderStepsDown, LeaderDone, HandleRequestVote,
             RejectAppendEntries, HandleAppendEntries, Propose, Apply, Boot, Bound
      <3> QED
        BY <3>1, <1>1 DEF Spend, Bound
    <2>2. /\ elecTerm[i] <= currentTerm[i]
          /\ \A l \in leaders : l.node = i =>
                /\ l.elected <= elecTerm[i]
                /\ pc[i] = "electing" => l.elected < elecTerm[i]
      BY <2>1 DEF NoSecondWin
    <2>3. CASE StartElection(n)
      <3>1. /\ leaders' = leaders
            /\ elecTerm' = [elecTerm EXCEPT ![n] = currentTerm[n] + 1]
            /\ currentTerm' = [currentTerm EXCEPT ![n] = currentTerm[n] + 1]
            /\ pc' = [pc EXCEPT ![n] = "electing"]
        BY <2>3 DEF StartElection
      <3> QED
        BY <3>1, <2>2, <1>1
    <2>4. CASE WinElection(n)
      <3>1. /\ leaders' = leaders \cup {[node |-> n, term |-> currentTerm[n],
                                          elected |-> elecTerm[n]]}
            /\ UNCHANGED <<elecTerm, currentTerm>>
            /\ pc' = [pc EXCEPT ![n] = "waiting"]
        BY <2>4 DEF WinElection
      <3> QED
        BY <3>1, <2>2, <1>1
    <2>5. CASE ~StartElection(n) /\ ~WinElection(n)
      <3>1. UNCHANGED <<leaders, elecTerm>>
        BY <1>3, <2>5
           DEF NodeStep, FollowerTimeout, RunFollower,
             HandleVoteReply, ElectionEnds, ElectionDone, SendAppend,
             HandleAppendReply, LeaderStepsDown, LeaderDone, HandleRequestVote,
             RejectAppendEntries, HandleAppendEntries, Propose, Apply, Boot, histVars,
             runVars
      <3>2. pc'[i] = "electing" => pc[i] = "electing"
        <4>1. state \in [Node -> {Follower, Candidate, Leader}]
          BY DEF TypeInv, TypeOK
        <4>2. ElectionDone(n) => pc' = [pc EXCEPT ![n] = state[n]]
          BY DEF ElectionDone
        <4> QED
          BY <1>1, <1>3, <2>5, <4>1, <4>2
             DEF NodeStep, FollowerTimeout, RunFollower,
             HandleVoteReply, ElectionEnds, SendAppend,
             HandleAppendReply, LeaderStepsDown, LeaderDone, HandleRequestVote,
             RejectAppendEntries, HandleAppendEntries, Propose, Apply, Boot,
             runVars, Follower, Candidate, Leader
      <3>3. currentTerm'[i] \in Nat /\ currentTerm[i] <= currentTerm'[i]
        BY <1>3, TermsGrow
      <3> QED
        BY <3>1, <3>2, <3>3, <2>2, <1>1
    <2> QED
      BY <2>3, <2>4, <2>5
  <1> QED
    BY <1>2, <1>3

-----------------------------------------------------------------------------
(***************************************************************************)
(* The steps                                                               *)
(***************************************************************************)

\* A chain made of entries that were there before adds nothing to own.
LEMMA OldEntriesOwned ==
    ASSUME Owned, leaders \subseteq leaders', NEW x, Chains' \subseteq Chains \cup {x},
           \A k \in Nat : Holds(x, k) => \E c \in Chains : Holds(c, k) /\ c.at[k] = x.at[k]
    PROVE  Owned'
  <1> SUFFICES ASSUME NEW c \in Chains', NEW k \in Nat, Holds(c, k)
               PROVE  \E l \in leaders' : l.term = c.at[k].term
    BY DEF Owned
  <1>1. \E d \in Chains : Holds(d, k) /\ d.at[k] = c.at[k]
    OBVIOUS
  <1> QED
    BY <1>1 DEF Owned

\* Nor does it add anything to hold, while leaders keep their logs.
LEMMA OldEntriesHeld ==
    ASSUME LeaderHolds, NEW x, Chains' \subseteq Chains \cup {x},
           \A k \in Nat : Holds(x, k) => \E c \in Chains : Holds(c, k) /\ c.at[k] = x.at[k],
           \A i \in Node : state'[i] = Leader =>
                /\ state[i] = Leader /\ currentTerm'[i] = currentTerm[i]
                /\ log'[i] = log[i]
    PROVE  LeaderHolds'
  <1> SUFFICES ASSUME NEW i \in Node, state'[i] = Leader, NEW c \in Chains',
                      NEW k \in Nat, Holds(c, k), c.at[k].term = currentTerm'[i]
               PROVE  Holds(LogChain(log'[i]), k) /\ log'[i][k + 1].term = currentTerm'[i]
    BY DEF LeaderHolds
  <1>1. \E d \in Chains : Holds(d, k) /\ d.at[k] = c.at[k]
    OBVIOUS
  <1> QED
    BY <1>1 DEF LeaderHolds

\* A step that leaves logs and requests alone and makes no leader.
LEMMA QuietKeeps ==
    ASSUME TypeInv, ReplInv, ElectionsSound' => ElectionsSound,
           UNCHANGED <<log, appReqs>>, leaders \subseteq leaders',
           \A i \in Node : state'[i] = Leader =>
                state[i] = Leader /\ currentTerm'[i] = currentTerm[i]
    PROVE  Rooted' /\ Owned' /\ (ElectionsSound' => LeaderHolds' /\ ChainsMatch')
  <1>1. Chains' = Chains
    BY DEF Chains
  <1>2. Rooted' /\ Owned'
    BY <1>1 DEF ReplInv, Rooted, Owned
  <1>3. ElectionsSound' => ChainsMatch'
    BY <1>1 DEF ReplInv, ChainsMatch
  <1>4. ElectionsSound' => LeaderHolds'
    <2> SUFFICES ASSUME ElectionsSound, NEW i \in Node, state'[i] = Leader,
                        NEW c \in Chains, NEW k \in Nat,
                        Holds(c, k), c.at[k].term = currentTerm'[i]
                 PROVE  Holds(LogChain(log'[i]), k) /\ log'[i][k + 1].term = currentTerm'[i]
      BY <1>1 DEF LeaderHolds
    <2> QED
      BY DEF ReplInv, LeaderHolds
  <1> QED
    BY <1>2, <1>3, <1>4

\* A new leader has nothing to hold: nobody led its term before.
LEMMA WinKeeps ==
    ASSUME TypeInv, ElectionInv, ReplInv, ElectionsSound' => ElectionsSound,
           NEW n \in Node, WinElection(n)
    PROVE  Rooted' /\ Owned' /\ (ElectionsSound' => LeaderHolds' /\ ChainsMatch')
  <1> DEFINE w == [node |-> n, term |-> currentTerm[n], elected |-> elecTerm[n]]
  <1>1. /\ UNCHANGED <<log, appReqs, currentTerm>> /\ leaders' = leaders \cup {w}
        /\ state' = [state EXCEPT ![n] = Leader] /\ pc[n] = "electing"
    BY DEF WinElection, netVars
  <1>2. Chains' = Chains
    BY <1>1 DEF Chains
  <1>3. Rooted' /\ Owned'
    BY <1>1, <1>2 DEF ReplInv, Rooted, Owned
  <1>4. ElectionsSound' => ChainsMatch'
    BY <1>2 DEF ReplInv, ChainsMatch
  <1>5. ASSUME ElectionsSound', NEW c \in Chains, NEW k \in Nat, Holds(c, k)
        PROVE  c.at[k].term # currentTerm[n]
    <2> SUFFICES ASSUME c.at[k].term = currentTerm[n] PROVE FALSE
      OBVIOUS
    <2>1. PICK l \in leaders : l.term = currentTerm[n]
      BY <1>5 DEF ReplInv, Owned
    <2>2. l \in leaders' /\ w \in leaders' /\ w.term = l.term
      BY <1>1, <2>1
    <2>3. l.node = w.node /\ l.elected = l.term /\ w.elected = w.term
      BY <1>5, <2>2 DEF ElectionsSound, ElectedInTerm
    <2>4. l.node = n /\ l.elected = elecTerm[n]
      BY <2>1, <2>3
    <2>5. used["crashes"] = 0
      BY <1>5 DEF ElectionsSound
    <2>6. l.elected < elecTerm[n]
      BY <2>4, <2>5, <1>1 DEF ReplInv, NoSecondWin
    <2>7. elecTerm[n] \in Nat
      BY DEF TypeInv, TypeOK, Term
    <2> QED
      BY <2>4, <2>6, <2>7
  <1>6. ASSUME ElectionsSound' PROVE LeaderHolds'
    <2> SUFFICES ASSUME NEW i \in Node, state'[i] = Leader,
                        NEW c \in Chains, NEW k \in Nat,
                        Holds(c, k), c.at[k].term = currentTerm[i]
                 PROVE  Holds(LogChain(log[i]), k) /\ log[i][k + 1].term = currentTerm[i]
      BY <1>1, <1>2 DEF LeaderHolds
    <2>1. i # n
      BY <1>5, <1>6
    <2>2. state[i] = Leader
      BY <1>1, <2>1 DEF TypeInv, TypeOK
    <2> QED
      BY <2>2, <1>6 DEF ReplInv, LeaderHolds
  <1> QED
    BY <1>3, <1>4, <1>6

\* sendAppend sends a part of the leader's log.
LEMMA SendKeeps ==
    ASSUME TypeInv, ReplInv, ElectionsSound' => ElectionsSound,
           NEW n \in Node, NEW p \in Peer(n), SendAppend(n, p)
    PROVE  Rooted' /\ Owned' /\ (ElectionsSound' => LeaderHolds' /\ ChainsMatch')
  <1> DEFINE next == IF nextIndex[n][p] <= FirstIndex(log[n])
                     THEN FirstIndex(log[n]) + 1
                     ELSE nextIndex[n][p]
             entries == EntriesFrom(log[n], next)
             req == [src |-> n, dst |-> p, term |-> currentTerm[n],
                     prevIdx |-> next - 1,
                     prevTerm |-> TermAt(log[n], next - 1),
                     entries |-> entries, commit |-> commitIndex[n]]
             x == ReqChain(req)
             c == LogChain(log[n])
  <1>1. /\ appReqs' = appReqs \cup {req}
        /\ UNCHANGED <<log, leaders, state, currentTerm>>
    BY DEF SendAppend, histVars
  <1>2. /\ LogFrom0(log[n], Slot) /\ FirstIndex(log[n]) = 0
        /\ Len(log[n]) \in Nat /\ Len(log[n]) > 0
    BY LogTypes
  <1>3. next \in Nat /\ next >= 1
    <2>1. nextIndex[n][p] \in Nat
      BY DEF TypeInv, TypeOK, Index, Peer
    <2> QED
      BY <2>1, <1>2
  <1>4. req \in AppReq
    <2>1. TypeInv'
      BY SendAppendType
    <2> QED
      BY <2>1, <1>1 DEF TypeInv, TypeOK
  <1>5. /\ Len(entries) \in Nat
        /\ \A k \in 1..Len(entries) : /\ next + k \in 2..Len(log[n])
                                        /\ entries[k] = log[n][next + k]
    BY <1>2, <1>3, EntriesFromShape
  <1>6. /\ IsChain(c) /\ c.base = 0 /\ c.prev = log[n][1].term
        /\ c.top = Len(log[n]) - 1
        /\ \A k \in Nat : Holds(c, k) => c.at[k] = log[n][k + 1]
    BY <1>2, LogChainFields
  <1>7. /\ IsChain(x) /\ x.base = next - 1 /\ x.prev = TermAt(log[n], next - 1)
        /\ x.top = next - 1 + Len(entries)
        /\ \A k \in Nat : Holds(x, k) => /\ k - (next - 1) \in 1..Len(entries)
                                          /\ x.at[k] = entries[k - (next - 1)]
    <2>1. req.prevIdx = next - 1 /\ req.prevTerm = TermAt(log[n], next - 1)
             /\ req.entries = entries
      OBVIOUS
    <2> HIDE DEF req
    <2> QED
      BY <2>1, <1>4, ReqChainFields
  <1>8. Chains' = Chains \cup {x}
    BY <1>1 DEF Chains
  <1>9. c \in Chains
    BY DEF Chains
  <1>t. \A i \in 0..(Len(log[n]) - 1) : TermAt(log[n], i) = log[n][i + 1].term
    BY <1>2, LogFrom0Lookups
  <1> HIDE DEF x, c, req, entries, next
  <1>10. \A k \in Nat : Holds(x, k) => Holds(c, k) /\ x.at[k] = c.at[k]
    <2> SUFFICES ASSUME NEW k \in Nat, Holds(x, k)
                 PROVE  Holds(c, k) /\ x.at[k] = c.at[k]
      OBVIOUS
    <2>1. k - (next - 1) \in 1..Len(entries) /\ x.at[k] = entries[k - (next - 1)]
      BY <1>7
    <2>2. next + (k - (next - 1)) = k + 1
      BY <1>3
    <2>3. k + 1 \in 2..Len(log[n]) /\ x.at[k] = log[n][k + 1]
      BY <2>1, <2>2, <1>5
    <2>4. Holds(c, k)
      BY <2>3, <1>2, <1>6 DEF Holds
    <2> QED
      BY <2>3, <2>4, <1>6
  <1>11. x.base < x.top => x.top <= c.top /\ x.prev = TermIn(c, x.base)
    <2> SUFFICES ASSUME x.base < x.top
                 PROVE  x.top <= c.top /\ x.prev = TermIn(c, x.base)
      OBVIOUS
    <2>1. Holds(x, x.top)
      BY <1>7 DEF Holds, IsChain
    <2>2. x.top <= c.top
      BY <2>1, <1>7, <1>10 DEF Holds, IsChain
    <2>3. x.base \in 0..(Len(log[n]) - 1)
      BY <2>2, <1>2, <1>6, <1>7 DEF IsChain
    <2>4. x.prev = log[n][x.base + 1].term
      BY <2>3, <1>7, <1>t
    <2>5. CASE x.base = 0
      BY <2>2, <2>4, <2>5, <1>6 DEF TermIn
    <2>6. CASE x.base # 0
      <3>1. Holds(c, x.base)
        BY <2>3, <2>6, <1>2, <1>6 DEF Holds
      <3>2. c.at[x.base] = log[n][x.base + 1]
        BY <3>1, <2>3, <1>6
      <3> QED
        BY <3>2, <2>2, <2>4, <2>6, <1>6 DEF TermIn
    <2> QED
      BY <2>5, <2>6
  <1>12. Rooted'
    BY <1>1 DEF ReplInv, Rooted
  <1>13. Owned'
    <2>1. \A k \in Nat : Holds(x, k) => \E d \in Chains : Holds(d, k) /\ d.at[k] = x.at[k]
      BY <1>9, <1>10
    <2> QED
      BY <2>1, <1>1, <1>8, OldEntriesOwned DEF ReplInv
  <1>14. ASSUME ElectionsSound' PROVE LeaderHolds' /\ ChainsMatch'
    <2>1. LeaderHolds /\ ChainsMatch
      BY <1>14 DEF ReplInv
    <2>2. LeaderHolds'
      <3>1. \A k \in Nat : Holds(x, k) => \E d \in Chains : Holds(d, k) /\ d.at[k] = x.at[k]
        BY <1>9, <1>10
      <3> QED
        BY <2>1, <3>1, <1>1, <1>8, OldEntriesHeld
    <2>3. ASSUME NEW d \in Chains PROVE Match(x, d)
      <3>1. IsChain(d) /\ Match(c, d)
        BY <2>1, <1>9, ChainsAre DEF ChainsMatch
      <3>2. c.base <= x.base
        BY <1>6, <1>7 DEF IsChain
      <3> QED
        BY <3>1, <3>2, <1>6, <1>7, <1>10, <1>11, SliceMatches
    <2> QED
      BY <2>1, <2>2, <2>3, <1>8, OneMoreChain
  <1> QED
    BY <1>12, <1>13, <1>14

\* What rules 3 and 4 make of the log of node n.
LEMMA AppendSplices ==
    ASSUME TypeInv, NEW n \in Node, NEW m \in appReqs, HandleAppendEntries(n, m)
    PROVE  /\ \A i \in Node \ {n} : log'[i] = log[i]
           /\ \/ log'[n] = log[n]
              \/ /\ Consistent(log[n], m.prevIdx, m.prevTerm)
                 /\ Appended(Slot, log[n], m.prevIdx, m.entries, log'[n])
  <1> DEFINE ok == Consistent(log[n], m.prevIdx, m.prevTerm)
  <1>1. log' = [log EXCEPT ![n] =
                   IF ok THEN AppendAll(log[n], m.prevIdx, m.entries) ELSE log[n]]
    BY DEF HandleAppendEntries
  <1>2. /\ LogFrom0(log[n], Slot) /\ m \in AppReq
        /\ log \in [Node -> Seq(Entry \cup {Placeholder})]
    BY LogTypes DEF TypeInv, TypeOK
  <1>3. CASE ok
    <2>1. log'[n] = AppendAll(log[n], m.prevIdx, m.entries)
      BY <1>1, <1>2, <1>3
    <2>2. m.prevIdx \in Nat /\ m.prevIdx <= LastIndex(log[n])
      BY <1>2, <1>3 DEF AppReq, Index, Consistent
    <2>3. BatchAfter(m.entries, m.prevIdx, Slot)
      BY DEF TypeInv, RequestsOK, BatchAfter, Slot
    <2>4. Appended(Slot, log[n], m.prevIdx, m.entries, log'[n])
      BY <2>1, <2>2, <2>3, <1>2, AppendAllShape
    <2> QED
      BY <2>4, <1>1, <1>2, <1>3
  <1>4. CASE ~ok
    BY <1>1, <1>2, <1>4
  <1> QED
    BY <1>3, <1>4

\* HandleAppendEntries continues the log by the request where they part.
LEMMA AppendKeeps ==
    ASSUME TypeInv, ReplInv, ElectionsSound' => ElectionsSound,
           NEW n \in Node, NEW m \in appReqs, HandleAppendEntries(n, m)
    PROVE  Rooted' /\ Owned' /\ (ElectionsSound' => LeaderHolds' /\ ChainsMatch')
  <1> DEFINE l == LogChain(log[n])
             r == ReqChain(m)
             x == LogChain(log'[n])
  <1>1. /\ UNCHANGED <<appReqs, leaders>>
        /\ state' = [state EXCEPT ![n] = Follower]
        /\ currentTerm' = [currentTerm EXCEPT ![n] = m.term]
    BY DEF HandleAppendEntries
  <1>2. \A i \in Node \ {n} : log'[i] = log[i]
    BY AppendSplices
  <1>3. \A i \in Node : state'[i] = Leader =>
            /\ state[i] = Leader /\ currentTerm'[i] = currentTerm[i] /\ log'[i] = log[i]
    BY <1>1, <1>2 DEF TypeInv, TypeOK, Follower, Leader
  <1>4. Chains' \subseteq Chains \cup {x}
    BY <1>1, <1>2 DEF Chains
  <1>5. l \in Chains /\ r \in Chains
    BY DEF Chains
  <1>6. CASE log'[n] = log[n]
    <2>1. \A i \in Node : log'[i] = log[i]
      BY <1>2, <1>6
    <2>2. Chains' = Chains
      BY <2>1, <1>1 DEF Chains
    <2>3. Rooted' /\ Owned'
      BY <2>1, <2>2, <1>1 DEF ReplInv, Rooted, Owned
    <2>4. ASSUME ElectionsSound' PROVE LeaderHolds' /\ ChainsMatch'
      <3>1. LeaderHolds /\ ChainsMatch
        BY <2>4 DEF ReplInv
      <3>2. \A k \in Nat : Holds(l, k) => \E d \in Chains : Holds(d, k) /\ d.at[k] = l.at[k]
        BY <1>5
      <3>3. LeaderHolds'
        BY <2>2, <3>1, <3>2, <1>3, OldEntriesHeld
      <3> QED
        BY <2>2, <3>1, <3>3 DEF ChainsMatch
    <2> QED
      BY <2>3, <2>4
  <1>7. CASE log'[n] # log[n]
    <2>1. /\ Consistent(log[n], m.prevIdx, m.prevTerm)
          /\ Appended(Slot, log[n], m.prevIdx, m.entries, log'[n])
      BY <1>7, AppendSplices
    <2>2. PICK k \in 1..Len(m.entries) :
            /\ m.prevIdx + k <= Len(log[n])
            /\ Len(log'[n]) = m.prevIdx + Len(m.entries) + 1
            /\ \A j \in 1..(m.prevIdx + k) : log'[n][j] = log[n][j]
            /\ \A j \in (m.prevIdx + k + 1)..Len(log'[n]) :
                    log'[n][j] = m.entries[j - m.prevIdx - 1]
            /\ \A j \in 1..(k - 1) : log[n][m.prevIdx + j + 1].term = m.entries[j].term
      BY <2>1, <1>7 DEF Appended
    <2>3. /\ m \in AppReq /\ m.prevIdx \in Nat /\ Len(m.entries) \in Nat
          /\ Len(log[n]) \in Nat /\ Len(log[n]) > 0 /\ LogFrom0(log[n], Slot)
      <3>1. m \in AppReq
        BY DEF TypeInv, TypeOK
      <3>2. m.prevIdx \in Nat /\ Len(m.entries) \in Nat
        BY <3>1 DEF AppReq, Index
      <3> QED
        BY <3>1, <3>2, LogTypes
    <2>4. LogFrom0(log'[n], Slot)
      <3>1. TypeInv'
        BY HandleAppendEntriesType
      <3> QED
        BY <3>1 DEF TypeInv, LogOK
    <2>5. /\ IsChain(l) /\ l.base = 0 /\ l.prev = log[n][1].term /\ l.top = Len(log[n]) - 1
          /\ \A j \in Nat : Holds(l, j) => l.at[j] = log[n][j + 1]
      BY <2>3, LogChainFields
    <2>6. /\ IsChain(x) /\ x.base = 0 /\ x.prev = log'[n][1].term
          /\ x.top = Len(log'[n]) - 1
          /\ \A j \in Nat : Holds(x, j) => x.at[j] = log'[n][j + 1]
      BY <2>4, LogChainFields
    <2>7. /\ IsChain(r) /\ r.base = m.prevIdx /\ r.prev = m.prevTerm
          /\ r.top = m.prevIdx + Len(m.entries)
          /\ \A j \in Nat : Holds(r, j) => r.at[j] = m.entries[j - m.prevIdx]
      BY <2>3, ReqChainFields
    <2>8. /\ FirstIndex(log[n]) = 0
          /\ \A i \in 0..(Len(log[n]) - 1) : TermAt(log[n], i) = log[n][i + 1].term
      BY <2>3, LogFrom0Lookups
    <2> DEFINE cut == m.prevIdx + k - 1
    <2> HIDE DEF l, r, x
    <2>b. /\ k \in Nat /\ 1 <= k /\ k <= Len(m.entries) /\ m.prevIdx + k <= Len(log[n])
          /\ Len(log'[n]) = m.prevIdx + Len(m.entries) + 1
      BY <2>2, <2>3
    <2>9. /\ cut \in Nat /\ r.base <= cut /\ cut <= l.top /\ cut < r.top /\ x.top = r.top
      <3>1. l.top = Len(log[n]) - 1 /\ x.top = Len(log'[n]) - 1
        BY <2>5, <2>6
      <3>2. r.base = m.prevIdx /\ r.top = m.prevIdx + Len(m.entries)
        BY <2>7
      <3>3. m.prevIdx \in Nat /\ Len(m.entries) \in Nat /\ Len(log[n]) \in Nat
        BY <2>3
      <3> QED
        BY ONLY SMTT(30), <2>b, <3>1, <3>2, <3>3
    <2>10. \A j \in Nat : 0 < j /\ j <= cut => Holds(l, j) /\ Holds(x, j) /\ x.at[j] = l.at[j]
      <3> SUFFICES ASSUME NEW j \in Nat, 0 < j, j <= cut
                   PROVE  Holds(l, j) /\ Holds(x, j) /\ x.at[j] = l.at[j]
        OBVIOUS
      <3>1. Holds(l, j) /\ Holds(x, j)
        BY <2>5, <2>6, <2>7, <2>9 DEF Holds, IsChain
      <3>2. j + 1 \in 1..(m.prevIdx + k)
        BY <2>2, <2>3
      <3> QED
        BY <3>1, <3>2, <2>2, <2>5, <2>6
    <2>11. \A j \in Nat : cut < j /\ j <= r.top =>
                Holds(r, j) /\ Holds(x, j) /\ x.at[j] = r.at[j]
      <3> SUFFICES ASSUME NEW j \in Nat, cut < j, j <= r.top
                   PROVE  Holds(r, j) /\ Holds(x, j) /\ x.at[j] = r.at[j]
        OBVIOUS
      <3>1. Holds(r, j) /\ Holds(x, j)
        BY <2>6, <2>7, <2>9 DEF Holds, IsChain
      <3>2. j + 1 \in (m.prevIdx + k + 1)..Len(log'[n])
        <4>1. m.prevIdx \in Nat /\ Len(m.entries) \in Nat /\ r.top = m.prevIdx + Len(m.entries)
          BY <2>3, <2>7
        <4> QED
          BY ONLY <2>b, <4>1, cut < j, j <= r.top, j \in Nat
      <3>3. log'[n][j + 1] = m.entries[(j + 1) - m.prevIdx - 1]
        BY <3>2, <2>2
      <3>4. (j + 1) - m.prevIdx - 1 = j - m.prevIdx
        BY <2>3
      <3> QED
        BY <3>1, <3>3, <3>4, <2>6, <2>7
    <2>12. \A j \in Nat : r.base < j /\ j <= cut => l.at[j].term = r.at[j].term
      <3> SUFFICES ASSUME NEW j \in Nat, r.base < j, j <= cut
                   PROVE  l.at[j].term = r.at[j].term
        OBVIOUS
      <3>1. Holds(r, j) /\ Holds(l, j)
        BY SMTT(30), <2>5, <2>7, <2>9 DEF Holds, IsChain
      <3>2. j - m.prevIdx \in 1..(k - 1) /\ m.prevIdx + (j - m.prevIdx) + 1 = j + 1
        BY SMTT(30), <2>2, <2>3, <2>7
      <3>3. log[n][j + 1].term = m.entries[j - m.prevIdx].term
        BY <3>2, <2>2
      <3> QED
        BY <3>1, <3>3, <2>5, <2>7
    <2>13. log'[n][1] = log[n][1] /\ x.prev = l.prev
      <3>1. 1 \in 1..(m.prevIdx + k)
        BY <2>2, <2>3
      <3> QED
        BY <3>1, <2>2, <2>5, <2>6
    <2>14. TermIn(l, r.base) = r.prev
      <3>1. TermAt(log[n], m.prevIdx) = m.prevTerm
        BY <2>1, <2>3, <2>8 DEF Consistent
      <3>2. m.prevIdx \in 0..(Len(log[n]) - 1)
        BY <2>5, <2>7, <2>9, <2>3
      <3>3. log[n][m.prevIdx + 1].term = m.prevTerm
        BY <3>1, <3>2, <2>8
      <3>4. CASE m.prevIdx = 0
        BY <3>3, <3>4, <2>5, <2>7 DEF TermIn
      <3>5. CASE m.prevIdx # 0
        <4>1. Holds(l, m.prevIdx)
          BY <3>2, <3>5, <2>3, <2>5 DEF Holds
        <4> QED
          BY <4>1, <3>3, <3>5, <2>3, <2>5, <2>7 DEF TermIn
      <3> QED
        BY <3>4, <3>5
    <2>15. \A j \in Nat : Holds(x, j) => \E d \in Chains : Holds(d, j) /\ d.at[j] = x.at[j]
      <3> SUFFICES ASSUME NEW j \in Nat, Holds(x, j)
                   PROVE  \E d \in Chains : Holds(d, j) /\ d.at[j] = x.at[j]
        OBVIOUS
      <3>1. 0 < j /\ j <= r.top
        BY <2>6, <2>9 DEF Holds
      <3>2. CASE j <= cut
        BY <3>1, <3>2, <2>10, <1>5
      <3>3. CASE cut < j
        BY <3>1, <3>3, <2>11, <1>5
      <3> QED
        BY <3>2, <3>3, <2>9
    <2>16. Rooted'
      BY <2>13, <1>2 DEF ReplInv, Rooted
    <2>17. Owned'
      BY <2>15, <1>1, <1>4, OldEntriesOwned DEF ReplInv
    <2>18. ASSUME ElectionsSound' PROVE LeaderHolds' /\ ChainsMatch'
      <3>1. LeaderHolds /\ ChainsMatch
        BY <2>18 DEF ReplInv
      <3>2. LeaderHolds'
        BY <3>1, <2>15, <1>3, <1>4, OldEntriesHeld
      <3>3. ASSUME NEW d \in Chains PROVE Match(x, d)
        <4>1. IsChain(d) /\ Match(l, d) /\ Match(r, d) /\ Match(r, l)
          BY <3>1, <1>5, ChainsAre DEF ChainsMatch
        <4>2. /\ \A j \in Nat : 0 < j /\ j <= cut => x.at[j] = l.at[j]
              /\ \A j \in Nat : cut < j /\ j <= r.top => x.at[j] = r.at[j]
          BY <2>10, <2>11
        <4> HIDE DEF cut
        <4> QED
          BY <4>1, <4>2, <2>5, <2>6, <2>7, <2>9, <2>12, <2>13, <2>14, SpliceMatches
      <3> QED
        BY <3>1, <3>2, <3>3, <1>4, OneMoreChain
    <2> QED
      BY <2>16, <2>17, <2>18
  <1> QED
    BY <1>6, <1>7

\* Two leaders are of different terms.
LEMMA OneLeaderPerTerm ==
    ASSUME ElectionInv, ElectionsSound, NEW i \in Node, NEW j \in Node,
           state[i] = Leader, state[j] = Leader, currentTerm[i] = currentTerm[j]
    PROVE  i = j
  <1>1. PICK k \in leaders : k.node = i /\ k.term = currentTerm[i]
    BY DEF ElectionInv, RoleRecorded
  <1>2. PICK l \in leaders : l.node = j /\ l.term = currentTerm[j]
    BY DEF ElectionInv, RoleRecorded
  <1> QED
    BY <1>1, <1>2 DEF ElectionsSound

\* What Propose makes of the log of node n.
LEMMA ProposeAppends ==
    ASSUME TypeInv, NEW n \in Node, NEW c \in Cmd, Propose(n, c)
    PROVE  /\ \A i \in Node \ {n} : log'[i] = log[i]
           /\ Len(log'[n]) = Len(log[n]) + 1
           /\ \A k \in 1..Len(log[n]) : log'[n][k] = log[n][k]
           /\ log'[n][Len(log[n]) + 1].term = currentTerm[n]
  <1> DEFINE e == [term |-> currentTerm[n], index |-> LastIndex(log[n]) + 1, cmd |-> c]
  <1>1. log' = [log EXCEPT ![n] = Append(log[n], e)]
    BY DEF Propose
  <1>2. log \in [Node -> Seq(Slot)] /\ log[n] \in Seq(Slot)
    BY DEF TypeInv, TypeOK, Slot
  <1>3. e \in Slot /\ e.term = currentTerm[n]
    <2>1. LastIndex(log[n]) + 1 \in Nat /\ currentTerm[n] \in Nat
      <3>1. LastIndex(log[n]) \in Nat
        BY LogTypes
      <3>2. currentTerm[n] \in Nat
        BY DEF TypeInv, TypeOK, Term
      <3> QED
        BY <3>1, <3>2
    <2> QED
      BY <2>1 DEF Slot, Entry, Term, Index
  <1> HIDE DEF e
  <1>4. log'[n] = Append(log[n], e) /\ \A i \in Node \ {n} : log'[i] = log[i]
    BY <1>1, <1>2
  <1> QED
    BY <1>2, <1>3, <1>4, AppendProperties

\* Propose adds an entry where no entry of its term can be.
LEMMA ProposeKeeps ==
    ASSUME TypeInv, ElectionInv, ReplInv, ElectionsSound' => ElectionsSound,
           NEW n \in Node, NEW cmd \in Cmd, Propose(n, cmd)
    PROVE  Rooted' /\ Owned' /\ (ElectionsSound' => LeaderHolds' /\ ChainsMatch')
  <1> DEFINE c == LogChain(log[n])
             x == LogChain(log'[n])
             T == currentTerm[n]
  <1>1. /\ UNCHANGED <<appReqs, leaders, state, currentTerm>> /\ state[n] = Leader
    BY DEF Propose, MayPropose, netVars, histVars
  <1>2. /\ \A i \in Node \ {n} : log'[i] = log[i]
        /\ Len(log'[n]) = Len(log[n]) + 1
        /\ \A k \in 1..Len(log[n]) : log'[n][k] = log[n][k]
        /\ log'[n][Len(log[n]) + 1].term = T
    BY ProposeAppends
  <1>3. LogFrom0(log[n], Slot) /\ Len(log[n]) \in Nat /\ Len(log[n]) > 0
    BY LogTypes
  <1>4. LogFrom0(log'[n], Slot)
    <2>1. TypeInv'
      BY ProposeType
    <2> QED
      BY <2>1 DEF TypeInv, LogOK
  <1>5. /\ IsChain(c) /\ c.base = 0 /\ c.prev = log[n][1].term /\ c.top = Len(log[n]) - 1
        /\ \A k \in Nat : Holds(c, k) => k + 1 \in 2..Len(log[n]) /\ c.at[k] = log[n][k + 1]
    BY <1>3, LogChainFields
  <1>6. /\ IsChain(x) /\ x.base = 0 /\ x.prev = log'[n][1].term
        /\ x.top = Len(log'[n]) - 1
        /\ \A k \in Nat : Holds(x, k) => x.at[k] = log'[n][k + 1]
    BY <1>4, LogChainFields
  <1>7. Chains' \subseteq Chains \cup {x} /\ c \in Chains
    BY <1>1, <1>2 DEF Chains
  <1> HIDE DEF c, x, T
  <1>8. /\ x.prev = c.prev /\ x.top = c.top + 1 /\ x.top \in Nat
        /\ Holds(x, x.top) /\ x.at[x.top].term = T
    <2>1. x.top = Len(log[n]) /\ c.top = Len(log[n]) - 1
      BY <1>2, <1>3, <1>5, <1>6
    <2>2. log'[n][1] = log[n][1]
      BY <1>2, <1>3
    <2>3. Holds(x, x.top)
      BY <2>1, <1>3, <1>6 DEF Holds
    <2> QED
      BY <2>1, <2>2, <2>3, <1>2, <1>3, <1>5, <1>6
  <1>9. \A k \in Nat : Holds(c, k) => Holds(x, k) /\ x.at[k] = c.at[k]
    <2> SUFFICES ASSUME NEW k \in Nat, Holds(c, k)
                 PROVE  Holds(x, k) /\ x.at[k] = c.at[k]
      OBVIOUS
    <2>1. k + 1 \in 2..Len(log[n]) /\ c.at[k] = log[n][k + 1]
      BY <1>5
    <2>2. Holds(x, k)
      BY <1>5, <1>6, <1>8 DEF Holds, IsChain
    <2>3. log'[n][k + 1] = log[n][k + 1]
      BY <2>1, <1>2, <1>3
    <2> QED
      BY <2>1, <2>2, <2>3, <1>6
  <1>10. \A k \in Nat : Holds(x, k) => Holds(c, k) \/ k = x.top
    BY <1>5, <1>6, <1>8 DEF Holds, IsChain
  <1>11. Rooted'
    <2>1. log'[n][1] = log[n][1]
      BY <1>2, <1>3
    <2> QED
      BY <2>1, <1>2 DEF ReplInv, Rooted
  <1>12. Owned'
    <2> SUFFICES ASSUME NEW d \in Chains', NEW k \in Nat, Holds(d, k)
                 PROVE  \E l \in leaders : l.term = d.at[k].term
      BY <1>1 DEF Owned
    <2>1. CASE d \in Chains
      BY <2>1 DEF ReplInv, Owned
    <2>2. CASE d = x /\ Holds(c, k)
      <3>1. d.at[k] = c.at[k]
        BY <2>2, <1>9
      <3> QED
        BY <3>1, <2>2, <1>7 DEF ReplInv, Owned
    <2>3. CASE d = x /\ k = x.top
      BY <2>3, <1>1, <1>8 DEF ElectionInv, RoleRecorded, T
    <2> QED
      BY <2>1, <2>2, <2>3, <1>7, <1>10
  <1>13. ASSUME ElectionsSound' PROVE LeaderHolds' /\ ChainsMatch'
    <2>1. LeaderHolds /\ ChainsMatch /\ ElectionsSound
      BY <1>13 DEF ReplInv
    <2>2. ASSUME NEW d \in Chains PROVE Match(x, d)
      <3>1. IsChain(d) /\ Match(c, d)
        BY <2>1, <1>7, ChainsAre DEF ChainsMatch
      <3>2. ~(Holds(d, x.top) /\ d.at[x.top].term = T)
        <4> SUFFICES ASSUME Holds(d, x.top), d.at[x.top].term = T PROVE FALSE
          OBVIOUS
        <4>1. Holds(c, x.top)
          BY <2>1, <1>1, <1>8 DEF LeaderHolds, T, c
        <4> QED
          BY <4>1, <1>5, <1>8 DEF Holds, IsChain
      <3>3. \A k \in Nat : Holds(c, k) => x.at[k] = c.at[k]
        BY <1>9
      <3> QED
        BY <3>1, <3>2, <3>3, <1>5, <1>6, <1>8, ExtensionMatches
    <2>3. ChainsMatch'
      BY <2>1, <2>2, <1>7, OneMoreChain
    <2>4. LeaderHolds'
      <3> SUFFICES ASSUME NEW i \in Node, state[i] = Leader, NEW d \in Chains',
                          NEW k \in Nat, Holds(d, k), d.at[k].term = currentTerm[i]
                   PROVE  Holds(LogChain(log'[i]), k) /\ log'[i][k + 1].term = currentTerm[i]
        BY <1>1 DEF LeaderHolds
      <3>1. ASSUME NEW e \in Chains, Holds(e, k), e.at[k].term = currentTerm[i]
            PROVE  Holds(LogChain(log'[i]), k) /\ log'[i][k + 1].term = currentTerm[i]
        <4>1. Holds(LogChain(log[i]), k) /\ log[i][k + 1].term = currentTerm[i]
          BY <2>1, <3>1 DEF LeaderHolds
        <4>2. CASE i # n
          BY <4>1, <4>2, <1>2
        <4>3. CASE i = n
          <5>1. Holds(c, k)
            BY <4>1, <4>3 DEF c
          <5>2. Holds(x, k) /\ x.at[k] = c.at[k]
            BY <5>1, <1>9
          <5>3. log'[n][k + 1] = log[n][k + 1]
            BY <5>1, <5>2, <1>5, <1>6
          <5> QED
            BY <4>1, <4>3, <5>2, <5>3 DEF x
        <4> QED
          BY <4>2, <4>3
      <3>2. CASE d \in Chains
        BY <3>1, <3>2
      <3>3. CASE d = x /\ Holds(c, k)
        <4>1. c.at[k].term = currentTerm[i]
          BY <3>3, <1>9
        <4> QED
          BY <3>1, <3>3, <4>1, <1>7
      <3>4. CASE d = x /\ k = x.top
        <4>1. currentTerm[i] = currentTerm[n]
          BY <3>4, <1>8 DEF T
        <4>2. i = n
          BY <4>1, <2>1, <1>1, OneLeaderPerTerm
        <4>3. log'[n][k + 1].term = T
          BY <3>4, <1>6, <1>8
        <4> QED
          BY <3>4, <4>2, <4>3, <1>8 DEF T, x
      <3> QED
        BY <3>2, <3>3, <3>4, <1>7, <1>10
    <2> QED
      BY <2>3, <2>4
  <1> QED
    BY <1>11, <1>12, <1>13

\* A lost process has an empty log, and ends what is claimed of the others.
LEMMA CrashKeeps ==
    ASSUME TypeInv, ReplInv, NEW n \in Node, Crash(n)
    PROVE  Rooted' /\ Owned' /\ (ElectionsSound' => LeaderHolds' /\ ChainsMatch')
  <1> DEFINE x == LogChain(<<Placeholder>>)
  <1>1. /\ UNCHANGED <<appReqs, leaders>>
        /\ \A i \in Node : log'[i] = IF i = n THEN <<Placeholder>> ELSE log[i]
    BY DEF Crash, TypeInv, TypeOK
  <1>2. Chains' \subseteq Chains \cup {x}
    BY <1>1 DEF Chains
  <1>3. \A k \in Nat : ~Holds(x, k)
    <2>1. x.base = 0 /\ x.top = 0
      BY DEF LogChain
    <2> QED
      BY <2>1 DEF Holds
  <1>4. Rooted'
    BY <1>1 DEF ReplInv, Rooted
  <1>5. Owned'
    BY <1>1, <1>2, <1>3, OldEntriesOwned DEF ReplInv
  <1>6. ~ElectionsSound'
    <2>1. used'["crashes"] = used["crashes"] + 1 /\ used["crashes"] \in Nat
      BY DEF Crash, Spend, TypeInv, TypeOK, Bound
    <2> QED
      BY <2>1 DEF ElectionsSound
  <1> QED
    BY <1>4, <1>5, <1>6

\* The invariant holds in every reachable state.
LEMMA ReplInvariant == Spec => []ReplInv
  <1>1. Init => ReplInv
    <2> SUFFICES ASSUME Init PROVE ReplInv
      OBVIOUS
    <2> DEFINE x == LogChain(<<Placeholder>>)
    <2>1. \A c \in Chains : c = x
      BY DEF Init, Chains
    <2>2. \A k \in Nat : ~Holds(x, k)
      <3>1. x.base = 0 /\ x.top = 0
        BY DEF LogChain
      <3> QED
        BY <3>1 DEF Holds
    <2>3. Rooted /\ NoSecondWin
      BY DEF Init, Rooted, NoSecondWin
    <2>4. Owned /\ LeaderHolds
      BY <2>1, <2>2 DEF Owned, LeaderHolds
    <2>5. ChainsMatch
      BY <2>1, MatchReflexive DEF ChainsMatch
    <2> QED
      BY <2>3, <2>4, <2>5 DEF ReplInv
  <1>2. TypeInv /\ ElectionInv /\ ReplInv /\ [Next]_vars => ReplInv'
    <2> SUFFICES ASSUME TypeInv, ElectionInv, ReplInv, [Next]_vars PROVE ReplInv'
      OBVIOUS
    <2>1. ElectionsSound' => ElectionsSound
      BY SoundBefore
    <2>2. CASE UNCHANGED vars
      <3>1. UNCHANGED <<log, appReqs, leaders, state, currentTerm, used, elecTerm, pc>>
        BY <2>2 DEF vars, nodeVars, runVars, netVars, histVars
      <3>2. Rooted' /\ Owned' /\ (ElectionsSound' => LeaderHolds' /\ ChainsMatch')
        BY <2>1, <3>1, QuietKeeps
      <3>3. NoSecondWin'
        BY <3>1 DEF ReplInv, NoSecondWin
      <3> QED
        BY <3>2, <3>3 DEF ReplInv
    <2>3. ASSUME NEW n \in Node, NodeStep(n) PROVE ReplInv'
      <3>1. NoSecondWin'
        BY <2>3, NoSecondWinStep DEF ReplInv
      <3>2. ASSUME UNCHANGED <<log, appReqs>>, leaders \subseteq leaders', ~WinElection(n)
            PROVE  Rooted' /\ Owned' /\ (ElectionsSound' => LeaderHolds' /\ ChainsMatch')
        <4>1. \A i \in Node : state'[i] = Leader =>
                 state[i] = Leader /\ currentTerm'[i] = currentTerm[i]
          BY <2>3, <3>2, LeaderStays
        <4> QED
          BY <4>1, <2>1, <3>2, QuietKeeps
      <3>3. \/ UNCHANGED <<log, appReqs>> /\ leaders \subseteq leaders'
            \/ \E p \in Peer(n) : SendAppend(n, p)
            \/ \E m \in appReqs : HandleAppendEntries(n, m)
            \/ \E c \in Cmd : Propose(n, c)
            \/ Crash(n)
        BY <2>3 DEF NodeStep, FollowerTimeout, RunFollower, StartElection,
             HandleVoteReply, WinElection, ElectionEnds, ElectionDone,
             HandleAppendReply, LeaderStepsDown, LeaderDone, HandleRequestVote,
             RejectAppendEntries, Apply, Boot, nodeVars, netVars, histVars
      <3>4. Rooted' /\ Owned' /\ (ElectionsSound' => LeaderHolds' /\ ChainsMatch')
        BY <2>1, <3>2, <3>3, WinKeeps, SendKeeps, AppendKeeps, ProposeKeeps, CrashKeeps
      <3> QED
        BY <3>1, <3>4 DEF ReplInv
    <2> QED
      BY <2>2, <2>3 DEF Next
  <1> QED
    BY <1>1, <1>2, TypeInvariant, ElectionInvariant, PTL DEF Spec

-----------------------------------------------------------------------------
\* The first log has all that the second one has up to index i.
Copied(l, q, i) ==
    i < Len(l) /\ i < Len(q) /\ \A k \in 1..i : l[k + 1] = q[k + 1]

\* What matching chains say of two logs.
LEMMA CopiedByMatch ==
    ASSUME NEW S, NEW l, NEW q, LogFrom0(l, S), LogFrom0(q, S),
           Match(LogChain(l), LogChain(q)), NEW k \in Nat,
           k < Len(l), k < Len(q), l[k + 1].term = q[k + 1].term
    PROVE  Copied(l, q, k)
  <1> DEFINE c == LogChain(l)
             d == LogChain(q)
  <1>1. Len(l) \in Nat /\ Len(q) \in Nat
    BY DEF LogFrom0
  <1>2. /\ c.base = 0 /\ c.top = Len(l) - 1
        /\ \A h \in Nat : Holds(c, h) => c.at[h] = l[h + 1]
    BY LogChainFields
  <1>3. /\ d.base = 0 /\ d.top = Len(q) - 1
        /\ \A h \in Nat : Holds(d, h) => d.at[h] = q[h + 1]
    BY LogChainFields
  <1>4. Match(c, d)
    OBVIOUS
  <1> HIDE DEF c, d
  <1>5. \A h \in Nat : 1 <= h /\ h <= k => Holds(c, h) /\ Holds(d, h)
    BY <1>1, <1>2, <1>3 DEF Holds
  <1>6. CASE k = 0
    BY <1>6 DEF Copied
  <1>7. CASE 1 <= k
    <2>1. c.at[k].term = d.at[k].term
      BY <1>2, <1>3, <1>5, <1>7
    <2>2. AgreeUpTo(c, d, k)
      BY <2>1, <1>4, <1>5, <1>7 DEF Match
    <2>3. ASSUME NEW h \in 1..k PROVE l[h + 1] = q[h + 1]
      <3>1. h \in Nat /\ 1 <= h /\ h <= k
        OBVIOUS
      <3>2. c.at[h] = d.at[h]
        BY <3>1, <2>2, <1>2, <1>3 DEF AgreeUpTo
      <3> QED
        BY <3>1, <3>2, <1>2, <1>3, <1>5
    <2> QED
      BY <2>3 DEF Copied
  <1> QED
    BY <1>6, <1>7

\* In the words of the properties.
LEMMA CopiedIsSame ==
    ASSUME TypeInv, NEW i \in Node, NEW j \in Node, NEW k \in Nat, Copied(log[i], log[j], k)
    PROVE  SameUpTo(i, j, k)
  <1>1. /\ LogFrom0(log[i], Slot) /\ Len(log[i]) \in Nat
        /\ LogFrom0(log[j], Slot) /\ Len(log[j]) \in Nat
    BY LogTypes
  <1>2. /\ \A h \in Int : InLog(log[i], h) <=> h \in 0..(Len(log[i]) - 1)
        /\ \A h \in Int : EntryAt(log[i], h) = log[i][h + 1]
        /\ \A h \in Int : InLog(log[j], h) <=> h \in 0..(Len(log[j]) - 1)
        /\ \A h \in Int : EntryAt(log[j], h) = log[j][h + 1]
    BY <1>1, LogFrom0Lookups
  <1>3. \A h \in 1..k : h \in Int /\ h \in 0..(Len(log[i]) - 1) /\ h \in 0..(Len(log[j]) - 1)
    BY <1>1 DEF Copied
  <1> QED
    BY <1>2, <1>3 DEF SameUpTo, Copied

\* While elections are sound, two logs that hold an entry of the same term at the
\* same index are equal up to it, in every cluster and under late and repeated
\* AppendEntries requests.
THEOREM LogsAgree == Spec => []LogMatching
  <1>1. TypeInv /\ ReplInv => LogMatching
    <2> SUFFICES ASSUME TypeInv, ReplInv, ElectionsSound, NEW i \in Node, NEW j \in Node,
                        NEW k \in 1..LastIndex(log[i]), InLog(log[j], k),
                        TermAt(log[i], k) = TermAt(log[j], k)
                 PROVE  SameUpTo(i, j, k)
      BY DEF LogMatching
    <2>1. /\ LogFrom0(log[i], Slot) /\ Len(log[i]) \in Nat
          /\ LogFrom0(log[j], Slot) /\ Len(log[j]) \in Nat
          /\ LastIndex(log[i]) = Len(log[i]) - 1
      BY LogTypes
    <2>2. k \in Nat /\ 1 <= k /\ k < Len(log[i]) /\ k \in 0..(Len(log[i]) - 1)
      BY <2>1
    <2>3. k \in 0..(Len(log[j]) - 1) /\ k < Len(log[j])
      <3>1. \A h \in Int : InLog(log[j], h) <=> h \in 0..(Len(log[j]) - 1)
        BY <2>1, LogFrom0Lookups
      <3>2. k \in 0..(Len(log[j]) - 1)
        BY <3>1, <2>2
      <3> QED
        BY <3>2, <2>1, <2>2
    <2>4. TermAt(log[i], k) = log[i][k + 1].term /\ TermAt(log[j], k) = log[j][k + 1].term
      BY <2>1, <2>2, <2>3, LogFrom0Lookups
    <2>5. Match(LogChain(log[i]), LogChain(log[j]))
      BY DEF ReplInv, ChainsMatch, Chains
    <2>6. Copied(log[i], log[j], k)
      BY <2>1, <2>2, <2>3, <2>4, <2>5, CopiedByMatch
    <2> QED
      BY <2>2, <2>6, CopiedIsSame
  <1> QED
    BY <1>1, TypeInvariant, ReplInvariant, PTL

-----------------------------------------------------------------------------
(***************************************************************************)
(* What a leader knows of its followers                                    *)
(***************************************************************************)

\* The request carries a part of the log.
SliceOf(m, l) ==
    /\ m.prevIdx + Len(m.entries) < Len(l)
    /\ m.prevTerm = l[m.prevIdx + 1].term
    /\ \A k \in 1..Len(m.entries) : m.entries[k] = l[m.prevIdx + k + 1]

\* What a leader has sent, and will send next, is in its log.
Sent(n) ==
    /\ \A p \in Node : nextIndex[n][p] <= Len(log[n])
    /\ \A m \in appReqs : m.term = currentTerm[n] => SliceOf(m, log[n])
    /\ \A c \in calls[n] : c.term = currentTerm[n] => c.prevIdx + c.len < Len(log[n])

\* Node p has reached the term of n, and holds the log of n up to i as long as it
\* stays in it.
HeldUpTo(n, p, i) ==
    i > 0 => /\ currentTerm[p] >= currentTerm[n]
             /\ currentTerm[p] = currentTerm[n] => Copied(log[n], log[p], i)

\* What a leader has been told by its followers, or is being told, is true.
Acked(n) ==
    /\ \A p \in Peer(n) : HeldUpTo(n, p, matchIndex[n][p])
    /\ \A m \in appReps :
          /\ m.dst = n /\ m.src # n /\ m.success
          /\ m.call.term = currentTerm[n]
          => HeldUpTo(n, m.src, m.call.prevIdx + m.call.len)

\* Every call was made in a recorded leadership.
CallsOwned ==
    /\ \A m \in appReqs : \E l \in leaders : l.term = m.term
    /\ \A m \in appReps : \E l \in leaders : l.term = m.call.term
    /\ \A n \in Node : \A c \in calls[n] : \E l \in leaders : l.term = c.term

CopyInv ==
    /\ CallsOwned
    /\ ElectionsSound => \A n \in Node : state[n] = Leader => Sent(n) /\ Acked(n)

\* The larger of two is one of them.
LEMMA MaxOfTwoIsOne ==
    ASSUME NEW a \in Nat, NEW b \in Nat
    PROVE  Max({a, b}) \in {a, b}
  <1>1. {a, b} \in SUBSET (0..(a + b)) /\ {a, b} # {}
    OBVIOUS
  <1>2. a + b \in Nat
    OBVIOUS
  <1> QED
    BY <1>1, <1>2, MaxIsGreatest

\* A follower keeps what it holds of a leader's log in every step that keeps it
\* in the logs.
LEMMA HeldKeeps ==
    ASSUME TypeInv, NEW i \in Node, NEW p \in Node, NEW k \in Nat, HeldUpTo(i, p, k),
           currentTerm'[i] = currentTerm[i],
           currentTerm'[p] \in Nat, currentTerm[p] <= currentTerm'[p],
           /\ currentTerm[p] = currentTerm[i] /\ currentTerm'[p] = currentTerm[i]
           /\ Copied(log[i], log[p], k) /\ k > 0
           => Copied(log'[i], log'[p], k)
    PROVE  k > 0 => /\ currentTerm'[p] >= currentTerm'[i]
                    /\ currentTerm'[p] = currentTerm'[i] => Copied(log'[i], log'[p], k)
  <1>1. currentTerm[i] \in Nat /\ currentTerm[p] \in Nat
    BY DEF TypeInv, TypeOK, Term
  <1> QED
    BY <1>1 DEF HeldUpTo

\* The indices that matter are natural numbers.
LEMMA AckTypes ==
    ASSUME TypeInv
    PROVE  /\ \A n, p \in Node : matchIndex[n][p] \in Nat /\ nextIndex[n][p] \in Nat
           /\ \A m \in appReps : /\ m.src \in Node /\ m.dst \in Node
                                  /\ m.call.prevIdx \in Nat /\ m.call.len \in Nat
                                  /\ m.call.prevIdx + m.call.len \in Nat
           /\ \A n \in Node : \A c \in calls[n] : c.prevIdx \in Nat /\ c.len \in Nat
           /\ \A m \in appReqs : /\ m.src \in Node /\ m.dst \in Node /\ m.term \in Nat
                                  /\ m.prevIdx \in Nat /\ Len(m.entries) \in Nat
  <1>1. \A n, p \in Node : matchIndex[n][p] \in Nat /\ nextIndex[n][p] \in Nat
    BY DEF TypeInv, TypeOK, Index
  <1>2. \A m \in appReps : m.src \in Node /\ m.dst \in Node /\ m.call \in Call
    BY DEF TypeInv, TypeOK, AppRep
  <1>3. \A c \in Call : c.prevIdx \in Nat /\ c.len \in Nat /\ c.prevIdx + c.len \in Nat
    BY DEF Call, Index
  <1>4. \A n \in Node : \A c \in calls[n] : c \in Call
    BY DEF TypeInv, TypeOK
  <1>5. \A m \in appReqs : m \in AppReq
    BY DEF TypeInv, TypeOK
  <1>6. \A m \in AppReq : /\ m.src \in Node /\ m.dst \in Node /\ m.term \in Nat
                           /\ m.prevIdx \in Nat /\ Len(m.entries) \in Nat
    BY DEF AppReq, Index, Term
  <1> QED
    BY <1>1, <1>2, <1>3, <1>4, <1>5, <1>6

\* A step that changes nothing a leader knows.
LEMMA LeaderUndisturbed ==
    ASSUME TypeInv, NEW i \in Node, Sent(i), Acked(i), currentTerm'[i] = currentTerm[i],
           UNCHANGED log, nextIndex'[i] = nextIndex[i], matchIndex'[i] = matchIndex[i],
           calls'[i] \subseteq calls[i],
           \A m \in appReqs' : m \in appReqs \/ m.term # currentTerm[i],
           \A m \in appReps' : m \in appReps \/ ~m.success,
           \A p \in Node : currentTerm'[p] \in Nat /\ currentTerm[p] <= currentTerm'[p]
    PROVE  Sent(i)' /\ Acked(i)'
  <1>1. Sent(i)'
    BY DEF Sent
  <1>2. ASSUME NEW p \in Peer(i) PROVE HeldUpTo(i, p, matchIndex[i][p])'
    <2>1. p \in Node /\ matchIndex[i][p] \in Nat /\ HeldUpTo(i, p, matchIndex[i][p])
      BY AckTypes DEF Peer, Acked
    <2>2. matchIndex[i][p] > 0 =>
            /\ currentTerm'[p] >= currentTerm'[i]
            /\ currentTerm'[p] = currentTerm'[i] => Copied(log'[i], log'[p], matchIndex[i][p])
      BY <2>1, HeldKeeps
    <2> QED
      BY <2>2 DEF HeldUpTo
  <1>3. ASSUME NEW m \in appReps', m.dst = i, m.src # i, m.success,
               m.call.term = currentTerm'[i]
        PROVE  HeldUpTo(i, m.src, m.call.prevIdx + m.call.len)'
    <2> DEFINE k == m.call.prevIdx + m.call.len
    <2>1. m.src \in Node /\ k \in Nat /\ HeldUpTo(i, m.src, k)
      BY <1>3, AckTypes DEF Acked
    <2> HIDE DEF k
    <2>2. k > 0 =>
            /\ currentTerm'[m.src] >= currentTerm'[i]
            /\ currentTerm'[m.src] = currentTerm'[i] => Copied(log'[i], log'[m.src], k)
      BY <2>1, HeldKeeps
    <2> QED
      BY <2>2 DEF HeldUpTo, k
  <1> QED
    BY <1>1, <1>2, <1>3 DEF Acked

\* A new leader has made no call, and counts on nothing.
LEMMA WinCopies ==
    ASSUME TypeInv, ReplInv, CopyInv, ElectionsSound', NEW n \in Node, WinElection(n)
    PROVE  Sent(n)' /\ Acked(n)'
  <1> DEFINE w == [node |-> n, term |-> currentTerm[n], elected |-> elecTerm[n]]
  <1>1. /\ UNCHANGED <<log, appReqs, appReps, calls, currentTerm>>
        /\ leaders' = leaders \cup {w} /\ pc[n] = "electing"
        /\ nextIndex' = [nextIndex EXCEPT ![n] = [p \in Node |-> LastIndex(log[n]) + 1]]
        /\ matchIndex' = [matchIndex EXCEPT ![n] =
                             [p \in Node |-> IF p = n THEN LastIndex(log[n]) ELSE 0]]
    BY DEF WinElection, InitLeaderState, netVars
  <1>2. \A l \in leaders : l.term # currentTerm[n]
    <2> SUFFICES ASSUME NEW l \in leaders, l.term = currentTerm[n] PROVE FALSE
      OBVIOUS
    <2>1. l \in leaders' /\ w \in leaders' /\ w.term = l.term
      BY <1>1
    <2>2. l.node = w.node /\ l.elected = l.term /\ w.elected = w.term
      BY <2>1 DEF ElectionsSound, ElectedInTerm
    <2>3. used["crashes"] = 0
      BY <1>1 DEF ElectionsSound, WinElection
    <2>4. l.elected < elecTerm[n] /\ l.elected = elecTerm[n]
      BY <2>2, <2>3, <1>1 DEF ReplInv, NoSecondWin
    <2>5. elecTerm[n] \in Nat
      BY DEF TypeInv, TypeOK, Term
    <2> QED
      BY <2>4, <2>5
  <1>3. /\ \A m \in appReqs : m.term # currentTerm[n]
        /\ \A m \in appReps : m.call.term # currentTerm[n]
        /\ \A c \in calls[n] : c.term # currentTerm[n]
    BY <1>2 DEF CopyInv, CallsOwned
  <1>4. /\ \A p \in Node : nextIndex'[n][p] = Len(log[n])
        /\ \A p \in Peer(n) : matchIndex'[n][p] = 0
    <2>1. LastIndex(log[n]) + 1 = Len(log[n]) /\ Len(log[n]) \in Nat
      <3>1. LastIndex(log[n]) = Len(log[n]) - 1 /\ Len(log[n]) \in Nat
        BY LogTypes
      <3> QED
        BY <3>1
    <2>2. nextIndex \in [Node -> [Node -> Nat]] /\ matchIndex \in [Node -> [Node -> Nat]]
      BY DEF TypeInv, TypeOK, Index
    <2> QED
      BY <2>1, <2>2, <1>1 DEF Peer
  <1>5. Sent(n)'
    <2>1. Len(log[n]) \in Nat
      BY LogTypes
    <2> QED
      BY <2>1, <1>1, <1>3, <1>4 DEF Sent
  <1>6. Acked(n)'
    BY <1>1, <1>3, <1>4 DEF Acked, HeldUpTo
  <1> QED
    BY <1>5, <1>6

\* sendAppend keeps within the log: the next index it sends from never passes the
\* end of it.
LEMMA SendCopies ==
    ASSUME TypeInv, NEW n \in Node, Sent(n), Acked(n), NEW p \in Peer(n), SendAppend(n, p)
    PROVE  Sent(n)' /\ Acked(n)'
  <1> DEFINE next == IF nextIndex[n][p] <= FirstIndex(log[n])
                     THEN FirstIndex(log[n]) + 1
                     ELSE nextIndex[n][p]
             entries == EntriesFrom(log[n], next)
             req == [src |-> n, dst |-> p, term |-> currentTerm[n],
                     prevIdx |-> next - 1,
                     prevTerm |-> TermAt(log[n], next - 1),
                     entries |-> entries, commit |-> commitIndex[n]]
             call == [dst |-> p, term |-> currentTerm[n], prevIdx |-> next - 1,
                      len |-> Len(entries)]
  <1>1. /\ appReqs' = appReqs \cup {req}
        /\ UNCHANGED <<log, matchIndex, currentTerm>>
        /\ nextIndex' = [nextIndex EXCEPT ![n][p] = next]
        /\ calls' = [calls EXCEPT ![n] = {c \in calls[n] : c.dst # p} \cup {call}]
        /\ appReps' \subseteq appReps
    BY DEF SendAppend
  <1>2. /\ LogFrom0(log[n], Slot) /\ FirstIndex(log[n]) = 0
        /\ Len(log[n]) \in Nat /\ Len(log[n]) > 0
    BY LogTypes
  <1>3. p \in Node /\ nextIndex[n][p] \in Nat /\ nextIndex[n][p] <= Len(log[n])
    BY AckTypes DEF Peer, Sent
  <1>4. next \in Nat /\ next >= 1 /\ next <= Len(log[n])
    BY <1>2, <1>3
  <1>5. /\ Len(entries) \in Nat
        /\ \A k \in 1..Len(entries) : /\ next + k \in 2..Len(log[n])
                                        /\ entries[k] = log[n][next + k]
    BY <1>2, <1>4, EntriesFromShape
  <1>6. \A i \in 0..(Len(log[n]) - 1) : TermAt(log[n], i) = log[n][i + 1].term
    BY <1>2, LogFrom0Lookups
  <1>7. /\ req.term = currentTerm[n] /\ req.prevIdx = next - 1
        /\ req.prevTerm = TermAt(log[n], next - 1) /\ req.entries = entries
        /\ call.term = currentTerm[n] /\ call.prevIdx = next - 1 /\ call.len = Len(entries)
    OBVIOUS
  <1> HIDE DEF req, call, entries, next
  <1>8. next - 1 + Len(entries) < Len(log[n])
    <2>1. CASE Len(entries) = 0
      BY <2>1, <1>2, <1>4
    <2>2. CASE Len(entries) # 0
      <3>1. Len(entries) \in 1..Len(entries)
        BY <2>2, <1>5
      <3>2. next + Len(entries) \in 2..Len(log[n])
        BY <3>1, <1>5
      <3> QED
        BY <3>2, <1>2, <1>4, <1>5
    <2> QED
      BY <2>1, <2>2
  <1>9. SliceOf(req, log[n])
    <2>1. TermAt(log[n], next - 1) = log[n][next - 1 + 1].term
      <3>1. next - 1 \in 0..(Len(log[n]) - 1)
        BY <1>2, <1>4
      <3> QED
        BY <3>1, <1>6
    <2>2. \A k \in 1..Len(entries) : entries[k] = log[n][next - 1 + k + 1]
      <3> SUFFICES ASSUME NEW k \in 1..Len(entries)
                   PROVE  entries[k] = log[n][next - 1 + k + 1]
        OBVIOUS
      <3>1. next - 1 + k + 1 = next + k
        BY <1>4
      <3> QED
        BY <3>1, <1>5
    <2> QED
      BY <2>1, <2>2, <1>7, <1>8 DEF SliceOf
  <1>10. \A q \in Node : nextIndex'[n][q] <= Len(log[n])
    <2>1. nextIndex \in [Node -> [Node -> Nat]]
      BY DEF TypeInv, TypeOK, Index
    <2>2. \A q \in Node : nextIndex'[n][q] = IF q = p THEN next ELSE nextIndex[n][q]
      BY <2>1, <1>1, <1>3
    <2> QED
      BY <2>2, <1>4 DEF Sent
  <1>11. \A c \in calls'[n] : c.term = currentTerm[n] => c.prevIdx + c.len < Len(log[n])
    <2>1. calls'[n] = {c \in calls[n] : c.dst # p} \cup {call}
      BY <1>1 DEF TypeInv, TypeOK
    <2> QED
      BY <2>1, <1>7, <1>8 DEF Sent
  <1>12. Sent(n)'
    BY <1>1, <1>9, <1>10, <1>11 DEF Sent
  <1>13. Acked(n)'
    BY <1>1 DEF Acked, HeldUpTo
  <1> QED
    BY <1>12, <1>13

\* A reply that is counted is one of this leadership, and what it says is true.
LEMMA ReplyCopies ==
    ASSUME TypeInv, NEW n \in Node, Sent(n), Acked(n), NEW m \in appReps,
           HandleAppendReply(n, m), state'[n] = Leader, currentTerm'[n] = currentTerm[n]
    PROVE  Sent(n)' /\ Acked(n)'
  <1> DEFINE p == m.src
             match == m.call.prevIdx + m.call.len
  <1>1. /\ UNCHANGED <<log, appReqs>> /\ appReps' \subseteq appReps
        /\ calls' = [calls EXCEPT ![n] = calls[n] \ {m.call}]
        /\ m.dst = n /\ m.call \in calls[n]
    BY DEF HandleAppendReply
  <1>2. /\ p \in Node /\ match \in Nat /\ m.call.prevIdx \in Nat /\ m.call.len \in Nat
        /\ \A q \in Node : matchIndex[n][q] \in Nat /\ nextIndex[n][q] \in Nat
    BY AckTypes
  <1>3. /\ matchIndex \in [Node -> [Node -> Nat]] /\ nextIndex \in [Node -> [Node -> Nat]]
        /\ m.term \in Nat /\ currentTerm \in [Node -> Nat]
    BY DEF TypeInv, TypeOK, AppRep, Index, Term
  <1>4. Len(log[n]) \in Nat /\ FirstIndex(log[n]) = 0
    BY LogTypes
  <1>5. UNCHANGED currentTerm
    <2>1. m.term > currentTerm[n] => FALSE
      <3> SUFFICES ASSUME m.term > currentTerm[n] PROVE FALSE
        OBVIOUS
      <3>1. currentTerm' = [currentTerm EXCEPT ![n] = m.term]
        BY <1>3 DEF HandleAppendReply
      <3> QED
        BY <3>1, <1>3
    <2> QED
      BY <2>1 DEF HandleAppendReply
  <1>6. calls'[n] \subseteq calls[n]
    BY <1>1 DEF TypeInv, TypeOK
  <1>7. \/ UNCHANGED <<nextIndex, matchIndex>>
        \/ /\ m.success /\ m.call.term = currentTerm[n]
           /\ matchIndex' = [matchIndex EXCEPT ![n][p] = Max({matchIndex[n][p], match})]
           /\ nextIndex' = [nextIndex EXCEPT ![n][p] = Max({nextIndex[n][p], match + 1})]
        \/ /\ UNCHANGED matchIndex
           /\ nextIndex' = [nextIndex EXCEPT ![n][p] =
                IF nextIndex[n][p] > FirstIndex(log[n]) + 1
                THEN nextIndex[n][p] - 1 ELSE nextIndex[n][p]]
    BY DEF HandleAppendReply
  <1> HIDE DEF p, match
  <1>8. \A q \in Node : nextIndex'[n][q] <= Len(log[n])
    <2>1. CASE UNCHANGED nextIndex
      BY <2>1 DEF Sent
    <2>2. CASE /\ m.call.term = currentTerm[n]
               /\ nextIndex' = [nextIndex EXCEPT ![n][p] = Max({nextIndex[n][p], match + 1})]
      <3>1. match < Len(log[n]) /\ nextIndex[n][p] <= Len(log[n])
        BY <2>2, <1>1, <1>2 DEF Sent, match
      <3>2. Max({nextIndex[n][p], match + 1}) \in {nextIndex[n][p], match + 1}
        BY <1>2, MaxOfTwoIsOne
      <3>3. Max({nextIndex[n][p], match + 1}) <= Len(log[n])
        BY <3>1, <3>2, <1>2, <1>4
      <3>4. \A q \in Node : nextIndex'[n][q] =
                IF q = p THEN Max({nextIndex[n][p], match + 1}) ELSE nextIndex[n][q]
        BY <2>2, <1>2, <1>3
      <3> QED
        BY <3>3, <3>4 DEF Sent
    <2>3. CASE nextIndex' = [nextIndex EXCEPT ![n][p] =
                IF nextIndex[n][p] > FirstIndex(log[n]) + 1
                THEN nextIndex[n][p] - 1 ELSE nextIndex[n][p]]
      <3> DEFINE v == IF nextIndex[n][p] > FirstIndex(log[n]) + 1
                      THEN nextIndex[n][p] - 1 ELSE nextIndex[n][p]
      <3>1. v <= nextIndex[n][p] /\ v \in Int
        BY <1>2, <1>4
      <3>2. nextIndex' = [nextIndex EXCEPT ![n][p] = v]
        BY <2>3
      <3> HIDE DEF v
      <3>3. \A q \in Node : nextIndex'[n][q] = IF q = p THEN v ELSE nextIndex[n][q]
        BY <3>2, <1>2, <1>3
      <3>4. v <= Len(log[n])
        <4>1. nextIndex[n][p] <= Len(log[n])
          BY <1>2 DEF Sent
        <4> QED
          BY <3>1, <4>1, <1>2, <1>4
      <3> QED
        BY <3>3, <3>4 DEF Sent
    <2> QED
      BY <2>1, <2>2, <2>3, <1>7
  <1>9. Sent(n)'
    BY <1>1, <1>5, <1>6, <1>8 DEF Sent
  <1>10. \A q \in Peer(n) : HeldUpTo(n, q, matchIndex'[n][q])
    <2>1. CASE UNCHANGED matchIndex
      BY <2>1 DEF Acked
    <2>2. CASE /\ m.success /\ m.call.term = currentTerm[n]
               /\ matchIndex' = [matchIndex EXCEPT ![n][p] = Max({matchIndex[n][p], match})]
      <3> SUFFICES ASSUME NEW q \in Peer(n) PROVE HeldUpTo(n, q, matchIndex'[n][q])
        OBVIOUS
      <3>1. q \in Node /\ q # n
        BY DEF Peer
      <3>2. matchIndex'[n][q] = IF q = p THEN Max({matchIndex[n][p], match})
                                         ELSE matchIndex[n][q]
        BY <2>2, <3>1, <1>2, <1>3
      <3>3. HeldUpTo(n, q, matchIndex[n][q])
        BY DEF Acked
      <3>4. q = p => HeldUpTo(n, q, match)
        BY <2>2, <3>1, <1>1 DEF Acked, p, match
      <3>5. Max({matchIndex[n][p], match}) \in {matchIndex[n][p], match}
        BY <1>2, MaxOfTwoIsOne
      <3> QED
        BY <3>2, <3>3, <3>4, <3>5
    <2> QED
      BY <2>1, <2>2, <1>7
  <1>11. Acked(n)'
    BY <1>1, <1>5, <1>10 DEF Acked, HeldUpTo
  <1> QED
    BY <1>9, <1>11

\* A part of the leader's log takes nothing from a follower that it already holds
\* of it: there is no conflict up to there.
LEMMA SpliceCopies ==
    ASSUME NEW S, NEW l, NEW q, NEW new, NEW m, NEW i \in Nat,
           LogFrom0(l, S), LogFrom0(q, S), LogFrom0(new, S),
           m.prevIdx \in Nat, Len(m.entries) \in Nat, SliceOf(m, l),
           Appended(S, q, m.prevIdx, m.entries, new), Copied(l, q, i)
    PROVE  Copied(l, new, i)
  <1>1. CASE new = q
    BY <1>1
  <1>2. CASE new # q
    <2>1. PICK k \in 1..Len(m.entries) :
            /\ m.prevIdx + k <= Len(q)
            /\ Len(new) = m.prevIdx + Len(m.entries) + 1
            /\ \A j \in 1..(m.prevIdx + k) : new[j] = q[j]
            /\ m.prevIdx + k < Len(q) => q[m.prevIdx + k + 1].term # m.entries[k].term
      BY <1>2 DEF Appended
    <2>2. /\ k \in Nat /\ 1 <= k /\ k <= Len(m.entries) /\ Len(q) \in Nat /\ Len(l) \in Nat
          /\ i < Len(l) /\ i < Len(q)
      BY <2>1 DEF LogFrom0, Copied
    <2>3. i < m.prevIdx + k
      <3> SUFFICES ASSUME m.prevIdx + k <= i PROVE FALSE
        BY <2>2
      <3>1. m.prevIdx + k < Len(q) /\ m.prevIdx + k \in 1..i
        BY <2>2
      <3>2. l[m.prevIdx + k + 1] = q[m.prevIdx + k + 1]
        BY <3>1 DEF Copied
      <3>3. m.entries[k] = l[m.prevIdx + k + 1]
        BY DEF SliceOf
      <3> QED
        BY <2>1, <3>1, <3>2, <3>3
    <2>4. ASSUME NEW h \in 1..i PROVE l[h + 1] = new[h + 1]
      <3>1. h + 1 \in 1..(m.prevIdx + k)
        BY <2>2, <2>3
      <3>2. new[h + 1] = q[h + 1]
        BY <3>1, <2>1
      <3> QED
        BY <3>2 DEF Copied
    <2>5. i < Len(new)
      <3>1. Len(new) = m.prevIdx + Len(m.entries) + 1
        BY <2>1
      <3> QED
        BY <3>1, <2>2, <2>3
    <2> QED
      BY <2>2, <2>4, <2>5 DEF Copied
  <1> QED
    BY <1>1, <1>2

\* After the request the follower holds the leader's log up to its last entry.
LEMMA SpliceReaches ==
    ASSUME NEW S, NEW l, NEW q, NEW new, NEW m,
           LogFrom0(l, S), LogFrom0(q, S), LogFrom0(new, S),
           m.prevIdx \in Nat, Len(m.entries) \in Nat, SliceOf(m, l),
           Consistent(q, m.prevIdx, m.prevTerm),
           Appended(S, q, m.prevIdx, m.entries, new),
           Match(LogChain(l), LogChain(new))
    PROVE  Copied(l, new, m.prevIdx + Len(m.entries))
  <1> DEFINE i == m.prevIdx + Len(m.entries)
  <1>1. Len(l) \in Nat /\ Len(q) \in Nat /\ Len(new) \in Nat /\ i \in Nat /\ i < Len(l)
    BY DEF LogFrom0, SliceOf
  <1>2. i < Len(new) /\ l[i + 1].term = new[i + 1].term
    <2>1. CASE Len(m.entries) = 0
      <3>1. new = q /\ i = m.prevIdx
        BY <2>1 DEF Appended
      <3>2. /\ FirstIndex(q) = 0 /\ LastIndex(q) = Len(q) - 1
            /\ \A h \in 0..(Len(q) - 1) : TermAt(q, h) = q[h + 1].term
        BY LogFrom0Lookups
      <3>3. m.prevIdx <= Len(q) - 1 /\ TermAt(q, m.prevIdx) = m.prevTerm
        BY <3>2 DEF Consistent
      <3>4. m.prevIdx \in 0..(Len(q) - 1)
        BY <3>3, <1>1
      <3>5. q[m.prevIdx + 1].term = m.prevTerm
        BY <3>2, <3>3, <3>4
      <3> QED
        BY <3>1, <3>3, <3>5, <1>1 DEF SliceOf
    <2>2. CASE Len(m.entries) # 0
      <3>1. Len(m.entries) \in 1..Len(m.entries)
        BY <2>2
      <3>2. l[i + 1] = m.entries[Len(m.entries)]
        BY <3>1 DEF SliceOf
      <3>3. CASE new = q /\ \A k \in 1..Len(m.entries) :
                     /\ m.prevIdx + k + 1 \in 1..Len(q)
                     /\ q[m.prevIdx + k + 1].term = m.entries[k].term
        <4>1. /\ m.prevIdx + Len(m.entries) + 1 \in 1..Len(q)
              /\ q[m.prevIdx + Len(m.entries) + 1].term = m.entries[Len(m.entries)].term
          BY <3>1, <3>3
        <4>2. i < Len(q)
          BY <4>1
        <4> QED
          BY <3>2, <3>3, <4>1, <4>2
      <3>4. CASE \E k \in 1..Len(m.entries) :
                     /\ Len(new) = m.prevIdx + Len(m.entries) + 1
                     /\ \A j \in (m.prevIdx + k + 1)..Len(new) :
                            new[j] = m.entries[j - m.prevIdx - 1]
        <4>1. PICK k \in 1..Len(m.entries) :
                     /\ Len(new) = i + 1
                     /\ \A j \in (m.prevIdx + k + 1)..Len(new) :
                            new[j] = m.entries[j - m.prevIdx - 1]
          BY <3>4
        <4>2. i + 1 \in (m.prevIdx + k + 1)..Len(new) /\ (i + 1) - m.prevIdx - 1 = Len(m.entries)
          BY SMTT(30), <4>1, <1>1
        <4>3. new[i + 1] = m.entries[(i + 1) - m.prevIdx - 1]
          BY <4>1, <4>2
        <4>4. new[i + 1] = m.entries[Len(m.entries)]
          BY <4>2, <4>3
        <4>5. i < Len(new)
          BY <4>1, <1>1
        <4> HIDE DEF i
        <4> QED
          BY <4>4, <4>5, <3>2
      <3> QED
        BY <3>3, <3>4 DEF Appended
    <2> QED
      BY <2>1, <2>2
  <1> HIDE DEF i
  <1>3. Copied(l, new, i)
    BY <1>1, <1>2, CopiedByMatch
  <1> QED
    BY <1>3 DEF i

\* HandleAppendEntries takes nothing away that a leader counts on, and its answer
\* is true.
LEMMA AppendCopies ==
    ASSUME TypeInv, TypeInv', ChainsMatch', NEW i \in Node, Sent(i), Acked(i),
           NEW n \in Node, NEW m \in appReqs, HandleAppendEntries(n, m), i # n
    PROVE  Sent(i)' /\ Acked(i)'
  <1>1. /\ UNCHANGED <<appReqs, nextIndex, matchIndex, calls>>
        /\ currentTerm' = [currentTerm EXCEPT ![n] = m.term]
        /\ m.term >= currentTerm[n]
        /\ appReps' = AppendReply(n, m, m.term, Consistent(log[n], m.prevIdx, m.prevTerm))
    BY DEF HandleAppendEntries, runVars
  <1>2. /\ \A j \in Node \ {n} : log'[j] = log[j]
        /\ \/ log'[n] = log[n]
           \/ /\ Consistent(log[n], m.prevIdx, m.prevTerm)
              /\ Appended(Slot, log[n], m.prevIdx, m.entries, log'[n])
    BY AppendSplices
  <1>3. /\ m.term \in Nat /\ m.prevIdx \in Nat /\ Len(m.entries) \in Nat
        /\ currentTerm \in [Node -> Nat]
    BY AckTypes DEF TypeInv, TypeOK, Term
  <1>4. /\ currentTerm'[i] = currentTerm[i] /\ log'[i] = log[i] /\ currentTerm'[n] = m.term
        /\ \A p \in Node : currentTerm'[p] \in Nat /\ currentTerm[p] <= currentTerm'[p]
    BY <1>1, <1>2, <1>3
  <1>5. /\ LogFrom0(log[i], Slot) /\ LogFrom0(log[n], Slot) /\ LogFrom0(log'[n], Slot)
    BY DEF TypeInv, LogOK
  <1>6. ASSUME NEW p \in Node, NEW k \in Nat, HeldUpTo(i, p, k)
        PROVE  k > 0 => /\ currentTerm'[p] >= currentTerm'[i]
                        /\ currentTerm'[p] = currentTerm'[i] => Copied(log'[i], log'[p], k)
    <2>1. /\ currentTerm[p] = currentTerm[i] /\ currentTerm'[p] = currentTerm[i]
          /\ Copied(log[i], log[p], k) /\ k > 0
          => Copied(log'[i], log'[p], k)
      <3>1. CASE p # n
        BY <3>1, <1>2, <1>4
      <3>2. CASE p = n /\ log'[n] = log[n]
        BY <3>2, <1>4
      <3>3. CASE p = n /\ log'[n] # log[n]
        <4> SUFFICES ASSUME currentTerm'[p] = currentTerm[i], Copied(log[i], log[p], k)
                     PROVE  Copied(log'[i], log'[p], k)
          OBVIOUS
        <4>1. SliceOf(m, log[i])
          BY <3>3, <1>4 DEF Sent
        <4>2. Appended(Slot, log[n], m.prevIdx, m.entries, log'[n])
          BY <3>3, <1>2
        <4>3. Copied(log[i], log'[n], k)
          BY <4>1, <4>2, <3>3, <1>3, <1>5, SpliceCopies
        <4> QED
          BY <4>3, <3>3, <1>4
      <3> QED
        BY <3>1, <3>2, <3>3
    <2> QED
      BY <2>1, <1>4, <1>6, HeldKeeps
  <1>7. Sent(i)'
    BY <1>1, <1>4 DEF Sent
  <1>8. \A p \in Peer(i) : HeldUpTo(i, p, matchIndex[i][p])'
    <2> SUFFICES ASSUME NEW p \in Peer(i) PROVE HeldUpTo(i, p, matchIndex[i][p])'
      OBVIOUS
    <2>1. p \in Node /\ matchIndex[i][p] \in Nat /\ HeldUpTo(i, p, matchIndex[i][p])
      BY AckTypes DEF Peer, Acked
    <2>2. matchIndex[i][p] > 0 =>
            /\ currentTerm'[p] >= currentTerm'[i]
            /\ currentTerm'[p] = currentTerm'[i] => Copied(log'[i], log'[p], matchIndex[i][p])
      BY <2>1, <1>6
    <2> QED
      BY <2>2, <1>1 DEF HeldUpTo
  <1>9. ASSUME NEW r \in appReps', r.dst = i, r.src # i, r.success,
               r.call.term = currentTerm'[i]
        PROVE  HeldUpTo(i, r.src, r.call.prevIdx + r.call.len)'
    <2>1. CASE r \in appReps
      <3>1. /\ r.src \in Node /\ r.call.prevIdx + r.call.len \in Nat
            /\ HeldUpTo(i, r.src, r.call.prevIdx + r.call.len)
        BY <2>1, <1>4, <1>9, AckTypes DEF Acked
      <3> DEFINE k == r.call.prevIdx + r.call.len
      <3> HIDE DEF k
      <3>2. k > 0 =>
              /\ currentTerm'[r.src] >= currentTerm'[i]
              /\ currentTerm'[r.src] = currentTerm'[i] => Copied(log'[i], log'[r.src], k)
        BY <3>1, <1>6 DEF k
      <3> QED
        BY <3>2 DEF HeldUpTo, k
    <2>2. CASE r \notin appReps
      <3>1. /\ r.src = n /\ r.success = Consistent(log[n], m.prevIdx, m.prevTerm)
            /\ r.call = [dst |-> n, term |-> m.term, prevIdx |-> m.prevIdx,
                         len |-> Len(m.entries)]
        BY <2>2, <1>1 DEF AppendReply
      <3>2. /\ r.call.term = m.term /\ r.call.prevIdx = m.prevIdx
            /\ r.call.len = Len(m.entries)
        BY <3>1
      <3>3. SliceOf(m, log[i])
        BY <3>2, <1>4, <1>9 DEF Sent
      <3>4. Consistent(log[n], m.prevIdx, m.prevTerm)
        BY <3>1, <1>9
      <3>5. Appended(Slot, log[n], m.prevIdx, m.entries, log'[n])
        <4>a. log' = [log EXCEPT ![n] =
                         IF Consistent(log[n], m.prevIdx, m.prevTerm)
                         THEN AppendAll(log[n], m.prevIdx, m.entries) ELSE log[n]]
          BY DEF HandleAppendEntries
        <4>b. log \in [Node -> Seq(Entry \cup {Placeholder})]
          BY DEF TypeInv, TypeOK
        <4>1. log'[n] = AppendAll(log[n], m.prevIdx, m.entries)
          BY <4>a, <4>b, <3>4
        <4>2. m.prevIdx <= LastIndex(log[n])
          BY <3>4 DEF Consistent
        <4>3. BatchAfter(m.entries, m.prevIdx, Slot)
          BY DEF TypeInv, RequestsOK, BatchAfter, Slot
        <4> QED
          BY <4>1, <4>2, <4>3, <1>3, <1>5, AppendAllShape
      <3>6. Match(LogChain(log[i]), LogChain(log'[n]))
        BY <1>4 DEF ChainsMatch, Chains
      <3>7. Copied(log[i], log'[n], m.prevIdx + Len(m.entries))
        BY <3>3, <3>4, <3>5, <3>6, <1>3, <1>5, SpliceReaches
      <3>8. currentTerm'[n] >= currentTerm'[i]
        BY <3>2, <1>3, <1>4, <1>9
      <3> QED
        BY <3>1, <3>2, <3>7, <3>8, <1>4 DEF HeldUpTo
    <2> QED
      BY <2>1, <2>2
  <1> QED
    BY <1>7, <1>8, <1>9 DEF Acked

\* A log that grows still holds what it held.
LEMMA GrownLog ==
    ASSUME NEW l, NEW new, Len(l) \in Nat, Len(new) \in Nat, Len(l) <= Len(new),
           \A k \in 1..Len(l) : new[k] = l[k]
    PROVE  /\ \A m : m.prevIdx \in Nat /\ Len(m.entries) \in Nat /\ SliceOf(m, l)
                        => SliceOf(m, new)
           /\ \A q : \A i \in Nat : Copied(l, q, i) => Copied(new, q, i)
  <1>1. ASSUME NEW m, m.prevIdx \in Nat, Len(m.entries) \in Nat, SliceOf(m, l)
        PROVE  SliceOf(m, new)
    <2>1. m.prevIdx + Len(m.entries) < Len(l) /\ m.prevIdx + Len(m.entries) < Len(new)
      BY <1>1 DEF SliceOf
    <2>2. /\ m.prevIdx + 1 \in 1..Len(l)
          /\ \A k \in 1..Len(m.entries) : m.prevIdx + k + 1 \in 1..Len(l)
      BY SMTT(30), <1>1, <2>1
    <2>3. new[m.prevIdx + 1] = l[m.prevIdx + 1]
      BY <2>2
    <2>4. \A k \in 1..Len(m.entries) : new[m.prevIdx + k + 1] = l[m.prevIdx + k + 1]
      BY <2>2
    <2> QED
      BY <1>1, <2>1, <2>3, <2>4 DEF SliceOf
  <1>2. ASSUME NEW q, NEW i \in Nat, Copied(l, q, i) PROVE Copied(new, q, i)
    <2>1. i < Len(l) /\ i < Len(new)
      BY <1>2 DEF Copied
    <2>2. \A k \in 1..i : new[k + 1] = l[k + 1]
      BY <2>1
    <2> QED
      BY <1>2, <2>1, <2>2 DEF Copied
  <1> QED
    BY <1>1, <1>2

\* Propose changes the log of a leader, which nobody counts on as a follower.
LEMMA ProposeCopies ==
    ASSUME TypeInv, ElectionInv, ElectionsSound, NEW i \in Node, state[i] = Leader,
           Sent(i), Acked(i), NEW n \in Node, NEW c \in Cmd, Propose(n, c)
    PROVE  Sent(i)' /\ Acked(i)'
  <1>1. /\ UNCHANGED <<currentTerm, nextIndex, calls, appReqs, appReps>>
        /\ state[n] = Leader
        /\ \A p \in Peer(i) : matchIndex'[i][p] = matchIndex[i][p]
    <2>1. /\ UNCHANGED <<currentTerm, nextIndex, calls, appReqs, appReps>>
          /\ state[n] = Leader
          /\ matchIndex' = [matchIndex EXCEPT ![n][n] = LastIndex(log[n]) + 1]
      BY DEF Propose, MayPropose, runVars, netVars
    <2>2. matchIndex \in [Node -> [Node -> Nat]]
      BY DEF TypeInv, TypeOK, Index
    <2> QED
      BY <2>1, <2>2 DEF Peer
  <1>2. /\ \A j \in Node \ {n} : log'[j] = log[j]
        /\ Len(log'[n]) = Len(log[n]) + 1
        /\ \A k \in 1..Len(log[n]) : log'[n][k] = log[n][k]
    BY ProposeAppends
  <1>3. \A j \in Node : Len(log[j]) \in Nat
    BY DEF TypeInv, LogOK, LogFrom0
  <1>4. /\ Len(log[i]) <= Len(log'[i]) /\ Len(log'[i]) \in Nat
        /\ \A k \in 1..Len(log[i]) : log'[i][k] = log[i][k]
    BY <1>2, <1>3
  <1>5. /\ \A m \in appReqs : SliceOf(m, log[i]) => SliceOf(m, log'[i])
        /\ \A q : \A k \in Nat : Copied(log[i], q, k) => Copied(log'[i], q, k)
    <2>1. \A m \in appReqs : m.prevIdx \in Nat /\ Len(m.entries) \in Nat
      BY AckTypes
    <2>2. Len(log[i]) \in Nat
      BY <1>3
    <2> QED
      BY <1>4, <2>1, <2>2, GrownLog
  <1>6. Sent(i)'
    <2>1. \A p \in Node : nextIndex'[i][p] <= Len(log'[i])
      <3>1. \A p \in Node : nextIndex[i][p] <= Len(log[i]) /\ nextIndex[i][p] \in Nat
        BY AckTypes DEF Sent
      <3> QED
        BY <3>1, <1>1, <1>3, <1>4
    <2>2. \A m \in appReqs' : m.term = currentTerm'[i] => SliceOf(m, log'[i])
      BY <1>1, <1>5 DEF Sent
    <2>3. \A d \in calls'[i] : d.term = currentTerm'[i] => d.prevIdx + d.len < Len(log'[i])
      <3>1. \A d \in calls[i] : d.prevIdx \in Nat /\ d.len \in Nat
        BY AckTypes
      <3>2. \A d \in calls[i] : d.term = currentTerm[i] => d.prevIdx + d.len < Len(log[i])
        BY DEF Sent
      <3> QED
        BY <3>1, <3>2, <1>1, <1>3, <1>4
    <2> QED
      BY <2>1, <2>2, <2>3 DEF Sent
  <1>7. ASSUME NEW p \in Peer(i), NEW k \in Nat, HeldUpTo(i, p, k)
        PROVE  k > 0 => /\ currentTerm'[p] >= currentTerm'[i]
                        /\ currentTerm'[p] = currentTerm'[i] => Copied(log'[i], log'[p], k)
    <2>1. p \in Node /\ p # i
      BY DEF Peer
    <2>2. currentTerm[p] = currentTerm[i] => log'[p] = log[p]
      BY <2>1, <1>1, <1>2, OneLeaderPerTerm
    <2> QED
      BY <2>2, <1>1, <1>5, <1>7 DEF HeldUpTo
  <1>8. \A p \in Peer(i) : HeldUpTo(i, p, matchIndex[i][p])'
    <2> SUFFICES ASSUME NEW p \in Peer(i) PROVE HeldUpTo(i, p, matchIndex[i][p])'
      OBVIOUS
    <2> DEFINE k == matchIndex[i][p]
    <2>1. k \in Nat /\ HeldUpTo(i, p, k)
      BY AckTypes DEF Peer, Acked
    <2>2. matchIndex'[i][p] = k
      BY <1>1
    <2> HIDE DEF k
    <2>3. k > 0 => /\ currentTerm'[p] >= currentTerm'[i]
                   /\ currentTerm'[p] = currentTerm'[i] => Copied(log'[i], log'[p], k)
      BY <2>1, <1>7
    <2> QED
      BY <2>2, <2>3 DEF HeldUpTo
  <1>9. ASSUME NEW r \in appReps', r.dst = i, r.src # i, r.success,
               r.call.term = currentTerm'[i]
        PROVE  HeldUpTo(i, r.src, r.call.prevIdx + r.call.len)'
    <2> DEFINE k == r.call.prevIdx + r.call.len
    <2>1. r.src \in Peer(i) /\ k \in Nat /\ HeldUpTo(i, r.src, k)
      BY <1>1, <1>9, AckTypes DEF Acked, Peer
    <2> HIDE DEF k
    <2>2. k > 0 => /\ currentTerm'[r.src] >= currentTerm'[i]
                   /\ currentTerm'[r.src] = currentTerm'[i] => Copied(log'[i], log'[r.src], k)
      BY <2>1, <1>7
    <2> QED
      BY <2>2 DEF HeldUpTo, k
  <1> QED
    BY <1>6, <1>8, <1>9 DEF Acked

\* Every request, call and answer belongs to a recorded leadership.
LEMMA CallsOwnedStep ==
    ASSUME TypeInv, ElectionInv, CallsOwned, NEW n \in Node, NodeStep(n)
    PROVE  CallsOwned'
  <1>1. leaders \subseteq leaders'
    BY DEF NodeStep, FollowerTimeout, RunFollower, StartElection, HandleVoteReply,
           WinElection, ElectionEnds, ElectionDone, SendAppend, HandleAppendReply,
           LeaderStepsDown, LeaderDone, HandleRequestVote, RejectAppendEntries,
           HandleAppendEntries, Propose, Apply, Crash, Boot, histVars
  <1>2. calls \in [Node -> SUBSET Call]
    BY DEF TypeInv, TypeOK
  <1>3. ASSUME NEW p \in Peer(n), SendAppend(n, p) PROVE CallsOwned'
    <2>1. \E l \in leaders : l.term = currentTerm[n]
      BY <1>3 DEF SendAppend, ElectionInv, RoleRecorded
    <2>2. \A m \in appReqs' : m \in appReqs \/ m.term = currentTerm[n]
      BY <1>3 DEF SendAppend
    <2>3. appReps' \subseteq appReps
      BY <1>3 DEF SendAppend
    <2>4. \A i \in Node : \A c \in calls'[i] : c \in calls[i] \/ c.term = currentTerm[n]
      BY <1>2, <1>3 DEF SendAppend
    <2> QED
      BY <1>1, <2>1, <2>2, <2>3, <2>4 DEF CallsOwned
  <1>4. ASSUME NEW m \in appReqs, RejectAppendEntries(n, m) \/ HandleAppendEntries(n, m)
        PROVE  CallsOwned'
    <2>1. UNCHANGED <<appReqs, calls>>
      BY <1>4 DEF RejectAppendEntries, HandleAppendEntries, runVars
    <2>2. \A r \in appReps' : r \in appReps \/ r.call.term = m.term
      BY <1>4 DEF RejectAppendEntries, HandleAppendEntries, AppendReply
    <2> QED
      BY <1>1, <2>1, <2>2 DEF CallsOwned
  <1>5. ASSUME UNCHANGED appReqs, appReps' \subseteq appReps,
               \A i \in Node : calls'[i] \subseteq calls[i]
        PROVE  CallsOwned'
    BY <1>1, <1>5 DEF CallsOwned
  <1>6. CASE \/ (\E m \in appReps : HandleAppendReply(n, m)) \/ LeaderDone(n) \/ Crash(n)
    <2>1. UNCHANGED appReqs /\ appReps' \subseteq appReps
      BY <1>6 DEF HandleAppendReply, LeaderDone, Crash
    <2>2. \E S \in SUBSET calls[n] : calls' = [calls EXCEPT ![n] = S]
      BY <1>2, <1>6 DEF HandleAppendReply, LeaderDone, Crash
    <2>3. \A i \in Node : calls'[i] \subseteq calls[i]
      BY <1>2, <2>2
    <2> QED
      BY <1>5, <2>1, <2>3
  <1>7. CASE \/ FollowerTimeout(n) \/ RunFollower(n) \/ StartElection(n)
             \/ (\E m \in voteReps : HandleVoteReply(n, m)) \/ WinElection(n)
             \/ ElectionEnds(n) \/ ElectionDone(n) \/ LeaderStepsDown(n)
             \/ (\E m \in voteReqs : HandleRequestVote(n, m))
             \/ (\E c \in Cmd : Propose(n, c)) \/ Apply(n) \/ Boot(n)
    <2>1. UNCHANGED <<appReqs, appReps, calls>>
      BY <1>7 DEF FollowerTimeout, RunFollower, StartElection, HandleVoteReply,
           WinElection, ElectionEnds, ElectionDone, LeaderStepsDown, HandleRequestVote,
           Propose, Apply, Boot, netVars, runVars
    <2> QED
      BY <1>5, <2>1
  <1> QED
    BY <1>3, <1>4, <1>6, <1>7 DEF NodeStep

\* What a leader knows stays true in every step that leaves it a leader.
LEMMA CopyStep ==
    ASSUME TypeInv, TypeInv', ElectionInv, ReplInv, ReplInv', CopyInv,
           NEW n \in Node, NodeStep(n), ElectionsSound, ElectionsSound',
           NEW i \in Node, state'[i] = Leader
    PROVE  Sent(i)' /\ Acked(i)'
  <1>1. ~Crash(n)
    <2>1. ASSUME Crash(n) PROVE FALSE
      <3>1. used["crashes"] = 0 /\ used'["crashes"] = 0 /\ used \in [Bound -> Nat]
        BY DEF ElectionsSound, TypeInv, TypeOK
      <3>2. used' = [used EXCEPT !["crashes"] = used["crashes"] + 1]
        BY <2>1 DEF Crash, Spend
      <3> QED
        BY <3>1, <3>2 DEF Bound
    <2> QED
      BY <2>1
  <1>2. CASE i = n /\ WinElection(n)
    BY <1>2, WinCopies
  <1>3. CASE state[i] = Leader /\ currentTerm'[i] = currentTerm[i]
    <2>1. Sent(i) /\ Acked(i)
      BY <1>3 DEF CopyInv
    <2>2. \A p \in Node : currentTerm'[p] \in Nat /\ currentTerm[p] <= currentTerm'[p]
      BY <1>1, TermsGrow
    <2>3. /\ nextIndex \in [Node -> [Node -> Nat]] /\ matchIndex \in [Node -> [Node -> Nat]]
          /\ calls \in [Node -> SUBSET Call]
      BY DEF TypeInv, TypeOK, Index
    <2>4. ASSUME UNCHANGED log, nextIndex'[i] = nextIndex[i],
                 matchIndex'[i] = matchIndex[i], calls'[i] \subseteq calls[i],
                 \A m \in appReqs' : m \in appReqs \/ m.term # currentTerm[i],
                 \A m \in appReps' : m \in appReps \/ ~m.success
          PROVE  Sent(i)' /\ Acked(i)'
      BY <1>3, <2>1, <2>2, <2>4, LeaderUndisturbed
    <2>5. ASSUME NEW p \in Peer(n), SendAppend(n, p) PROVE Sent(i)' /\ Acked(i)'
      <3>1. CASE i = n
        BY <3>1, <2>1, <2>5, SendCopies
      <3>2. CASE i # n
        <4>1. currentTerm[n] # currentTerm[i]
          BY <1>3, <2>5, <3>2, OneLeaderPerTerm DEF SendAppend
        <4>2. \A m \in appReqs' : m \in appReqs \/ m.term # currentTerm[i]
          BY <4>1, <2>5 DEF SendAppend
        <4>3. /\ UNCHANGED <<log, matchIndex>> /\ nextIndex'[i] = nextIndex[i]
              /\ calls'[i] = calls[i] /\ appReps' \subseteq appReps
          BY <2>3, <2>5, <3>2 DEF SendAppend
        <4> QED
          BY <2>4, <4>2, <4>3
      <3> QED
        BY <3>1, <3>2
    <2>6. ASSUME NEW m \in appReps, HandleAppendReply(n, m) PROVE Sent(i)' /\ Acked(i)'
      <3>1. CASE i = n
        BY <3>1, <1>3, <2>1, <2>6, ReplyCopies
      <3>2. CASE i # n
        <4>1. /\ UNCHANGED <<log, appReqs>> /\ calls'[i] = calls[i]
              /\ appReps' \subseteq appReps
          BY <2>3, <2>6, <3>2 DEF HandleAppendReply
        <4>2. nextIndex'[i] = nextIndex[i] /\ matchIndex'[i] = matchIndex[i]
          BY <2>3, <2>6, <3>2 DEF HandleAppendReply
        <4> QED
          BY <2>4, <4>1, <4>2
      <3> QED
        BY <3>1, <3>2
    <2>7. ASSUME NEW m \in appReqs, HandleAppendEntries(n, m) PROVE Sent(i)' /\ Acked(i)'
      <3>1. i # n
        <4>1. state'[n] = Follower
          BY <2>7 DEF HandleAppendEntries, TypeInv, TypeOK
        <4> QED
          BY <4>1 DEF Follower, Leader
      <3>2. ChainsMatch'
        BY DEF ReplInv
      <3> QED
        BY <2>1, <2>7, <3>1, <3>2, AppendCopies
    <2>8. ASSUME NEW c \in Cmd, Propose(n, c) PROVE Sent(i)' /\ Acked(i)'
      BY <1>3, <2>1, <2>8, ProposeCopies
    <2>9. CASE WinElection(n)
      <3>1. i # n
        BY <1>3, <2>9 DEF WinElection, ElectionInv, RoleRecorded
      <3>2. /\ UNCHANGED <<log, appReqs, appReps, calls>>
            /\ nextIndex'[i] = nextIndex[i] /\ matchIndex'[i] = matchIndex[i]
        BY <2>3, <2>9, <3>1 DEF WinElection, InitLeaderState, netVars
      <3> QED
        BY <2>4, <3>2
    <2>10. CASE LeaderDone(n)
      BY <2>3, <2>4, <2>10 DEF LeaderDone
    <2>11. CASE \E m \in appReqs : RejectAppendEntries(n, m)
      <3>1. /\ UNCHANGED <<log, nextIndex, matchIndex, calls, appReqs>>
            /\ \A m \in appReps' : m \in appReps \/ ~m.success
        BY <2>11 DEF RejectAppendEntries, AppendReply, nodeVars, runVars
      <3> QED
        BY <2>4, <3>1
    <2>12. CASE \/ FollowerTimeout(n) \/ RunFollower(n) \/ StartElection(n)
                \/ (\E m \in voteReps : HandleVoteReply(n, m))
                \/ ElectionEnds(n) \/ ElectionDone(n) \/ LeaderStepsDown(n)
                \/ (\E m \in voteReqs : HandleRequestVote(n, m))
                \/ Apply(n) \/ Boot(n)
      <3>1. UNCHANGED <<log, nextIndex, matchIndex, calls, appReqs, appReps>>
        BY <2>12 DEF FollowerTimeout, RunFollower, StartElection, HandleVoteReply,
             ElectionEnds, ElectionDone, LeaderStepsDown, HandleRequestVote,
             Apply, Boot, netVars, runVars, nodeVars
      <3> QED
        BY <2>4, <3>1
    <2> QED
      BY <1>1, <2>5, <2>6, <2>7, <2>8, <2>9, <2>10, <2>11, <2>12 DEF NodeStep
  <1> QED
    BY <1>2, <1>3, LeaderStays

\* The invariant holds in every reachable state.
LEMMA CopyInvariant == Spec => []CopyInv
  <1>1. Init => CopyInv
    BY DEF Init, CopyInv, CallsOwned, Follower, Leader
  <1>2. /\ TypeInv /\ TypeInv' /\ ElectionInv /\ ReplInv /\ ReplInv' /\ CopyInv
        /\ [Next]_vars
        => CopyInv'
    <2> SUFFICES ASSUME TypeInv, TypeInv', ElectionInv, ReplInv, ReplInv', CopyInv,
                        [Next]_vars
                 PROVE  CopyInv'
      OBVIOUS
    <2>1. CASE UNCHANGED vars
      BY <2>1 DEF vars, nodeVars, runVars, netVars, histVars, CopyInv, CallsOwned,
           ElectionsSound, Sent, Acked, HeldUpTo
    <2>2. ASSUME NEW n \in Node, NodeStep(n) PROVE CopyInv'
      <3>1. CallsOwned'
        BY <2>2, CallsOwnedStep DEF CopyInv
      <3>2. ElectionsSound' => ElectionsSound
        BY SoundBefore
      <3>3. ASSUME ElectionsSound', NEW i \in Node, state'[i] = Leader
            PROVE  Sent(i)' /\ Acked(i)'
        BY <2>2, <3>2, <3>3, CopyStep
      <3> QED
        BY <3>1, <3>3 DEF CopyInv
    <2> QED
      BY <2>1, <2>2 DEF Next
  <1> QED
    BY <1>1, <1>2, TypeInvariant, ElectionInvariant, ReplInvariant, PTL DEF Spec

\* While elections are sound, a follower in the term of a leader holds that
\* leader's log up to the matchIndex the leader keeps for it, whatever answers
\* came late, twice or not at all.
THEOREM LeadersKnowTheirFollowers == Spec => []MatchIsReplicated
  <1>1. TypeInv /\ CopyInv => MatchIsReplicated
    <2> SUFFICES ASSUME TypeInv, CopyInv, ElectionsSound, NEW n \in Node,
                        NEW p \in Peer(n), state[n] = Leader,
                        currentTerm[p] = currentTerm[n]
                 PROVE  SameUpTo(n, p, matchIndex[n][p])
      BY DEF MatchIsReplicated
    <2> DEFINE k == matchIndex[n][p]
    <2>1. p \in Node /\ k \in Nat
      BY AckTypes DEF Peer
    <2>2. HeldUpTo(n, p, k)
      BY DEF CopyInv, Acked
    <2> HIDE DEF k
    <2>3. SameUpTo(n, p, k)
      <3>1. CASE k = 0
        BY <3>1 DEF SameUpTo
      <3>2. CASE k > 0
        <4>1. Copied(log[n], log[p], k)
          BY <2>2, <3>2 DEF HeldUpTo
        <4> QED
          BY <2>1, <4>1, CopiedIsSame
      <3> QED
        BY <2>1, <3>1, <3>2
    <2> QED
      BY <2>3 DEF k
  <1> QED
    BY <1>1, TypeInvariant, CopyInvariant, PTL

-----------------------------------------------------------------------------
(***************************************************************************)
(* What is committed stays committed, while elections are sound            *)
(* (ElectionsSound): LeaderCompleteness, StateMachineSafety and            *)
(* CommittedStable of Raft, for every cluster, every number of commands    *)
(* and every interleaving of late and repeated requests.                   *)
(*                                                                         *)
(* The usual argument looks back at the log a voter had when it voted and  *)
(* at what a node had acknowledged before it left a term.  Nothing in the  *)
(* state remembers either, so the argument is turned around, into what the *)
(* present state rules out.  An entry is Kept when no leader of a later    *)
(* term lacks it, no log that a voter would prefer to it lacks it, and no  *)
(* request in flight conflicts with it.  A node is a Holder of it when the *)
(* node has it and has voted for no candidate that lacks it and may still  *)
(* win.  An entry that is kept and has a majority of holders is Chosen,    *)
(* and stays so: a winner needs the vote of a holder, which has compared   *)
(* the candidate's log with its own.                                       *)
(*                                                                         *)
(* An entry becomes chosen gradually, so OpenKept says what is true        *)
(* before: as long as the nodes that a leader can no longer count are no   *)
(* majority, its entries of its own term are kept, and the nodes that it   *)
(* counts, or is about to count, hold them.  CommitsChosen says that every *)
(* commit index, held or sent, lies below a chosen entry.                  *)
(***************************************************************************)
\* The log has an entry of term t at index i.
Has(l, i, t) == 1 <= i /\ i < Len(l) /\ l[i + 1].term = t

\* The entry at index k is no older than one of term t at index i, in the order
\* in which a voter compares logs.
NoOlder(l, k, i, t) == l[k + 1].term > t \/ (l[k + 1].term = t /\ k >= i)

\* The request agrees with the log up to index i, and is of term t or later
\* beyond it.
Fits(m, l, i, t) ==
    /\ \A k \in 1..Len(m.entries) :
          m.prevIdx + k <= i => m.entries[k] = l[m.prevIdx + k + 1]
    /\ m.prevIdx <= i => m.prevTerm = l[m.prevIdx + 1].term
    /\ m.prevIdx >= i => m.prevTerm >= t

\* Nothing that is to come takes away the entry of term t at index i: the later
\* leaders have it, so has every log that a voter would prefer, and no request
\* of that term or a later one is in conflict with it.
Kept(i, t) ==
    /\ \A n \in Node : state[n] = Leader /\ currentTerm[n] > t => Has(log[n], i, t)
    /\ \A n \in Node : \A k \in 1..(Len(log[n]) - 1) :
          NoOlder(log[n], k, i, t) => Has(log[n], i, t)
    /\ \A m \in appReqs : \A n \in Node :
          m.term >= t /\ Has(log[n], i, t) => Fits(m, log[n], i, t)

\* A candidate that may still win its election.
Standing(c) ==
    /\ pc[c] = "electing" /\ elecTerm[c] = currentTerm[c]
    /\ \A l \in leaders : l.term # currentTerm[c]

\* The node has the entry, and has voted in no later term for a candidate that
\* may still win and lacks it.
Holder(v, i, t) ==
    /\ currentTerm[v] >= t
    /\ Has(log[v], i, t)
    /\ \A c \in Node :
          /\ <<v, c, currentTerm[c]>> \in grants
          /\ currentTerm[c] > t /\ Standing(c)
          => Has(log[c], i, t)

\* The entry is in a majority for good.
Chosen(i, t) == Kept(i, t) /\ Majority({v \in Node : Holder(v, i, t)})

\* The nodes that a leader counts, or may yet count, for an index.
Counted(n, i) ==
    {n} \cup {p \in Node : matchIndex[n][p] >= i}
        \cup {p \in Node : \E r \in appReps :
                 /\ r.dst = n /\ r.src = p /\ r.success
                 /\ r.call.term = currentTerm[n]
                 /\ r.call.prevIdx + r.call.len >= i}

\* The nodes that it can no longer count.
Gone(n, i) == {v \in Node : currentTerm[v] > currentTerm[n] /\ v \notin Counted(n, i)}

\* A leader counts nobody for an index beyond its log.
CountsBounded ==
    \A n \in Node : state[n] = Leader =>
        /\ \A p \in Node : matchIndex[n][p] < Len(log[n])
        /\ \A r \in appReps :
              r.dst = n /\ r.success /\ r.call.term = currentTerm[n]
              => r.call.prevIdx + r.call.len < Len(log[n])

\* A leader's entry of its own term that may still get a majority is kept, by
\* every node it counts.
OpenKept ==
    \A n \in Node : \A i \in 1..(Len(log[n]) - 1) :
        /\ state[n] = Leader /\ Has(log[n], i, currentTerm[n])
        /\ ~Majority(Gone(n, i))
        => /\ Kept(i, currentTerm[n])
           /\ \A p \in Counted(n, i) : Holder(p, i, currentTerm[n])

\* Node w holds a chosen entry at index k, of term t or earlier.
Anchor(w, k, t) ==
    /\ 1 <= k /\ k < Len(log[w]) /\ log[w][k + 1].term <= t
    /\ Chosen(k, log[w][k + 1].term)

\* What a node takes to be committed, or is told to be, lies below a chosen entry.
CommitsChosen ==
    /\ \A n \in Node : commitIndex[n] > 0 =>
          \E w \in Node : \E k \in commitIndex[n]..(Len(log[w]) - 1) :
             Anchor(w, k, currentTerm[n]) /\ Copied(log[w], log[n], commitIndex[n])
    /\ \A m \in appReqs : m.commit > 0 =>
          \E w \in Node : \E k \in m.commit..(Len(log[w]) - 1) : Anchor(w, k, m.term)

\* The state machine was given the commands of the log, up to commitIndex.
AppliedLog ==
    \A n \in Node :
        /\ Len(applied[n]) <= commitIndex[n]
        /\ \A k \in 1..Len(applied[n]) : applied[n][k] = log[n][k + 1].cmd

\* Terms never decrease along a log or a request, nor beyond the term of its node
\* or sender.
Ascending(s) == \A j, k \in 1..Len(s) : j <= k => s[j].term <= s[k].term

Below(s, t) == \A k \in 1..Len(s) : s[k].term <= t

TermsNat(s) == Len(s) \in Nat /\ \A k \in 1..Len(s) : s[k].term \in Nat

TermsOrdered ==
    /\ \A n \in Node : Ascending(log[n]) /\ Below(log[n], currentTerm[n])
    /\ \A m \in appReqs :
          /\ Ascending(m.entries) /\ Below(m.entries, m.term)
          /\ \A k \in 1..Len(m.entries) : m.prevTerm <= m.entries[k].term

\* Votes are of the past of both sides, and a request for votes describes the log
\* that its candidate still has.
VotesDescribed ==
    /\ \A v, c \in Node : \A t \in Term :
          <<v, c, t>> \in grants => t <= currentTerm[v] /\ t <= currentTerm[c]
    /\ \A m \in voteReqs :
          /\ m.term <= currentTerm[m.src]
          /\ m.term = currentTerm[m.src] /\ Standing(m.src) =>
                m.lastIdx = LastIndex(log[m.src]) /\ m.lastTerm = LastTerm(log[m.src])

CompleteInv ==
    ElectionsSound =>
        /\ TermsOrdered /\ VotesDescribed /\ CountsBounded /\ OpenKept
        /\ CommitsChosen /\ AppliedLog

\* What is known already of behaviours with sound elections.
Known == ElectionsSound /\ TypeInv /\ ElectionInv /\ ReplInv /\ CopyInv

-----------------------------------------------------------------------------
(***************************************************************************)
(* Steps                                                                   *)
(***************************************************************************)

\* The terms of what is held and sent are natural numbers.
LEMMA TermTypes ==
    ASSUME TypeInv
    PROVE  /\ \A n \in Node : /\ LogFrom0(log[n], Slot) /\ Len(log[n]) \in Nat
                               /\ Len(log[n]) > 0 /\ currentTerm[n] \in Nat
                               /\ \A k \in 1..Len(log[n]) : log[n][k].term \in Nat
           /\ \A m \in appReqs : /\ m.term \in Nat /\ m.prevIdx \in Nat /\ m.prevTerm \in Nat
                                  /\ Len(m.entries) \in Nat /\ m.commit \in Nat
                                  /\ \A k \in 1..Len(m.entries) : m.entries[k].term \in Nat
  <1>1. \A e \in Slot : e.term \in Nat
    BY DEF Slot, Entry, Placeholder, Term
  <1>2. ASSUME NEW n \in Node
        PROVE  /\ LogFrom0(log[n], Slot) /\ Len(log[n]) \in Nat
               /\ Len(log[n]) > 0 /\ currentTerm[n] \in Nat
               /\ \A k \in 1..Len(log[n]) : log[n][k].term \in Nat
    <2>1. LogFrom0(log[n], Slot)
      BY DEF TypeInv, LogOK
    <2>2. currentTerm[n] \in Nat
      BY DEF TypeInv, TypeOK, Term
    <2>3. log[n] \in Seq(Slot) /\ Len(log[n]) \in Nat /\ Len(log[n]) > 0
      BY <2>1 DEF LogFrom0
    <2>4. \A k \in 1..Len(log[n]) : log[n][k] \in Slot
      BY <2>3
    <2> QED
      BY <1>1, <2>1, <2>2, <2>3, <2>4
  <1>3. ASSUME NEW m \in appReqs
        PROVE  /\ m.term \in Nat /\ m.prevIdx \in Nat /\ m.prevTerm \in Nat
               /\ Len(m.entries) \in Nat /\ m.commit \in Nat
               /\ \A k \in 1..Len(m.entries) : m.entries[k].term \in Nat
    <2>1. m \in AppReq
      BY DEF TypeInv, TypeOK
    <2>2. /\ m.term \in Nat /\ m.prevIdx \in Nat /\ m.prevTerm \in Nat /\ m.commit \in Nat
          /\ m.entries \in Seq(Entry)
      BY <2>1 DEF AppReq, Term, Index
    <2>3. \A k \in 1..Len(m.entries) : m.entries[k] \in Entry
      BY <2>2
    <2> QED
      BY <1>1, <2>2, <2>3 DEF Slot
  <1> QED
    BY <1>2, <1>3

\* The same of the logs after a step.
LEMMA NextLogTypes ==
    ASSUME TypeInv', NEW n \in Node
    PROVE  LogFrom0(log'[n], Slot) /\ Len(log'[n]) \in Nat /\ Len(log'[n]) > 0
  <1>1. LogFrom0(log'[n], Slot)
    BY DEF TypeInv, LogOK
  <1> QED
    BY <1>1 DEF LogFrom0

\* While elections are sound no process is lost, and terms only grow.
LEMMA SoundStep ==
    ASSUME Known, Known', NEW n \in Node, NodeStep(n)
    PROVE  ~Crash(n) /\ \A p \in Node : currentTerm'[p] \in Nat /\ currentTerm[p] <= currentTerm'[p]
  <1>1. ASSUME Crash(n) PROVE FALSE
    <2>1. used["crashes"] = 0 /\ used'["crashes"] = 0 /\ used \in [Bound -> Nat]
      BY DEF Known, ElectionsSound, TypeInv, TypeOK
    <2>2. used' = [used EXCEPT !["crashes"] = used["crashes"] + 1]
      BY <1>1 DEF Crash, Spend
    <2> QED
      BY <2>1, <2>2 DEF Bound
  <1>2. \A p \in Node : currentTerm'[p] \in Nat /\ currentTerm[p] <= currentTerm'[p]
    BY <1>1, TermsGrow DEF Known
  <1> QED
    BY <1>1, <1>2

\* The logs change by Propose and HandleAppendEntries only.
LEMMA LogStep ==
    ASSUME Known, Known', NEW n \in Node, NodeStep(n)
    PROVE  \/ UNCHANGED log
           \/ \E c \in Cmd : Propose(n, c)
           \/ \E m \in appReqs :
                 /\ HandleAppendEntries(n, m)
                 /\ \A i \in Node \ {n} : log'[i] = log[i]
                 /\ Consistent(log[n], m.prevIdx, m.prevTerm)
                 /\ Appended(Slot, log[n], m.prevIdx, m.entries, log'[n])
  <1>1. CASE \E m \in appReqs : HandleAppendEntries(n, m)
    <2>1. PICK m \in appReqs : HandleAppendEntries(n, m)
      BY <1>1
    <2>2. /\ \A i \in Node \ {n} : log'[i] = log[i]
          /\ \/ log'[n] = log[n]
             \/ /\ Consistent(log[n], m.prevIdx, m.prevTerm)
                /\ Appended(Slot, log[n], m.prevIdx, m.entries, log'[n])
      BY <2>1, AppendSplices DEF Known
    <2>3. log \in [Node -> Seq(Entry \cup {Placeholder})]
          /\ log' \in [Node -> Seq(Entry \cup {Placeholder})]
      BY DEF Known, TypeInv, TypeOK
    <2>4. log'[n] = log[n] => UNCHANGED log
      BY <2>2, <2>3
    <2> QED
      BY <2>1, <2>2, <2>4
  <1>2. CASE \E c \in Cmd : Propose(n, c)
    BY <1>2
  <1>3. CASE \/ FollowerTimeout(n) \/ RunFollower(n) \/ StartElection(n)
             \/ (\E m \in voteReps : HandleVoteReply(n, m)) \/ WinElection(n)
             \/ ElectionEnds(n) \/ ElectionDone(n) \/ (\E p \in Peer(n) : SendAppend(n, p))
             \/ (\E m \in appReps : HandleAppendReply(n, m)) \/ LeaderStepsDown(n)
             \/ LeaderDone(n) \/ (\E m \in voteReqs : HandleRequestVote(n, m))
             \/ (\E m \in appReqs : RejectAppendEntries(n, m)) \/ Apply(n) \/ Boot(n)
    BY <1>3 DEF FollowerTimeout, RunFollower, StartElection, HandleVoteReply,
         WinElection, ElectionEnds, ElectionDone, SendAppend, HandleAppendReply,
         LeaderStepsDown, LeaderDone, HandleRequestVote, RejectAppendEntries, Apply,
         Boot, nodeVars
  <1> QED
    BY <1>1, <1>2, <1>3, SoundStep DEF NodeStep

\* A request that is new is a part of its leader's log.
LEMMA RequestStep ==
    ASSUME Known, Known', NEW n \in Node, NodeStep(n), NEW m \in appReqs', m \notin appReqs
    PROVE  /\ UNCHANGED <<log, state, currentTerm, commitIndex, leaders, pc, elecTerm, grants>>
           /\ state[n] = Leader
           /\ m.term = currentTerm[n] /\ m.commit = commitIndex[n] /\ SliceOf(m, log[n])
  <1>1. \E p \in Peer(n) : SendAppend(n, p)
    BY SoundStep
       DEF NodeStep, FollowerTimeout, RunFollower, StartElection, HandleVoteReply,
           WinElection, ElectionEnds, ElectionDone, HandleAppendReply, LeaderStepsDown,
           LeaderDone, HandleRequestVote, RejectAppendEntries, HandleAppendEntries,
           Propose, Apply, Boot, netVars
  <1>2. /\ UNCHANGED <<log, state, currentTerm, commitIndex, leaders, pc, elecTerm, grants>>
        /\ state[n] = Leader
        /\ m.term = currentTerm[n] /\ m.commit = commitIndex[n]
    BY <1>1 DEF SendAppend, histVars
  <1>3. Sent(n)'
    BY <1>2 DEF Known, CopyInv
  <1> QED
    BY <1>2, <1>3 DEF Sent

\* What rule 4 leaves in a log: everything up to the request's start, then the
\* terms of the request.
Spliced(q, new, m) ==
    /\ m.prevIdx < Len(q) /\ q[m.prevIdx + 1].term = m.prevTerm
    /\ m.prevIdx + Len(m.entries) < Len(new)
    /\ \A j \in 1..(m.prevIdx + 1) : new[j] = q[j]
    /\ \A k \in 1..Len(m.entries) : new[m.prevIdx + k + 1].term = m.entries[k].term
    /\ new = q \/ Len(new) = m.prevIdx + Len(m.entries) + 1

\* AppendAll splices the request into the log.
LEMMA SpliceTerms ==
    ASSUME NEW S, NEW q, NEW new, NEW m, LogFrom0(q, S), LogFrom0(new, S),
           m.prevIdx \in Nat, Len(m.entries) \in Nat,
           Consistent(q, m.prevIdx, m.prevTerm),
           Appended(S, q, m.prevIdx, m.entries, new)
    PROVE  Spliced(q, new, m)
  <1>1. Len(q) \in Nat /\ Len(new) \in Nat
    BY DEF LogFrom0
  <1>2. m.prevIdx < Len(q) /\ q[m.prevIdx + 1].term = m.prevTerm
    <2>1. /\ FirstIndex(q) = 0 /\ LastIndex(q) = Len(q) - 1
          /\ \A h \in 0..(Len(q) - 1) : TermAt(q, h) = q[h + 1].term
      BY LogFrom0Lookups
    <2>2. m.prevIdx <= Len(q) - 1 /\ TermAt(q, m.prevIdx) = m.prevTerm
      BY <2>1 DEF Consistent
    <2>3. m.prevIdx \in 0..(Len(q) - 1)
      BY <2>2, <1>1
    <2> QED
      BY <2>1, <2>2, <2>3
  <1>3. CASE new = q /\ \A k \in 1..Len(m.entries) :
                 /\ m.prevIdx + k + 1 \in 1..Len(q)
                 /\ q[m.prevIdx + k + 1].term = m.entries[k].term
    <2>1. m.prevIdx + Len(m.entries) < Len(q)
      <3>1. CASE Len(m.entries) = 0
        BY <3>1, <1>2
      <3>2. CASE Len(m.entries) # 0
        <4>1. Len(m.entries) \in 1..Len(m.entries)
          BY <3>2
        <4>2. m.prevIdx + Len(m.entries) + 1 \in 1..Len(q)
          BY <4>1, <1>3
        <4> QED
          BY <4>2
      <3> QED
        BY <3>1, <3>2
    <2> QED
      BY <2>1, <1>2, <1>3 DEF Spliced
  <1>4. CASE \E k \in 1..Len(m.entries) :
                 /\ m.prevIdx + k <= Len(q)
                 /\ Len(new) = m.prevIdx + Len(m.entries) + 1
                 /\ \A j \in 1..(m.prevIdx + k) : new[j] = q[j]
                 /\ \A j \in (m.prevIdx + k + 1)..Len(new) :
                        new[j] = m.entries[j - m.prevIdx - 1]
                 /\ \A j \in 1..(k - 1) : q[m.prevIdx + j + 1].term = m.entries[j].term
    <2>1. PICK k \in 1..Len(m.entries) :
                 /\ m.prevIdx + k <= Len(q)
                 /\ Len(new) = m.prevIdx + Len(m.entries) + 1
                 /\ \A j \in 1..(m.prevIdx + k) : new[j] = q[j]
                 /\ \A j \in (m.prevIdx + k + 1)..Len(new) :
                        new[j] = m.entries[j - m.prevIdx - 1]
                 /\ \A j \in 1..(k - 1) : q[m.prevIdx + j + 1].term = m.entries[j].term
      BY <1>4
    <2>2. \A j \in 1..(m.prevIdx + 1) : new[j] = q[j]
      BY <2>1
    <2>3. ASSUME NEW h \in 1..Len(m.entries)
          PROVE  new[m.prevIdx + h + 1].term = m.entries[h].term
      <3>1. CASE h < k
        <4>1. h \in 1..(k - 1) /\ m.prevIdx + h + 1 \in 1..(m.prevIdx + k)
          BY <3>1
        <4> QED
          BY <4>1, <2>1
      <3>2. CASE h >= k
        <4>1. /\ m.prevIdx + h + 1 \in (m.prevIdx + k + 1)..Len(new)
              /\ (m.prevIdx + h + 1) - m.prevIdx - 1 = h
          <5>1. Len(new) = m.prevIdx + Len(m.entries) + 1
            BY <2>1
          <5> QED
            BY <5>1, <3>2
        <4>2. new[m.prevIdx + h + 1] = m.entries[(m.prevIdx + h + 1) - m.prevIdx - 1]
          BY <4>1, <2>1
        <4> QED
          BY <4>1, <4>2
      <3> QED
        BY <3>1, <3>2
    <2>4. m.prevIdx + Len(m.entries) < Len(new)
      BY <2>1
    <2> QED
      BY <1>2, <2>1, <2>2, <2>3, <2>4 DEF Spliced
  <1> QED
    BY <1>3, <1>4 DEF Appended

\* It takes nothing away up to an index where the request agrees.
Agrees(m, q, i) ==
    \A k \in 1..Len(m.entries) :
        m.prevIdx + k <= i => m.entries[k].term = q[m.prevIdx + k + 1].term

Retained(q, new, i) == i < Len(new) /\ \A j \in 1..(i + 1) : new[j] = q[j]

\* It retains what the request agrees with.
LEMMA SpliceRetains ==
    ASSUME NEW S, NEW q, NEW new, NEW m, LogFrom0(q, S), LogFrom0(new, S),
           m.prevIdx \in Nat, Len(m.entries) \in Nat,
           Appended(S, q, m.prevIdx, m.entries, new), NEW i \in Nat, i < Len(q),
           Agrees(m, q, i)
    PROVE  Retained(q, new, i)
  <1>1. Len(q) \in Nat /\ Len(new) \in Nat
    BY DEF LogFrom0
  <1>2. CASE new = q
    BY <1>2 DEF Retained
  <1>3. CASE \E k \in 1..Len(m.entries) :
                 /\ m.prevIdx + k <= Len(q)
                 /\ Len(new) = m.prevIdx + Len(m.entries) + 1
                 /\ \A j \in 1..(m.prevIdx + k) : new[j] = q[j]
                 /\ m.prevIdx + k < Len(q) => q[m.prevIdx + k + 1].term # m.entries[k].term
    <2>1. PICK k \in 1..Len(m.entries) :
                 /\ m.prevIdx + k <= Len(q)
                 /\ Len(new) = m.prevIdx + Len(m.entries) + 1
                 /\ \A j \in 1..(m.prevIdx + k) : new[j] = q[j]
                 /\ m.prevIdx + k < Len(q) => q[m.prevIdx + k + 1].term # m.entries[k].term
      BY <1>3
    <2>2. i < m.prevIdx + k
      <3> SUFFICES ASSUME m.prevIdx + k <= i PROVE FALSE
        BY <1>1
      <3>1. m.prevIdx + k < Len(q)
        BY <1>1
      <3> QED
        BY <3>1, <2>1 DEF Agrees
    <2>3. i < Len(new) /\ 1..(i + 1) \subseteq 1..(m.prevIdx + k)
      BY <2>1, <2>2, <1>1
    <2> QED
      BY <2>1, <2>3 DEF Retained
  <1> QED
    BY <1>2, <1>3 DEF Appended

-----------------------------------------------------------------------------
(***************************************************************************)
(* The order of terms                                                      *)
(***************************************************************************)

\* Rule 4 keeps the terms of a log in order.
LEMMA SpliceAscends ==
    ASSUME NEW S, NEW q, NEW new, NEW m, LogFrom0(q, S), LogFrom0(new, S),
           m.prevIdx \in Nat, Len(m.entries) \in Nat,
           Consistent(q, m.prevIdx, m.prevTerm),
           Appended(S, q, m.prevIdx, m.entries, new),
           TermsNat(q), TermsNat(m.entries), Ascending(q), Ascending(m.entries),
           \A k \in 1..Len(m.entries) : m.prevTerm <= m.entries[k].term,
           NEW t, Below(q, t), Below(m.entries, t)
    PROVE  Ascending(new) /\ Below(new, t)
  <1>1. Len(q) \in Nat /\ Len(new) \in Nat
    BY DEF LogFrom0
  <1>2. /\ m.prevIdx < Len(q) /\ q[m.prevIdx + 1].term = m.prevTerm
        /\ \A j \in 1..(m.prevIdx + 1) : new[j] = q[j]
        /\ \A k \in 1..Len(m.entries) : new[m.prevIdx + k + 1].term = m.entries[k].term
        /\ new = q \/ Len(new) = m.prevIdx + Len(m.entries) + 1
    <2>1. Spliced(q, new, m)
      BY SpliceTerms
    <2> QED
      BY <2>1 DEF Spliced
  <1>3. CASE new = q
    BY <1>3
  <1>4. CASE Len(new) = m.prevIdx + Len(m.entries) + 1
    <2> DEFINE p == m.prevIdx + 1
    <2>1. p \in 1..Len(q) /\ p \in Nat /\ q[p].term = m.prevTerm
      BY <1>1, <1>2
    <2>2. \A j \in 1..Len(new) : j <= p => j \in 1..Len(q) /\ new[j] = q[j]
      BY <1>1, <1>2
    <2>3. \A j \in 1..Len(new) : j > p =>
              j - p \in 1..Len(m.entries) /\ new[j].term = m.entries[j - p].term
      <3> SUFFICES ASSUME NEW j \in 1..Len(new), j > p
                   PROVE  j - p \in 1..Len(m.entries) /\ new[j].term = m.entries[j - p].term
        OBVIOUS
      <3>1. j - p \in 1..Len(m.entries) /\ m.prevIdx + (j - p) + 1 = j
        BY SMTT(30), <1>1, <1>4
      <3>2. new[m.prevIdx + (j - p) + 1].term = m.entries[j - p].term
        BY <3>1, <1>2
      <3> QED
        BY <3>1, <3>2
    <2> HIDE DEF p
    <2>4. ASSUME NEW j \in 1..Len(new), NEW k \in 1..Len(new), j <= k
          PROVE  new[j].term <= new[k].term
      <3>0. j \in Nat /\ k \in Nat
        OBVIOUS
      <3>1. CASE k <= p
        <4>1. j <= p
          BY <3>0, <3>1, <2>1, <2>4
        <4>2. j \in 1..Len(q) /\ k \in 1..Len(q) /\ new[j] = q[j] /\ new[k] = q[k]
          BY <4>1, <3>1, <2>2
        <4> QED
          BY <4>2, <2>4 DEF Ascending
      <3>2. CASE j <= p /\ k > p
        <4>1. j \in 1..Len(q) /\ new[j] = q[j] /\ q[j].term <= q[p].term
          BY <3>2, <2>1, <2>2 DEF Ascending
        <4>2. k - p \in 1..Len(m.entries) /\ new[k].term = m.entries[k - p].term
          BY <3>2, <2>3
        <4>3. q[p].term <= m.entries[k - p].term
          BY <4>2, <2>1
        <4>4. q[j].term \in Nat /\ q[p].term \in Nat /\ m.entries[k - p].term \in Nat
          BY <4>1, <4>2, <2>1 DEF TermsNat
        <4> QED
          BY SMTT(30), <4>1, <4>2, <4>3, <4>4
      <3>3. CASE j > p
        <4>1. k > p
          BY <3>0, <3>3, <2>1, <2>4
        <4>2. j - p \in 1..Len(m.entries) /\ new[j].term = m.entries[j - p].term
          BY <3>3, <2>3
        <4>3. k - p \in 1..Len(m.entries) /\ new[k].term = m.entries[k - p].term
          BY <4>1, <2>3
        <4>4. j - p <= k - p
          BY <2>1, <2>4, <3>0
        <4>5. m.entries[j - p].term <= m.entries[k - p].term
          BY <4>2, <4>3, <4>4 DEF Ascending
        <4> QED
          BY <4>2, <4>3, <4>5
      <3> QED
        BY <3>0, <3>1, <3>2, <3>3, <2>1
    <2>5. ASSUME NEW k \in 1..Len(new)
          PROVE  new[k].term <= t
      <3>1. CASE k <= p
        BY <3>1, <2>2, <2>5 DEF Below
      <3>2. CASE k > p
        BY <3>2, <2>3, <2>5 DEF Below
      <3> QED
        BY <3>1, <3>2, <2>1
    <2> QED
      BY <2>4, <2>5 DEF Ascending, Below
  <1> QED
    BY <1>2, <1>3, <1>4

\* So does sendAppend, which takes a part of it.
LEMMA SliceAscends ==
    ASSUME NEW l, NEW m, NEW t, m.prevIdx \in Nat, Len(m.entries) \in Nat, Len(l) \in Nat,
           SliceOf(m, l), Ascending(l), Below(l, t)
    PROVE  /\ Ascending(m.entries) /\ Below(m.entries, t)
           /\ \A k \in 1..Len(m.entries) : m.prevTerm <= m.entries[k].term
  <1>1. /\ m.prevIdx + 1 \in 1..Len(l)
        /\ \A k \in 1..Len(m.entries) : m.prevIdx + k + 1 \in 1..Len(l)
    BY DEF SliceOf
  <1>2. \A k \in 1..Len(m.entries) : m.entries[k] = l[m.prevIdx + k + 1]
    BY DEF SliceOf
  <1>3. ASSUME NEW j \in 1..Len(m.entries), NEW k \in 1..Len(m.entries), j <= k
        PROVE  m.entries[j].term <= m.entries[k].term
    <2>1. m.prevIdx + j + 1 <= m.prevIdx + k + 1
      BY <1>3
    <2>2. l[m.prevIdx + j + 1].term <= l[m.prevIdx + k + 1].term
      BY <2>1, <1>1 DEF Ascending
    <2> QED
      BY <2>2, <1>2
  <1>4. ASSUME NEW k \in 1..Len(m.entries)
        PROVE  m.prevTerm <= m.entries[k].term /\ m.entries[k].term <= t
    <2>1. m.prevIdx + 1 <= m.prevIdx + k + 1
      OBVIOUS
    <2>2. l[m.prevIdx + 1].term <= l[m.prevIdx + k + 1].term
      BY <2>1, <1>1 DEF Ascending
    <2>3. m.prevTerm = l[m.prevIdx + 1].term
      BY DEF SliceOf
    <2> QED
      BY <2>2, <2>3, <1>1, <1>2 DEF Below
  <1> QED
    BY <1>3, <1>4 DEF Ascending, Below

\* Terms stay in order in every step.
LEMMA OrderStep ==
    ASSUME Known, Known', NEW n \in Node, NodeStep(n), TermsOrdered
    PROVE  TermsOrdered'
  <1>1. TypeInv /\ TypeInv'
    BY DEF Known
  <1>2. \A p \in Node : /\ currentTerm[p] \in Nat /\ currentTerm'[p] \in Nat
                         /\ currentTerm[p] <= currentTerm'[p]
    BY <1>1, SoundStep, TermTypes
  <1>3. \A i \in Node : /\ LogFrom0(log[i], Slot) /\ LogFrom0(log'[i], Slot)
                         /\ Len(log[i]) \in Nat /\ Len(log[i]) > 0 /\ Len(log'[i]) \in Nat
                         /\ TermsNat(log[i])
    BY <1>1, TermTypes, NextLogTypes DEF TermsNat
  <1>4. ASSUME NEW i \in Node, log'[i] = log[i]
        PROVE  Ascending(log'[i]) /\ Below(log'[i], currentTerm'[i])
    <2>1. Ascending(log[i]) /\ Below(log[i], currentTerm[i])
      BY DEF TermsOrdered
    <2> QED
      BY <2>1, <1>2, <1>3, <1>4 DEF Below, TermsNat
  <1>5. ASSUME NEW i \in Node
        PROVE  Ascending(log'[i]) /\ Below(log'[i], currentTerm'[i])
    <2>1. CASE UNCHANGED log
      BY <2>1, <1>4
    <2>2. ASSUME NEW c \in Cmd, Propose(n, c)
          PROVE  Ascending(log'[i]) /\ Below(log'[i], currentTerm'[i])
      <3>1. /\ \A j \in Node \ {n} : log'[j] = log[j]
            /\ Len(log'[n]) = Len(log[n]) + 1
            /\ \A k \in 1..Len(log[n]) : log'[n][k] = log[n][k]
            /\ log'[n][Len(log[n]) + 1].term = currentTerm[n]
        BY <1>1, <2>2, ProposeAppends
      <3>2. CASE i = n
        <4>1. Ascending(log[n]) /\ Below(log[n], currentTerm[n])
          BY DEF TermsOrdered
        <4>2. \A k \in 1..Len(log'[n]) :
                 \/ k = Len(log[n]) + 1 /\ log'[n][k].term = currentTerm[n]
                 \/ /\ k \in 1..Len(log[n]) /\ k <= Len(log[n])
                    /\ log'[n][k].term = log[n][k].term
          BY <3>1, <1>3
        <4>3. ASSUME NEW j \in 1..Len(log'[n]), NEW k \in 1..Len(log'[n]), j <= k
              PROVE  log'[n][j].term <= log'[n][k].term
          <5>1. CASE k = Len(log[n]) + 1 /\ log'[n][k].term = currentTerm[n]
            <6>1. log'[n][j].term <= currentTerm[n]
              <7>1. CASE j \in 1..Len(log[n]) /\ log'[n][j].term = log[n][j].term
                BY <7>1, <4>1 DEF Below
              <7>2. CASE log'[n][j].term = currentTerm[n]
                BY <7>2, <1>2
              <7> QED
                BY <7>1, <7>2, <4>2
            <6> QED
              BY <6>1, <5>1
          <5>2. CASE /\ k \in 1..Len(log[n]) /\ k <= Len(log[n])
                     /\ log'[n][k].term = log[n][k].term
            <6>1. j # Len(log[n]) + 1
              BY <4>3, <5>2, <1>3
            <6>2. j \in 1..Len(log[n]) /\ log'[n][j].term = log[n][j].term
              BY <6>1, <4>2
            <6> QED
              BY <6>2, <5>2, <4>1, <4>3 DEF Ascending
          <5> QED
            BY <5>1, <5>2, <4>2
        <4>4. Below(log'[n], currentTerm'[n])
          BY SMTT(30), <4>1, <4>2, <1>2, <1>3 DEF Below, TermsNat
        <4> QED
          BY <3>2, <4>3, <4>4 DEF Ascending
      <3>3. CASE i # n
        BY <3>1, <3>3, <1>4
      <3> QED
        BY <3>2, <3>3
    <2>3. ASSUME NEW m \in appReqs, HandleAppendEntries(n, m),
                 \A j \in Node \ {n} : log'[j] = log[j],
                 Consistent(log[n], m.prevIdx, m.prevTerm),
                 Appended(Slot, log[n], m.prevIdx, m.entries, log'[n])
          PROVE  Ascending(log'[i]) /\ Below(log'[i], currentTerm'[i])
      <3>1. CASE i = n
        <4>1. Ascending(log[n]) /\ Below(log[n], currentTerm[n])
          BY DEF TermsOrdered
        <4>2. /\ Ascending(m.entries) /\ Below(m.entries, m.term)
              /\ \A k \in 1..Len(m.entries) : m.prevTerm <= m.entries[k].term
          BY DEF TermsOrdered
        <4>3. /\ m.term \in Nat /\ m.prevIdx \in Nat /\ Len(m.entries) \in Nat
              /\ TermsNat(m.entries)
          BY <1>1, TermTypes DEF TermsNat
        <4>4. currentTerm'[n] = m.term
          BY <1>1, <2>3 DEF HandleAppendEntries, TypeInv, TypeOK
        <4>5. Below(log[n], m.term)
          BY <4>1, <4>4, <1>2, <1>3 DEF Below, TermsNat
        <4>6. Ascending(log'[n]) /\ Below(log'[n], m.term)
          BY <4>1, <4>2, <4>3, <4>5, <1>3, <2>3, SpliceAscends
        <4> QED
          BY <3>1, <4>4, <4>6
      <3>2. CASE i # n
        BY <3>2, <2>3, <1>4
      <3> QED
        BY <3>1, <3>2
    <2> QED
      BY <2>1, <2>2, <2>3, LogStep
  <1>6. ASSUME NEW m \in appReqs'
        PROVE  /\ Ascending(m.entries) /\ Below(m.entries, m.term)
               /\ \A k \in 1..Len(m.entries) : m.prevTerm <= m.entries[k].term
    <2>1. CASE m \in appReqs
      BY <2>1 DEF TermsOrdered
    <2>2. CASE m \notin appReqs
      <3>1. m.term = currentTerm[n] /\ SliceOf(m, log[n])
        BY <2>2, RequestStep
      <3>2. Ascending(log[n]) /\ Below(log[n], currentTerm[n])
        BY DEF TermsOrdered
      <3>3. m.prevIdx \in Nat /\ Len(m.entries) \in Nat
        <4>1. TypeInv'
          BY <1>1
        <4>2. m \in AppReq
          BY <4>1 DEF TypeInv, TypeOK
        <4> QED
          BY <4>2 DEF AppReq, Index
      <3> QED
        BY <3>1, <3>2, <3>3, <1>3, SliceAscends
    <2> QED
      BY <2>1, <2>2
  <1> QED
    BY <1>5, <1>6 DEF TermsOrdered

-----------------------------------------------------------------------------
(***************************************************************************)
(* Votes                                                                   *)
(***************************************************************************)

\* A candidate that may still win has just started its election, or could win
\* before as well, with the log it had.
LEMMA StandingStays ==
    ASSUME Known, Known', NEW n \in Node, NodeStep(n), NEW c \in Node, Standing(c)'
    PROVE  \/ c = n /\ StartElection(n)
           \/ Standing(c) /\ currentTerm'[c] = currentTerm[c] /\ log'[c] = log[c]
  <1> SUFFICES ASSUME ~(c = n /\ StartElection(n))
               PROVE  Standing(c) /\ currentTerm'[c] = currentTerm[c] /\ log'[c] = log[c]
    OBVIOUS
  <1>1. TypeInv /\ TypeInv' /\ ~Crash(n) /\ NoSecondWin /\ used["crashes"] = 0
    BY SoundStep DEF Known, ReplInv, ElectionsSound
  <1>2. /\ elecTerm \in [Node -> Nat] /\ currentTerm \in [Node -> Nat]
        /\ pc \in [Node -> Place] /\ state \in [Node -> {Follower, Candidate, Leader}]
        /\ log \in [Node -> Seq(Entry \cup {Placeholder})]
    BY <1>1 DEF TypeInv, TypeOK, Term
  <1>3. pc'[c] = "electing" => pc[c] = "electing"
    <2>1. ElectionDone(n) => pc' = [pc EXCEPT ![n] = state[n]]
      BY DEF ElectionDone
    <2>2. StartElection(n) => c # n /\ pc' = [pc EXCEPT ![n] = "electing"]
      BY DEF StartElection
    <2> QED
      BY ZenonT(30), <1>1, <1>2, <2>1, <2>2
         DEF NodeStep, FollowerTimeout, RunFollower, HandleVoteReply, WinElection,
             ElectionEnds, SendAppend, HandleAppendReply, LeaderStepsDown, LeaderDone,
             HandleRequestVote, RejectAppendEntries, HandleAppendEntries, Propose, Apply,
             Boot, runVars, Follower, Candidate, Leader
  <1>4. elecTerm'[c] = elecTerm[c] /\ leaders \subseteq leaders'
    <2>1. StartElection(n) => c # n /\ elecTerm'[c] = elecTerm[c] /\ leaders' = leaders
      BY <1>2 DEF StartElection
    <2> QED
      BY <1>1, <1>2, <2>1
         DEF NodeStep, FollowerTimeout, RunFollower, HandleVoteReply, WinElection,
             ElectionEnds, ElectionDone, SendAppend, HandleAppendReply, LeaderStepsDown,
             LeaderDone, HandleRequestVote, RejectAppendEntries, HandleAppendEntries,
             Propose, Apply, Boot, runVars, histVars
  <1>5. /\ pc'[c] = "electing" /\ elecTerm'[c] = currentTerm'[c]
        /\ \A l \in leaders' : l.term # currentTerm'[c]
    BY DEF Standing
  <1>6. currentTerm'[c] = currentTerm[c]
    <2>1. elecTerm[c] <= currentTerm[c]
      BY <1>1 DEF NoSecondWin
    <2>2. currentTerm'[c] \in Nat /\ currentTerm[c] <= currentTerm'[c]
      BY SoundStep
    <2> QED
      BY <2>1, <2>2, <1>2, <1>4, <1>5
  <1>7. Standing(c)
    BY <1>3, <1>4, <1>5, <1>6 DEF Standing
  <1>8. log'[c] = log[c]
    <2>1. CASE UNCHANGED log
      BY <2>1
    <2>2. ASSUME NEW x \in Cmd, Propose(n, x) PROVE log'[c] = log[c]
      <3>1. state[n] = Leader /\ pc[n] # "electing"
        BY <2>2 DEF Propose, MayPropose, Known, ElectionInv, RoleRecorded
      <3>2. c # n
        BY <3>1, <1>3, <1>5
      <3> QED
        BY <3>2, <2>2, <1>1, ProposeAppends
    <2>3. ASSUME NEW m \in appReqs, HandleAppendEntries(n, m),
                 \A i \in Node \ {n} : log'[i] = log[i]
          PROVE  log'[c] = log[c]
      <3>1. currentTerm'[n] = m.term
        BY <2>3, <1>2 DEF HandleAppendEntries
      <3>2. \E l \in leaders : l.term = m.term
        BY DEF Known, CopyInv, CallsOwned
      <3>3. c # n
        BY <3>1, <3>2, <1>4, <1>5
      <3> QED
        BY <3>3, <2>3
    <2> QED
      BY <2>1, <2>2, <2>3, LogStep
  <1> QED
    BY <1>6, <1>7, <1>8

\* A vote that is new.
LEMMA NewVote ==
    ASSUME Known, Known', NEW n \in Node, NodeStep(n), NEW v \in Node, NEW c \in Node,
           NEW t \in Term, <<v, c, t>> \in grants', <<v, c, t>> \notin grants
    PROVE  /\ v = n /\ t = currentTerm'[n]
           /\ \/ c = n /\ StartElection(n)
              \/ \E m \in voteReqs : /\ HandleRequestVote(n, m) /\ GrantsVote(n, m)
                                     /\ m.src = c /\ m.term = t
  <1>1. currentTerm \in [Node -> Nat] /\ voteReqs \subseteq VoteReq
    BY DEF Known, TypeInv, TypeOK, Term
  <1>2. CASE StartElection(n)
    <2>1. /\ grants' = grants \cup {<<n, n, currentTerm[n] + 1>>}
          /\ currentTerm' = [currentTerm EXCEPT ![n] = currentTerm[n] + 1]
      BY <1>2 DEF StartElection
    <2> QED
      BY <1>1, <1>2, <2>1
  <1>3. ASSUME NEW m \in voteReqs, HandleRequestVote(n, m)
        PROVE  /\ v = n /\ t = currentTerm'[n]
               /\ HandleRequestVote(n, m) /\ GrantsVote(n, m) /\ m.src = c /\ m.term = t
    <2>1. /\ grants' = IF GrantsVote(n, m) THEN grants \cup {<<n, m.src, m.term>>} ELSE grants
          /\ currentTerm' = [currentTerm EXCEPT ![n] =
                                IF m.term > currentTerm[n] THEN m.term ELSE currentTerm[n]]
      BY <1>3 DEF HandleRequestVote
    <2>2. GrantsVote(n, m) /\ <<v, c, t>> = <<n, m.src, m.term>>
      BY <2>1
    <2>3. v = n /\ c = m.src /\ t = m.term
      BY <2>2
    <2>4. m.term >= currentTerm[n] /\ m.term \in Nat
      BY <2>2, <1>1 DEF GrantsVote, VoteReq, Term
    <2>5. currentTerm'[n] = m.term
      BY <2>1, <2>4, <1>1
    <2> QED
      BY <1>3, <2>2, <2>3, <2>5
  <1>4. StartElection(n) \/ \E m \in voteReqs : HandleRequestVote(n, m)
    BY SoundStep
       DEF NodeStep, FollowerTimeout, RunFollower, HandleVoteReply, WinElection,
           ElectionEnds, ElectionDone, SendAppend, HandleAppendReply, LeaderStepsDown,
           LeaderDone, RejectAppendEntries, HandleAppendEntries, Propose, Apply, Boot,
           histVars
  <1> QED
    BY <1>2, <1>3, <1>4

\* The requests for votes that are new, and the votes, are of the current terms.
LEMMA VotesStep ==
    ASSUME Known, Known', NEW n \in Node, NodeStep(n), VotesDescribed
    PROVE  VotesDescribed'
  <1>1. TypeInv /\ TypeInv'
    BY DEF Known
  <1>2. \A p \in Node : /\ currentTerm[p] \in Nat /\ currentTerm'[p] \in Nat
                         /\ currentTerm[p] <= currentTerm'[p]
    BY <1>1, SoundStep, TermTypes
  <1>3. ASSUME NEW v \in Node, NEW c \in Node, NEW t \in Term, <<v, c, t>> \in grants'
        PROVE  t <= currentTerm'[v] /\ t <= currentTerm'[c]
    <2>0. t \in Nat
      BY DEF Term
    <2>1. CASE <<v, c, t>> \in grants
      <3>1. t <= currentTerm[v] /\ t <= currentTerm[c]
        BY <2>1 DEF VotesDescribed
      <3> QED
        BY <3>1, <2>0, <1>2
    <2>2. CASE <<v, c, t>> \notin grants
      <3>1. /\ v = n /\ t = currentTerm'[n]
            /\ \/ c = n
               \/ \E m \in voteReqs : m.src = c /\ m.term = t
        BY <1>3, <2>2, NewVote
      <3>2. ASSUME NEW m \in voteReqs, m.src = c, m.term = t PROVE t <= currentTerm[c]
        BY <3>2 DEF VotesDescribed
      <3> QED
        BY <3>1, <3>2, <2>0, <1>2
    <2> QED
      BY <2>1, <2>2
  <1>4. ASSUME NEW m \in voteReqs'
        PROVE  /\ m.term <= currentTerm'[m.src]
               /\ m.term = currentTerm'[m.src] /\ Standing(m.src)' =>
                     m.lastIdx = LastIndex(log'[m.src]) /\ m.lastTerm = LastTerm(log'[m.src])
    <2>1. CASE m \in voteReqs
      <3>1. /\ m.term <= currentTerm[m.src]
            /\ m.term = currentTerm[m.src] /\ Standing(m.src) =>
                  m.lastIdx = LastIndex(log[m.src]) /\ m.lastTerm = LastTerm(log[m.src])
        BY <2>1 DEF VotesDescribed
      <3>2. m.src \in Node /\ m.term \in Nat
        BY <2>1, <1>1 DEF TypeInv, TypeOK, VoteReq, Term
      <3>3. m.term <= currentTerm'[m.src]
        BY <3>1, <3>2, <1>2
      <3>4. ASSUME m.term = currentTerm'[m.src], Standing(m.src)'
            PROVE  m.lastIdx = LastIndex(log'[m.src]) /\ m.lastTerm = LastTerm(log'[m.src])
        <4>1. ~(m.src = n /\ StartElection(n))
          <5>1. ASSUME m.src = n, StartElection(n) PROVE FALSE
            <6>1. currentTerm'[n] = currentTerm[n] + 1
              BY <5>1, <1>1 DEF StartElection, TypeInv, TypeOK
            <6> QED
              BY <6>1, <5>1, <3>1, <3>2, <3>4, <1>2
          <5> QED
            BY <5>1
        <4>2. /\ Standing(m.src) /\ currentTerm'[m.src] = currentTerm[m.src]
              /\ log'[m.src] = log[m.src]
          BY <3>2, <3>4, <4>1, StandingStays
        <4> QED
          BY <3>1, <3>4, <4>2
      <3> QED
        BY <3>3, <3>4
    <2>2. CASE m \notin voteReqs
      <3>1. StartElection(n)
        BY <2>2, <1>4, SoundStep
           DEF NodeStep, FollowerTimeout, RunFollower, HandleVoteReply, WinElection,
               ElectionEnds, ElectionDone, SendAppend, HandleAppendReply, LeaderStepsDown,
               LeaderDone, HandleRequestVote, RejectAppendEntries, HandleAppendEntries,
               Propose, Apply, Boot, netVars
      <3>2. /\ m.src = n /\ m.term = currentTerm[n] + 1
            /\ m.lastIdx = LastIndex(log[n]) /\ m.lastTerm = LastTerm(log[n])
            /\ UNCHANGED log
        BY <3>1, <2>2, <1>4 DEF StartElection
      <3>3. currentTerm'[n] = currentTerm[n] + 1
        BY <3>1, <1>1 DEF StartElection, TypeInv, TypeOK
      <3> QED
        BY <3>2, <3>3, <1>2
    <2> QED
      BY <2>1, <2>2
  <1> QED
    BY <1>3, <1>4 DEF VotesDescribed

-----------------------------------------------------------------------------
(***************************************************************************)
(* Entries that are kept                                                   *)
(***************************************************************************)

\* Some nodes hold an entry that is kept.
Settled(S, i, t) ==
    /\ i \in Nat /\ t \in Nat /\ S \in SUBSET Node /\ S # {}
    /\ Kept(i, t) /\ \A v \in S : Holder(v, i, t)

\* Every majority of later terms has one of them.
Met(S, t) ==
    \A B \in SUBSET Node :
        Majority(B) /\ (\A b \in B : currentTerm[b] > t) => \E v \in Node : v \in B /\ v \in S

\* What fits a log fits one that has the same entries.
LEMMA FitsCopied ==
    ASSUME NEW m, NEW l, NEW q, NEW i \in Nat, NEW t, m.prevIdx \in Nat,
           Len(m.entries) \in Nat, Fits(m, l, i, t), Copied(l, q, i), l[1] = q[1]
    PROVE  Fits(m, q, i, t)
  <1>1. \A k \in 0..i : l[k + 1] = q[k + 1]
    <2> SUFFICES ASSUME NEW k \in 0..i PROVE l[k + 1] = q[k + 1]
      OBVIOUS
    <2>1. CASE k = 0
      BY <2>1
    <2>2. CASE k # 0
      BY <2>2 DEF Copied
    <2> QED
      BY <2>1, <2>2
  <1>2. ASSUME NEW k \in 1..Len(m.entries), m.prevIdx + k <= i
        PROVE  m.entries[k] = q[m.prevIdx + k + 1]
    <2>1. m.prevIdx + k \in 0..i
      BY <1>2
    <2> QED
      BY <2>1, <1>1, <1>2 DEF Fits
  <1>3. m.prevIdx <= i => m.prevTerm = q[m.prevIdx + 1].term
    BY <1>1 DEF Fits
  <1> QED
    BY <1>2, <1>3 DEF Fits

\* A part of a log fits it.
LEMMA SliceFits ==
    ASSUME NEW m, NEW l, NEW i \in Nat, NEW t, m.prevIdx \in Nat,
           Len(m.entries) \in Nat, Len(l) \in Nat, SliceOf(m, l), Has(l, i, t), Ascending(l)
    PROVE  Fits(m, l, i, t)
  <1>1. m.prevIdx + 1 \in 1..Len(l) /\ i + 1 \in 1..Len(l) /\ l[i + 1].term = t
    BY DEF SliceOf, Has
  <1>2. m.prevIdx >= i => m.prevTerm >= t
    <2> SUFFICES ASSUME m.prevIdx >= i PROVE m.prevTerm >= t
      OBVIOUS
    <2>1. i + 1 <= m.prevIdx + 1
      OBVIOUS
    <2>2. l[i + 1].term <= l[m.prevIdx + 1].term
      BY <2>1, <1>1 DEF Ascending
    <2> QED
      BY <2>2, <1>1 DEF SliceOf
  <1> QED
    BY <1>2 DEF Fits, SliceOf

\* Two logs with the same entry are equal up to it.
LEMMA HasCopied ==
    ASSUME Known, NEW v \in Node, NEW w \in Node, NEW i \in Nat, NEW t,
           Has(log[v], i, t), Has(log[w], i, t)
    PROVE  Copied(log[v], log[w], i) /\ log[v][1] = log[w][1]
  <1>1. TypeInv /\ ChainsMatch /\ Rooted
    BY DEF Known, ReplInv
  <1>2. Match(LogChain(log[v]), LogChain(log[w]))
    BY <1>1 DEF ChainsMatch, Chains
  <1>3. LogFrom0(log[v], Slot) /\ LogFrom0(log[w], Slot)
    BY <1>1 DEF TypeInv, LogOK
  <1>4. i < Len(log[v]) /\ i < Len(log[w]) /\ log[v][i + 1].term = log[w][i + 1].term
    BY DEF Has
  <1>5. Copied(log[v], log[w], i)
    BY <1>2, <1>3, <1>4, CopiedByMatch
  <1> QED
    BY <1>5, <1>1 DEF Rooted

\* No step takes a kept entry from a log.
LEMMA KeepsHas ==
    ASSUME Known, Known', TermsOrdered, NEW n \in Node, NodeStep(n),
           NEW i \in Nat, NEW t \in Nat, Kept(i, t), NEW p \in Node, Has(log[p], i, t)
    PROVE  Has(log'[p], i, t) /\ Copied(log[p], log'[p], i) /\ log'[p][1] = log[p][1]
  <1>1. TypeInv /\ TypeInv' /\ Rooted /\ Rooted'
    BY DEF Known, ReplInv
  <1>2. /\ LogFrom0(log[p], Slot) /\ LogFrom0(log'[p], Slot)
        /\ Len(log[p]) \in Nat /\ Len(log'[p]) \in Nat
    BY <1>1, TermTypes, NextLogTypes
  <1>3. 1 <= i /\ i < Len(log[p]) /\ log[p][i + 1].term = t
    BY DEF Has
  <1>4. log'[p][1] = log[p][1]
    BY <1>1 DEF Rooted
  <1>5. ASSUME Retained(log[p], log'[p], i)
        PROVE  Has(log'[p], i, t) /\ Copied(log[p], log'[p], i)
    <2>1. i < Len(log'[p]) /\ \A j \in 1..(i + 1) : log'[p][j] = log[p][j]
      BY <1>5 DEF Retained
    <2>2. i + 1 \in 1..(i + 1) /\ \A k \in 1..i : k + 1 \in 1..(i + 1)
      OBVIOUS
    <2> QED
      BY <2>1, <2>2, <1>3 DEF Has, Copied
  <1>6. CASE log'[p] = log[p]
    BY <1>6, <1>3, <1>4 DEF Has, Copied
  <1>7. ASSUME NEW c \in Cmd, Propose(n, c), p = n PROVE Retained(log[p], log'[p], i)
    <2>1. /\ Len(log'[n]) = Len(log[n]) + 1
          /\ \A k \in 1..Len(log[n]) : log'[n][k] = log[n][k]
      BY <1>1, <1>7, ProposeAppends
    <2>2. 1..(i + 1) \subseteq 1..Len(log[n]) /\ i < Len(log[n]) + 1
      BY <1>2, <1>3, <1>7
    <2> QED
      BY <2>1, <2>2, <1>7 DEF Retained
  <1>8. ASSUME NEW m \in appReqs, HandleAppendEntries(n, m), p = n,
               Appended(Slot, log[n], m.prevIdx, m.entries, log'[n])
        PROVE  Retained(log[p], log'[p], i)
    <2>1. m.term \in Nat /\ m.prevIdx \in Nat /\ Len(m.entries) \in Nat
      BY <1>1, TermTypes
    <2>2. m.term >= t
      <3>1. m.term >= currentTerm[n] /\ currentTerm[n] \in Nat
        BY <1>1, <1>8, TermTypes DEF HandleAppendEntries
      <3>2. i + 1 \in 1..Len(log[n])
        BY <1>2, <1>3, <1>8
      <3>3. t <= currentTerm[n]
        BY <3>2, <1>3, <1>8 DEF TermsOrdered, Below
      <3> QED
        BY <3>1, <3>3, <2>1
    <2>3. Fits(m, log[n], i, t)
      BY <2>2, <1>8 DEF Kept
    <2>4. Agrees(m, log[n], i)
      BY <2>3 DEF Fits, Agrees
    <2>5. LogFrom0(log[n], Slot) /\ LogFrom0(log'[n], Slot) /\ i < Len(log[n])
      BY <1>2, <1>3, <1>8
    <2>6. Retained(log[n], log'[n], i)
      BY <2>1, <2>4, <2>5, <1>8, SpliceRetains
    <2> QED
      BY <2>6, <1>8
  <1>9. CASE log'[p] # log[p]
    <2>1. \/ \E c \in Cmd : Propose(n, c)
          \/ \E m \in appReqs :
                 /\ HandleAppendEntries(n, m)
                 /\ \A j \in Node \ {n} : log'[j] = log[j]
                 /\ Appended(Slot, log[n], m.prevIdx, m.entries, log'[n])
      BY <1>9, LogStep
    <2>2. (\E c \in Cmd : Propose(n, c)) => p = n
      BY <1>1, <1>9, ProposeAppends
    <2>3. Retained(log[p], log'[p], i)
      BY <2>1, <2>2, <1>7, <1>8, <1>9
    <2> QED
      BY <2>3, <1>4, <1>5
  <1> QED
    BY <1>4, <1>6, <1>9

\* A leader of that term or a later one has the entry.
LEMMA LeaderHas ==
    ASSUME Known, NEW i \in Nat, NEW t \in Nat, Kept(i, t), NEW w \in Node,
           Has(log[w], i, t), NEW n \in Node, state[n] = Leader, currentTerm[n] >= t
    PROVE  Has(log[n], i, t)
  <1>1. CASE currentTerm[n] > t
    BY <1>1 DEF Kept
  <1>2. CASE currentTerm[n] = t
    <2>1. TypeInv /\ LeaderHolds
      BY DEF Known, ReplInv
    <2> DEFINE c == LogChain(log[w])
               d == LogChain(log[n])
    <2>2. /\ c.base = 0 /\ c.top = Len(log[w]) - 1 /\ c \in Chains
          /\ \A k \in Nat : Holds(c, k) => c.at[k] = log[w][k + 1]
      <3>1. LogFrom0(log[w], Slot)
        BY <2>1, LogTypes
      <3>2. c \in Chains
        BY DEF Chains
      <3> QED
        BY <3>1, <3>2, LogChainFields
    <2>3. d.base = 0 /\ d.top = Len(log[n]) - 1
      BY <2>1, LogTypes, LogChainFields
    <2>4. Len(log[w]) \in Nat /\ Len(log[n]) \in Nat
      BY <2>1, LogTypes
    <2>5. LeaderHolds =>
            (Holds(c, i) /\ c.at[i].term = currentTerm[n] =>
                Holds(d, i) /\ log[n][i + 1].term = currentTerm[n])
      BY <2>2 DEF LeaderHolds
    <2> HIDE DEF c, d
    <2>6. Holds(c, i)
      BY <2>2, <2>4 DEF Has, Holds
    <2>7. c.at[i].term = t
      BY <2>2, <2>6 DEF Has
    <2>8. Holds(d, i) /\ log[n][i + 1].term = t
      BY <2>1, <2>5, <2>6, <2>7, <1>2
    <2> QED
      BY <2>3, <2>4, <2>8 DEF Has, Holds
  <1>3. currentTerm[n] \in Nat
    BY TermTypes DEF Known
  <1> QED
    BY <1>1, <1>2, <1>3

\* A log that a voter would prefer still has the entry.
LEMMA KeptInLogs ==
    ASSUME Known, Known', TermsOrdered, NEW n \in Node, NodeStep(n),
           NEW i \in Nat, NEW t \in Nat, Kept(i, t), NEW w \in Node, Has(log[w], i, t),
           NEW p \in Node, NEW k \in 1..(Len(log'[p]) - 1), NoOlder(log'[p], k, i, t)
    PROVE  Has(log'[p], i, t)
  <1>1. TypeInv /\ TypeInv'
    BY DEF Known
  <1>2. CASE Has(log[p], i, t)
    BY <1>2, KeepsHas
  <1>3. CASE ~Has(log[p], i, t)
    <2>1. \A j \in 1..(Len(log[p]) - 1) : ~NoOlder(log[p], j, i, t)
      BY <1>3 DEF Kept
    <2>2. log'[p] # log[p]
      BY <2>1
    <2>3. /\ LogFrom0(log[p], Slot) /\ LogFrom0(log'[p], Slot) /\ TermsNat(log[p])
          /\ Len(log[p]) \in Nat /\ Len(log[p]) > 0 /\ Len(log'[p]) \in Nat /\ k \in Nat
      BY <1>1, TermTypes, NextLogTypes DEF TermsNat
    <2>4. 1 <= i /\ i < Len(log[w]) /\ log[w][i + 1].term = t
      BY DEF Has
    <2>5. ASSUME NEW c \in Cmd, Propose(n, c), p = n PROVE FALSE
      <3>1. /\ Len(log'[n]) = Len(log[n]) + 1
            /\ \A j \in 1..Len(log[n]) : log'[n][j] = log[n][j]
            /\ log'[n][Len(log[n]) + 1].term = currentTerm[n] /\ state[n] = Leader
        BY <1>1, <2>5, ProposeAppends DEF Propose, MayPropose
      <3>2. CASE k < Len(log[n])
        <4>1. k \in 1..(Len(log[p]) - 1) /\ k + 1 \in 1..Len(log[n])
          BY <2>3, <2>5, <3>2
        <4>2. NoOlder(log[p], k, i, t)
          BY <4>1, <3>1, <2>5 DEF NoOlder
        <4> QED
          BY <4>1, <4>2, <2>1
      <3>3. CASE k = Len(log[n])
        <4>1. currentTerm[n] >= t /\ currentTerm[n] \in Nat
          BY <3>1, <3>3, <2>5, <1>1, TermTypes DEF NoOlder
        <4> QED
          BY <4>1, <3>1, <2>5, <1>3, LeaderHas
      <3> QED
        BY <3>1, <3>2, <3>3, <2>3, <2>5
    <2>6. ASSUME NEW m \in appReqs, HandleAppendEntries(n, m), p = n,
                 Consistent(log[n], m.prevIdx, m.prevTerm),
                 Appended(Slot, log[n], m.prevIdx, m.entries, log'[n])
          PROVE  Has(log'[n], i, t)
      <3>1. /\ m.term \in Nat /\ m.prevIdx \in Nat /\ m.prevTerm \in Nat
            /\ Len(m.entries) \in Nat /\ TermsNat(m.entries)
        BY <1>1, TermTypes DEF TermsNat
      <3>2. LogFrom0(log[n], Slot) /\ LogFrom0(log'[n], Slot)
        BY <2>3, <2>6
      <3>3. Spliced(log[n], log'[n], m)
        BY <3>1, <3>2, <2>6, SpliceTerms
      <3>4. /\ m.prevIdx < Len(log[n]) /\ log[n][m.prevIdx + 1].term = m.prevTerm
            /\ Len(log'[n]) = m.prevIdx + Len(m.entries) + 1
            /\ \A j \in 1..(m.prevIdx + 1) : log'[n][j] = log[n][j]
            /\ \A h \in 1..Len(m.entries) :
                   log'[n][m.prevIdx + h + 1].term = m.entries[h].term
        <4>1. log'[n] # log[n]
          BY <2>2, <2>6
        <4> QED
          BY <4>1, <3>3 DEF Spliced
      <3>5. k > m.prevIdx
        <4> SUFFICES ASSUME k <= m.prevIdx PROVE FALSE
          BY <3>1, <2>3
        <4>1. k + 1 \in 1..(m.prevIdx + 1) /\ k \in 1..(Len(log[n]) - 1)
          BY SMTT(30), <3>1, <3>4, <2>3, <2>6
        <4>2. NoOlder(log[n], k, i, t)
          BY <4>1, <3>4, <2>6 DEF NoOlder
        <4> QED
          BY <4>1, <4>2, <2>1, <2>6
      <3> DEFINE h == k - m.prevIdx
      <3>6. h \in 1..Len(m.entries) /\ h \in Nat /\ m.prevIdx + h = k
        <4>1. k <= Len(log'[n]) - 1 /\ Len(log'[n]) = m.prevIdx + Len(m.entries) + 1
          BY <3>4, <2>3, <2>6
        <4>2. k <= m.prevIdx + Len(m.entries)
          BY <4>1, <3>1
        <4> QED
          BY SMTT(30), <4>2, <3>1, <3>5, <2>3
      <3> HIDE DEF h
      <3>7. /\ m.entries[h].term > t \/ (m.entries[h].term = t /\ k >= i)
            /\ m.entries[h].term \in Nat
        <4>1. log'[n][m.prevIdx + h + 1].term = m.entries[h].term
          BY <3>4, <3>6
        <4>2. log'[n][k + 1].term > t \/ (log'[n][k + 1].term = t /\ k >= i)
          BY <2>6 DEF NoOlder
        <4> QED
          BY <4>1, <4>2, <3>1, <3>6 DEF TermsNat
      <3>8. m.term >= t
        <4>1. m.entries[h].term <= m.term
          BY <3>6 DEF TermsOrdered, Below
        <4> QED
          BY <4>1, <3>1, <3>7
      <3>9. Fits(m, log[w], i, t)
        BY <3>8 DEF Kept
      <3>10. m.prevIdx < i
        <4> SUFFICES ASSUME m.prevIdx >= i PROVE FALSE
          BY <3>1
        <4>1. m.prevTerm >= t
          BY <3>9 DEF Fits
        <4>2. NoOlder(log[n], m.prevIdx, i, t)
          BY <4>1, <3>1, <3>4 DEF NoOlder
        <4>3. m.prevIdx \in 1..(Len(log[n]) - 1)
          BY SMTT(30), <3>1, <3>4, <2>3, <2>4, <2>6
        <4> QED
          BY <4>2, <4>3, <2>1, <2>6
      <3>11. k >= i
        <4> SUFFICES ASSUME k < i PROVE FALSE
          BY <2>3
        <4>1. m.entries[h] = log[w][k + 1]
          BY <3>6, <3>9, <2>3 DEF Fits
        <4>2. Ascending(log[w]) /\ Len(log[w]) \in Nat
          BY <1>1, TermTypes DEF TermsOrdered
        <4>3. k + 1 \in 1..Len(log[w]) /\ i + 1 \in 1..Len(log[w]) /\ k + 1 <= i + 1
          BY <4>2, <2>3, <2>4
        <4>4. log[w][k + 1].term <= log[w][i + 1].term
          BY <4>2, <4>3 DEF Ascending
        <4>5. m.entries[h].term <= t
          BY <4>1, <4>4, <2>4
        <4> QED
          BY <4>5, <3>7, <2>3
      <3> DEFINE g == i - m.prevIdx
      <3>12. g \in 1..Len(m.entries) /\ m.prevIdx + g = i /\ g \in Nat
        <4>1. h <= Len(m.entries) /\ h \in Nat /\ m.prevIdx + h = k
          BY <3>6
        <4> QED
          <5>1. i \in Nat /\ k \in Nat /\ m.prevIdx \in Nat /\ Len(m.entries) \in Nat
            BY <3>1, <2>3
          <5>2. i <= m.prevIdx + Len(m.entries)
            BY <5>1, <4>1, <3>11
          <5> QED
            BY <5>1, <5>2, <3>10
      <3> HIDE DEF g
      <3>13. m.entries[g] = log[w][i + 1]
        BY <3>9, <3>12 DEF Fits
      <3>14. log'[n][i + 1].term = t
        <4>1. log'[n][m.prevIdx + g + 1].term = m.entries[g].term
          BY <3>4, <3>12
        <4> QED
          BY <4>1, <3>12, <3>13, <2>4
      <3>15. i < Len(log'[n])
        BY <3>11, <2>3, <2>6
      <3> QED
        BY <3>14, <3>15, <2>4 DEF Has
    <2>7. (\E c \in Cmd : Propose(n, c)) => p = n
      BY <1>1, <2>2, ProposeAppends
    <2>8. ~\E c \in Cmd : Propose(n, c)
      BY <2>5, <2>7
    <2>9. \E m \in appReqs :
                 /\ HandleAppendEntries(n, m)
                 /\ \A j \in Node \ {n} : log'[j] = log[j]
                 /\ Consistent(log[n], m.prevIdx, m.prevTerm)
                 /\ Appended(Slot, log[n], m.prevIdx, m.entries, log'[n])
      BY <2>2, <2>8, LogStep
    <2>10. p = n
      BY <2>2, <2>9
    <2> QED
      BY <2>6, <2>9, <2>10
  <1> QED
    BY <1>2, <1>3

\* No request is in conflict with the entry.
LEMMA KeptInRequests ==
    ASSUME Known, Known', TermsOrdered, NEW n \in Node, NodeStep(n),
           NEW i \in Nat, NEW t \in Nat, Kept(i, t), NEW w \in Node, Has(log[w], i, t),
           NEW m \in appReqs', NEW p \in Node, m.term >= t, Has(log'[p], i, t)
    PROVE  Fits(m, log'[p], i, t)
  <1>1. m.prevIdx \in Nat /\ Len(m.entries) \in Nat
    <2>1. TypeInv'
      BY DEF Known
    <2>2. m \in AppReq
      BY <2>1 DEF TypeInv, TypeOK
    <2> QED
      BY <2>2 DEF AppReq, Index
  <1>2. ASSUME NEW x \in Node, Fits(m, log[x], i, t), Has(log[x], i, t)
        PROVE  Fits(m, log'[p], i, t)
    <2>1. Has(log'[x], i, t) /\ Copied(log[x], log'[x], i) /\ log'[x][1] = log[x][1]
      BY <1>2, KeepsHas
    <2>2. Fits(m, log'[x], i, t)
      BY <1>1, <1>2, <2>1, FitsCopied
    <2>3. Copied(log'[x], log'[p], i) /\ log'[x][1] = log'[p][1]
      <3>1. TypeInv' /\ ChainsMatch' /\ Rooted'
        BY DEF Known, ReplInv
      <3>2. Match(LogChain(log'[x]), LogChain(log'[p]))
        BY <3>1 DEF ChainsMatch, Chains
      <3>3. LogFrom0(log'[x], Slot) /\ LogFrom0(log'[p], Slot)
        BY <3>1 DEF TypeInv, LogOK
      <3>4. i < Len(log'[x]) /\ i < Len(log'[p]) /\ log'[x][i + 1].term = log'[p][i + 1].term
        BY <2>1 DEF Has
      <3>5. Copied(log'[x], log'[p], i)
        BY <3>2, <3>3, <3>4, CopiedByMatch
      <3> QED
        BY <3>5, <3>1 DEF Rooted
    <2> QED
      BY <1>1, <2>2, <2>3, FitsCopied
  <1>3. CASE m \in appReqs
    BY <1>2, <1>3 DEF Kept
  <1>4. CASE m \notin appReqs
    <2>1. state[n] = Leader /\ m.term = currentTerm[n] /\ SliceOf(m, log[n])
      BY <1>4, RequestStep
    <2>2. Has(log[n], i, t)
      BY <2>1, LeaderHas
    <2>3. Ascending(log[n]) /\ Len(log[n]) \in Nat
      BY TermTypes DEF TermsOrdered, Known
    <2>4. Fits(m, log[n], i, t)
      BY <1>1, <2>1, <2>2, <2>3, SliceFits
    <2> QED
      BY <1>2, <2>2, <2>4
  <1> QED
    BY <1>3, <1>4

\* The winner of an election could win it, and nobody has led its term.
LEMMA WinnerStands ==
    ASSUME Known, Known', NEW n \in Node, WinElection(n)
    PROVE  Standing(n) /\ Majority(voters[n]) /\ voters[n] \in SUBSET Node
           /\ \A v \in voters[n] : <<v, n, currentTerm[n]>> \in grants
  <1> DEFINE w == [node |-> n, term |-> currentTerm[n], elected |-> elecTerm[n]]
  <1>1. leaders' = leaders \cup {w} /\ pc[n] = "electing" /\ Majority(voters[n])
    BY DEF WinElection
  <1>2. /\ \A k \in leaders' : k.elected = k.term
        /\ \A k, l \in leaders' : k.term = l.term => k.node = l.node
    BY DEF Known, ElectionsSound, ElectedInTerm
  <1>3. w \in leaders' /\ w.node = n /\ w.term = currentTerm[n] /\ w.elected = elecTerm[n]
    BY <1>1
  <1> HIDE DEF w
  <1>4. elecTerm[n] = currentTerm[n]
    BY <1>2, <1>3
  <1>5. ASSUME NEW l \in leaders, l.term = currentTerm[n] PROVE FALSE
    <2>1. l \in leaders' /\ l.elected = currentTerm[n] /\ l.node = n
      BY <1>1, <1>2, <1>3, <1>5
    <2>2. l.elected < elecTerm[n]
      BY <2>1, <1>1 DEF Known, ReplInv, NoSecondWin, ElectionsSound
    <2>3. currentTerm[n] \in Nat
      BY TermTypes DEF Known
    <2> QED
      BY <2>1, <2>2, <2>3, <1>4
  <1>6. voters[n] \in SUBSET Node /\ \A v \in voters[n] : <<v, n, elecTerm[n]>> \in grants
    BY DEF Known, TypeInv, TypeOK, ElectionInv, TallySound
  <1> QED
    BY <1>1, <1>4, <1>5, <1>6 DEF Standing

\* The later leaders have the entry: a new one was elected by a node that holds it.
LEMMA KeptByLeaders ==
    ASSUME Known, Known', TermsOrdered, VotesDescribed, NEW n \in Node, NodeStep(n),
           NEW S, NEW i, NEW t, Settled(S, i, t), Met(S, t),
           NEW p \in Node, state'[p] = Leader, currentTerm'[p] > t
    PROVE  Has(log'[p], i, t)
  <1>1. /\ i \in Nat /\ t \in Nat /\ S \in SUBSET Node /\ S # {}
        /\ Kept(i, t) /\ \A v \in S : Holder(v, i, t)
    BY DEF Settled
  <1>2. TypeInv /\ ElectionInv
    BY DEF Known
  <1>3. CASE state[p] = Leader /\ currentTerm'[p] = currentTerm[p]
    <2>1. Has(log[p], i, t)
      BY <1>1, <1>3 DEF Kept
    <2> QED
      BY <1>1, <2>1, KeepsHas
  <1>4. CASE p = n /\ WinElection(n)
    <2>1. UNCHANGED <<log, currentTerm>>
      BY <1>4 DEF WinElection
    <2>2. /\ Standing(n) /\ Majority(voters[n]) /\ voters[n] \in SUBSET Node
          /\ \A v \in voters[n] : <<v, n, currentTerm[n]>> \in grants
      BY <1>4, WinnerStands
    <2>3. currentTerm[n] > t /\ currentTerm[n] \in Nat
      BY <2>1, <1>2, <1>4, TermTypes
    <2>4. ASSUME NEW v \in voters[n] PROVE currentTerm[v] > t
      <3>1. v \in Node /\ <<v, n, currentTerm[n]>> \in grants
        BY <2>2
      <3>2. currentTerm[n] <= currentTerm[v]
        BY <3>1, <2>3 DEF VotesDescribed, Term
      <3>3. currentTerm[v] \in Nat
        BY <3>1, <1>2, TermTypes
      <3> QED
        BY <3>2, <3>3, <2>3, <1>1
    <2>5. PICK v \in Node : v \in voters[n] /\ v \in S
      BY <2>2, <2>4 DEF Met
    <2>6. Has(log[n], i, t)
      BY <2>2, <2>3, <2>5, <1>1 DEF Holder
    <2> QED
      BY <2>1, <2>6, <1>4
  <1> QED
    BY <1>2, <1>3, <1>4, LeaderStays

\* A holder votes for no candidate without the entry.
LEMMA HolderVotes ==
    ASSUME Known, Known', TermsOrdered, VotesDescribed, NEW n \in Node, NodeStep(n),
           NEW i \in Nat, NEW t \in Nat, Kept(i, t), NEW v \in Node, Holder(v, i, t),
           NEW c \in Node, <<v, c, currentTerm'[c]>> \in grants', currentTerm'[c] > t,
           Standing(c)'
    PROVE  Has(log'[c], i, t)
  <1>1. TypeInv /\ TypeInv' /\ Rooted
    BY DEF Known, ReplInv
  <1>2. \A p \in Node : /\ currentTerm[p] \in Nat /\ currentTerm'[p] \in Nat
                         /\ currentTerm'[p] \in Term
    BY <1>1, SoundStep, TermTypes DEF Term
  <1>3. Has(log[v], i, t)
    BY DEF Holder
  <1>4. CASE c = v
    BY <1>3, <1>4, KeepsHas
  <1>5. CASE c # v
    <2>1. CASE <<v, c, currentTerm'[c]>> \in grants
      <3>1. ~(c = n /\ StartElection(n))
        <4>1. ASSUME c = n, StartElection(n) PROVE FALSE
          <5>1. currentTerm'[n] = currentTerm[n] + 1
            BY <4>1, <1>1 DEF StartElection, TypeInv, TypeOK
          <5>2. currentTerm'[c] <= currentTerm[c]
            BY <2>1, <1>2 DEF VotesDescribed
          <5> QED
            BY <4>1, <5>1, <5>2, <1>2
        <4> QED
          BY <4>1
      <3>2. Standing(c) /\ currentTerm'[c] = currentTerm[c] /\ log'[c] = log[c]
        BY <3>1, StandingStays
      <3> QED
        BY <2>1, <3>2 DEF Holder
    <2>2. CASE <<v, c, currentTerm'[c]>> \notin grants
      <3>1. /\ v = n
            /\ \E m \in voteReqs : /\ GrantsVote(n, m) /\ m.src = c
                                   /\ m.term = currentTerm'[c]
        BY <2>2, <1>2, <1>5, NewVote
      <3>2. PICK m \in voteReqs : GrantsVote(n, m) /\ m.src = c /\ m.term = currentTerm'[c]
        BY <3>1
      <3>3. Standing(c) /\ currentTerm'[c] = currentTerm[c] /\ log'[c] = log[c]
        BY <3>1, <1>5, StandingStays
      <3>4. m.lastIdx = LastIndex(log[c]) /\ m.lastTerm = LastTerm(log[c])
        BY <3>2, <3>3 DEF VotesDescribed
      <3>5. UpToDate(LastTerm(log[c]), LastIndex(log[c]), log[v])
        BY <3>1, <3>2, <3>4 DEF GrantsVote
      <3>6. /\ Len(log[c]) \in Nat /\ Len(log[c]) > 0 /\ Len(log[v]) \in Nat
            /\ LastIndex(log[c]) = Len(log[c]) - 1 /\ LastTerm(log[c]) = log[c][Len(log[c])].term
            /\ LastIndex(log[v]) = Len(log[v]) - 1 /\ LastTerm(log[v]) = log[v][Len(log[v])].term
            /\ LastTerm(log[c]) \in Nat /\ LastTerm(log[v]) \in Nat
        BY <1>1, LogTypes DEF LastTerm
      <3>7. 1 <= i /\ i < Len(log[v]) /\ log[v][i + 1].term = t
        BY <1>3 DEF Has
      <3>8. LastTerm(log[v]) >= t
        <4>1. i + 1 \in 1..Len(log[v]) /\ Len(log[v]) \in 1..Len(log[v]) /\ i + 1 <= Len(log[v])
          BY <3>6, <3>7
        <4>2. log[v][i + 1].term <= log[v][Len(log[v])].term
          BY <4>1 DEF TermsOrdered, Ascending
        <4> QED
          BY <4>2, <3>6, <3>7
      <3> DEFINE k == Len(log[c]) - 1
      <3>9. /\ LastTerm(log[c]) > t \/ (LastTerm(log[c]) = t /\ k >= i)
            /\ LastTerm(log[c]) > 0 \/ k >= i
        <4> DEFINE a == LastTerm(log[c])
                   b == LastTerm(log[v])
                   y == Len(log[v])
        <4>1. a > b \/ (a = b /\ k >= y - 1)
          BY <3>5, <3>6 DEF UpToDate
        <4>2. a \in Nat /\ b \in Nat /\ y \in Nat /\ k \in Nat /\ i < y /\ b >= t
          BY <3>6, <3>7, <3>8
        <4> HIDE DEF a, b, y, k
        <4>3. /\ a > t \/ (a = t /\ k >= i)
              /\ a > 0 \/ k >= i
          BY <4>1, <4>2
        <4> QED
          BY <4>3 DEF a
      <3>10. k \in 1..(Len(log[c]) - 1)
        <4>1. CASE Len(log[c]) = 1
          <5>1. LastTerm(log[c]) = 0
            BY <4>1, <3>6, <1>1 DEF Rooted, Placeholder
          <5>2. k = 0 /\ k >= i
            BY <5>1, <4>1, <3>9
          <5> QED
            BY <5>2, <3>7
        <4>2. CASE Len(log[c]) # 1
          <5>1. Len(log[c]) \in Nat /\ Len(log[c]) > 0
            BY <3>6
          <5>2. \A x \in Nat : x > 0 /\ x # 1 => x - 1 \in 1..(x - 1)
            OBVIOUS
          <5> QED
            BY <5>1, <5>2, <4>2 DEF k
        <4> QED
          BY <4>1, <4>2
      <3>11. NoOlder(log[c], k, i, t)
        <4>1. k + 1 = Len(log[c])
          BY <3>6
        <4> QED
          BY <4>1, <3>6, <3>9 DEF NoOlder
      <3>12. Has(log[c], i, t)
        BY <3>10, <3>11 DEF Kept
      <3> QED
        BY <3>3, <3>12
    <2> QED
      BY <2>1, <2>2
  <1> QED
    BY <1>4, <1>5

\* What is settled stays settled.
LEMMA SettledStep ==
    ASSUME Known, Known', TermsOrdered, VotesDescribed, NEW n \in Node, NodeStep(n),
           NEW S, NEW i, NEW t, Settled(S, i, t), Met(S, t)
    PROVE  Settled(S, i, t)'
  <1>1. /\ i \in Nat /\ t \in Nat /\ S \in SUBSET Node /\ S # {}
        /\ Kept(i, t) /\ \A v \in S : Holder(v, i, t)
    BY DEF Settled
  <1>2. PICK w \in Node : w \in S /\ Has(log[w], i, t)
    BY <1>1 DEF Holder
  <1>3. \A p \in Node : state'[p] = Leader /\ currentTerm'[p] > t => Has(log'[p], i, t)
    BY KeptByLeaders
  <1>4. \A p \in Node : \A k \in 1..(Len(log'[p]) - 1) :
            NoOlder(log'[p], k, i, t) => Has(log'[p], i, t)
    BY <1>1, <1>2, KeptInLogs
  <1>5. \A m \in appReqs' : \A p \in Node :
            m.term >= t /\ Has(log'[p], i, t) => Fits(m, log'[p], i, t)
    BY <1>1, <1>2, KeptInRequests
  <1>6. ASSUME NEW v \in S PROVE Holder(v, i, t)'
    <2>1. v \in Node /\ Holder(v, i, t)
      BY <1>1
    <2>2. currentTerm'[v] >= t
      <3>1. currentTerm[v] >= t /\ currentTerm[v] \in Nat
        BY <2>1, TermTypes DEF Holder, Known
      <3>2. currentTerm'[v] \in Nat /\ currentTerm[v] <= currentTerm'[v]
        BY <2>1, SoundStep
      <3> QED
        BY <3>1, <3>2, <1>1
    <2>3. Has(log'[v], i, t)
      BY <1>1, <2>1, KeepsHas DEF Holder
    <2>4. \A c \in Node : /\ <<v, c, currentTerm'[c]>> \in grants'
                           /\ currentTerm'[c] > t /\ Standing(c)'
                           => Has(log'[c], i, t)
      BY <1>1, <2>1, HolderVotes
    <2> QED
      BY <2>2, <2>3, <2>4 DEF Holder
  <1> QED
    BY <1>1, <1>3, <1>4, <1>5, <1>6 DEF Settled, Kept

-----------------------------------------------------------------------------
(***************************************************************************)
(* What a leader counts                                                    *)
(***************************************************************************)

\* An answer that is new and reports success is of the term its node has now.
LEMMA NewAnswer ==
    ASSUME Known, Known', NEW n \in Node, NodeStep(n), NEW r \in appReps', r \notin appReps,
           r.success
    PROVE  /\ r.src = n /\ currentTerm'[n] = r.call.term
           /\ \E m \in appReqs : /\ m.term = r.call.term /\ m.prevIdx = r.call.prevIdx
                                 /\ Len(m.entries) = r.call.len
  <1>1. currentTerm \in [Node -> Term]
    BY DEF Known, TypeInv, TypeOK
  <1>2. ASSUME NEW m \in appReqs, HandleAppendEntries(n, m)
        PROVE  /\ r.src = n /\ currentTerm'[n] = r.call.term
               /\ m.term = r.call.term /\ m.prevIdx = r.call.prevIdx
               /\ Len(m.entries) = r.call.len
    <2> DEFINE call == [dst |-> n, term |-> m.term, prevIdx |-> m.prevIdx,
                        len |-> Len(m.entries)]
               ok == Consistent(log[n], m.prevIdx, m.prevTerm)
    <2>1. currentTerm'[n] = m.term /\ appReps' = AppendReply(n, m, m.term, ok)
      BY <1>1, <1>2 DEF HandleAppendEntries
    <2>2. r.src = n /\ r.call = call
      BY <2>1 DEF AppendReply
    <2> QED
      BY <2>1, <2>2
  <1>3. ASSUME NEW m \in appReqs, RejectAppendEntries(n, m) PROVE FALSE
    <2>1. appReps' = AppendReply(n, m, currentTerm[n], FALSE)
      BY <1>3 DEF RejectAppendEntries
    <2>2. r.success = FALSE
      BY <2>1 DEF AppendReply
    <2> QED
      BY <2>2
  <1>4. \E m \in appReqs : HandleAppendEntries(n, m)
    BY <1>3, SoundStep
       DEF NodeStep, FollowerTimeout, RunFollower, StartElection, HandleVoteReply,
           WinElection, ElectionEnds, ElectionDone, SendAppend, HandleAppendReply,
           LeaderStepsDown, LeaderDone, HandleRequestVote, Propose, Apply, Boot, netVars
  <1> QED
    BY <1>2, <1>4

\* A leader learns of a follower's log from an answer to a call of its term.
LEMMA NewMatch ==
    ASSUME Known, Known', NEW n \in Node, NodeStep(n), NEW a \in Node, state[a] = Leader,
           state'[a] = Leader, NEW p \in Node, matchIndex'[a][p] # matchIndex[a][p]
    PROVE  \/ /\ p = a /\ a = n /\ (\E c \in Cmd : Propose(n, c))
              /\ matchIndex'[a][p] = Len(log[a])
           \/ /\ UNCHANGED log
              /\ \E r \in appReps :
                   /\ r.dst = a /\ r.src = p /\ r.success /\ r.call.term = currentTerm[a]
                   /\ r.call \in calls[a]
                   /\ matchIndex'[a][p] = r.call.prevIdx + r.call.len
  <1>1. matchIndex \in [Node -> [Node -> Nat]] /\ TypeInv
    BY DEF Known, TypeInv, TypeOK, Index
  <1>2. CASE WinElection(n)
    <2>1. a # n
      BY <1>2 DEF WinElection, Known, ElectionInv, RoleRecorded
    <2>2. matchIndex'[a] = matchIndex[a]
      BY <1>1, <1>2, <2>1 DEF WinElection, InitLeaderState
    <2> QED
      BY <2>2
  <1>3. ASSUME NEW c \in Cmd, Propose(n, c)
        PROVE  p = a /\ a = n /\ matchIndex'[a][p] = Len(log[a])
    <2>1. matchIndex' = [matchIndex EXCEPT ![n][n] = LastIndex(log[n]) + 1]
      BY <1>3 DEF Propose
    <2>2. a = n
      BY <1>1, <2>1
    <2>3. p = n
      BY <1>1, <2>1, <2>2
    <2>4. matchIndex'[a][p] = LastIndex(log[n]) + 1
      BY <1>1, <2>1, <2>2, <2>3
    <2>5. LastIndex(log[n]) = Len(log[n]) - 1 /\ Len(log[n]) \in Nat
      BY <1>1, LogTypes
    <2>6. LastIndex(log[n]) + 1 = Len(log[n])
      BY <2>5
    <2> QED
      BY <2>2, <2>3, <2>4, <2>6
  <1>4. ASSUME NEW m \in appReps, HandleAppendReply(n, m)
        PROVE  /\ UNCHANGED log
               /\ m.dst = a /\ m.src = p /\ m.success /\ m.call.term = currentTerm[a]
               /\ m.call \in calls[a]
               /\ matchIndex'[a][p] = m.call.prevIdx + m.call.len
    <2> DEFINE match == m.call.prevIdx + m.call.len
    <2>1. match \in Nat /\ m.src \in Node
      BY <1>1, AckTypes
    <2>2. UNCHANGED log /\ m.dst = n /\ m.call \in calls[n]
      BY <1>4 DEF HandleAppendReply
    <2>3. matchIndex' # matchIndex
      OBVIOUS
    <2>4. /\ currentTerm[n] = m.call.term /\ m.success
          /\ matchIndex' = [matchIndex EXCEPT ![n][m.src] = Max({matchIndex[n][m.src], match})]
      BY <1>4, <2>3 DEF HandleAppendReply
    <2> HIDE DEF match
    <2>5. a = n
      BY <1>1, <2>4
    <2>6. p = m.src
      BY <1>1, <2>1, <2>4, <2>5
    <2>7. matchIndex'[a][p] = Max({matchIndex[a][p], match}) /\ matchIndex[a][p] \in Nat
      BY <1>1, <2>1, <2>4, <2>5, <2>6
    <2>8. matchIndex'[a][p] = match
      BY <2>1, <2>7, MaxOfTwoIsOne
    <2> QED
      BY <2>2, <2>4, <2>5, <2>6, <2>8 DEF match
  <1>5. \/ WinElection(n) \/ (\E c \in Cmd : Propose(n, c))
        \/ \E m \in appReps : HandleAppendReply(n, m)
    BY SoundStep
       DEF NodeStep, FollowerTimeout, RunFollower, StartElection, HandleVoteReply,
           ElectionEnds, ElectionDone, SendAppend, LeaderStepsDown, LeaderDone,
           HandleRequestVote, RejectAppendEntries, HandleAppendEntries, Apply, Boot,
           nodeVars
  <1> QED
    BY <1>2, <1>3, <1>4, <1>5

\* No leader's log gets shorter.
LEMMA LeaderLogGrows ==
    ASSUME Known, Known', NEW n \in Node, NodeStep(n), NEW a \in Node, state[a] = Leader,
           state'[a] = Leader
    PROVE  /\ Len(log[a]) \in Nat /\ Len(log'[a]) \in Nat
           /\ \/ log'[a] = log[a]
              \/ /\ a = n /\ (\E c \in Cmd : Propose(n, c))
                 /\ Len(log'[a]) = Len(log[a]) + 1
                 /\ \A k \in 1..Len(log[a]) : log'[a][k] = log[a][k]
                 /\ log'[a][Len(log[a]) + 1].term = currentTerm[a]
  <1>1. TypeInv /\ TypeInv'
    BY DEF Known
  <1>2. Len(log[a]) \in Nat /\ Len(log'[a]) \in Nat
    <2>1. LogFrom0(log[a], Slot) /\ LogFrom0(log'[a], Slot)
      BY <1>1 DEF TypeInv, LogOK
    <2> QED
      BY <2>1 DEF LogFrom0
  <1>3. ASSUME NEW m \in appReqs, HandleAppendEntries(n, m) PROVE a # n
    BY <1>1, <1>3 DEF HandleAppendEntries, TypeInv, TypeOK, Follower, Leader
  <1>4. CASE log'[a] # log[a]
    <2>1. \E c \in Cmd : Propose(n, c)
      BY <1>3, <1>4, LogStep
    <2> QED
      BY <1>1, <1>2, <1>4, <2>1, ProposeAppends
  <1> QED
    BY <1>2, <1>4

\* What is counted stays within the leader's log.
LEMMA BoundStep ==
    ASSUME Known, Known', NEW n \in Node, NodeStep(n), CountsBounded
    PROVE  CountsBounded'
  <1> SUFFICES ASSUME NEW a \in Node, state'[a] = Leader
               PROVE  /\ \A p \in Node : matchIndex'[a][p] < Len(log'[a])
                      /\ \A r \in appReps' :
                            r.dst = a /\ r.success /\ r.call.term = currentTerm'[a]
                            => r.call.prevIdx + r.call.len < Len(log'[a])
    BY DEF CountsBounded
  <1>1. TypeInv /\ TypeInv' /\ ElectionInv
    BY DEF Known
  <1>2. CASE a = n /\ WinElection(n)
    <2>1. /\ UNCHANGED <<log, appReps, currentTerm>>
          /\ matchIndex' = [matchIndex EXCEPT ![n] =
                               [p \in Node |-> IF p = n THEN LastIndex(log[n]) ELSE 0]]
      BY <1>2 DEF WinElection, InitLeaderState, netVars
    <2>2. \A p \in Node : matchIndex'[n][p] = IF p = n THEN LastIndex(log[n]) ELSE 0
      BY <2>1, <1>1 DEF TypeInv, TypeOK
    <2>3. LastIndex(log[n]) = Len(log[n]) - 1 /\ Len(log[n]) \in Nat /\ Len(log[n]) > 0
      BY <1>1, LogTypes
    <2>4. \A p \in Node : matchIndex'[n][p] < Len(log[n])
      BY <2>2, <2>3
    <2>5. \A l \in leaders : l.term # currentTerm[n]
      BY <1>2, WinnerStands DEF Standing
    <2>6. \A r \in appReps : r.call.term # currentTerm[n]
      BY <2>5 DEF Known, CopyInv, CallsOwned
    <2> QED
      BY <2>1, <2>4, <2>6, <1>2
  <1>3. CASE state[a] = Leader /\ currentTerm'[a] = currentTerm[a]
    <2>1. /\ \A p \in Node : matchIndex[a][p] < Len(log[a])
          /\ \A r \in appReps :
                r.dst = a /\ r.success /\ r.call.term = currentTerm[a]
                => r.call.prevIdx + r.call.len < Len(log[a])
      BY <1>3 DEF CountsBounded
    <2>2. Len(log[a]) \in Nat /\ Len(log'[a]) \in Nat /\ Len(log[a]) <= Len(log'[a])
      BY <1>3, LeaderLogGrows
    <2>3. ASSUME NEW p \in Node PROVE matchIndex'[a][p] < Len(log'[a])
      <3>1. CASE matchIndex'[a][p] = matchIndex[a][p]
        <4>1. matchIndex[a][p] \in Nat
          BY <1>1, AckTypes
        <4> QED
          BY <3>1, <4>1, <2>1, <2>2
      <3>2. CASE /\ a = n /\ (\E c \in Cmd : Propose(n, c))
                 /\ matchIndex'[a][p] = Len(log[a])
        <4>1. Len(log'[a]) = Len(log[a]) + 1
          BY <3>2, <1>1, ProposeAppends
        <4> QED
          BY <3>2, <4>1, <2>2
      <3>3. CASE /\ UNCHANGED log
                 /\ \E r \in appReps :
                     /\ r.dst = a /\ r.success /\ r.call.term = currentTerm[a]
                     /\ matchIndex'[a][p] = r.call.prevIdx + r.call.len
        BY <3>3, <2>1
      <3> QED
        BY <3>1, <3>2, <3>3, <1>3, NewMatch
    <2>4. ASSUME NEW r \in appReps', r.dst = a, r.success, r.call.term = currentTerm[a]
          PROVE  r.call.prevIdx + r.call.len < Len(log'[a])
      <3>1. r.call.prevIdx + r.call.len < Len(log[a])
        <4>1. CASE r \in appReps
          BY <2>1, <2>4, <4>1
        <4>2. CASE r \notin appReps
          <5>1. PICK m \in appReqs : /\ m.term = r.call.term /\ m.prevIdx = r.call.prevIdx
                                     /\ Len(m.entries) = r.call.len
            BY <2>4, <4>2, NewAnswer
          <5>2. SliceOf(m, log[a])
            BY <5>1, <2>4, <1>3 DEF Known, CopyInv, Sent
          <5> QED
            BY <5>1, <5>2 DEF SliceOf
        <4> QED
          BY <4>1, <4>2
      <3>2. r.call.prevIdx + r.call.len \in Nat
        <4>1. TypeInv'
          BY <1>1
        <4>2. r \in AppRep
          BY <4>1 DEF TypeInv, TypeOK
        <4> QED
          BY <4>2 DEF AppRep, Call, Index
      <3> QED
        BY <3>1, <3>2, <2>2
    <2> QED
      BY <2>3, <2>4, <1>3
  <1> QED
    BY <1>1, <1>2, <1>3, LeaderStays

\* Whom a leader newly counts for an index has just confirmed it, in its term.
LEMMA NewlyCounted ==
    ASSUME Known, Known', NEW n \in Node, NodeStep(n), NEW a \in Node, state[a] = Leader,
           state'[a] = Leader, currentTerm'[a] = currentTerm[a], NEW i \in Nat,
           i < Len(log[a]), NEW p \in Counted(a, i)', p \notin Counted(a, i)
    PROVE  /\ p \in Node /\ p # a /\ currentTerm'[p] = currentTerm[a]
           /\ \E r \in appReps' : /\ r.dst = a /\ r.src = p /\ r.success
                                  /\ r.call.term = currentTerm[a]
                                  /\ r.call.prevIdx + r.call.len >= i
  <1>1. p # a
    BY DEF Counted
  <1>2. p \in Node
    BY DEF Counted
  <1>3. /\ ~(matchIndex[a][p] >= i)
        /\ ~\E r \in appReps : /\ r.dst = a /\ r.src = p /\ r.success
                               /\ r.call.term = currentTerm[a]
                               /\ r.call.prevIdx + r.call.len >= i
    BY <1>2 DEF Counted
  <1>4. ~(matchIndex'[a][p] >= i)
    BY <1>1, <1>2, <1>3, NewMatch
  <1>5. PICK r \in appReps' : /\ r.dst = a /\ r.src = p /\ r.success
                              /\ r.call.term = currentTerm[a]
                              /\ r.call.prevIdx + r.call.len >= i
    BY <1>1, <1>4 DEF Counted
  <1>6. r \notin appReps
    BY <1>3, <1>5
  <1>7. r.src = n /\ currentTerm'[n] = r.call.term
    BY <1>5, <1>6, NewAnswer
  <1> QED
    BY <1>1, <1>2, <1>5, <1>7

\* An open entry that was there before stays kept.
LEMMA OldOpenStep ==
    ASSUME Known, Known', TermsOrdered, VotesDescribed, VotesDescribed', OpenKept,
           NEW n \in Node, NodeStep(n), NEW a \in Node, state[a] = Leader,
           state'[a] = Leader, NEW T, currentTerm[a] = T, currentTerm'[a] = T,
           NEW i \in Nat, Has(log[a], i, T), ~Majority(Gone(a, i))'
    PROVE  Kept(i, T)' /\ \A p \in Counted(a, i)' : Holder(p, i, T)'
  <1>0. PICK S \in SUBSET Node : S = Counted(a, i)
    BY DEF Counted
  <1>1. TypeInv /\ TypeInv'
    BY DEF Known
  <1>2. \A p \in Node : /\ currentTerm[p] \in Nat /\ currentTerm'[p] \in Nat
                         /\ currentTerm[p] <= currentTerm'[p]
    BY <1>1, SoundStep, TermTypes
  <1>3. 1 <= i /\ i < Len(log[a]) /\ Len(log[a]) \in Nat /\ log[a][i + 1].term = T
    BY <1>1, TermTypes DEF Has
  <1>4. Gone(a, i) \subseteq Gone(a, i)'
    <2> SUFFICES ASSUME NEW v \in Node, currentTerm[v] > T, v \notin Counted(a, i)
                 PROVE  currentTerm'[v] > T /\ v \notin Counted(a, i)'
      BY DEF Gone
    <2>1. currentTerm'[v] > T
      BY <1>2
    <2>2. ASSUME v \in Counted(a, i)' PROVE FALSE
      <3>1. currentTerm'[v] = currentTerm[a]
        BY <2>2, <1>3, NewlyCounted
      <3> QED
        BY <3>1, <2>1, <1>2
    <2> QED
      BY <2>1, <2>2
  <1>5. ~Majority(Gone(a, i))
    <2>1. Gone(a, i) \in SUBSET Node /\ Gone(a, i)' \in SUBSET Node
      BY DEF Gone
    <2>2. Majority(Gone(a, i)') => Majority(Gone(a, i))'
      BY DEF Majority
    <2> QED
      BY <2>1, <2>2, <1>4, MajorityMonotone
  <1>6. Kept(i, T) /\ \A p \in S : Holder(p, i, T)
    <2>1. i \in 1..(Len(log[a]) - 1)
      BY <1>3
    <2> QED
      BY <2>1, <1>0, <1>5 DEF OpenKept
  <1>7. S \in SUBSET Node /\ a \in S
    BY <1>0 DEF Counted
  <1>8. Settled(S, i, T)
    BY <1>2, <1>6, <1>7 DEF Settled
  <1>9. Met(S, T)
    <2> SUFFICES ASSUME NEW B \in SUBSET Node, Majority(B), \A b \in B : currentTerm[b] > T,
                        ~\E v \in Node : v \in B /\ v \in S
                 PROVE  FALSE
      BY DEF Met
    <2>1. B \subseteq Gone(a, i) /\ Gone(a, i) \in SUBSET Node
      BY <1>0 DEF Gone
    <2> QED
      BY <2>1, <1>5, MajorityMonotone
  <1>10. Settled(S, i, T)'
    BY <1>8, <1>9, SettledStep
  <1>11. Kept(i, T)' /\ \A p \in S : Holder(p, i, T)'
    BY <1>10 DEF Settled
  <1>12. ASSUME NEW p \in Counted(a, i)' PROVE Holder(p, i, T)'
    <2>1. CASE p \in S
      BY <2>1, <1>11
    <2>2. CASE p \notin S
      <3>1. /\ p \in Node /\ p # a /\ currentTerm'[p] = T
            /\ \E r \in appReps' : /\ r.dst = a /\ r.src = p /\ r.success
                                   /\ r.call.term = T /\ r.call.prevIdx + r.call.len >= i
        BY <2>2, <1>3, <1>12, <1>0, NewlyCounted
      <3>2. PICK r \in appReps' : /\ r.dst = a /\ r.src = p /\ r.success
                                  /\ r.call.term = T /\ r.call.prevIdx + r.call.len >= i
        BY <3>1
      <3> DEFINE k == r.call.prevIdx + r.call.len
      <3>3. HeldUpTo(a, p, k)'
        BY <3>1, <3>2 DEF Known, CopyInv, Acked
      <3>4. k \in Nat
        <4>1. TypeInv'
          BY <1>1
        <4>2. r \in AppRep
          BY <4>1 DEF TypeInv, TypeOK
        <4> QED
          BY <4>2 DEF AppRep, Call, Index
      <3>5. k >= i
        BY <3>2
      <3> HIDE DEF k
      <3>6. Copied(log'[a], log'[p], k)
        BY <3>1, <3>3, <3>4, <3>5, <1>3 DEF HeldUpTo
      <3>7. Has(log'[a], i, T)
        BY <1>11, <1>7 DEF Holder
      <3>8. Has(log'[p], i, T)
        <4>1. i \in 1..k /\ k < Len(log'[p])
          BY <3>4, <3>5, <3>6, <1>3 DEF Copied
        <4>2. log'[p][i + 1] = log'[a][i + 1]
          BY <4>1, <3>6 DEF Copied
        <4>3. Len(log'[p]) \in Nat
          BY <3>1, <1>1, TermTypes, NextLogTypes
        <4>4. i < Len(log'[p])
          BY <4>1, <4>3, <3>4, <3>5
        <4> QED
          BY <4>2, <4>4, <3>7, <1>3 DEF Has
      <3>9. ASSUME NEW c \in Node, <<p, c, currentTerm'[c]>> \in grants', currentTerm'[c] > T
            PROVE  FALSE
        <4>1. currentTerm'[c] <= currentTerm'[p]
          BY <3>1, <3>9, <1>2 DEF VotesDescribed, Term
        <4> QED
          BY <4>1, <3>1, <3>9, <1>2
      <3> QED
        BY <3>1, <3>8, <3>9, <1>2 DEF Holder
    <2> QED
      BY <2>1, <2>2
  <1> QED
    BY <1>11, <1>12

\* An entry that a leader has just made is kept as long as no later leader can have
\* been elected.
LEMMA NewOpenStep ==
    ASSUME Known, Known', TermsOrdered', VotesDescribed, VotesDescribed', CountsBounded,
           NEW a \in Node, NEW x \in Cmd, Propose(a, x), NodeStep(a),
           NEW T, currentTerm[a] = T, NEW i, i = Len(log[a]), ~Majority(Gone(a, i))'
    PROVE  Kept(i, T)' /\ \A p \in Counted(a, i)' : Holder(p, i, T)'
  <1>1. TypeInv /\ TypeInv' /\ ElectionInv /\ ElectionInv' /\ Rooted'
    BY DEF Known, ReplInv
  <1>2. /\ UNCHANGED <<currentTerm, state, leaders, grants, appReqs, appReps>>
        /\ state[a] = Leader
    BY DEF Propose, MayPropose, netVars, histVars
  <1>3. /\ \A j \in Node \ {a} : log'[j] = log[j]
        /\ Len(log'[a]) = i + 1
        /\ log'[a][i + 1].term = T
    BY <1>1, ProposeAppends
  <1>4. \A p \in Node : /\ currentTerm[p] \in Nat /\ Len(log[p]) \in Nat /\ Len(log[p]) > 0
                         /\ LogFrom0(log'[p], Slot) /\ Len(log'[p]) \in Nat
    BY <1>1, TermTypes, NextLogTypes
  <1>5. i \in Nat /\ i >= 1 /\ T \in Nat /\ Has(log'[a], i, T)
    BY <1>3, <1>4 DEF Has
  <1>6. ASSUME NEW p \in Counted(a, i)', p # a PROVE FALSE
    <2>1. p \in Node
      BY <1>6 DEF Counted
    <2>2. matchIndex[a][p] \in Nat /\ matchIndex[a][p] < i
      BY <1>1, <1>2, <2>1, AckTypes DEF CountsBounded
    <2>3. matchIndex'[a][p] = matchIndex[a][p]
      <3>1. matchIndex' = [matchIndex EXCEPT ![a][a] = LastIndex(log[a]) + 1]
        BY DEF Propose
      <3> QED
        BY <3>1, <2>1, <1>1, <1>6 DEF TypeInv, TypeOK
    <2>4. ~(matchIndex'[a][p] >= i)
      BY <2>2, <2>3, <1>5
    <2>5. PICK r \in appReps : /\ r.dst = a /\ r.src = p /\ r.success
                               /\ r.call.term = currentTerm[a]
                               /\ r.call.prevIdx + r.call.len >= i
      BY <2>4, <1>2, <1>6 DEF Counted
    <2>6. r.call.prevIdx + r.call.len < i /\ r.call.prevIdx + r.call.len \in Nat
      BY <1>1, <1>2, <2>5, AckTypes DEF CountsBounded
    <2> QED
      BY <2>5, <2>6, <1>5
  <1>7. ASSUME NEW l \in leaders, l.term > T PROVE FALSE
    <2>1. l \in [node : Node, term : Term, elected : Term] /\ l.elected = l.term
      BY <1>1 DEF TypeInv, TypeOK, Known, ElectionsSound, ElectedInTerm
    <2>2. l.node \in Node /\ l.term \in Term /\ l.term \in Nat
      BY <2>1 DEF Term
    <2>3. Majority(Backers(l)) /\ Backers(l) \in SUBSET Node
      BY <1>1 DEF ElectionInv, MajorityBacked, Backers
    <2>4. ASSUME NEW v \in Backers(l) PROVE v \in Gone(a, i)'
      <3>1. v \in Node /\ <<v, l.node, l.term>> \in grants
        BY <2>1 DEF Backers
      <3>2. l.term <= currentTerm[v]
        BY <2>2, <3>1 DEF VotesDescribed
      <3>3. currentTerm'[v] > currentTerm'[a]
        BY <3>1, <3>2, <2>2, <1>2, <1>4, <1>5, <1>7
      <3>4. v # a
        BY <3>3, <1>2, <1>4, <1>5
      <3> QED
        BY <3>1, <3>3, <3>4, <1>6 DEF Gone
    <2>5. Gone(a, i)' \in SUBSET Node
      BY DEF Gone
    <2>6. Majority(Gone(a, i)') => Majority(Gone(a, i))'
      BY DEF Majority
    <2> QED
      BY <2>3, <2>4, <2>5, <2>6, MajorityMonotone
  <1>8. \A p \in Node : ~(state'[p] = Leader /\ currentTerm'[p] > T)
    BY <1>1, <1>2, <1>7 DEF ElectionInv, RoleRecorded
  <1>9. ASSUME NEW p \in Node, NEW k \in 1..(Len(log'[p]) - 1), NoOlder(log'[p], k, i, T)
        PROVE  Has(log'[p], i, T)
    <2> DEFINE c == LogChain(log'[p])
               d == LogChain(log'[a])
    <2>0. k \in Nat /\ k < Len(log'[p]) /\ 1 <= k
      BY <1>4
    <2>1. /\ c.base = 0 /\ c.top = Len(log'[p]) - 1
          /\ \A h \in Nat : Holds(c, h) => c.at[h] = log'[p][h + 1]
      BY <1>4, LogChainFields
    <2>2. d.base = 0 /\ d.top = i
      <3>1. d.base = 0 /\ d.top = Len(log'[a]) - 1
        BY <1>4, LogChainFields
      <3> QED
        BY <3>1, <1>3, <1>5
    <2>3. Owned' /\ LeaderHolds'
      BY DEF Known, ReplInv
    <2>4. c \in Chains'
      BY DEF Chains
    <2>5. \A h \in Nat : Holds(c, h) => \E l \in leaders' : l.term = c.at[h].term
      BY <2>3, <2>4 DEF Owned
    <2>6. \A h \in Nat : Holds(c, h) /\ c.at[h].term = currentTerm'[a] => Holds(d, h)
      BY <2>3, <2>4, <1>2 DEF LeaderHolds
    <2> HIDE DEF c, d
    <2>7. Holds(c, k)
      BY <2>0, <2>1, <1>4 DEF Holds
    <2>8. log'[p][k + 1].term = c.at[k].term
      BY <2>0, <2>1, <2>7
    <2>9. ~(log'[p][k + 1].term > T)
      BY <2>0, <2>5, <2>7, <2>8, <1>2, <1>7
    <2>10. log'[p][k + 1].term = T /\ k >= i
      BY <2>9, <1>9 DEF NoOlder
    <2>11. Holds(d, k)
      BY <2>0, <2>6, <2>7, <2>8, <2>10, <1>2
    <2>12. k = i
      BY <2>0, <2>2, <2>10, <2>11, <1>5 DEF Holds
    <2> QED
      BY <2>0, <2>10, <2>12 DEF Has
  <1>10. ASSUME NEW m \in appReqs', NEW p \in Node, m.term >= T, Has(log'[p], i, T)
         PROVE  Fits(m, log'[p], i, T)
    <2>1. m \in appReqs /\ m.term \in Nat /\ m.prevIdx \in Nat /\ Len(m.entries) \in Nat
      BY <1>1, <1>2, TermTypes
    <2>2. m.term = T
      <3>1. \E l \in leaders : l.term = m.term
        BY <2>1 DEF Known, CopyInv, CallsOwned
      <3>2. ~(m.term > T)
        BY <3>1, <1>7
      <3> QED
        BY <3>2, <2>1, <1>5, <1>10
    <2>3. SliceOf(m, log'[a])
      BY <2>2, <1>2 DEF Known, CopyInv, Sent
    <2>4. Ascending(log'[a])
      BY DEF TermsOrdered
    <2>5. Fits(m, log'[a], i, T)
      BY <2>1, <2>3, <2>4, <1>4, <1>5, SliceFits
    <2>6. ChainsMatch'
      BY DEF Known, ReplInv
    <2>7. Match(LogChain(log'[a]), LogChain(log'[p]))
      BY <2>6 DEF ChainsMatch, Chains
    <2>8. i < Len(log'[a]) /\ i < Len(log'[p]) /\ log'[a][i + 1].term = log'[p][i + 1].term
      BY <1>5, <1>10 DEF Has
    <2>9. Copied(log'[a], log'[p], i)
      BY <2>7, <2>8, <1>4, <1>5, CopiedByMatch
    <2>10. log'[a][1] = log'[p][1]
      BY <1>1 DEF Rooted
    <2> QED
      BY <2>1, <2>5, <2>9, <2>10, <1>5, FitsCopied
  <1>11. Holder(a, i, T)'
    <2>1. ASSUME NEW c \in Node, <<a, c, currentTerm'[c]>> \in grants', currentTerm'[c] > T
          PROVE  FALSE
      <3>1. currentTerm'[c] <= currentTerm'[a]
        BY <2>1, <1>2, <1>4 DEF VotesDescribed, Term
      <3> QED
        BY <3>1, <2>1, <1>2, <1>4
    <2> QED
      BY <2>1, <1>2, <1>5 DEF Holder
  <1>12. Kept(i, T)'
    BY <1>8, <1>9, <1>10 DEF Kept
  <1> QED
    BY <1>6, <1>11, <1>12

\* What leaders may still commit stays kept.
LEMMA OpenStep ==
    ASSUME Known, Known', TermsOrdered, TermsOrdered', VotesDescribed, VotesDescribed',
           CountsBounded, OpenKept, NEW n \in Node, NodeStep(n)
    PROVE  OpenKept'
  <1> SUFFICES ASSUME NEW a \in Node, NEW i \in 1..(Len(log'[a]) - 1), state'[a] = Leader,
                      NEW T, currentTerm'[a] = T, Has(log'[a], i, T), ~Majority(Gone(a, i))'
               PROVE  Kept(i, T)' /\ \A p \in Counted(a, i)' : Holder(p, i, T)'
    BY DEF OpenKept
  <1>1. TypeInv /\ TypeInv' /\ ElectionInv
    BY DEF Known
  <1>2. i \in Nat /\ 1 <= i /\ i < Len(log'[a]) /\ log'[a][i + 1].term = T
    BY DEF Has
  <1>3. CASE a = n /\ WinElection(n)
    <2>1. UNCHANGED <<log, currentTerm>>
      BY <1>3 DEF WinElection
    <2>2. \A l \in leaders : l.term # T
      BY <1>3, <2>1, WinnerStands DEF Standing
    <2> DEFINE c == LogChain(log[a])
    <2>3. /\ c.base = 0 /\ c.top = Len(log[a]) - 1
          /\ \A h \in Nat : Holds(c, h) => c.at[h] = log[a][h + 1]
      <3>1. LogFrom0(log[a], Slot)
        BY <1>1, LogTypes
      <3> QED
        BY <3>1, LogChainFields
    <2>4. c \in Chains /\ Owned
      BY DEF Chains, Known, ReplInv
    <2>5. \A h \in Nat : Holds(c, h) => \E l \in leaders : l.term = c.at[h].term
      BY <2>4 DEF Owned
    <2> HIDE DEF c
    <2>6. Holds(c, i)
      <3>1. Len(log[a]) \in Nat /\ i < Len(log[a])
        BY <1>1, <1>2, <2>1, LogTypes
      <3> QED
        BY <3>1, <2>3, <1>2 DEF Holds
    <2> QED
      BY <2>1, <2>2, <2>3, <2>5, <2>6, <1>2
  <1>4. CASE state[a] = Leader /\ currentTerm'[a] = currentTerm[a]
    <2>1. CASE Has(log[a], i, T)
      BY <1>2, <1>4, <2>1, OldOpenStep
    <2>2. CASE ~Has(log[a], i, T)
      <3>1. /\ a = n /\ (\E c \in Cmd : Propose(n, c)) /\ Len(log[a]) \in Nat
            /\ Len(log'[a]) = Len(log[a]) + 1
            /\ \A k \in 1..Len(log[a]) : log'[a][k] = log[a][k]
        BY <1>4, <2>2, LeaderLogGrows
      <3>2. i = Len(log[a])
        <4> SUFFICES ASSUME i # Len(log[a]) PROVE FALSE
          OBVIOUS
        <4>1. i < Len(log[a]) /\ i + 1 \in 1..Len(log[a])
          BY <3>1, <1>2
        <4>2. log[a][i + 1] = log'[a][i + 1]
          BY <4>1, <3>1
        <4> QED
          BY <4>1, <4>2, <1>2, <2>2 DEF Has
      <3> QED
        BY <3>1, <3>2, <1>4, NewOpenStep
    <2> QED
      BY <2>1, <2>2
  <1> QED
    BY <1>1, <1>3, <1>4, LeaderStays

-----------------------------------------------------------------------------
(***************************************************************************)
(* What is committed                                                       *)
(***************************************************************************)

\* maybeAdvanceCommitLocked moves to an index that may be committed, or not at all.
LEMMA AdvancedIs ==
    ASSUME NEW n \in Node, NEW l, NEW match, LogFrom0(l, Slot), commitIndex[n] \in Nat
    PROVE  \/ AdvancedCommit(n, l, match) = commitIndex[n]
           \/ AdvancedCommit(n, l, match) \in Committable(n, l, match)
  <1> DEFINE S == Committable(n, l, match)
  <1>1. LastIndex(l) \in Nat
    <2>1. LastIndex(l) = Len(l) - 1
      BY LogFrom0Lookups
    <2> QED
      BY <2>1 DEF LogFrom0
  <1>2. S \in SUBSET (0..LastIndex(l))
    BY <1>1 DEF Committable
  <1>3. S # {} => Max(S) \in S
    BY <1>1, <1>2, MaxIsGreatest
  <1> QED
    BY <1>3 DEF AdvancedCommit

\* A commit index moves forward: a leader's to an index that it may commit, a
\* follower's as far as a request tells it and reaches.
Committing(n) ==
    /\ state[n] = Leader /\ state'[n] = Leader /\ currentTerm'[n] = currentTerm[n]
    /\ commitIndex'[n] \in Committable(n, log'[n], matchIndex'[n])

Following(n, m) ==
    /\ HandleAppendEntries(n, m)
    /\ Consistent(log[n], m.prevIdx, m.prevTerm)
    /\ commitIndex'[n] <= m.commit /\ commitIndex'[n] <= m.prevIdx + Len(m.entries)

\* A commit index moves forward only, and in these two ways.
LEMMA CommitStep ==
    ASSUME Known, Known', NEW n \in Node, NodeStep(n), NEW p \in Node,
           commitIndex'[p] # commitIndex[p]
    PROVE  /\ p = n /\ commitIndex'[n] \in Nat /\ commitIndex'[n] > commitIndex[n]
           /\ Committing(n) \/ \E m \in appReqs : Following(n, m)
  <1>1. TypeInv /\ TypeInv'
    BY DEF Known
  <1>2. /\ commitIndex \in [Node -> Nat] /\ commitIndex'[p] \in Nat
        /\ \A i \in Node : LogFrom0(log[i], Slot) /\ LogFrom0(log'[i], Slot)
    BY <1>1 DEF TypeInv, TypeOK, LogOK, Index
  <1>3. ASSUME NEW v, commitIndex' = [commitIndex EXCEPT ![n] = v]
        PROVE  p = n /\ commitIndex'[n] = v /\ v # commitIndex[n] /\ v \in Nat
    BY <1>2, <1>3
  <1>4. ASSUME NEW l, NEW match, LogFrom0(l, Slot),
               commitIndex' = [commitIndex EXCEPT ![n] = AdvancedCommit(n, l, match)]
        PROVE  /\ p = n /\ commitIndex'[n] \in Nat /\ commitIndex'[n] > commitIndex[n]
               /\ commitIndex'[n] \in Committable(n, l, match)
    <2>1. /\ p = n /\ commitIndex'[n] = AdvancedCommit(n, l, match)
          /\ commitIndex'[n] # commitIndex[n] /\ commitIndex'[n] \in Nat
      BY <1>3, <1>4
    <2>2. commitIndex'[n] \in Committable(n, l, match)
      BY <2>1, <1>2, <1>4, AdvancedIs
    <2>3. commitIndex'[n] \in (commitIndex[n] + 1)..LastIndex(l)
      BY <2>2 DEF Committable
    <2> QED
      BY <2>1, <2>2, <2>3, <1>2
  <1>5. ASSUME NEW c \in Cmd, Propose(n, c)
        PROVE  /\ p = n /\ commitIndex'[n] \in Nat /\ commitIndex'[n] > commitIndex[n]
               /\ Committing(n)
    <2>1. /\ commitIndex' = [commitIndex EXCEPT ![n] =
                                AdvancedCommit(n, log'[n], matchIndex'[n])]
          /\ state[n] = Leader /\ UNCHANGED <<state, currentTerm>>
      BY <1>5 DEF Propose, MayPropose
    <2> QED
      BY <2>1, <1>2, <1>4 DEF Committing
  <1>6. ASSUME NEW m \in appReps, HandleAppendReply(n, m)
        PROVE  /\ p = n /\ commitIndex'[n] \in Nat /\ commitIndex'[n] > commitIndex[n]
               /\ Committing(n)
    <2>1. commitIndex' # commitIndex
      OBVIOUS
    <2>2. /\ commitIndex' = [commitIndex EXCEPT ![n] =
                                AdvancedCommit(n, log[n], matchIndex'[n])]
          /\ state[n] = Leader /\ UNCHANGED <<state, currentTerm, log>>
      BY <1>6, <2>1 DEF HandleAppendReply
    <2> QED
      BY <2>2, <1>2, <1>4 DEF Committing
  <1>7. ASSUME NEW m \in appReqs, HandleAppendEntries(n, m)
        PROVE  /\ p = n /\ commitIndex'[n] \in Nat /\ commitIndex'[n] > commitIndex[n]
               /\ Following(n, m)
    <2> DEFINE last == m.prevIdx + Len(m.entries)
               ok == Consistent(log[n], m.prevIdx, m.prevTerm)
               y == Min({m.commit, last})
    <2>1. commitIndex' = [commitIndex EXCEPT ![n] =
                             IF ok THEN FollowerCommit(commitIndex[n], m.commit, last)
                                   ELSE commitIndex[n]]
      BY <1>7 DEF HandleAppendEntries
    <2>2. m.commit \in Nat /\ last \in Nat
      BY <1>1, TermTypes
    <2> HIDE DEF last
    <2>3. y \in Nat /\ y <= m.commit /\ y <= last
      BY <2>2, MinOfTwo
    <2>4. FollowerCommit(commitIndex[n], m.commit, last) = Max({commitIndex[n], y})
      BY DEF FollowerCommit
    <2> HIDE DEF y, ok
    <2>5. /\ p = n /\ ok
          /\ commitIndex'[n] = Max({commitIndex[n], y}) /\ commitIndex'[n] # commitIndex[n]
      <3>1. /\ p = n /\ commitIndex'[n] # commitIndex[n]
            /\ commitIndex'[n] = IF ok THEN FollowerCommit(commitIndex[n], m.commit, last)
                                       ELSE commitIndex[n]
        BY <2>1, <1>3
      <3> QED
        BY <3>1, <2>4
    <2>6. commitIndex[n] \in Nat
      BY <1>2
    <2>7. Max({commitIndex[n], y}) \in {commitIndex[n], y} /\ Max({commitIndex[n], y}) >= commitIndex[n]
      BY <2>3, <2>6, MaxOfTwoIsOne, MaxOfTwo
    <2>8. commitIndex'[n] = y /\ y > commitIndex[n]
      BY <2>3, <2>5, <2>6, <2>7
    <2> QED
      BY <2>3, <2>5, <2>8, <1>7 DEF Following, last, ok
  <1>8. \/ \E c \in Cmd : Propose(n, c)
        \/ \E m \in appReps : HandleAppendReply(n, m)
        \/ \E m \in appReqs : HandleAppendEntries(n, m)
    BY SoundStep
       DEF NodeStep, FollowerTimeout, RunFollower, StartElection, HandleVoteReply,
           WinElection, ElectionEnds, ElectionDone, SendAppend, LeaderStepsDown,
           LeaderDone, HandleRequestVote, RejectAppendEntries, Apply, Boot, nodeVars
  <1> QED
    BY <1>5, <1>6, <1>7, <1>8

\* What is chosen stays chosen.
LEMMA ChosenStep ==
    ASSUME Known, Known', TermsOrdered, VotesDescribed, NEW n \in Node, NodeStep(n),
           NEW i \in Nat, NEW t \in Nat, Chosen(i, t)
    PROVE  Chosen(i, t)'
  <1>1. PICK S \in SUBSET Node : S = {v \in Node : Holder(v, i, t)}
    OBVIOUS
  <1>2. Kept(i, t) /\ Majority(S)
    BY <1>1 DEF Chosen
  <1>3. S # {}
    BY <1>2, MajoritiesMeet
  <1>4. Settled(S, i, t)
    BY <1>1, <1>2, <1>3 DEF Settled
  <1>5. Met(S, t)
    BY <1>2, MajoritiesMeet DEF Met
  <1>6. Settled(S, i, t)'
    BY <1>4, <1>5, SettledStep
  <1>7. PICK R \in SUBSET Node : R = {v \in Node : Holder(v, i, t)'}
    OBVIOUS
  <1>8. S \subseteq R /\ Kept(i, t)'
    BY <1>6, <1>7 DEF Settled
  <1>9. Majority(R)
    BY <1>2, <1>8, MajorityMonotone
  <1> QED
    BY <1>7, <1>8, <1>9 DEF Chosen, Majority

\* So do the entries that commit indices rest on.
LEMMA AnchorStep ==
    ASSUME Known, Known', TermsOrdered, VotesDescribed, NEW n \in Node, NodeStep(n),
           NEW w \in Node, NEW k \in Nat, NEW t \in Nat, Anchor(w, k, t),
           NEW u \in Nat, t <= u
    PROVE  /\ Anchor(w, k, u)' /\ Copied(log[w], log'[w], k)
           /\ k < Len(log'[w]) /\ log'[w][k + 1].term = log[w][k + 1].term
  <1>1. PICK s \in Nat : s = log[w][k + 1].term
    <2>1. k + 1 \in 1..Len(log[w])
      BY TermTypes DEF Anchor, Known
    <2> QED
      BY <2>1, TermTypes DEF Known
  <1>2. 1 <= k /\ Has(log[w], k, s) /\ s <= t /\ Chosen(k, s) /\ Kept(k, s)
    BY <1>1 DEF Anchor, Has, Chosen
  <1>3. Chosen(k, s)'
    BY <1>2, ChosenStep
  <1>4. Has(log'[w], k, s) /\ Copied(log[w], log'[w], k)
    BY <1>2, KeepsHas
  <1>5. log'[w][k + 1].term = s /\ k < Len(log'[w])
    BY <1>4 DEF Has
  <1>6. s <= u
    BY <1>1, <1>2
  <1> QED
    BY <1>1, <1>2, <1>3, <1>4, <1>5, <1>6 DEF Anchor

\* No step takes away what lies below a chosen entry of its node's past.
LEMMA CommittedKept ==
    ASSUME Known, Known', NEW n \in Node, NodeStep(n), NEW w \in Node, NEW k \in Nat,
           NEW p \in Node, Anchor(w, k, currentTerm[p]), NEW x \in Nat, x <= k,
           Copied(log[w], log[p], x)
    PROVE  Retained(log[p], log'[p], x)
  <1>1. TypeInv /\ TypeInv'
    BY DEF Known
  <1>2. /\ LogFrom0(log[p], Slot) /\ LogFrom0(log'[p], Slot)
        /\ Len(log[p]) \in Nat /\ x < Len(log[p])
    <2>1. LogFrom0(log[p], Slot) /\ LogFrom0(log'[p], Slot)
      BY <1>1 DEF TypeInv, LogOK
    <2> QED
      BY <1>1, <2>1, TermTypes DEF Copied
  <1>3. CASE log'[p] = log[p]
    BY <1>2, <1>3 DEF Retained
  <1>4. ASSUME NEW c \in Cmd, Propose(n, c), p = n PROVE Retained(log[p], log'[p], x)
    <2>1. /\ Len(log'[n]) = Len(log[n]) + 1
          /\ \A h \in 1..Len(log[n]) : log'[n][h] = log[n][h]
      BY <1>1, <1>4, ProposeAppends
    <2>2. 1..(x + 1) \subseteq 1..Len(log[n]) /\ x < Len(log[n]) + 1
      BY <1>2, <1>4
    <2> QED
      BY <2>1, <2>2, <1>4 DEF Retained
  <1>5. ASSUME NEW m \in appReqs, HandleAppendEntries(n, m), p = n,
               Appended(Slot, log[n], m.prevIdx, m.entries, log'[n])
        PROVE  Retained(log[p], log'[p], x)
    <2>1. m.term \in Nat /\ m.prevIdx \in Nat /\ Len(m.entries) \in Nat /\ currentTerm[n] \in Nat
      BY <1>1, TermTypes
    <2>2. PICK s \in Nat : s = log[w][k + 1].term
      <3>1. k + 1 \in 1..Len(log[w])
        BY <1>1, TermTypes DEF Anchor
      <3> QED
        BY <3>1, <1>1, TermTypes
    <2>3. Has(log[w], k, s) /\ Kept(k, s) /\ s <= currentTerm[n]
      BY <2>2, <1>5 DEF Anchor, Has, Chosen
    <2>4. m.term >= s
      <3>1. m.term >= currentTerm[n]
        BY <1>5 DEF HandleAppendEntries
      <3> QED
        BY <3>1, <2>1, <2>2, <2>3
    <2>5. Fits(m, log[w], k, s)
      BY <2>3, <2>4 DEF Kept
    <2>6. ASSUME NEW h \in 1..Len(m.entries), m.prevIdx + h <= x
          PROVE  m.entries[h].term = log[n][m.prevIdx + h + 1].term
      <3>1. m.prevIdx + h \in 1..x /\ m.prevIdx + h <= k
        BY <2>1, <2>6
      <3>2. m.entries[h] = log[w][m.prevIdx + h + 1]
        BY <3>1, <2>5 DEF Fits
      <3>3. log[w][m.prevIdx + h + 1] = log[n][m.prevIdx + h + 1]
        BY <3>1, <1>5 DEF Copied
      <3> QED
        BY <3>2, <3>3
    <2>7. Agrees(m, log[n], x)
      BY <2>6 DEF Agrees
    <2>8. LogFrom0(log[n], Slot) /\ LogFrom0(log'[n], Slot) /\ x < Len(log[n])
      BY <1>2, <1>5
    <2>9. Retained(log[n], log'[n], x)
      BY <2>1, <2>7, <2>8, <1>5, SpliceRetains
    <2> QED
      BY <2>9, <1>5
  <1>6. CASE log'[p] # log[p]
    <2>1. \/ \E c \in Cmd : Propose(n, c)
          \/ \E m \in appReqs :
                 /\ HandleAppendEntries(n, m)
                 /\ \A j \in Node \ {n} : log'[j] = log[j]
                 /\ Appended(Slot, log[n], m.prevIdx, m.entries, log'[n])
      BY <1>6, LogStep
    <2>2. (\E c \in Cmd : Propose(n, c)) => p = n
      BY <1>1, <1>6, ProposeAppends
    <2> QED
      BY <2>1, <2>2, <1>4, <1>5, <1>6
  <1> QED
    BY <1>3, <1>6

\* What a node takes to be committed rests on a chosen entry, of its term or an
\* earlier one.
Resting(p) ==
    \E w \in Node : \E k \in commitIndex[p]..(Len(log[w]) - 1) :
        Anchor(w, k, currentTerm[p]) /\ Copied(log[w], log[p], commitIndex[p])

\* It still does where the commit index has not moved.
LEMMA RestingStays ==
    ASSUME Known, Known', TermsOrdered, VotesDescribed, NEW n \in Node, NodeStep(n),
           NEW p \in Node, Resting(p), commitIndex'[p] = commitIndex[p]
    PROVE  Resting(p)'
  <1>1. TypeInv /\ TypeInv'
    BY DEF Known
  <1>2. PICK x \in Nat : x = commitIndex[p]
    BY <1>1 DEF TypeInv, TypeOK, Index
  <1>2a. PICK w \in Node : \E k \in x..(Len(log[w]) - 1) :
            Anchor(w, k, currentTerm[p]) /\ Copied(log[w], log[p], x)
    BY <1>2 DEF Resting
  <1>3. PICK k \in x..(Len(log[w]) - 1) :
            Anchor(w, k, currentTerm[p]) /\ Copied(log[w], log[p], x)
    BY <1>2a
  <1>4. k \in Nat /\ x <= k /\ Len(log'[w]) \in Nat
    BY <1>1, <1>2, <1>3, TermTypes, NextLogTypes
  <1>5. /\ currentTerm[p] \in Nat /\ currentTerm'[p] \in Nat
        /\ currentTerm[p] <= currentTerm'[p]
    BY <1>1, SoundStep, TermTypes
  <1>6. PICK u \in Nat : u = currentTerm'[p]
    BY <1>5
  <1>7. Anchor(w, k, u)' /\ Copied(log[w], log'[w], k) /\ k < Len(log'[w])
    BY <1>3, <1>4, <1>5, <1>6, AnchorStep
  <1>8. Retained(log[p], log'[p], x)
    BY <1>2, <1>3, <1>4, CommittedKept
  <1>9. Copied(log'[w], log'[p], x)
    <2>1. x < Len(log'[p]) /\ x < Len(log'[w])
      BY <1>2, <1>4, <1>7, <1>8 DEF Retained
    <2>2. ASSUME NEW h \in 1..x PROVE log'[w][h + 1] = log'[p][h + 1]
      <3>1. h \in 1..k /\ h + 1 \in 1..(x + 1)
        BY <1>2, <1>4
      <3>2. log[w][h + 1] = log'[w][h + 1]
        BY <3>1, <1>7 DEF Copied
      <3>3. log[w][h + 1] = log[p][h + 1]
        BY <1>3 DEF Copied
      <3>4. log'[p][h + 1] = log[p][h + 1]
        BY <3>1, <1>8 DEF Retained
      <3> QED
        BY <3>2, <3>3, <3>4
    <2> QED
      BY <2>1, <2>2 DEF Copied
  <1>10. k \in x..(Len(log'[w]) - 1)
    BY <1>2, <1>4, <1>7
  <1> QED
    BY <1>2, <1>6, <1>7, <1>9, <1>10 DEF Resting

\* What a leader commits by counting is chosen.
LEMMA LeaderCommits ==
    ASSUME Known, Known', OpenKept', NEW n \in Node, NodeStep(n), Committing(n),
           commitIndex'[n] \in Nat
    PROVE  Resting(n)'
  <1>1. TypeInv /\ TypeInv'
    BY DEF Known
  <1>2. PICK x \in Nat : x = commitIndex'[n]
    OBVIOUS
  <1>3. /\ x \in (commitIndex[n] + 1)..LastIndex(log'[n]) /\ commitIndex[n] \in Nat
        /\ TermAt(log'[n], x) = currentTerm[n] /\ Replicated(n, matchIndex'[n], x)
    BY <1>1, <1>2 DEF Committing, Committable, TypeInv, TypeOK, Index
  <1>4. /\ LogFrom0(log'[n], Slot) /\ Len(log'[n]) \in Nat
        /\ LastIndex(log'[n]) = Len(log'[n]) - 1
        /\ \A h \in 0..(Len(log'[n]) - 1) : TermAt(log'[n], h) = log'[n][h + 1].term
    <2>1. LogFrom0(log'[n], Slot)
      BY <1>1 DEF TypeInv, LogOK
    <2> QED
      BY <2>1, LogFrom0Lookups
  <1>5. PICK T \in Nat : T = currentTerm[n] /\ T = currentTerm'[n]
    <2>1. currentTerm[n] \in Nat /\ currentTerm'[n] = currentTerm[n]
      BY <1>1, TermTypes DEF Committing
    <2> QED
      BY <2>1
  <1>6. 1 <= x /\ x < Len(log'[n]) /\ x \in 0..(Len(log'[n]) - 1) /\ x \in 1..(Len(log'[n]) - 1)
    BY <1>3, <1>4
  <1>7. log'[n][x + 1].term = T /\ Has(log'[n], x, T)
    BY <1>3, <1>4, <1>5, <1>6 DEF Has
  <1>8. PICK C \in SUBSET Node : C = Counted(n, x)'
    BY DEF Counted
  <1>9. PICK G \in SUBSET Node : G = Gone(n, x)'
    BY DEF Gone
  <1>10. Majority(C)
    <2> DEFINE R == {n} \cup {p \in Peer(n) : matchIndex'[n][p] >= x}
    <2>1. Majority(R) /\ R \in SUBSET Node
      BY <1>3 DEF Replicated, Peer
    <2>2. R \subseteq C
      BY <1>8 DEF Counted, Peer
    <2> QED
      BY <2>1, <2>2, MajorityMonotone
  <1>11. ~Majority(Gone(n, x))'
    <2>1. ~\E v \in Node : v \in C /\ v \in G
      BY <1>8, <1>9 DEF Gone
    <2>2. ~Majority(G)
      BY <2>1, <1>10, MajoritiesMeet
    <2> QED
      BY <2>2, <1>9 DEF Majority
  <1>12. Kept(x, T)' /\ \A p \in C : Holder(p, x, T)'
    BY <1>5, <1>6, <1>7, <1>8, <1>11 DEF OpenKept, Committing
  <1>13. Chosen(x, T)'
    <2>1. PICK R \in SUBSET Node : R = {v \in Node : Holder(v, x, T)'}
      OBVIOUS
    <2>2. C \subseteq R
      BY <1>12, <2>1
    <2>3. Majority(R)
      BY <2>2, <1>10, MajorityMonotone
    <2> QED
      BY <2>1, <2>3, <1>12 DEF Chosen, Majority
  <1>14. Anchor(n, x, T)'
    BY <1>5, <1>6, <1>7, <1>13 DEF Anchor
  <1>15. Copied(log'[n], log'[n], x)
    BY <1>6 DEF Copied
  <1>16. x \in x..(Len(log'[n]) - 1)
    BY <1>2, <1>4, <1>6
  <1> QED
    BY <1>2, <1>5, <1>14, <1>15, <1>16 DEF Resting

\* Two logs that end a step with the same entry have the same start.
LEMMA HasCopiedNext ==
    ASSUME Known', NEW v \in Node, NEW w \in Node, NEW i \in Nat, NEW t,
           Has(log'[v], i, t), Has(log'[w], i, t)
    PROVE  Copied(log'[v], log'[w], i)
  <1>1. TypeInv' /\ ChainsMatch'
    BY DEF Known, ReplInv
  <1>2. Match(LogChain(log'[v]), LogChain(log'[w]))
    BY <1>1 DEF ChainsMatch, Chains
  <1>3. LogFrom0(log'[v], Slot) /\ LogFrom0(log'[w], Slot)
    BY <1>1 DEF TypeInv, LogOK
  <1>4. i < Len(log'[v]) /\ i < Len(log'[w]) /\ log'[v][i + 1].term = log'[w][i + 1].term
    BY DEF Has
  <1> QED
    BY <1>2, <1>3, <1>4, CopiedByMatch

\* A request that passes the consistency check leaves its terms in the log.
LEMMA FollowingSplices ==
    ASSUME Known, Known', NEW n \in Node, NEW m \in appReqs, Following(n, m)
    PROVE  Spliced(log[n], log'[n], m) /\ currentTerm'[n] = m.term
  <1>1. TypeInv /\ TypeInv'
    BY DEF Known
  <1>2. /\ LogFrom0(log[n], Slot) /\ LogFrom0(log'[n], Slot) /\ m.prevIdx \in Nat
        /\ Len(m.entries) \in Nat
    BY <1>1, TermTypes DEF TypeInv, LogOK
  <1>3. Consistent(log[n], m.prevIdx, m.prevTerm)
    BY DEF Following
  <1>4. log'[n] = AppendAll(log[n], m.prevIdx, m.entries) /\ currentTerm'[n] = m.term
    <2>1. /\ log' = [log EXCEPT ![n] = AppendAll(log[n], m.prevIdx, m.entries)]
          /\ currentTerm' = [currentTerm EXCEPT ![n] = m.term]
      BY <1>3 DEF Following, HandleAppendEntries
    <2> QED
      BY <2>1, <1>1 DEF TypeInv, TypeOK
  <1>5. m.prevIdx <= LastIndex(log[n])
    BY <1>3 DEF Consistent
  <1>6. BatchAfter(m.entries, m.prevIdx, Slot)
    BY <1>1 DEF TypeInv, RequestsOK, BatchAfter, Slot
  <1>7. Appended(Slot, log[n], m.prevIdx, m.entries, log'[n])
    BY <1>2, <1>4, <1>5, <1>6, AppendAllShape
  <1> QED
    BY <1>2, <1>3, <1>4, <1>7, SpliceTerms

\* What a follower commits lies below the entry that its leader's commit index
\* rests on.
LEMMA FollowerCommits ==
    ASSUME Known, Known', TermsOrdered, VotesDescribed, NEW n \in Node, NodeStep(n),
           NEW m \in appReqs, Following(n, m), NEW x \in Nat, x > 0, x = commitIndex'[n],
           NEW w \in Node, NEW k \in Nat, m.commit <= k, Anchor(w, k, m.term)
    PROVE  Resting(n)'
  <1>1. TypeInv /\ TypeInv'
    BY DEF Known
  <1>2. /\ m.term \in Nat /\ m.prevIdx \in Nat /\ m.prevTerm \in Nat /\ m.commit \in Nat
        /\ Len(m.entries) \in Nat /\ Len(log[w]) \in Nat
    BY <1>1, TermTypes
  <1>3. x <= k /\ x <= m.prevIdx + Len(m.entries)
    <2>1. x <= m.commit /\ x <= m.prevIdx + Len(m.entries)
      BY DEF Following
    <2> QED
      BY <2>1, <1>2
  <1>4. Spliced(log[n], log'[n], m) /\ currentTerm'[n] = m.term
    BY FollowingSplices
  <1>5. PICK s \in Nat : s = log[w][k + 1].term
    <2>1. k + 1 \in 1..Len(log[w])
      BY <1>2 DEF Anchor
    <2> QED
      BY <2>1, <1>1, TermTypes
  <1>6. Has(log[w], k, s) /\ Kept(k, s) /\ s <= m.term
    BY <1>5 DEF Anchor, Has, Chosen
  <1>7. Fits(m, log[w], k, s)
    BY <1>6, <1>2, <1>5 DEF Kept
  <1>8. /\ Anchor(w, k, m.term)' /\ Copied(log[w], log'[w], k)
        /\ k < Len(log'[w]) /\ log'[w][k + 1].term = s
    <2>1. PICK u \in Nat : u = m.term
      BY <1>2
    <2>2. Anchor(w, k, u)' /\ Copied(log[w], log'[w], k)
          /\ k < Len(log'[w]) /\ log'[w][k + 1].term = s
      BY <2>1, <1>5, AnchorStep
    <2> QED
      BY <2>1, <2>2
  <1>9. 1 <= k /\ Has(log'[w], k, s)
    BY <1>6, <1>8 DEF Has
  <1>10. Kept(k, s)'
    BY <1>8 DEF Anchor, Chosen
  <1>11. ASSUME NEW z \in Nat, x <= z, z <= k, z < Len(log'[n]),
                log'[n][z + 1].term = log[w][z + 1].term
         PROVE  Copied(log'[w], log'[n], x)
    <2>1. z \in 1..k /\ Len(log'[w]) \in Nat
      BY <1>1, <1>11, TermTypes
    <2>2. log'[w][z + 1].term = log[w][z + 1].term /\ z < Len(log'[w])
      BY <1>8, <2>1, <1>11 DEF Copied
    <2>3. Has(log'[w], z, log[w][z + 1].term) /\ Has(log'[n], z, log[w][z + 1].term)
      BY <2>1, <2>2, <1>11 DEF Has
    <2>4. Copied(log'[w], log'[n], z)
      BY <2>3, HasCopiedNext
    <2>5. Len(log'[n]) \in Nat /\ x < Len(log'[n]) /\ x < Len(log'[w]) /\ 1..x \subseteq 1..z
      BY <1>1, <2>1, <2>2, <1>11, TermTypes
    <2> QED
      BY <2>4, <2>5 DEF Copied
  <1>12. Len(log'[n]) \in Nat /\ m.prevIdx + Len(m.entries) < Len(log'[n])
    BY <1>1, <1>4, TermTypes DEF Spliced
  <1>13. ASSUME m.prevIdx >= k
         PROVE  Copied(log'[w], log'[n], x)
    <2>1. log'[n][m.prevIdx + 1].term = m.prevTerm
      <3>1. m.prevIdx + 1 \in 1..(m.prevIdx + 1)
        BY <1>2
      <3> QED
        BY <3>1, <1>4 DEF Spliced
    <2>2. m.prevTerm >= s
      BY <1>7, <1>13 DEF Fits
    <2>3. NoOlder(log'[n], m.prevIdx, k, s)
      BY <2>1, <2>2, <1>2, <1>13 DEF NoOlder
    <2>4. m.prevIdx \in 1..(Len(log'[n]) - 1)
      BY <1>2, <1>9, <1>12, <1>13
    <2>5. Has(log'[n], k, s)
      BY <2>3, <2>4, <1>10 DEF Kept
    <2>6. k < Len(log'[n]) /\ log'[n][k + 1].term = log[w][k + 1].term
      BY <2>5, <1>5 DEF Has
    <2> QED
      BY <2>6, <1>3, <1>11
  <1>14. ASSUME m.prevIdx < k /\ m.prevIdx + Len(m.entries) >= k
         PROVE  Copied(log'[w], log'[n], x)
    <2>1. PICK h \in Nat : h = k - m.prevIdx
      BY <1>2, <1>14
    <2>2. h \in 1..Len(m.entries) /\ m.prevIdx + h = k
      BY SMTT(30), <1>2, <1>14, <2>1
    <2>3. m.entries[h] = log[w][k + 1]
      BY <2>2, <1>7 DEF Fits
    <2>4. log'[n][k + 1].term = m.entries[h].term
      BY <2>2, <1>4 DEF Spliced
    <2>5. k < Len(log'[n])
      BY <1>2, <1>12, <1>14
    <2> QED
      BY <2>3, <2>4, <2>5, <1>3, <1>11
  <1>15. ASSUME m.prevIdx + Len(m.entries) < k
         PROVE  Copied(log'[w], log'[n], x)
    <2>1. PICK z \in Nat : z = m.prevIdx + Len(m.entries)
      BY <1>2
    <2>2. x <= z /\ z <= k /\ z < Len(log'[n])
      BY <1>2, <1>3, <1>12, <1>15, <2>1
    <2>3. CASE Len(m.entries) = 0
      <3>1. z = m.prevIdx /\ m.prevIdx <= k
        BY <2>1, <2>2, <2>3, <1>2
      <3>2. log'[n][m.prevIdx + 1].term = m.prevTerm
        <4>1. m.prevIdx + 1 \in 1..(m.prevIdx + 1)
          BY <1>2
        <4> QED
          BY <4>1, <1>4 DEF Spliced
      <3>3. m.prevTerm = log[w][m.prevIdx + 1].term
        BY <3>1, <1>7 DEF Fits
      <3> QED
        BY <3>1, <3>2, <3>3, <2>2, <1>11
    <2>4. CASE Len(m.entries) # 0
      <3>1. Len(m.entries) \in 1..Len(m.entries)
        BY <2>4, <1>2
      <3>2. m.entries[Len(m.entries)] = log[w][z + 1]
        BY <3>1, <2>1, <2>2, <1>7 DEF Fits
      <3>3. log'[n][z + 1].term = m.entries[Len(m.entries)].term
        BY <3>1, <2>1, <1>4 DEF Spliced
      <3> QED
        BY <3>2, <3>3, <2>2, <1>11
    <2> QED
      BY <2>3, <2>4
  <1>16. Copied(log'[w], log'[n], x)
    BY <1>2, <1>13, <1>14, <1>15
  <1>17. k \in x..(Len(log'[w]) - 1)
    <2>1. Len(log'[w]) \in Nat
      BY <1>1, TermTypes
    <2> QED
      BY <2>1, <1>3, <1>8
  <1>18. Anchor(w, k, currentTerm[n])'
    BY <1>4, <1>8 DEF Anchor
  <1> QED
    BY <1>16, <1>17, <1>18 DEF Resting

\* Every step leaves what is committed below a chosen entry.
LEMMA CommitsStep ==
    ASSUME Known, Known', TermsOrdered, VotesDescribed, OpenKept', CommitsChosen,
           NEW n \in Node, NodeStep(n)
    PROVE  CommitsChosen'
  <1>1. TypeInv /\ TypeInv'
    BY DEF Known
  <1>2. ASSUME NEW p \in Node, commitIndex'[p] > 0 PROVE Resting(p)'
    <2>1. CASE commitIndex'[p] = commitIndex[p]
      <3>1. Resting(p)
        BY <1>2, <2>1 DEF CommitsChosen, Resting
      <3> QED
        BY <3>1, <2>1, RestingStays
    <2>2. CASE commitIndex'[p] # commitIndex[p]
      <3>1. /\ p = n /\ commitIndex'[n] \in Nat
            /\ Committing(n) \/ \E m \in appReqs : Following(n, m)
        BY <2>2, CommitStep
      <3>2. CASE Committing(n)
        BY <3>1, <3>2, LeaderCommits
      <3>3. ASSUME NEW m \in appReqs, Following(n, m) PROVE Resting(p)'
        <4>1. PICK x \in Nat : x = commitIndex'[n]
          BY <3>1
        <4>2. x > 0 /\ x <= m.commit /\ m.commit \in Nat
          BY <1>1, <1>2, <3>1, <3>3, <4>1, TermTypes DEF Following
        <4>3. m.commit > 0
          BY <4>2
        <4>4. PICK w \in Node : \E k \in m.commit..(Len(log[w]) - 1) : Anchor(w, k, m.term)
          BY <4>3 DEF CommitsChosen
        <4>5. PICK k \in m.commit..(Len(log[w]) - 1) : Anchor(w, k, m.term)
          BY <4>4
        <4>6. k \in Nat /\ m.commit <= k
          BY <1>1, <4>2, TermTypes
        <4>7. Resting(n)'
          BY <3>3, <4>1, <4>2, <4>5, <4>6, FollowerCommits
        <4> QED
          BY <4>7, <3>1
      <3> QED
        BY <3>1, <3>2, <3>3
    <2> QED
      BY <2>1, <2>2
  <1>3. ASSUME NEW m \in appReqs', m.commit \in Nat, m.term \in Nat, NEW w \in Node,
               NEW k \in m.commit..(Len(log[w]) - 1), Anchor(w, k, m.term)
        PROVE  k \in m.commit..(Len(log'[w]) - 1) /\ Anchor(w, k, m.term)'
    <2>1. PICK u \in Nat : u = m.term
      BY <1>3
    <2>2. Len(log[w]) \in Nat /\ Len(log'[w]) \in Nat
      BY <1>1, TermTypes
    <2>3. k \in Nat
      BY <1>3, <2>2
    <2>4. Anchor(w, k, u)' /\ k < Len(log'[w])
      BY <1>3, <2>1, <2>3, AnchorStep
    <2> QED
      BY <1>3, <2>1, <2>2, <2>3, <2>4
  <1>4. ASSUME NEW m \in appReqs', m.commit > 0
        PROVE  \E w \in Node : \E k \in m.commit..(Len(log'[w]) - 1) : Anchor(w, k, m.term)'
    <2>1. m.commit \in Nat /\ m.term \in Nat
      <3>1. m \in AppReq
        BY <1>1 DEF TypeInv, TypeOK
      <3> QED
        BY <3>1 DEF AppReq, Term, Index
    <2>2. PICK w \in Node : \E k \in m.commit..(Len(log[w]) - 1) : Anchor(w, k, m.term)
      <3>1. CASE m \in appReqs
        BY <3>1, <1>4 DEF CommitsChosen
      <3>2. CASE m \notin appReqs
        <4>1. m.term = currentTerm[n] /\ m.commit = commitIndex[n]
          BY <3>2, RequestStep
        <4> QED
          BY <4>1, <1>4 DEF CommitsChosen
      <3> QED
        BY <3>1, <3>2
    <2>3. PICK k \in m.commit..(Len(log[w]) - 1) : Anchor(w, k, m.term)
      BY <2>2
    <2>4. k \in m.commit..(Len(log'[w]) - 1) /\ Anchor(w, k, m.term)'
      BY <2>1, <2>3, <1>3
    <2> QED
      BY <2>4
  <1>5. \A p \in Node : commitIndex'[p] > 0 =>
            \E w \in Node : \E k \in commitIndex'[p]..(Len(log'[w]) - 1) :
                Anchor(w, k, currentTerm[p])' /\ Copied(log'[w], log'[p], commitIndex'[p])
    BY <1>2 DEF Resting
  <1> QED
    BY <1>4, <1>5 DEF CommitsChosen

-----------------------------------------------------------------------------
(***************************************************************************)
(* What is committed and applied                                           *)
(***************************************************************************)

\* No step takes back what a node has committed.
LEMMA CommittedRetained ==
    ASSUME Known, Known', CommitsChosen, NEW n \in Node, NodeStep(n), NEW p \in Node
    PROVE  /\ commitIndex[p] \in Nat /\ commitIndex'[p] \in Nat
           /\ commitIndex[p] <= commitIndex'[p]
           /\ commitIndex[p] < Len(log[p])
           /\ Retained(log[p], log'[p], commitIndex[p])
  <1>1. TypeInv /\ TypeInv' /\ Rooted /\ Rooted'
    BY DEF Known, ReplInv
  <1>2. /\ commitIndex[p] \in Nat /\ commitIndex'[p] \in Nat
        /\ Len(log[p]) \in Nat /\ Len(log'[p]) \in Nat /\ Len(log[p]) > 0 /\ Len(log'[p]) > 0
    <2>1. commitIndex[p] \in Nat /\ commitIndex'[p] \in Nat
      BY <1>1 DEF TypeInv, TypeOK, Index
    <2>2. LogFrom0(log[p], Slot) /\ LogFrom0(log'[p], Slot)
      BY <1>1 DEF TypeInv, LogOK
    <2> QED
      BY <2>1, <2>2 DEF LogFrom0
  <1>3. commitIndex[p] <= commitIndex'[p]
    <2>1. CASE commitIndex'[p] = commitIndex[p]
      BY <2>1, <1>2
    <2>2. CASE commitIndex'[p] # commitIndex[p]
      <3>1. p = n /\ commitIndex'[n] > commitIndex[n]
        BY <2>2, CommitStep
      <3> QED
        BY <3>1, <1>2
    <2> QED
      BY <2>1, <2>2
  <1>4. CASE commitIndex[p] = 0
    <2>1. log[p][1] = log'[p][1]
      BY <1>1 DEF Rooted
    <2>2. \A h \in 1..(0 + 1) : h = 1
      OBVIOUS
    <2>3. Retained(log[p], log'[p], 0)
      BY <2>1, <2>2, <1>2 DEF Retained
    <2> QED
      BY <2>3, <1>2, <1>3, <1>4
  <1>5. CASE commitIndex[p] > 0
    <2>1. PICK x \in Nat : x = commitIndex[p]
      BY <1>2
    <2>2. PICK w \in Node : \E k \in x..(Len(log[w]) - 1) :
              Anchor(w, k, currentTerm[p]) /\ Copied(log[w], log[p], x)
      BY <1>5, <2>1 DEF CommitsChosen
    <2>3. PICK k \in x..(Len(log[w]) - 1) :
              Anchor(w, k, currentTerm[p]) /\ Copied(log[w], log[p], x)
      BY <2>2
    <2>4. Len(log[w]) \in Nat
      BY <1>1, TermTypes
    <2>5. k \in Nat /\ x <= k
      BY <2>1, <2>4
    <2>6. Retained(log[p], log'[p], x)
      BY <2>3, <2>5, CommittedKept
    <2>7. x < Len(log[p])
      BY <2>3 DEF Copied
    <2> QED
      BY <2>1, <2>6, <2>7, <1>2, <1>3
  <1> QED
    BY <1>2, <1>4, <1>5

\* The state machine is given commands by Apply only.
LEMMA AppliedChange ==
    ASSUME Known, Known', NEW n \in Node, NodeStep(n), NEW p \in Node
    PROVE  applied'[p] = applied[p] \/ (p = n /\ Apply(n))
  <1>1. applied \in [Node -> Seq(Cmd)]
    BY DEF Known, TypeInv, TypeOK
  <1>2. CASE Apply(n)
    <2>1. applied' = [applied EXCEPT ![n] = Append(applied[n], NextCommand(n))]
      BY <1>2 DEF Apply
    <2> QED
      BY <2>1, <1>1, <1>2
  <1>3. CASE ~Apply(n)
    <2>1. UNCHANGED applied
      BY <1>3, SoundStep
         DEF NodeStep, FollowerTimeout, RunFollower, StartElection, HandleVoteReply,
             WinElection, ElectionEnds, ElectionDone, SendAppend, HandleAppendReply,
             LeaderStepsDown, LeaderDone, HandleRequestVote, RejectAppendEntries,
             HandleAppendEntries, Propose, Boot, nodeVars
    <2> QED
      BY <2>1
  <1> QED
    BY <1>2, <1>3

\* Every step leaves the state machine with the commands of the log.
LEMMA AppliedStep ==
    ASSUME Known, Known', CommitsChosen, AppliedLog, NEW n \in Node, NodeStep(n)
    PROVE  AppliedLog'
  <1>1. TypeInv /\ TypeInv'
    BY DEF Known
  <1> SUFFICES ASSUME NEW p \in Node
               PROVE  /\ Len(applied'[p]) <= commitIndex'[p]
                      /\ \A k \in 1..Len(applied'[p]) : applied'[p][k] = log'[p][k + 1].cmd
    BY DEF AppliedLog
  <1>2. /\ commitIndex[p] \in Nat /\ commitIndex'[p] \in Nat
        /\ commitIndex[p] <= commitIndex'[p] /\ commitIndex[p] < Len(log[p])
        /\ Retained(log[p], log'[p], commitIndex[p])
    BY CommittedRetained
  <1>3. applied[p] \in Seq(Cmd) /\ applied'[p] \in Seq(Cmd)
    BY <1>1 DEF TypeInv, TypeOK
  <1>4. PICK a \in Seq(Cmd) : a = applied[p]
    BY <1>3
  <1>5. Len(a) \in Nat /\ Len(a) <= commitIndex[p]
    BY <1>4 DEF AppliedLog
  <1>6. ASSUME NEW k \in 1..Len(a) PROVE a[k] = log'[p][k + 1].cmd
    <2>1. k + 1 \in 1..(commitIndex[p] + 1)
      BY <1>2, <1>5
    <2>2. log'[p][k + 1] = log[p][k + 1]
      BY <2>1, <1>2 DEF Retained
    <2>3. a[k] = log[p][k + 1].cmd
      BY <1>4 DEF AppliedLog
    <2> QED
      BY <2>2, <2>3
  <1>7. CASE applied'[p] = applied[p]
    BY <1>2, <1>4, <1>5, <1>6, <1>7
  <1>8. CASE p = n /\ Apply(n)
    <2>1. /\ applied'[p] = Append(a, NextCommand(n))
          /\ Len(a) + 1 <= commitIndex[p] /\ UNCHANGED log
      <3>1. /\ applied' = [applied EXCEPT ![n] = Append(applied[n], NextCommand(n))]
            /\ Len(applied[n]) + 1 <= commitIndex[n] /\ UNCHANGED log
        BY <1>8 DEF Apply
      <3> QED
        BY <3>1, <1>1, <1>4, <1>8 DEF TypeInv, TypeOK
    <2>2. LogFrom0(log[n], Slot)
      BY <1>1 DEF TypeInv, LogOK
    <2>3. NextCommand(n) = log[n][Len(a) + 2].cmd
      <3>1. Len(a) + 1 \in Int /\ (Len(a) + 1) + 1 = Len(a) + 2
        BY <1>5
      <3>2. EntryAt(log[n], Len(a) + 1) = log[n][Len(a) + 2]
        BY <2>2, <3>1, LogFrom0Lookups
      <3> QED
        BY <3>2, <1>4, <1>8 DEF NextCommand
    <2>4. PICK c \in Cmd \cup {Nil} : c = NextCommand(n)
      <3>1. Len(log[n]) \in Nat
        BY <2>2, LogFrom0Lookups
      <3>2. commitIndex[p] < Len(log[n]) /\ commitIndex[p] \in Nat
        BY <1>2, <1>8
      <3>3. Len(a) + 2 \in 1..Len(log[n])
        BY <3>1, <3>2, <2>1, <1>5
      <3>4. log[n][Len(a) + 2] \in Slot
        BY <2>2, <3>3 DEF LogFrom0
      <3> QED
        BY <2>3, <3>4 DEF Slot, Entry, Placeholder
    <2>5. /\ Len(applied'[p]) = Len(a) + 1
          /\ \A k \in 1..Len(a) : applied'[p][k] = a[k]
          /\ applied'[p][Len(a) + 1] = log'[p][Len(a) + 2].cmd
      <3>1. applied'[p] = Append(a, c) /\ c = log'[p][Len(a) + 2].cmd
        BY <2>1, <2>3, <2>4, <1>8
      <3> QED
        BY <3>1
    <2>6. ASSUME NEW k \in 1..(Len(a) + 1) PROVE applied'[p][k] = log'[p][k + 1].cmd
      <3>1. CASE k = Len(a) + 1
        <4>1. k + 1 = Len(a) + 2
          BY <3>1, <1>5
        <4> QED
          BY <4>1, <3>1, <2>5
      <3>2. CASE k # Len(a) + 1
        <4>1. k \in 1..Len(a)
          BY <3>2, <1>5
        <4> QED
          BY <4>1, <2>5, <1>6
      <3> QED
        BY <3>1, <3>2
    <2>7. Len(a) + 1 <= commitIndex'[p]
      BY <2>1, <1>2, <1>5
    <2> QED
      BY <2>5, <2>6, <2>7
  <1> QED
    BY <1>7, <1>8, AppliedChange

\* The invariant holds in every reachable state.
LEMMA CompleteInvariant == Spec => []CompleteInv
  <1>1. Init => CompleteInv
    <2> SUFFICES ASSUME Init PROVE CompleteInv
      OBVIOUS
    <2>1. TermsOrdered
      <3>1. \A n \in Node : log[n] = <<Placeholder>> /\ currentTerm[n] = 0
        BY DEF Init
      <3>2. Ascending(<<Placeholder>>) /\ Below(<<Placeholder>>, 0)
        BY DEF Ascending, Below, Placeholder
      <3> QED
        BY <3>1, <3>2 DEF Init, TermsOrdered
    <2>2. VotesDescribed
      BY DEF Init, VotesDescribed
    <2>3. CountsBounded /\ OpenKept
      BY DEF Init, CountsBounded, OpenKept, Follower, Leader
    <2>4. CommitsChosen
      BY DEF Init, CommitsChosen
    <2>5. AppliedLog
      <3>1. \A n \in Node : applied[n] = <<>> /\ commitIndex[n] = 0
        BY DEF Init
      <3> QED
        BY <3>1 DEF AppliedLog
    <2> QED
      BY <2>1, <2>2, <2>3, <2>4, <2>5 DEF CompleteInv
  <1>2. /\ TypeInv /\ TypeInv' /\ ElectionInv /\ ElectionInv' /\ ReplInv /\ ReplInv'
        /\ CopyInv /\ CopyInv' /\ CompleteInv /\ [Next]_vars
        => CompleteInv'
    <2> SUFFICES ASSUME TypeInv, TypeInv', ElectionInv, ElectionInv', ReplInv, ReplInv',
                        CopyInv, CopyInv', CompleteInv, [Next]_vars
                 PROVE  CompleteInv'
      OBVIOUS
    <2>1. CASE UNCHANGED vars
      <3>1. UNCHANGED <<nodeVars, runVars, netVars, used, histVars>>
        BY <2>1 DEF vars
      <3>2. ElectionsSound' => ElectionsSound
        BY <3>1 DEF histVars, ElectionsSound
      <3>3. TermsOrdered => TermsOrdered'
        BY <3>1 DEF nodeVars, netVars, TermsOrdered
      <3>4. VotesDescribed => VotesDescribed'
        BY <3>1 DEF nodeVars, runVars, netVars, histVars, VotesDescribed, Standing
      <3>5. CountsBounded => CountsBounded'
        BY <3>1 DEF nodeVars, netVars, CountsBounded
      <3>6. \A v \in Node : \A i, t : Holder(v, i, t)' <=> Holder(v, i, t)
        BY <3>1 DEF nodeVars, runVars, histVars, Holder, Standing
      <3>7. \A i, t : Kept(i, t)' <=> Kept(i, t)
        BY <3>1 DEF nodeVars, netVars, Kept
      <3>8. OpenKept => OpenKept'
        <4>1. \A n \in Node : \A i : Counted(n, i)' = Counted(n, i) /\ Gone(n, i)' = Gone(n, i)
          BY <3>1 DEF nodeVars, netVars, Counted, Gone
        <4> SUFFICES ASSUME OpenKept, NEW n \in Node, NEW i \in 1..(Len(log[n]) - 1),
                            state[n] = Leader, Has(log[n], i, currentTerm[n]),
                            ~Majority(Gone(n, i))
                     PROVE  /\ Kept(i, currentTerm[n])'
                            /\ \A p \in Counted(n, i) : Holder(p, i, currentTerm[n])'
          BY <4>1, <3>1 DEF nodeVars, OpenKept, Majority
        <4>2. /\ Kept(i, currentTerm[n])
              /\ \A p \in Counted(n, i) : Holder(p, i, currentTerm[n])
          BY DEF OpenKept
        <4>3. PICK t : t = currentTerm[n] /\ t = currentTerm'[n]
          BY <3>1 DEF nodeVars
        <4>4. Counted(n, i) \subseteq Node
          BY DEF Counted
        <4>5. Kept(i, t)' /\ \A p \in Counted(n, i) : Holder(p, i, t)'
          BY <4>2, <4>3, <4>4, <3>6, <3>7
        <4> QED
          BY <4>3, <4>5
      <3>9. CommitsChosen => CommitsChosen'
        <4>1. \A i, t : Chosen(i, t)' <=> Chosen(i, t)
          <5>1. \A i, t : {v \in Node : Holder(v, i, t)'} = {v \in Node : Holder(v, i, t)}
            BY <3>6
          <5> QED
            BY <5>1, <3>7 DEF Chosen, Majority
        <4> QED
          BY <4>1, <3>1 DEF nodeVars, netVars, CommitsChosen, Anchor
      <3>10. AppliedLog => AppliedLog'
        BY <3>1 DEF nodeVars, AppliedLog
      <3> QED
        BY <3>2, <3>3, <3>4, <3>5, <3>8, <3>9, <3>10 DEF CompleteInv
    <2>2. ASSUME NEW n \in Node, NodeStep(n), ElectionsSound'
          PROVE  /\ TermsOrdered' /\ VotesDescribed' /\ CountsBounded' /\ OpenKept'
                 /\ CommitsChosen' /\ AppliedLog'
      <3>1. ElectionsSound
        BY <2>2, SoundBefore
      <3>2. Known /\ Known'
        BY <2>2, <3>1 DEF Known
      <3>3. /\ TermsOrdered /\ VotesDescribed /\ CountsBounded /\ OpenKept
            /\ CommitsChosen /\ AppliedLog
        BY <3>1 DEF CompleteInv
      <3>4. TermsOrdered'
        BY <2>2, <3>2, <3>3, OrderStep
      <3>5. VotesDescribed'
        BY <2>2, <3>2, <3>3, VotesStep
      <3>6. CountsBounded'
        BY <2>2, <3>2, <3>3, BoundStep
      <3>7. OpenKept'
        BY <2>2, <3>2, <3>3, <3>4, <3>5, OpenStep
      <3>8. CommitsChosen'
        BY <2>2, <3>2, <3>3, <3>7, CommitsStep
      <3>9. AppliedLog'
        BY <2>2, <3>2, <3>3, AppliedStep
      <3> QED
        BY <3>4, <3>5, <3>6, <3>7, <3>8, <3>9
    <2> QED
      BY <2>1, <2>2 DEF Next, CompleteInv
  <1> QED
    BY <1>1, <1>2, TypeInvariant, ElectionInvariant, ReplInvariant, CopyInvariant, PTL
       DEF Spec

-----------------------------------------------------------------------------
(***************************************************************************)
(* The theorems                                                            *)
(***************************************************************************)

\* While elections are sound, everything that any node takes to be committed is in
\* the log of the newest leader, at the same place: a candidate that lacks it
\* cannot have won, whatever was in flight when the entry was counted.
THEOREM NewestLeaderIsComplete == Spec => []LeaderCompleteness
  <1>1. TypeInv /\ ElectionInv /\ ReplInv /\ CopyInv /\ CompleteInv => LeaderCompleteness
    <2> SUFFICES ASSUME TypeInv, ElectionInv, ReplInv, CopyInv, CompleteInv, ElectionsSound,
                        NEW l \in Node, state[l] = Leader,
                        \A n \in Node : currentTerm[n] <= currentTerm[l],
                        NEW n \in Node
                 PROVE  SameUpTo(l, n, commitIndex[n])
      BY DEF LeaderCompleteness
    <2>1. Known /\ CommitsChosen
      BY DEF Known, CompleteInv
    <2>2. PICK x \in Nat : x = commitIndex[n]
      BY DEF TypeInv, TypeOK, Index
    <2>3. CASE x = 0
      BY <2>2, <2>3 DEF SameUpTo
    <2>4. CASE x > 0
      <3>1. PICK w \in Node : \E k \in x..(Len(log[w]) - 1) :
                Anchor(w, k, currentTerm[n]) /\ Copied(log[w], log[n], x)
        BY <2>1, <2>2, <2>4 DEF CommitsChosen
      <3>2. PICK k \in x..(Len(log[w]) - 1) :
                Anchor(w, k, currentTerm[n]) /\ Copied(log[w], log[n], x)
        BY <3>1
      <3>3. /\ Len(log[w]) \in Nat /\ Len(log[l]) \in Nat
            /\ currentTerm[n] \in Nat /\ currentTerm[l] \in Nat
        BY TermTypes
      <3>4. k \in Nat /\ x <= k /\ k + 1 \in 1..Len(log[w])
        BY <2>2, <3>3
      <3>5. PICK s \in Nat : s = log[w][k + 1].term
        BY <3>4, TermTypes
      <3>6. Has(log[w], k, s) /\ Kept(k, s) /\ s <= currentTerm[n]
        BY <3>2, <3>5 DEF Anchor, Has, Chosen
      <3>7. currentTerm[l] >= s
        BY <3>3, <3>5, <3>6
      <3>8. Has(log[l], k, s)
        BY <2>1, <3>4, <3>6, <3>7, LeaderHas
      <3>9. Copied(log[l], log[w], k)
        BY <2>1, <3>4, <3>6, <3>8, HasCopied
      <3>10. x < Len(log[l]) /\ 1..x \subseteq 1..k
        <4>1. k < Len(log[l])
          BY <3>9 DEF Copied
        <4> QED
          BY <4>1, <3>3, <3>4
      <3>11. Copied(log[l], log[n], x)
        BY <3>2, <3>9, <3>10 DEF Copied
      <3>12. SameUpTo(l, n, x)
        BY <3>11, CopiedIsSame
      <3> QED
        BY <3>12, <2>2
    <2> QED
      BY <2>3, <2>4
  <1> QED
    BY <1>1, TypeInvariant, ElectionInvariant, ReplInvariant, CopyInvariant,
       CompleteInvariant, PTL

\* Of two chosen entries the older one is in the log of the newer one.
LEMMA AnchorsAgree ==
    ASSUME Known, NEW w \in Node, NEW k \in Nat, NEW t, Anchor(w, k, t),
           NEW v \in Node, NEW q \in Nat, NEW u, Anchor(v, q, u),
           NEW h \in Nat, 1 <= h, h <= k, h <= q
    PROVE  log[w][h + 1] = log[v][h + 1]
  <1>1. Len(log[w]) \in Nat /\ Len(log[v]) \in Nat
    BY TermTypes DEF Known
  <1>2. /\ 1 <= k /\ k < Len(log[w]) /\ k + 1 \in 1..Len(log[w]) /\ k \in 1..(Len(log[w]) - 1)
        /\ 1 <= q /\ q < Len(log[v]) /\ q + 1 \in 1..Len(log[v]) /\ q \in 1..(Len(log[v]) - 1)
    BY <1>1 DEF Anchor
  <1>3. PICK s \in Nat : s = log[w][k + 1].term
    BY <1>2, TermTypes DEF Known
  <1>4. PICK r \in Nat : r = log[v][q + 1].term
    BY <1>2, TermTypes DEF Known
  <1>5. Has(log[w], k, s) /\ Kept(k, s) /\ Has(log[v], q, r) /\ Kept(q, r)
    BY <1>2, <1>3, <1>4 DEF Anchor, Chosen, Has
  <1>6. NoOlder(log[v], q, k, s) \/ NoOlder(log[w], k, q, r)
    BY <1>3, <1>4 DEF NoOlder
  <1>7. CASE NoOlder(log[v], q, k, s)
    <2>1. Has(log[v], k, s)
      BY <1>2, <1>5, <1>7 DEF Kept
    <2>2. Copied(log[w], log[v], k)
      BY <2>1, <1>5, HasCopied
    <2> QED
      BY <2>2 DEF Copied
  <1>8. CASE NoOlder(log[w], k, q, r)
    <2>1. Has(log[w], q, r)
      BY <1>2, <1>5, <1>8 DEF Kept
    <2>2. Copied(log[w], log[v], q)
      BY <2>1, <1>5, HasCopied
    <2> QED
      BY <2>2 DEF Copied
  <1> QED
    BY <1>6, <1>7, <1>8

\* While elections are sound, no two state machines are given different commands
\* at the same index.
THEOREM StateMachinesAgree == Spec => []StateMachineSafety
  <1>1. TypeInv /\ ElectionInv /\ ReplInv /\ CopyInv /\ CompleteInv => StateMachineSafety
    <2> SUFFICES ASSUME TypeInv, ElectionInv, ReplInv, CopyInv, CompleteInv, ElectionsSound,
                        NEW i \in Node, NEW j \in Node,
                        NEW k \in 1..Min({Len(applied[i]), Len(applied[j])})
                 PROVE  applied[i][k] = applied[j][k]
      BY DEF StateMachineSafety
    <2>1. Known /\ CommitsChosen /\ AppliedLog
      BY DEF Known, CompleteInv
    <2>2. /\ Len(applied[i]) \in Nat /\ Len(applied[j]) \in Nat
          /\ commitIndex[i] \in Nat /\ commitIndex[j] \in Nat
      BY DEF TypeInv, TypeOK, Index
    <2>3. k \in Nat /\ 1 <= k /\ k <= Len(applied[i]) /\ k <= Len(applied[j])
      BY SMTT(30), <2>2, MinOfTwo
    <2>4. k <= commitIndex[i] /\ k <= commitIndex[j]
      <3>1. Len(applied[i]) <= commitIndex[i] /\ Len(applied[j]) <= commitIndex[j]
        BY <2>1 DEF AppliedLog
      <3> QED
        BY <3>1, <2>2, <2>3
    <2>5. ASSUME NEW p \in Node, commitIndex[p] \in Nat, k <= commitIndex[p]
          PROVE  \E w \in Node : \E h \in Nat :
                     k <= h /\ Anchor(w, h, currentTerm[p]) /\ log[w][k + 1] = log[p][k + 1]
      <3>1. commitIndex[p] > 0
        BY <2>3, <2>5
      <3>2. PICK w \in Node : \E h \in commitIndex[p]..(Len(log[w]) - 1) :
                Anchor(w, h, currentTerm[p]) /\ Copied(log[w], log[p], commitIndex[p])
        BY <2>1, <3>1 DEF CommitsChosen
      <3>3. PICK h \in commitIndex[p]..(Len(log[w]) - 1) :
                Anchor(w, h, currentTerm[p]) /\ Copied(log[w], log[p], commitIndex[p])
        BY <3>2
      <3>4. Len(log[w]) \in Nat
        BY TermTypes
      <3>5. h \in Nat /\ k <= h /\ k \in 1..commitIndex[p]
        BY <3>4, <2>3, <2>5
      <3> QED
        BY <3>3, <3>5 DEF Copied
    <2>6. PICK w \in Node : \E h \in Nat :
              k <= h /\ Anchor(w, h, currentTerm[i]) /\ log[w][k + 1] = log[i][k + 1]
      BY <2>2, <2>4, <2>5
    <2>7. PICK h \in Nat :
              k <= h /\ Anchor(w, h, currentTerm[i]) /\ log[w][k + 1] = log[i][k + 1]
      BY <2>6
    <2>8. PICK v \in Node : \E q \in Nat :
              k <= q /\ Anchor(v, q, currentTerm[j]) /\ log[v][k + 1] = log[j][k + 1]
      BY <2>2, <2>4, <2>5
    <2>9. PICK q \in Nat :
              k <= q /\ Anchor(v, q, currentTerm[j]) /\ log[v][k + 1] = log[j][k + 1]
      BY <2>8
    <2>10. log[w][k + 1] = log[v][k + 1]
      BY <2>1, <2>3, <2>7, <2>9, AnchorsAgree
    <2>11. k \in 1..Len(applied[i]) /\ k \in 1..Len(applied[j])
      BY <2>2, <2>3
    <2>12. applied[i][k] = log[i][k + 1].cmd /\ applied[j][k] = log[j][k + 1].cmd
      BY <2>1, <2>11 DEF AppliedLog
    <2> QED
      BY <2>7, <2>9, <2>10, <2>12
  <1> QED
    BY <1>1, TypeInvariant, ElectionInvariant, ReplInvariant, CopyInvariant,
       CompleteInvariant, PTL

\* While elections are sound, no step moves a commit index back, and none removes
\* or replaces an entry at or below it: rule 4 of HandleAppendEntries truncates
\* only what is not committed.
THEOREM CommittedIsStable == Spec => CommittedStable
  <1>1. /\ TypeInv /\ TypeInv' /\ ElectionInv /\ ElectionInv' /\ ReplInv /\ ReplInv'
        /\ CopyInv /\ CopyInv' /\ CompleteInv /\ [Next]_vars
        => [ElectionsSound' =>
               \A n \in Node :
                   /\ commitIndex[n] <= commitIndex'[n]
                   /\ \A k \in 1..commitIndex[n] :
                         /\ InLog(log'[n], k)
                         /\ EntryAt(log'[n], k) = EntryAt(log[n], k)]_vars
    <2> SUFFICES ASSUME TypeInv, TypeInv', ElectionInv, ElectionInv', ReplInv, ReplInv',
                        CopyInv, CopyInv', CompleteInv, Next, ElectionsSound', NEW p \in Node
                 PROVE  /\ commitIndex[p] <= commitIndex'[p]
                        /\ \A k \in 1..commitIndex[p] :
                              /\ InLog(log'[p], k)
                              /\ EntryAt(log'[p], k) = EntryAt(log[p], k)
      OBVIOUS
    <2>1. ElectionsSound
      BY SoundBefore
    <2>2. Known /\ Known' /\ CommitsChosen
      BY <2>1 DEF Known, CompleteInv
    <2>3. PICK n \in Node : NodeStep(n)
      BY DEF Next
    <2>4. /\ commitIndex[p] \in Nat /\ commitIndex[p] <= commitIndex'[p]
          /\ Retained(log[p], log'[p], commitIndex[p])
      BY <2>2, <2>3, CommittedRetained
    <2>5. LogFrom0(log[p], Slot) /\ LogFrom0(log'[p], Slot)
      BY DEF TypeInv, LogOK
    <2>6. /\ \A h \in Int : EntryAt(log[p], h) = log[p][h + 1]
          /\ \A h \in Int : EntryAt(log'[p], h) = log'[p][h + 1]
          /\ \A h \in Int : InLog(log'[p], h) <=> h \in 0..(Len(log'[p]) - 1)
          /\ Len(log'[p]) \in Nat
      BY <2>5, LogFrom0Lookups
    <2>7. ASSUME NEW k \in 1..commitIndex[p]
          PROVE  InLog(log'[p], k) /\ EntryAt(log'[p], k) = EntryAt(log[p], k)
      <3>1. commitIndex[p] < Len(log'[p])
        BY <2>4 DEF Retained
      <3>2. k \in Int /\ k \in 0..(Len(log'[p]) - 1) /\ k + 1 \in 1..(commitIndex[p] + 1)
        <4>1. Len(log'[p]) \in Nat /\ commitIndex[p] \in Nat
          BY <2>4, <2>6
        <4> QED
          BY <4>1, <3>1
      <3>3. log'[p][k + 1] = log[p][k + 1]
        BY <3>2, <2>4 DEF Retained
      <3> QED
        BY <3>2, <3>3, <2>6
    <2> QED
      BY <2>4, <2>7
  <1> QED
    BY <1>1, TypeInvariant, ElectionInvariant, ReplInvariant, CopyInvariant,
       CompleteInvariant, PTL DEF Spec, CommittedStable

=============================================================================
