------------------------------ MODULE CatchUp -------------------------------
(***************************************************************************)
(* How a leader brings one lagging follower up to date across compactions: *)
(* sendAppend and sendInstallSnapshot against HandleAppendEntries and      *)
(* HandleInstallSnapshot of raft/node.go, and the snapshots both take.     *)
(*                                                                         *)
(* The rest of the cluster commits what the leader appends, and no entry   *)
(* conflicts (those are the subject of Raft), so a log is known by its     *)
(* ends, the index of its placeholder and its last index, and every        *)
(* PrevLogTerm matches.  A call that times out leaves a request that the   *)
(* follower may still handle.                                              *)
(***************************************************************************)
EXTENDS Integers, FiniteSetsExt

CONSTANTS
    MaxIndex,    \* bound: entries proposed
    MaxLeaders,  \* bound: leader changes
    MaxRestarts  \* bound: restarts of the follower

ASSUME CatchUpAssumption ==
    /\ MaxIndex \in Nat \ {0}
    /\ {MaxLeaders, MaxRestarts} \subseteq Nat

VARIABLES
    leader,    \* the leader's log: its ends, and the snapshot it has cached
    nextIndex, matchIndex,  \* the leader's record of the follower
    follower,  \* the follower's log, its term, and its snapshot in S3
    call,      \* the replicator's outstanding call
    late,      \* requests whose caller has given up
    used       \* how much of each bound has been used

vars == <<leader, nextIndex, matchIndex, follower, call, late, used>>

None == [kind |-> "none"]

\* No snapshot is cached: lastSnapshot is nil.
NoSnapshot == 0

Init ==
    /\ leader = [first |-> 0, last |-> 0, cached |-> NoSnapshot]
    /\ nextIndex = 1 /\ matchIndex = 0
    /\ follower = [term |-> 0, first |-> 0, last |-> 0, saved |-> NoSnapshot]
    /\ call = None /\ late = {}
    /\ used = [b \in {"leaders", "restarts"} |-> 0]

Spend(b, max) ==
    /\ used[b] < max
    /\ used' = [used EXCEPT ![b] = @ + 1]

\* The leader's term.
CurrentTerm == used["leaders"]

-----------------------------------------------------------------------------
(***************************************************************************)
(* The leader                                                              *)
(***************************************************************************)
Propose ==
    /\ leader.last < MaxIndex
    /\ leader' = [leader EXCEPT !.last = @ + 1]
    /\ UNCHANGED <<nextIndex, matchIndex, follower, call, late, used>>

\* TakeSnapshot up to any applied entry.
LeaderSnapshot ==
    /\ \E idx \in (leader.first + 1)..leader.last :
           leader' = [leader EXCEPT !.first = idx, !.cached = idx]
    /\ UNCHANGED <<nextIndex, matchIndex, follower, call, late, used>>

AppendCall(next) ==
    [kind |-> "append", term |-> CurrentTerm, prev |-> next - 1,
     last |-> leader.last]

InstallCall == [kind |-> "install", term |-> CurrentTerm, last |-> leader.cached]

\* Mutant: a follower below the floor is sent what the log still holds.
BelowFloorIgnored == FALSE

\* The follower is below the snapshot floor.
BelowFloor == nextIndex <= leader.first

\* sendAppend: the snapshot below the floor, the log from nextIndex otherwise.
\* Without a cached snapshot nextIndex is clamped to the floor.
SendAppend ==
    /\ call = None
    /\ \/ /\ BelowFloor /\ leader.cached # NoSnapshot
          /\ call' = InstallCall
          /\ UNCHANGED nextIndex
       \/ /\ ~(BelowFloor /\ leader.cached # NoSnapshot)
          /\ nextIndex' = Max({nextIndex, leader.first + 1})
          /\ call' = AppendCall(nextIndex')
    /\ UNCHANGED <<leader, matchIndex, follower, late, used>>

\* The call fails or times out: its reply is lost, or its request, or the
\* request arrives later.
CallFails ==
    /\ call # None
    /\ call' = None
    /\ \/ UNCHANGED late
       \/ call.kind # "reply" /\ late' = late \cup {call}
    /\ UNCHANGED <<leader, nextIndex, matchIndex, follower, used>>

\* Mutant: the leader believes the follower holds all that the leader does.
AcceptedUpToAll(reply) == leader.last

\* The last index an accepted request says the follower holds.
AcceptedUpTo(reply) == reply.last

\* The reply: pointers only move forward on success; a rejected append moves
\* nextIndex one back, and never below the first entry of the log.
HandleReply ==
    /\ call.kind = "reply"
    /\ IF call.ok
       THEN /\ matchIndex' = Max({matchIndex, AcceptedUpTo(call)})
            /\ nextIndex' = Max({nextIndex, AcceptedUpTo(call) + 1})
       ELSE /\ nextIndex' = IF nextIndex > leader.first + 1 THEN nextIndex - 1
                                                            ELSE nextIndex
            /\ UNCHANGED matchIndex
    /\ call' = None
    /\ UNCHANGED <<leader, follower, late, used>>

\* Another node, with the same entries and a floor of its own, wins an
\* election: initLeaderState.  Calls of the old leader are answered in vain.
LeaderChange ==
    /\ Spend("leaders", MaxLeaders)
    /\ \E floor \in 0..leader.last :
           leader' = [leader EXCEPT !.first = floor, !.cached = floor]
    /\ nextIndex' = leader.last + 1
    /\ matchIndex' = 0
    /\ call' = None
    /\ UNCHANGED <<follower, late>>

-----------------------------------------------------------------------------
(***************************************************************************)
(* The follower                                                            *)
(***************************************************************************)

\* Rules 3 and 4 of HandleAppendEntries.
Appended(m) ==
    IF m.prev <= follower.last THEN Max({follower.last, m.last}) ELSE follower.last

\* HandleInstallSnapshot: ignored when older than the floor, and otherwise the
\* whole log is replaced.
Installed(m) ==
    IF m.last <= follower.first /\ follower.first > 0
    THEN follower
    ELSE [follower EXCEPT !.first = m.last, !.last = m.last]

\* Both handlers reject an old term and adopt a new one first.
Handled(m) ==
    [(IF m.kind = "append" THEN [follower EXCEPT !.last = Appended(m)]
                           ELSE Installed(m)) EXCEPT !.term = m.term]

FollowerHandles ==
    /\ call.kind \in {"append", "install"}
    /\ follower' = Handled(call)
    /\ call' = [kind |-> "reply", last |-> call.last,
                ok |-> call.kind = "append" => call.prev <= follower.last]
    /\ UNCHANGED <<leader, nextIndex, matchIndex, late, used>>

FollowerHandlesLate(m) ==
    /\ m \in late
    /\ late' = late \ {m}
    /\ follower' = IF m.term < follower.term THEN follower ELSE Handled(m)
    /\ UNCHANGED <<leader, nextIndex, matchIndex, call, used>>

\* TakeSnapshot up to any entry it holds; all of them are committed.
FollowerSnapshot ==
    /\ \E idx \in (follower.first + 1)..follower.last :
           follower' = [follower EXCEPT !.first = idx, !.saved = idx]
    /\ UNCHANGED <<leader, nextIndex, matchIndex, call, late, used>>

\* NewNode and RestoreSnapshot: the log is what the saved snapshot covers.  Of
\* the term nothing need be known, so it may be forgotten.
FollowerRestart ==
    /\ Spend("restarts", MaxRestarts)
    /\ follower' = [follower EXCEPT !.term = 0, !.first = follower.saved,
                                    !.last = follower.saved]
    /\ UNCHANGED <<leader, nextIndex, matchIndex, call, late>>

-----------------------------------------------------------------------------
Next ==
    \/ Propose \/ LeaderSnapshot \/ SendAppend \/ CallFails \/ HandleReply
    \/ LeaderChange
    \/ FollowerHandles \/ FollowerSnapshot \/ FollowerRestart
    \/ \E m \in late : FollowerHandlesLate(m)

Spec == Init /\ [][Next]_vars

\* The replicator's ticker keeps firing, and a call that is repeated goes
\* through, request and reply, sooner or later.
Fairness ==
    /\ WF_vars(SendAppend)
    /\ SF_vars(FollowerHandles)
    /\ SF_vars(HandleReply)

FairSpec == Spec /\ Fairness

-----------------------------------------------------------------------------
\* Floors, ends and the leader's pointers stay within what was appended.
TypeOK ==
    /\ leader \in [first : 0..MaxIndex, last : 0..MaxIndex, cached : 0..MaxIndex]
    /\ follower \in [term : 0..MaxLeaders, first : 0..MaxIndex, last : 0..MaxIndex, saved : 0..MaxIndex]
    /\ leader.first <= leader.last /\ follower.first <= follower.last
    /\ nextIndex \in 1..(MaxIndex + 1)
    /\ matchIndex \in 0..MaxIndex

\* The leader commits by counting matchIndex: as long as the follower keeps
\* its memory, it holds every entry the leader counts on, whichever calls were
\* lost, delayed or answered by a snapshot.
MatchHeld ==
    /\ TypeOK
    /\ used["restarts"] = 0 => matchIndex <= follower.last

\* A follower that falls behind, below the leader's floor or not, is brought
\* up to date: "ships a serialized state-machine snapshot to a follower that
\* has fallen behind our log's firstIndex".  A new leader does not provide it.
CatchesUp == <>[](follower.last = leader.last)

\* The first leader of a follower that does not restart provides it, whatever
\* calls are lost and however often either side compacts its log.
CatchesUpUnderOneLeader ==
    [](used["leaders"] = 0 /\ used["restarts"] = 0) => CatchesUp
=============================================================================
