------------------------------- MODULE MCRaft -------------------------------
(***************************************************************************)
(* Instances of Raft for TLC.  The election runs start from Init and use   *)
(* the permutations of the nodes as a symmetry set.  The replication runs  *)
(* start from a later state of a three-node cluster, each one reached from *)
(* Init by the steps in the comment, so that their bounds are spent on     *)
(* what comes after it.                                                    *)
(***************************************************************************)
EXTENDS Raft, TLC

CONSTANTS n1, n2, n3, c1, c2

Symmetry == Permutations(Node)

Entries(s) == <<Placeholder>> \o s

E(t, i, c) == [term |-> t, index |-> i, cmd |-> c]

\* k of the calls allowed have been made, and were lost.
Calls(k) == [b \in Bound |-> IF b = "appends" THEN k ELSE 0]

\* No call is outstanding, nothing is in flight, and nothing is committed.
Quiet ==
    /\ commitIndex = [n \in Node |-> 0]
    /\ matchIndex  = [n \in Node |-> [p \in Node |->
                        IF n = n1 /\ p = n1 THEN LastIndex(log[n1]) ELSE 0]]
    /\ nextIndex   = [n \in Node |-> [p \in Node |->
                        IF n = n1 THEN LastIndex(log[n1]) + 1 ELSE 0]]
    /\ stepDown    = [n \in Node |-> FALSE]
    /\ applied     = [n \in Node |-> <<>>]
    /\ awaiting    = [n \in Node |-> {}]
    /\ calls       = [n \in Node |-> {}]
    /\ voteReqs = {} /\ voteReps = {} /\ appReqs = {} /\ appReps = {}
    /\ revoked = {}

\* n1 stood in term 1, n2 voted for it, the request to n3 was lost, n1 entered
\* runLeader, and its first heartbeat was lost.
Led ==
    /\ state       = (n1 :> Leader   @@ n2 :> Follower   @@ n3 :> Follower)
    /\ pc          = (n1 :> "leader" @@ n2 :> "follower" @@ n3 :> "follower")
    /\ currentTerm = (n1 :> 1 @@ n2 :> 1 @@ n3 :> 0)
    /\ votedFor    = (n1 :> n1 @@ n2 :> n1 @@ n3 :> Nil)
    /\ elecTerm    = (n1 :> 1 @@ n2 :> 0 @@ n3 :> 0)
    /\ voters      = (n1 :> {n1, n2} @@ n2 :> {} @@ n3 :> {})
    /\ log         = [n \in Node |-> Entries(<<>>)]
    /\ waits       = [n \in Node |-> {}]
    /\ outcome     = [c \in Cmd |-> "none"]
    /\ grants      = {<<n1, n1, 1>>, <<n2, n1, 1>>}
    /\ leaders     = {[node |-> n1, term |-> 1, elected |-> 1]}
    /\ used        = Calls(1)
    /\ Quiet

SpecLed == Led /\ [][Next]_vars

\* After Led, n1 proposed c1 and lost the leadership through an AppendEntries
\* reply of term 2, in which n3's vote had made n2 the leader; n2 may have
\* proposed c2, and lost its leadership the same way when n3's vote made n1
\* the leader of term 3.  Neither entry has reached another node.
Forked ==
    /\ state       = (n1 :> Leader   @@ n2 :> Follower   @@ n3 :> Follower)
    /\ pc          = (n1 :> "leader" @@ n2 :> "follower" @@ n3 :> "follower")
    /\ currentTerm = [n \in Node |-> 3]
    /\ votedFor    = (n1 :> n1 @@ n2 :> Nil @@ n3 :> n1)
    /\ elecTerm    = (n1 :> 3 @@ n2 :> 2 @@ n3 :> 0)
    /\ voters      = (n1 :> {n1, n3} @@ n2 :> {n2, n3} @@ n3 :> {})
    /\ \E proposed \in {{c1}, {c1, c2}} :
          /\ log = (n1 :> Entries(<<E(1, 1, c1)>>) @@ n3 :> Entries(<<>>) @@
                    n2 :> Entries(IF c2 \in proposed THEN <<E(2, 1, c2)>> ELSE <<>>))
          /\ outcome = [c \in Cmd |-> IF c \in proposed THEN "aborted" ELSE "none"]
    /\ waits       = [n \in Node |-> {}]
    /\ grants      = {<<n1, n1, 1>>, <<n2, n1, 1>>, <<n2, n2, 2>>, <<n3, n2, 2>>,
                      <<n1, n1, 3>>, <<n3, n1, 3>>}
    /\ leaders     = {[node |-> n1, term |-> 1, elected |-> 1],
                      [node |-> n2, term |-> 2, elected |-> 2],
                      [node |-> n1, term |-> 3, elected |-> 3]}
    /\ used        = Calls(0)
    /\ Quiet

\* Replication from either state.
SpecSeeded == (Led \/ Forked) /\ [][Next]_vars

=============================================================================
