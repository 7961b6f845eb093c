--------------------------- MODULE ClusterSnapshot ---------------------------
(***************************************************************************)
(* What the state observer makes of one round of polls (raft_client.py):   *)
(* a snapshot is the list of answers, one per polled address, each a       *)
(* record of the id, role, term and reachability it reports.               *)
(***************************************************************************)
EXTENDS Integers, FiniteSets, FiniteSetsExt

\* NodeState.from_dict
Answered(n, r, t) == [id |-> n, role |-> r, term |-> t, reachable |-> TRUE]

\* NodeState.unreachable: an address that does not answer stands for itself,
\* because nothing says whose address it is.
Unreachable(a) == [id |-> a, role |-> "unreachable", term |-> 0, reachable |-> FALSE]

Leaders(s) == {i \in DOMAIN s : s[i].role = "leader"}

ReachableCount(s) == Cardinality({i \in DOMAIN s : s[i].reachable})

\* The property leader: the only one, or none.
HasLeader(s) == Cardinality(Leaders(s)) = 1

CurrentTerm(s) == Max({s[i].term : i \in {j \in DOMAIN s : s[j].reachable}} \cup {0})

\* Mutant: every leader counts, whatever its term.
LeadersOfAnyTerm(s, t) == Leaders(s)

\* An entry of leaders_by_term.
LeadersOf(s, t) == {i \in Leaders(s) : s[i].term = t}

\* split_brain_message: the terms with more than one leader in the list.
SplitTerms(s) ==
    {t \in {s[i].term : i \in Leaders(s)} : Cardinality(LeadersOf(s, t)) > 1}
=============================================================================
