------------------------------ MODULE Observer ------------------------------
(***************************************************************************)
(* The state observer (state-observer/): the addresses it reads from the   *)
(* peers table and refreshes, the poll of every address, and what one tick *)
(* of observe does with the answers: alerts with their cooldown            *)
(* (AlertManager), gauges and CloudWatch batches (MetricsPublisher).       *)
(*                                                                         *)
(* Around it, the coordinators it watches: tasks that stop, start at       *)
(* another address and change roles, and their rows in the peers table.    *)
(*                                                                         *)
(* Time is counted in ticks of one poll interval, which is longer than a   *)
(* poll (its requests time out after 1.5 s), and kept as ages; an age that *)
(* no longer makes a difference stops growing.                             *)
(***************************************************************************)
EXTENDS ClusterSnapshot, Sequences, SequencesExt

CONSTANTS
    Node,              \* COORDINATOR_NODE_IDS
    Addr,              \* private addresses
    NoAddr,
    StaticAddrs,       \* COORDINATOR_ADDRS
    Cooldown,          \* _COOLDOWN_S, in ticks
    NoLeaderTimeout,   \* _NO_LEADER_TIMEOUT_S, in ticks
    CwInterval,        \* CW_PUBLISH_INTERVAL_S, in ticks
    HistoryFirst,      \* FALSE in the code: see Construct
    MaxTerm,           \* bound: terms
    MaxChanges,        \* bound: changes in the cluster
    MaxFaults          \* bound: calls that fail

ASSUME ObserverAssumption ==
    /\ IsFiniteSet(Node) /\ Node # {} /\ IsFiniteSet(Addr) /\ NoAddr \notin Addr
    /\ StaticAddrs \in Seq(ToSet(StaticAddrs)) /\ StaticAddrs # <<>>
    /\ Node \cap (Addr \cup ToSet(StaticAddrs)) = {} /\ Cardinality(Addr) >= Cardinality(Node)
    /\ {Cooldown, NoLeaderTimeout, CwInterval} \subseteq Nat \ {0}
    /\ {MaxTerm, MaxChanges, MaxFaults} \subseteq Nat
    /\ HistoryFirst \in BOOLEAN

VARIABLES
    \* The coordinators
    home,      \* the address of each one's running task, or NoAddr
    role, term,
    row,       \* the peers table: http_addr of each node's row, or NoAddr
    led,       \* history: the pairs of a node and a term it has led
    used,      \* how much of each bound has been used
    \* RaftClusterClient
    pc,        \* where observe is
    addrs,     \* _addrs
    asked,     \* the addresses of the poll under way
    answers,   \* and its answers so far, by position
    seenUp,    \* history: the nodes that ran at some time during that poll
    \* AlertManager
    uptime,    \* time.monotonic(), up to Cooldown
    sentAge,   \* _last_sent, as ages: the keys marked less than Cooldown ago
    leaderless,\* the age of _leaderless_since, or None
    outcome,   \* history: what became of the publish of each of those keys
    \* MetricsPublisher
    gauge,     \* the labels whose raft_is_leader is 1
    cwAge,     \* the age of _last_cw_publish
    oldest     \* the age of the oldest of _pending_metrics, or None

clusterVars == <<home, role, term, row, led>>
clientVars == <<pc, addrs, asked, answers, seenUp>>
alertVars == <<uptime, sentAge, leaderless, outcome>>
metricVars == <<gauge, cwAge, oldest>>
vars == <<clusterVars, used, clientVars, alertVars, metricVars>>

None == -1

Up == {n \in Node : home[n] # NoAddr}

Spend(b, max) ==
    /\ used[b] < max
    /\ used' = [used EXCEPT ![b] = @ + 1]

\* The observer starts beside a running cluster, at any time after the boot of
\* its host; a row may be left of a task that is gone.
Init ==
    /\ row = CHOOSE r \in [Node -> Addr] : \A m, n \in Node : r[m] = r[n] => m = n
    /\ home \in {row} \cup {[row EXCEPT ![n] = NoAddr] : n \in Node}
    /\ role = [n \in Node |-> "follower"] /\ term = [n \in Node |-> 0]
    /\ led = {}
    /\ used = [b \in {"changes", "faults"} |-> 0]
    /\ pc = "resolving" /\ addrs = <<>> /\ asked = <<>> /\ answers = <<>> /\ seenUp = {}
    /\ uptime \in {0, Cooldown} /\ sentAge = <<>> /\ leaderless = None /\ outcome = <<>>
    /\ gauge = {} /\ cwAge = Min({uptime, CwInterval}) /\ oldest = None

-----------------------------------------------------------------------------
(***************************************************************************)
(* The coordinators, as far as the observer can see them                   *)
(***************************************************************************)
Role(n, r, t) ==
    /\ role' = [role EXCEPT ![n] = r]
    /\ term' = [term EXCEPT ![n] = t]

\* A leader of the highest term there is or of the next one.  The module Raft
\* allows a second leader of a term, so this does too.
Elect(n, t) ==
    /\ n \in Up /\ role[n] # "leader"
    /\ LET top == Max({term[m] : m \in Node}) IN t \in {top, top + 1} \ {0}
    /\ Spend("changes", MaxChanges)
    /\ Role(n, "leader", t)
    /\ led' = led \cup {<<n, t>>}
    /\ UNCHANGED <<home, row, clientVars, alertVars, metricVars>>

StepDown(n, t) ==
    /\ role[n] = "leader" /\ t > term[n]
    /\ Spend("changes", MaxChanges)
    /\ Role(n, "follower", t)
    /\ UNCHANGED <<home, row, led, clientVars, alertVars, metricVars>>

\* The task is gone; its row stays.
Stop(n) ==
    /\ n \in Up
    /\ Spend("changes", MaxChanges)
    /\ home' = [home EXCEPT ![n] = NoAddr]
    /\ Role(n, "follower", 0)
    /\ UNCHANGED <<row, led, clientVars, alertVars, metricVars>>

\* A new task, at any address that is free, Registers over the old row.  To
\* replace a task takes longer than the 1.5 s a poll may last.
Start(n, a) ==
    /\ n \notin Up /\ \A m \in Up : home[m] # a
    /\ pc = "polling" => n \notin seenUp
    /\ Spend("changes", MaxChanges)
    /\ home' = [home EXCEPT ![n] = a]
    /\ row' = [row EXCEPT ![n] = a]
    /\ seenUp' = IF pc = "polling" THEN seenUp \cup {n} ELSE seenUp
    /\ UNCHANGED <<role, term, led, pc, addrs, asked, answers, alertVars, metricVars>>

\* The table drops the row of a task that no longer renews it.
Expire(n) ==
    /\ n \notin Up /\ row[n] # NoAddr
    /\ row' = [row EXCEPT ![n] = NoAddr]
    /\ UNCHANGED <<home, role, term, led, used, clientVars, alertVars, metricVars>>

-----------------------------------------------------------------------------
(***************************************************************************)
(* Addresses                                                               *)
(***************************************************************************)
\* resolve_addrs when the get_items of failed raise: the rows there are, whatever
\* their age.  They come in the order of the node ids, on which nothing depends.
Resolve(failed) ==
    LET listed == SetToSeq({n \in Node \ failed : row[n] # NoAddr})
    IN  [i \in DOMAIN listed |-> row[listed[i]]]

\* A call of resolve_addrs, with its faults.
Lookup(result) ==
    \E failed \in SUBSET Node :
        /\ IF failed = {} THEN UNCHANGED used ELSE Spend("faults", MaxFaults)
        /\ result = Resolve(failed)

\* _resolve_initial_addrs: again until it has an address, or until its two
\* minutes are over.
ResolveInitial ==
    /\ pc = "resolving"
    /\ \E found \in {Resolve(f) : f \in SUBSET Node} :
        /\ Lookup(found)
        /\ \/ found # <<>> /\ addrs' = found /\ pc' = "resolved"
           \/ found = <<>> /\ UNCHANGED <<addrs, pc>>
           \/ found = <<>> /\ addrs' = StaticAddrs /\ pc' = "resolved"
    /\ UNCHANGED <<clusterVars, asked, answers, seenUp, alertVars, metricVars>>

\* Dashboard's constructor renders before it sets _commit_history, which the
\* rendering reads: the code raises here and the observer ends.  HistoryFirst
\* exchanges the two, so that the rest can be studied.
Construct ==
    /\ pc = "resolved"
    /\ pc' = IF HistoryFirst THEN "idle" ELSE "crashed"
    /\ UNCHANGED <<clusterVars, used, addrs, asked, answers, seenUp, alertVars, metricVars>>

\* _refresh_addrs_loop, between any two awaits of the poll.
Refresh ==
    /\ pc \in {"idle", "polling", "sleeping"}
    /\ \E found \in {Resolve(f) : f \in SUBSET Node} :
        /\ Lookup(found)
        /\ found # <<>> /\ ToSet(found) # ToSet(addrs)
        /\ addrs' = found
    /\ UNCHANGED <<clusterVars, pc, asked, answers, seenUp, alertVars, metricVars>>

-----------------------------------------------------------------------------
(***************************************************************************)
(* One tick of observe                                                     *)
(***************************************************************************)

\* RaftClusterClient.poll: a request to every address it has now.
BeginPoll ==
    /\ pc = "idle"
    /\ pc' = "polling"
    /\ asked' = addrs
    /\ answers' = <<>>
    /\ seenUp' = Up
    /\ UNCHANGED <<clusterVars, used, addrs, alertVars, metricVars>>

\* _poll_one of one address: whoever runs there answers for itself, or the
\* request fails.
Answer(i) ==
    /\ pc = "polling" /\ i \in DOMAIN asked /\ i \notin DOMAIN answers
    /\ \E ans \in {Answered(n, role[n], term[n]) : n \in {m \in Up : home[m] = asked[i]}}
                     \cup {Unreachable(asked[i])} :
        /\ IF ~ans.reachable /\ \E n \in Up : home[n] = asked[i]
           THEN Spend("faults", MaxFaults)
           ELSE UNCHANGED used
        /\ answers' = [j \in DOMAIN answers \cup {i} |->
                           IF j = i THEN ans ELSE answers[j]]
    /\ UNCHANGED <<clusterVars, pc, addrs, asked, seenUp, alertVars, metricVars>>

-----------------------------------------------------------------------------
(* AlertManager *)

\* _check_split_brain: a key for every term with several leaders in the list.
SplitKeys(s) ==
    {[kind |-> "split-brain", term |-> t, ids |-> {s[i].id : i \in LeadersOf(s, t)},
      many |-> Cardinality(LeadersOf(s, t))] : t \in SplitTerms(s)}

\* _leaderless_since after the check.
Leaderless(s) ==
    IF HasLeader(s) THEN None ELSE IF leaderless = None THEN 0 ELSE leaderless

\* _check_no_leader: after the grace period, a key for every term.
NoLeaderKeys(s) ==
    IF HasLeader(s) \/ leaderless < NoLeaderTimeout
    THEN {} ELSE {[kind |-> "no-leader", term |-> CurrentTerm(s)]}

\* Mutant: half of the list is enough.
HalfOf(total) == total \div 2

Quorum(total) == total \div 2 + 1

\* _check_quorum_loss, of the addresses that were polled.
QuorumKeys(s) ==
    IF s = <<>> \/ ReachableCount(s) >= Quorum(Cardinality(DOMAIN s))
    THEN {}
    ELSE {[kind |-> "quorum-loss", up |-> ReachableCount(s), of |-> Cardinality(DOMAIN s)]}

\* Mutant: a key that was never sent counts as sent just now.
SentJustNow(k) == IF k \in DOMAIN sentAge THEN sentAge[k] ELSE 0

\* now - _last_sent.get(key, 0.0)
SinceSent(k) == IF k \in DOMAIN sentAge THEN sentAge[k] ELSE uptime

With(f, S, v) == [k \in DOMAIN f \cup S |-> IF k \in S THEN v ELSE f[k]]

\* The alerts of check.
Alerts(s) == SplitKeys(s) \cup NoLeaderKeys(s) \cup QuorumKeys(s)

Due(s) == {k \in Alerts(s) : SinceSent(k) >= Cooldown}

\* _maybe_send for every alert: the key is marked, then published, and the
\* publishes of the keys in failed raise.
Check(s, failed) ==
    /\ IF failed = {} THEN UNCHANGED used ELSE Spend("faults", MaxFaults)
    /\ leaderless' = Leaderless(s)
    /\ sentAge' = With(sentAge, Due(s), 0)
    /\ outcome' = With(With(outcome, Due(s), "sent"), failed, "failed")
    /\ UNCHANGED uptime

-----------------------------------------------------------------------------
(* MetricsPublisher *)

\* Mutant: only the gauge of a leader is written.
SetLeaderGauges(s) == gauge' = gauge \cup {s[i].id : i \in Leaders(s)}

\* _update_prometheus: the gauges of the labels in the list, a later entry over
\* an earlier one.  The label of a node that does not answer is not among
\* them, and no label is ever removed.
SetGauges(s) ==
    LET ids  == {s[i].id : i \in DOMAIN s}
        LastOf(l) == s[Max({i \in DOMAIN s : s[i].id = l})]
    IN  gauge' = (gauge \ ids) \cup {l \in ids : LastOf(l).role = "leader"}

\* _buffer_cloudwatch, then _flush_cloudwatch once the interval is over: the
\* buffer is emptied whether or not PutMetricData succeeds.
CloudWatch ==
    LET flush == cwAge >= CwInterval
    IN  /\ cwAge' = IF flush THEN 0 ELSE cwAge
        /\ oldest' = IF flush THEN None ELSE Max({oldest, 0})

Complete == pc = "polling" /\ DOMAIN answers = DOMAIN asked

\* All answers are there: check, metrics.update and dashboard.update follow
\* without an await.
FinishPoll ==
    /\ Complete
    /\ \E failed \in SUBSET Due(answers) : Check(answers, failed)
    /\ SetGauges(answers)
    /\ CloudWatch
    /\ pc' = "sleeping" /\ asked' = <<>> /\ answers' = <<>> /\ seenUp' = {}
    /\ UNCHANGED <<clusterVars, addrs>>

\* Time passes while observe waits for its next poll, or for an address.
Grow(age, bound) == IF age = None THEN None ELSE Min({age + 1, bound})

Tick ==
    LET young == {k \in DOMAIN sentAge : sentAge[k] + 1 < Cooldown}
    IN  /\ pc \in {"resolving", "sleeping"}
        /\ pc' = IF pc = "sleeping" THEN "idle" ELSE pc
        /\ uptime' = Grow(uptime, Cooldown)
        /\ sentAge' = [k \in young |-> sentAge[k] + 1]
        /\ outcome' = Restrict(outcome, young)
        /\ leaderless' = Grow(leaderless, NoLeaderTimeout)
        /\ cwAge' = Grow(cwAge, CwInterval)
        /\ oldest' = IF oldest = None THEN None ELSE oldest + 1
        /\ UNCHANGED <<clusterVars, used, addrs, asked, answers, seenUp, gauge>>

-----------------------------------------------------------------------------
ClusterNext ==
    \E n \in Node :
        \/ \E t \in 0..MaxTerm : Elect(n, t) \/ StepDown(n, t)
        \/ Stop(n) \/ Expire(n) \/ \E a \in Addr : Start(n, a)

Observe ==
    ResolveInitial \/ Construct \/ BeginPoll \/ FinishPoll
        \/ \E i \in DOMAIN asked : Answer(i)

Next == ClusterNext \/ Observe \/ Refresh \/ Tick

Spec == Init /\ [][Next]_vars

\* Time passes, the event loop runs every callback that is ready, and the
\* refresh timer fires.
FairSpec == Spec /\ WF_vars(Observe) /\ WF_vars(Refresh) /\ WF_vars(Tick)

-----------------------------------------------------------------------------
Key ==
    [kind : {"split-brain"}, term : 1..MaxTerm, ids : SUBSET Node, many : Nat]
        \cup [kind : {"no-leader"}, term : 0..MaxTerm]
        \cup [kind : {"quorum-loss"}, up : Nat, of : Nat]

\* Every variable keeps its type: what answers is a node, a key is forgotten when
\* its cooldown is over, only nodes have a leader gauge, and what waits for
\* CloudWatch waits for one publish interval at most.
TypeOK ==
    /\ home \in [Node -> Addr \cup {NoAddr}] /\ row \in [Node -> Addr \cup {NoAddr}]
    /\ pc \in {"resolving", "resolved", "crashed", "idle", "polling", "sleeping"}
    /\ \A i \in DOMAIN answers : answers[i].id \in Node <=> answers[i].reachable
    /\ DOMAIN sentAge = DOMAIN outcome
    /\ \A k \in DOMAIN sentAge : k \in Key /\ sentAge[k] < Cooldown
    /\ leaderless \in None..NoLeaderTimeout
    /\ oldest \in None..CwInterval
    /\ gauge \subseteq Node

NoTwice == \A i, j \in DOMAIN asked : asked[i] = asked[j] => i = j

\* A split-brain alert of check is true although the poll is not atomic: the
\* nodes it names have each led the term it names.  That there are two of
\* them is certain only while no two rows give the same address: a new task
\* at the address of a dead one's row is polled twice, and leads twice.
SplitBrainAlertTrue ==
    /\ TypeOK
    /\ Complete => \A k \in SplitKeys(answers) :
                       /\ \A n \in k.ids : <<n, k.term>> \in led
                       /\ NoTwice => Cardinality(k.ids) > 1

\* _check_quorum_loss reports every poll during which no majority of the
\* cluster ran, unless resolve_addrs has dropped a node from the list (its row
\* expired, its get_item failed) or lists an address twice: the total is the
\* number of addresses polled, not the size of the cluster.
QuorumLossSeen ==
    Complete /\ 2 * Cardinality(seenUp) <= Cardinality(Node)
        => \/ QuorumKeys(answers) # {}
           \/ Len(asked) < Cardinality(Node) \/ ~NoTwice

\* "Suppress duplicates": nothing else is suppressed.  After a check an alert
\* was published within the last Cooldown, or its publish failed within it
\* (the key is marked first), or the host is younger than the Cooldown (the
\* default of _last_sent is the boot of the host).
SilentAlertCause ==
    [][Complete /\ pc' = "sleeping" =>
        \A k \in Alerts(answers) : k \in DOMAIN outcome' \/ uptime < Cooldown]_vars

\* raft_is_leader is 1 of two nodes after an update only if both said so in
\* that poll, or one of them did not answer: the gauges of a node that is not
\* heard keep their last value, since its address is reported instead.
LeaderGaugesCause ==
    [][Complete /\ pc' = "sleeping" =>
        LET heard == {answers[i].id : i \in DOMAIN answers}
        IN  Cardinality(gauge') > 1 =>
                gauge' \subseteq {answers[i].id : i \in Leaders(answers)} \/ ~(gauge' \subseteq heard)]_vars

\* A cluster that stays without a leader is announced, and again after every
\* Cooldown, whatever publish failed in between.
OutageAnnounced ==
    <>[](\A n \in Node : role[n] # "leader") =>
        []<>(\E k \in DOMAIN sentAge :
                k.kind = "no-leader" /\ outcome[k] = "sent" /\ sentAge[k] = 0)
=============================================================================
