-------------------------------- MODULE Chaos --------------------------------
(***************************************************************************)
(* The fault threads of experiments 1 and 3 (chaos-bench/: exp1.py,        *)
(* exp3.py, leader_tracker.py): the loops that kill the leader and         *)
(* followers, the tracker that records who leads, the sample of            *)
(* convergence time that analyze takes from its lines, and the reset of    *)
(* the cluster between the iterations of exp1 --repeat.                    *)
(***************************************************************************)
EXTENDS Fleet

VARIABLES
    experiment, \* the program: "exp1", "exp3", "repeat", or one of Experiments
    stage,      \* its main thread: "run", "settle", "ended"; or, to start the next
                \*   iteration, "wipe", "stop", "await", "started" or "failed"
    aim,        \* the call each kill loop is in
    tracked,    \* LeaderTracker: last_leader
    pending,    \* analyze: the next leader_observed is the sample of a kill
    clean,      \* history: nothing has disturbed that sample
    bogus,      \* history: a sample that nothing disturbed was no election
    won,        \* history: the nodes elected since that kill
    toStop,     \* _reset_cluster: services still to stop
    dark,       \* history: for how long of its wait nobody has led
    saved,      \* S3: the nodes with a snapshot of a state from before the last wipe
    carries,    \* history: the nodes with a state from before the last wipe
    resaved,    \* history: the nodes that saved such a state after it
    passed      \* history: the nodes whose task has one from another node

trackVars == <<tracked, pending, clean, bogus, won>>
stateVars == <<saved, carries, resaved, passed>>
chaosVars == <<experiment, stage, aim, trackVars, toStop, dark, stateVars>>

Loops == IF experiment = "exp3" THEN {"leader", "follower"} ELSE {"leader"}

Idle == [pc |-> "idle"]
Found(n, live) == [pc |-> "found", node |-> n, live |-> live]

\* The loop of the iteration before a reset may still be in a call.
ChaosInit ==
    /\ stage = IF experiment = "repeat" THEN "wipe" ELSE "run"
    /\ aim = [k \in {"leader", "follower"} |-> Idle]
       \/ /\ experiment = "repeat"
          /\ \E n \in Node : aim = [leader |-> Found(n, FALSE), follower |-> Idle]
    /\ tracked = Nobody /\ pending = FALSE /\ clean = FALSE /\ bogus = FALSE /\ won = {}
    /\ toStop = {} /\ dark = 0
    /\ saved = {} /\ carries = {} /\ resaved = {} /\ passed = {}

\* The tracker, which reads only, is followed in exp1; the one of exp3 is the same.
Tracking == experiment = "exp1" /\ stage \in {"run", "settle"}

\* Mutant: there is no freshness gate.
AllMarked == Marked

\* The rows that pass the gates of _scan_once.
FreshlyMarked == {n \in Marked : row[n].age <= Stale}

SetAim(k, call) == aim' = [aim EXCEPT ![k] = call]

-----------------------------------------------------------------------------
(***************************************************************************)
(* _kill_loop, _kill_leader_loop and _kill_follower_loop                   *)
(***************************************************************************)

\* find_leader; without a leader the loop records a skip and waits.
Find(k) ==
    /\ k \in Loops /\ aim[k] = Idle /\ stage = "run"
    /\ \E n \in FindLeader \ {Nobody} : SetAim(k, Found(n, TRUE))
    /\ UNCHANGED <<fleetVars, experiment, stage, trackVars, toStop, dark, stateVars>>

\* The service found, or one of the other services.
Targets(k) == IF k = "leader" THEN {aim[k].node} ELSE Node \ {aim[k].node}

\* kill_leader or kill_follower, and the line of it.  A kill that ends after
\* the history was closed is on no record.
Kill(k) ==
    /\ aim[k].pc = "found"
    /\ \E n \in Targets(k) :
        /\ StopTask(n)
        /\ IF k = "leader" /\ aim[k].live
           THEN /\ pending' = TRUE /\ won' = {}
                /\ clean' = (tracked = n /\ FreshlyMarked = {n} /\ Marked = {n} /\ leads = {n})
           ELSE clean' = FALSE /\ UNCHANGED <<pending, won>>
    /\ SetAim(k, Idle)
    /\ UNCHANGED <<experiment, stage, tracked, bogus, toStop, dark, stateVars>>

\* No running task: a skip.
Skip(k) ==
    /\ aim[k].pc = "found"
    /\ \E n \in Targets(k) : ~Listed(n)
    /\ SetAim(k, Idle)
    /\ UNCHANGED <<fleetVars, experiment, stage, trackVars, toStop, dark, stateVars>>

\* A call raises: exp3 records it and goes on, exp1 has lost its loop.
LoopFails(k) ==
    /\ aim[k].pc = "found" /\ Spend("lapses", MaxLapses)
    /\ SetAim(k, IF experiment = "exp3" THEN Idle ELSE [pc |-> "dead"])
    /\ UNCHANGED <<proc, leads, row>>
    /\ UNCHANGED <<experiment, stage, trackVars, toStop, dark, stateVars>>

-----------------------------------------------------------------------------
(***************************************************************************)
(* LeaderTracker, and the convergence sample                               *)
(***************************************************************************)

\* Mutant: the line of a gap counts as well.
IsChange(n) == pending /\ n # tracked

\* analyze: the first line after a kill that names a leader, whichever it names.
IsSample(n) == pending /\ n \notin {tracked, Nobody}

\* _run: a change of leader is a line.
See(n) ==
    /\ tracked' = n
    /\ IF IsSample(n)
       THEN /\ pending' = FALSE /\ clean' = FALSE /\ won' = {}
            /\ bogus' = (bogus \/ (clean /\ n \notin won))
       ELSE UNCHANGED <<pending, clean, bogus, won>>

Scan ==
    /\ Tracking
    /\ \E n \in IF FreshlyMarked = {} THEN {Nobody} ELSE FreshlyMarked : See(n)
    /\ UNCHANGED <<fleetVars, experiment, stage, aim, toStop, dark, stateVars>>

\* A scan that raises reads as no leader.
ScanFails ==
    /\ Tracking /\ Spend("lapses", MaxLapses)
    /\ tracked' = Nobody /\ clean' = FALSE
    /\ UNCHANGED <<proc, leads, row>>
    /\ UNCHANGED <<experiment, stage, aim, pending, bogus, won, toStop, dark, stateVars>>

Pass ==
    /\ FleetTick
    /\ clean' = (clean /\ used' = used)
    /\ dark' = IF stage = "await" /\ leads = {} THEN Older(dark) ELSE 0
    /\ UNCHANGED <<experiment, stage, aim, tracked, pending, bogus, won, toStop, stateVars>>

-----------------------------------------------------------------------------
(***************************************************************************)
(* run_exp1, run_exp3, run_exp1_repeat and _reset_cluster                  *)
(***************************************************************************)
Enter(p) ==
    /\ stage' = p
    /\ UNCHANGED <<fleetVars, experiment>>

\* stop.set(); the loops are waited for, but not for ever.
StopLoops ==
    /\ stage = "run" /\ Enter("settle")
    /\ UNCHANGED <<aim, trackVars, toStop, dark, stateVars>>

\* The tracker stops and the history is closed, with a loop perhaps in a call.
EndRun ==
    /\ stage = "settle" /\ Enter("ended")
    /\ aim' = [k \in DOMAIN aim |-> IF aim[k].pc = "found"
                                    THEN [aim[k] EXCEPT !.live = FALSE] ELSE Idle]
    /\ tracked' = Nobody /\ pending' = FALSE /\ clean' = FALSE /\ won' = {}
    /\ UNCHANGED <<bogus, toStop, dark, stateVars>>

\* Mutant: the snapshots are left in place.
NotDeleted == Node

\* delete_objects, of every key.
LeftInS3 == {}

\* The snapshots are deleted while the coordinators run.
Wipe ==
    /\ stage = "wipe" /\ Enter("stop")
    /\ saved' = LeftInS3
    /\ carries' = Running /\ resaved' = {} /\ passed' = {}
    /\ toStop' = Node
    /\ UNCHANGED <<aim, trackVars, dark>>

\* One service of the stop loop: stop what is listed.
StopService(n) ==
    /\ stage = "stop" /\ n \in toStop
    /\ proc' = [proc EXCEPT ![n] = Told(@)]
    /\ toStop' = toStop \ {n}
    /\ stage' = IF toStop = {n} THEN "await" ELSE "stop"
    /\ UNCHANGED <<leads, row, used, experiment, aim, trackVars, dark, stateVars>>

\* Mutant: rows count whatever their age.
ReadyAtAnyAge == Marked # {}

\* As many fresh rows as services, one of them marked.
Ready ==
    /\ \A n \in Node : row[n].age < Stale
    /\ Marked # {}

\* The wait is over, and run_exp1 starts: exp1 from here.
ResetReturns ==
    /\ stage = "await" /\ Ready /\ Enter("started")
    /\ dark' = 0
    /\ UNCHANGED <<aim, trackVars, toStop, stateVars>>

\* A call raises or the time is up: the iteration has failed and is over.
ResetFails ==
    /\ stage \in {"wipe", "stop", "await"} /\ Enter("failed")
    /\ toStop' = {} /\ dark' = 0
    /\ saved' = {} /\ carries' = {} /\ resaved' = {} /\ passed' = {}
    /\ UNCHANGED <<aim, trackVars>>

\* The snapshot loop of a coordinator, once it has a state from before the wipe.
Save(n) ==
    /\ n \in Running \cap carries
    /\ saved' = saved \cup {n} /\ resaved' = resaved \cup {n}
    /\ UNCHANGED <<fleetVars, experiment, stage, aim, trackVars, toStop, dark, carries, passed>>

\* AppendEntries or InstallSnapshot of a leader with a state from before the
\* wipe, to a task that has none: its log conflicts and is overwritten.
Replicate(m, n) ==
    /\ m \in leads \cap carries /\ n \in Running \ carries
    /\ carries' = carries \cup {n} /\ passed' = passed \cup {n}
    /\ UNCHANGED <<fleetVars, experiment, stage, aim, trackVars, toStop, dark, saved, resaved>>

\* An election, noted while a clean sample is pending.
ElectNoted(n) ==
    /\ Elect(n) /\ dark' = 0
    /\ won' = IF clean THEN won \cup {n} ELSE won
    /\ UNCHANGED <<experiment, stage, aim, tracked, pending, clean, bogus, toStop, stateVars>>

\* A task that boots restores its node's snapshot.
BootRestores(n) ==
    /\ Boot(n)
    /\ carries' = IF n \in saved THEN carries \cup {n} ELSE carries \ {n}
    /\ passed' = passed \ {n}
    /\ UNCHANGED <<experiment, stage, aim, trackVars, toStop, dark, saved, resaved>>

-----------------------------------------------------------------------------
\* Until a reset has failed.
ChaosNext ==
    /\ stage # "failed"
    /\ \/ Scan \/ ScanFails \/ Pass
       \/ StopLoops \/ EndRun \/ Wipe \/ ResetReturns \/ ResetFails
       \/ \E k \in Loops : Find(k) \/ Kill(k) \/ Skip(k) \/ LoopFails(k)
       \/ \E n \in Node :
           \/ StopService(n) \/ Save(n) \/ BootRestores(n) \/ ElectNoted(n)
           \/ \E m \in Node : Replicate(m, n)
           \/ FleetChange(n) /\ UNCHANGED chaosVars

-----------------------------------------------------------------------------
\* The types; and _reset_cluster waits for a new cluster only after it has gone
\* through every service.
ChaosTypeOK ==
    /\ proc \in [Node -> {"up", "stopping", "down", "starting", "doomed"}]
    /\ leads \subseteq Running
    /\ row \in [Node -> [mark : BOOLEAN, age : 0..Old]]
    /\ tracked \in Node \cup {Nobody}
    /\ clean => pending
    /\ won \subseteq Node
    /\ toStop \subseteq Node /\ (stage # "stop" => toStop = {})

\* The convergence sample of a kill is the time of an election after the kill,
\* if the kill hit the only leader and only marked row while the tracker named
\* it, and then no scan failed and no heartbeat lapsed: the victim's own row,
\* fresh for another three seconds, is not taken for a new leader.
CleanSample == ~bogus

\* A reset that succeeds leaves a cluster that had a leader within the last
\* three seconds, but not one that is new: the tasks it stopped are taken for
\* their successors while their rows are fresh.
ResetOnLiveCluster ==
    [][stage = "await" /\ stage' = "started" => dark < Stale]_<<fleetVars, chaosVars>>

\* A coordinator that runs after a reset with a state from before it has it from
\* a snapshot that an old task saved between the wipe and its end, or by
\* replication from a leader that had it: an old task that was still running, or
\* a new one that had it from either.  The deleted snapshots are not the source,
\* and no task of before the reset goes on.
GenesisCause ==
    /\ ChaosTypeOK
    /\ stage = "started" => \A n \in carries : proc[n] # "up" \/ n \in resaved \cup passed

\* If one leader stays, the tracker comes to name it and never changes again,
\* however many marked rows the dead have left.
TrackerConverges ==
    \A n \in Node :
        <>[](leads = {n} /\ proc[n] = "up" /\ Tracking) => <>[](tracked = n)
=============================================================================
