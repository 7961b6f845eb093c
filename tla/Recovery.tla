------------------------------ MODULE Recovery ------------------------------
(***************************************************************************)
(* Experiment 4 (chaos-bench/exp4.py, follower_recovery.py): wait until    *)
(* the leader's log lines tell a commit index of Target, kill a follower,  *)
(* and read its recovery from the log group.  A log group outlives the     *)
(* tasks and the runs that wrote to it.                                    *)
(***************************************************************************)
EXTENDS Fleet, Sequences

CONSTANT Target   \* --target-commit

ASSUME RecoveryAssumption == Target \in Nat \ {0}

VARIABLES
    step,      \* run_exp4: "wait", "found", "killed", "observe", "done" or "failed"
    leaderId,  \* leader_id
    leaderCommit, \* leader_commit, and then fresh_leader_commit
    victim,    \* the node killed, and what its task was then
    commit,    \* the cluster's commit index
    own,       \* the commit index each node's task has logged last
    ticked,    \* the log group: the highest commit index of each node's ticks
    before,    \* history: the nodes with a tick of Target from before the run
    again,     \* history: the nodes whose task has started in the run
    started,   \* the log group: the "coordinator started" lines observe reads, by
               \*   the task that was killed, "early" or after that, or its successor
    restart    \* RecoveryTimeline.restart_ns, as the task whose line it is of

logVars == <<commit, own, ticked, before, again, started>>
recoveryVars == <<step, leaderId, leaderCommit, victim, logVars, restart>>

\* Bound: how far the load takes the commit index.
MaxCommit == Target + 1

\* Ticks that nobody will read again are left out.
NoTicks == [n \in Node |-> 0]
TicksOf(n, f) == [NoTicks EXCEPT ![n] = f[n]]

RecoveryInit ==
    /\ step = "wait" /\ leaderId = Nobody /\ leaderCommit = 0
    /\ victim = [node |-> Nobody, was |-> "none"]
    /\ commit = 0
    /\ before \in {{}, Node}
    /\ ticked = [n \in Node |-> IF n \in before THEN Target ELSE 0]
    /\ own = NoTicks /\ again = {}
    /\ started = <<>> /\ restart = "none"

-----------------------------------------------------------------------------
(***************************************************************************)
(* The cluster and the clock                                               *)
(***************************************************************************)
\* As long as a tick may still tell.
Commit ==
    /\ leads # {} /\ commit < MaxCommit /\ step # "observe"
    /\ commit' = commit + 1
    /\ UNCHANGED <<fleetVars, step, leaderId, leaderCommit, victim, restart>>
    /\ UNCHANGED <<own, ticked, before, again, started>>

\* The "raft tick" line: JSON, with the commit index as the node knows it.  A
\* task that has just started knows of less than its predecessor did.  Once a
\* leader is found only its ticks are read, the last time after the kill.
LogTick(n) ==
    /\ n \in Running
    /\ step = "wait" \/ (step \in {"found", "killed"} /\ n = leaderId)
    /\ \E c \in own[n]..commit :
        /\ own' = [own EXCEPT ![n] = c]
        /\ ticked' = [ticked EXCEPT ![n] = IF c > @ THEN c ELSE @]
    /\ UNCHANGED <<fleetVars, step, leaderId, leaderCommit, victim, restart>>
    /\ UNCHANGED <<commit, before, again, started>>

\* A task ends without the bench.
Crash(n) ==
    /\ proc[n] = "up" /\ Spend("lapses", MaxLapses)
    /\ SetProc(n, "down") /\ leads' = leads \ {n}
    /\ UNCHANGED <<row, recoveryVars>>

\* The "coordinator started" line, with the boot.
BootLogs(n) ==
    /\ Boot(n)
    /\ own' = [own EXCEPT ![n] = 0] /\ again' = again \cup {n}
    /\ started' = IF step \in {"killed", "observe"} /\ n = victim.node
                  THEN Append(started, IF proc[n] = "doomed" THEN "killed" ELSE "successor")
                  ELSE started
    /\ UNCHANGED <<step, leaderId, leaderCommit, victim, restart>>
    /\ UNCHANGED <<commit, ticked, before>>

\* Nothing here depends on how old a row is: the TTL may drop one at any time.
RowExpires(n) ==
    /\ row[n].mark
    /\ row' = [row EXCEPT ![n].mark = FALSE]
    /\ UNCHANGED <<proc, leads, used, recoveryVars>>

-----------------------------------------------------------------------------
(***************************************************************************)
(* run_exp4                                                                *)
(***************************************************************************)

\* _latest_leader_commit since the beginning of time: any task's ticks count.
LatestCommit(n) == ticked[n]

\* _wait_for_commit, when a round of it succeeds.
WaitForCommit ==
    /\ step = "wait"
    /\ \E n \in FindLeader \ {Nobody} :
        /\ LatestCommit(n) >= Target
        /\ leaderId' = n /\ leaderCommit' = LatestCommit(n)
        /\ own' = TicksOf(n, own) /\ ticked' = TicksOf(n, ticked)
    /\ step' = "found"
    /\ UNCHANGED <<fleetVars, victim, commit, before, again, started, restart>>

\* TimeoutError: the deadline passes, whatever there is to find.
WaitTimesOut ==
    /\ step = "wait"
    /\ step' = "failed"
    /\ UNCHANGED <<fleetVars, leaderId, leaderCommit, victim, logVars, restart>>

\* _pick_follower and stop_random_task.  The start of a task that is killed may
\* lie in the second before the kill that observe reads as well.
KillFollower ==
    /\ step = "found"
    /\ \E n \in Node \ {leaderId} :
        /\ StopTask(n)
        /\ victim' = [node |-> n, was |-> proc[n]]
        /\ started' \in {<<>>} \cup {<<"early">> : p \in {proc[n]} \cap {"up"}}
    /\ step' = "killed"
    /\ UNCHANGED <<leaderId, leaderCommit, commit, own, ticked, before, again, restart>>

\* _latest_leader_commit since five seconds before the kill, of the leader named
\* before.  The log has no tick there yet, or the leader's last one and what it
\* logged before that in these seconds, perhaps by another task.  Without a tick,
\* or with one of 0, what the wait has found is kept.
ReadCommit ==
    /\ step = "killed"
    /\ \E c \in {0} \cup own[leaderId]..ticked[leaderId] :
        leaderCommit' = IF c > 0 THEN c ELSE leaderCommit
    /\ step' = "observe"
    /\ own' = NoTicks /\ ticked' = NoTicks
    /\ UNCHANGED <<fleetVars, leaderId, victim, commit, before, again, started, restart>>

\* exp4_abort: there is no other service, or it has no running task.
Abort ==
    /\ step = "found"
    /\ Node = {leaderId} \/ \E n \in Node \ {leaderId} : ~Listed(n)
    /\ step' = "failed"
    /\ UNCHANGED <<fleetVars, leaderId, leaderCommit, victim, logVars, restart>>

\* Mutant: lines from before the kill count.
AnyStarted == DOMAIN started

\* The positions of the lines after killed_ns.
LateStarted == {i \in DOMAIN started : started[i] # "early"}

\* A round of observe.  RAFT_TICK_RE wants role=follower commit_index=N, which
\* no line of the coordinators has, so a round never sees the catch-up, and
\* never ends the observation.
Observe ==
    /\ step = "observe"
    /\ restart = "none"
    /\ \E i \in LateStarted :
        /\ \A j \in LateStarted : i <= j
        /\ restart' = started[i]
    /\ UNCHANGED <<fleetVars, step, leaderId, leaderCommit, victim, logVars>>

ObserveTimesOut ==
    /\ step = "observe"
    /\ step' = "done"
    /\ UNCHANGED <<fleetVars, leaderId, leaderCommit, victim, logVars, restart>>

-----------------------------------------------------------------------------
MainStep ==
    WaitForCommit \/ WaitTimesOut \/ KillFollower \/ Abort \/ ReadCommit \/ Observe \/ ObserveTimesOut

\* Until the run is over.
RecoveryNext ==
    /\ step \notin {"done", "failed"}
    /\ \/ Commit \/ MainStep
       \/ \E n \in Node : \/ LogTick(n) \/ BootLogs(n) \/ Crash(n) \/ RowExpires(n)
                          \/ (Elect(n) \/ FleetChange(n)) /\ UNCHANGED recoveryVars

-----------------------------------------------------------------------------
\* A follower is killed only in a cluster that has committed Target entries, or
\* whose log group has ticks of an earlier run that say so.
ThresholdTrue ==
    step \in {"found", "killed", "observe", "done"} => commit >= Target \/ leaderId \in before

\* leader_commit_at_kill, the target of the catch-up: an index the cluster has
\* committed by the time of the read, not necessarily at the kill, and not one
\* below Target, unless the leader's task has been replaced and its successor
\* has ticked before it caught up.  An earlier run can falsify both.
CommitReportTrue ==
    step \in {"observe", "done"} =>
        \/ leaderCommit <= commit /\ (leaderCommit >= Target \/ leaderId \in again)
        \/ leaderId \in before

\* The restart time of the timeline is that of the successor, unless ECS listed
\* a task that was only just starting: then it may be the killed task's own.
RestartIsSuccessor ==
    restart = "none" \/ restart = "successor" \/ (restart = "killed" /\ victim.was = "starting")

\* What exp4_summary says of the kill is true up to these causes: the threshold
\* it was made at, the leader's commit index read after it, and the restart that
\* the timeline counts from it.
SummaryTrue == ThresholdTrue /\ CommitReportTrue /\ RestartIsSuccessor
=============================================================================
