------------------------------ MODULE RaftLog ------------------------------
(***************************************************************************)
(* The in-memory log of a coordinator (raft/node.go, "Log index helpers"   *)
(* and rule 4 of HandleAppendEntries).                                     *)
(*                                                                         *)
(* A log is a non-empty sequence of entries [term, index, cmd].  Its first *)
(* element is a placeholder: index 0 and term 0 in a fresh node, and the   *)
(* last index and term folded into a snapshot after a compaction.  Every   *)
(* lookup is by global index, and the k-th element holds the global index  *)
(* FirstIndex + k - 1 (the property WellFormed).                           *)
(***************************************************************************)
EXTENDS Integers, Sequences, FiniteSetsExt

FirstIndex(log) == log[1].index

LastIndex(log) == log[Len(log)].index

LastTerm(log) == log[Len(log)].term

InLog(log, idx) == FirstIndex(log) <= idx /\ idx <= LastIndex(log)

\* Only meaningful when InLog(log, idx): the code returns (entry, ok).
EntryAt(log, idx) == log[idx - FirstIndex(log) + 1]

TermAt(log, idx) == IF InLog(log, idx) THEN EntryAt(log, idx).term ELSE 0

EntriesFrom(log, idx) ==
    LET from == IF idx <= FirstIndex(log) THEN FirstIndex(log) + 1 ELSE idx
    IN  SubSeq(log, from - FirstIndex(log) + 1, Len(log))

TruncateAt(log, idx) ==
    IF idx <= FirstIndex(log) \/ idx > LastIndex(log)
    THEN log
    ELSE SubSeq(log, 1, idx - FirstIndex(log))

\* Mutant: the entry at the snapshot index itself is kept as well.
CompactKeepingLast(log, upToIdx, placeholder) ==
    IF upToIdx <= FirstIndex(log)
    THEN log
    ELSE <<placeholder>> \o SubSeq(log, upToIdx - FirstIndex(log) + 1, Len(log))

Compact(log, upToIdx, placeholder) ==
    IF upToIdx <= FirstIndex(log)
    THEN log
    ELSE <<placeholder>> \o SubSeq(log, upToIdx - FirstIndex(log) + 2, Len(log))

\* Mutant: the term of the preceding entry is not compared.
ConsistentByLength(log, prevIdx, prevTerm) ==
    prevIdx <= LastIndex(log)

\* rule 3 of HandleAppendEntries
Consistent(log, prevIdx, prevTerm) ==
    /\ prevIdx <= LastIndex(log)
    /\ prevIdx >= FirstIndex(log) => TermAt(log, prevIdx) = prevTerm

(***************************************************************************)
(* Rule 4 of HandleAppendEntries.  The code walks the received entries and *)
(* skips each one that is covered by the snapshot or already held with the *)
(* same term.  The first other one, at position k, truncates the log if it *)
(* conflicts and is appended, and so is every entry after it.              *)
(***************************************************************************)
Differing(log, prevIdx, entries) ==
    {k \in 1..Len(entries) :
        /\ prevIdx + k > FirstIndex(log)
        /\ \/ ~InLog(log, prevIdx + k)
           \/ TermAt(log, prevIdx + k) # entries[k].term}

\* Mutant: conflicting entries are not truncated.
AppendAllKeepingConflicts(log, prevIdx, entries) ==
    LET new == Differing(log, prevIdx, entries)
    IN  IF new = {} THEN log
                    ELSE log \o SubSeq(entries, Min(new), Len(entries))

\* Mutant: everything after prevIdx is replaced by the received entries.
AppendAllReplacing(log, prevIdx, entries) ==
    TruncateAt(log, prevIdx + 1) \o entries

AppendAll(log, prevIdx, entries) ==
    LET new == Differing(log, prevIdx, entries)
    IN  IF new = {}
        THEN log
        ELSE TruncateAt(log, prevIdx + Min(new))
                \o SubSeq(entries, Min(new), Len(entries))

\* The body of the loop of rule 4, for the entry e received for index idx (past
\* the end of the log, truncateAt does nothing).
AppendOne(log, idx, e) ==
    IF idx > FirstIndex(log) /\ (InLog(log, idx) => TermAt(log, idx) # e.term)
    THEN Append(TruncateAt(log, idx), e)
    ELSE log

\* The loop itself, as the code runs it: the log after each of the entries.
AppendLoop(log, prevIdx, entries) ==
    LET after[i \in 0..Len(entries)] ==
            IF i = 0 THEN log ELSE AppendOne(after[i - 1], prevIdx + i, entries[i])
    IN  after[Len(entries)]

\* candidate log (lastTerm, lastIdx) is at least as up-to-date as log
UpToDate(lastTerm, lastIdx, log) ==
    \/ lastTerm > LastTerm(log)
    \/ lastTerm = LastTerm(log) /\ lastIdx >= LastIndex(log)

\* the k-th element holds the global index FirstIndex(log) + k - 1
WellFormed(log) ==
    \A k \in 1..Len(log) : log[k].index = FirstIndex(log) + k - 1
=============================================================================
