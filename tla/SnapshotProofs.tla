--------------------------- MODULE SnapshotProofs ---------------------------
(***************************************************************************)
(* The safety properties of SnapshotNode, for any number of entries,       *)
(* terms, installations, snapshots and restarts.                           *)
(***************************************************************************)
EXTENDS SnapshotNode, RaftLogProofs

Entry == [term : Nat, index : 0..MaxIndex, cmd : 0..MaxIndex]

Snapshot == [idx : 1..MaxIndex, term : Nat, data : SUBSET (1..MaxIndex)]

\* A contiguous log of committed entries from any floor on.
GoodLog(l) ==
    /\ l \in Seq(Entry) /\ Len(l) > 0
    /\ WellFormed(l)
    /\ \A k \in 2..Len(l) : l[k] = Committed(l[k].index)

\* Where applyLoop is, and the entry it has in hand.
ApplyOK ==
    /\ apply.pc \in {"idle", "loop", "picked", "applied"}
    /\ apply.pc \in {"picked", "applied"} =>
        apply = [pc |-> apply.pc, idx |-> apply.idx, cmd |-> apply.cmd]
            /\ apply.idx \in 1..MaxIndex /\ apply.cmd \in 0..MaxIndex

\* Where TakeSnapshot is, and what it has in hand: saved is in S3.
TakeOK ==
    /\ take.pc \in {"idle", "read", "serialized", "saved"}
    /\ take.pc = "read" => take.idx \in 1..MaxIndex /\ take.term \in Nat
    /\ take.pc \in {"serialized", "saved"} =>
        take = [pc |-> take.pc, snap |-> take.snap] /\ take.snap \in Snapshot
    /\ take.pc = "saved" => store = take.snap

\* The types, with those of the locals.
SnapTypeInv ==
    /\ GoodLog(log)
    /\ commitIndex \in 0..MaxIndex /\ lastApplied \in 0..MaxIndex
    /\ lastSnapshot \in Snapshot \cup {NoSnap} /\ store \in Snapshot \cup {NoSnap}
    /\ dispatched \subseteq 1..MaxIndex
    /\ applyCh \in BOOLEAN
    /\ ApplyOK /\ TakeOK
    /\ restoring \subseteq Snapshot
    /\ used \in [{"installs", "snapshots", "crashes"} -> Nat]
    /\ installed \subseteq 1..MaxIndex /\ regressed \in BOOLEAN /\ raced \in BOOLEAN

\* The index of the snapshot being taken.
TakeIdx == IF take.pc = "read" THEN take.idx ELSE take.snap.idx

\* Why nothing is compacted before it is saved: the floor can pass a snapshot
\* that is being taken only by an installation.
FloorInv ==
    /\ FloorPersisted
    /\ take.pc # "idle" => FirstIndex(log) \in installed \/ FirstIndex(log) <= TakeIdx

\* The indices of every goroutine lie within what is committed and held, as
\* long as no installation took commitIndex back; so the terms are right.
BoundsInv ==
    ~regressed =>
        /\ FirstIndex(log) <= commitIndex /\ commitIndex <= LastIndex(log)
        /\ lastApplied <= commitIndex
        /\ apply.pc \in {"picked", "applied"} => apply.idx <= commitIndex
        /\ take.pc # "idle" => TakeIdx <= commitIndex
        /\ log[1].term = TermOf(log[1].index)
        /\ \A s \in Snapshots : s.term = TermOf(s.idx)
        /\ take.pc = "read" => take.term = TermOf(take.idx)
        /\ take.pc \in {"serialized", "saved"} => take.snap.term = TermOf(take.snap.idx)

\* Everything up to idx is in the state, or will be once the Restore that is
\* due has run.
HeldBy(idx, due, state) ==
    IF due = {} THEN 1..idx \subseteq state
                ELSE \A s \in due : idx <= s.idx

Held(idx) == HeldBy(idx, restoring, dispatched)

Complete(s) == 1..s.idx \subseteq s.data

\* As long as no installation regressed or raced, each index that lastApplied or
\* a snapshot has or may take is held; at most one Restore is due.
StateInv ==
    ~raced /\ ~regressed =>
        /\ \A s, t \in restoring : s = t
        /\ \A s \in restoring \cup Snapshots : Complete(s)
        /\ Held(lastApplied) /\ Held(FirstIndex(log))
        /\ apply.pc = "picked" => /\ Held(apply.idx - 1)
                                  /\ apply.cmd = apply.idx \/ Held(apply.idx)
        /\ apply.pc = "applied" => Held(apply.idx)
        /\ take.pc # "idle" => Held(TakeIdx)
        /\ take.pc \in {"serialized", "saved"} => Complete(take.snap)

-----------------------------------------------------------------------------
(***************************************************************************)
(* The log operators from any floor on                                     *)
(***************************************************************************)

\* A committed entry is an entry of its own index.
LEMMA CommittedIsEntry ==
  ASSUME NEW i \in 1..MaxIndex
  PROVE  /\ TermOf(i) \in Nat
         /\ Committed(i) \in Entry /\ Committed(i).index = i
         /\ Committed(i).term = TermOf(i) /\ Committed(i).cmd = i
<1>1. TermOf(i) \in Nat
  BY CommittedAssumption DEF TermOf
<1> QED BY <1>1, CommittedAssumption DEF Committed, Entry

\* The ends and the lookups of a good log, by index.
LEMMA GoodLogLookups ==
  ASSUME NEW l, GoodLog(l)
  PROVE  /\ Len(l) \in Nat /\ Len(l) >= 1
         /\ \A k \in 1..Len(l) : l[k] \in Entry
         /\ FirstIndex(l) \in 0..MaxIndex /\ LastIndex(l) \in 0..MaxIndex
         /\ l[1].index = FirstIndex(l)
         /\ LastIndex(l) = FirstIndex(l) + Len(l) - 1
         /\ \A i \in (FirstIndex(l) + 1)..LastIndex(l) :
                /\ i \in 1..MaxIndex
                /\ l[i - FirstIndex(l) + 1] = Committed(i)
                /\ EntryAt(l, i) = Committed(i) /\ TermAt(l, i) = TermOf(i)
<1>1. Len(l) \in Nat /\ Len(l) >= 1 /\ l \in Seq(Entry)
  BY DEF GoodLog
<1>2. \A k \in 1..Len(l) : l[k] \in Entry
  BY <1>1
<1>3. \A k \in 1..Len(l) : l[k].index = l[1].index + k - 1 /\ l[k].index \in 0..MaxIndex
  BY <1>2 DEF GoodLog, WellFormed, FirstIndex, Entry
<1>4. /\ FirstIndex(l) \in 0..MaxIndex /\ LastIndex(l) \in 0..MaxIndex
      /\ LastIndex(l) = FirstIndex(l) + Len(l) - 1
  BY <1>1, <1>3 DEF FirstIndex, LastIndex
<1>5. ASSUME NEW i \in (FirstIndex(l) + 1)..LastIndex(l)
      PROVE  /\ i \in 1..MaxIndex
             /\ l[i - FirstIndex(l) + 1] = Committed(i)
             /\ EntryAt(l, i) = Committed(i) /\ TermAt(l, i) = TermOf(i)
  <2>0. /\ MaxIndex \in Nat /\ Len(l) \in Nat /\ FirstIndex(l) \in Nat
        /\ LastIndex(l) = FirstIndex(l) + Len(l) - 1 /\ LastIndex(l) <= MaxIndex
    BY <1>1, <1>4, CommittedAssumption
  <2>1. i \in 1..MaxIndex /\ i - FirstIndex(l) + 1 \in 2..Len(l)
    BY <2>0
  <2>2. l[i - FirstIndex(l) + 1].index = i
    <3> DEFINE k == i - FirstIndex(l) + 1
    <3>1. k \in 1..Len(l) /\ FirstIndex(l) + k - 1 = i
      BY <1>1, <1>4, <2>1
    <3> HIDE DEF k
    <3>2. l[k].index = FirstIndex(l) + k - 1
      BY <1>3, <3>1 DEF FirstIndex
    <3> QED BY <3>1, <3>2 DEF k
  <2>3. l[i - FirstIndex(l) + 1] = Committed(i)
    BY <2>1, <2>2 DEF GoodLog
  <2>4. InLog(l, i)
    BY <1>4 DEF InLog
  <2> QED BY <2>1, <2>3, <2>4, CommittedIsEntry DEF EntryAt, TermAt
<1> QED BY <1>1, <1>2, <1>4, <1>5 DEF FirstIndex

\* A log that is nothing but its placeholder.
LEMMA PlaceholderLog ==
  ASSUME NEW i \in 0..MaxIndex, NEW t \in Nat
  PROVE  /\ GoodLog(<<Placeholder(i, t)>>)
         /\ FirstIndex(<<Placeholder(i, t)>>) = i /\ LastIndex(<<Placeholder(i, t)>>) = i
         /\ <<Placeholder(i, t)>>[1].term = t
<1>1. Placeholder(i, t) \in Entry /\ Placeholder(i, t).index = i /\ Placeholder(i, t).term = t
  BY CommittedAssumption DEF Placeholder, Entry
<1> HIDE DEF Placeholder
<1> QED BY <1>1 DEF GoodLog, WellFormed, FirstIndex, LastIndex

\* A function on 1..n is a sequence of its values.
LEMMA TableIsSeq ==
  ASSUME NEW S, NEW n \in Nat, NEW s, s = [k \in 1..n |-> s[k]], \A k \in 1..n : s[k] \in S
  PROVE  s \in Seq(S) /\ Len(s) = n
  OBVIOUS

\* The elements of a sequence from the m-th on.
LEMMA SuffixShape ==
  ASSUME NEW S, NEW s \in Seq(S), NEW m \in 1..Len(s), NEW n, n = Len(s) - m + 1,
         NEW u, u = SubSeq(s, m, Len(s))
  PROVE  u \in Seq(S) /\ Len(u) = n /\ \A j \in 1..n : u[j] = s[m + j - 1]
<1>1. m \in Int /\ Len(s) \in Int /\ m <= Len(s)
  OBVIOUS
<1>2. \A i \in m..Len(s) : s[i] \in S
  OBVIOUS
<1> QED BY <1>1, <1>2, SubSeqProperties

\* A good log followed by the committed entries after its last index.
LEMMA ExtendGood ==
  ASSUME NEW l, GoodLog(l), NEW u \in Seq(Entry), NEW new, new = l \o u,
         \A j \in 1..Len(u) : LastIndex(l) + j \in 1..MaxIndex /\ u[j] = Committed(LastIndex(l) + j)
  PROVE  /\ GoodLog(new)
         /\ FirstIndex(new) = FirstIndex(l) /\ new[1] = l[1]
         /\ LastIndex(new) = LastIndex(l) + Len(u)
<1> DEFINE f == FirstIndex(l)
           n == LastIndex(l)
<1>1. /\ Len(l) \in Nat /\ Len(l) >= 1 /\ Len(u) \in Nat
      /\ f \in Nat /\ n = f + Len(l) - 1
  BY GoodLogLookups
<1>2. l \in Seq(Entry)
  BY DEF GoodLog
<1>3. /\ new \in Seq(Entry) /\ Len(new) = Len(l) + Len(u)
      /\ \A k \in 1..(Len(l) + Len(u)) : new[k] = IF k <= Len(l) THEN l[k] ELSE u[k - Len(l)]
  BY <1>2, ConcatProperties
<1>a. Len(new) = Len(l) + Len(u)
  BY <1>3
<1>4. \A k \in 1..Len(l) : new[k] = l[k] /\ l[k].index = f + k - 1
  BY <1>1, <1>3 DEF GoodLog, WellFormed
<1>5. ASSUME NEW k \in (Len(l) + 1)..Len(new)
      PROVE  new[k].index = f + k - 1 /\ new[k] = Committed(new[k].index)
  <2>1. k - Len(l) \in 1..Len(u) /\ ~(k <= Len(l)) /\ k \in 1..(Len(l) + Len(u))
        /\ n + (k - Len(l)) = f + k - 1
    BY ONLY <1>1, <1>a, k \in (Len(l) + 1)..Len(new)
  <2>2. new[k] = Committed(f + k - 1) /\ f + k - 1 \in 1..MaxIndex
    BY <1>3, <2>1
  <2> QED BY <2>2, CommittedIsEntry
<1>6. FirstIndex(new) = f /\ new[1] = l[1]
  BY <1>1, <1>4 DEF FirstIndex
<1>7. \A k \in 1..Len(new) : k \in 1..Len(l) \/ k \in (Len(l) + 1)..Len(new)
  BY <1>1, <1>3
<1>8. WellFormed(new)
  BY <1>4, <1>5, <1>6, <1>7 DEF WellFormed
<1>9. \A k \in 2..Len(new) : new[k] = Committed(new[k].index)
  <2> SUFFICES ASSUME NEW k \in 2..Len(new) PROVE new[k] = Committed(new[k].index)
    OBVIOUS
  <2>1. k \in 2..Len(l) \/ k \in (Len(l) + 1)..Len(new)
    BY <1>1, <1>3
  <2>2. k \in 2..Len(l) => k \in 1..Len(l) /\ l[k] = Committed(l[k].index)
    BY <1>1 DEF GoodLog
  <2> QED BY <1>4, <1>5, <2>1, <2>2
<1>10. LastIndex(new) = f + Len(new) - 1
  <2>1. Len(new) \in 1..Len(new)
    BY <1>1, <1>3
  <2> QED BY <1>4, <1>5, <1>7, <2>1 DEF LastIndex
<1>11. GoodLog(new)
  BY <1>1, <1>3, <1>8, <1>9 DEF GoodLog
<1>12. LastIndex(new) = n + Len(u)
  BY <1>1, <1>3, <1>10
<1> QED BY <1>6, <1>11, <1>12

\* Rule 4 for committed entries, on a log of committed entries: nothing conflicts
\* and what the log lacks is appended.
LEMMA AppendCommitted ==
  ASSUME NEW l, GoodLog(l), NEW prev \in 0..MaxIndex, NEW last \in prev..MaxIndex,
         NEW n, n = LastIndex(l), prev <= n, NEW new,
         new = AppendAll(l, prev, [k \in 1..(last - prev) |-> Committed(prev + k)])
  PROVE  /\ GoodLog(new)
         /\ FirstIndex(new) = FirstIndex(l) /\ new[1] = l[1]
         /\ LastIndex(new) = IF last <= n THEN n ELSE last
<1> DEFINE f == FirstIndex(l)
           len == last - prev
           es == [k \in 1..len |-> Committed(prev + k)]
           D == Differing(l, prev, es)
<1>1. /\ prev \in Nat /\ last \in Nat /\ len \in Nat /\ n \in Nat /\ f \in Nat
      /\ prev <= n /\ len = last - prev /\ last <= MaxIndex /\ MaxIndex \in Nat
  BY GoodLogLookups, CommittedAssumption
<1>2. new = IF D = {} THEN l ELSE TruncateAt(l, prev + Min(D)) \o SubSeq(es, Min(D), Len(es))
  BY DEF AppendAll
<1> HIDE DEF len, f
<1>3. \A k \in 1..len : prev + k \in 1..MaxIndex
  BY <1>1
<1>4. \A k \in 1..len : Committed(prev + k) \in Entry /\ Committed(prev + k).term = TermOf(prev + k)
  BY <1>3, CommittedIsEntry
<1>6. \A k \in 1..len : es[k] = Committed(prev + k)
  OBVIOUS
<1>a. es = [k \in 1..len |-> es[k]]
  OBVIOUS
<1> HIDE DEF es
<1>5. es \in Seq(Entry) /\ Len(es) = len
  BY <1>1, <1>4, <1>6, <1>a, TableIsSeq
<1>7. \A k \in 1..len : k \in D <=> prev + k > n
  <2> SUFFICES ASSUME NEW k \in 1..len PROVE k \in D <=> prev + k > n
    OBVIOUS
  <2>1. prev + k \in (f + 1)..n => TermAt(l, prev + k) = es[k].term
    BY <1>4, <1>6, GoodLogLookups DEF f
  <2>2. InLog(l, prev + k) <=> f <= prev + k /\ prev + k <= n
    BY DEF InLog, f
  <2>3. f <= n
    BY GoodLogLookups DEF f
  <2>4. k \in D <=> prev + k > f /\ (~InLog(l, prev + k) \/ TermAt(l, prev + k) # es[k].term)
    BY <1>5 DEF Differing, f
  <2> QED BY <1>1, <2>1, <2>2, <2>3, <2>4
<1>8. D \subseteq 1..len
  BY <1>5 DEF Differing
<1> HIDE DEF D
<1>9. CASE last <= n
  <2>1. D = {}
    BY <1>1, <1>7, <1>8, <1>9
  <2> QED BY <1>2, <1>9, <2>1
<1>10. CASE last > n
  <2> DEFINE d == n - prev + 1
  <2>0. d \in 1..len /\ prev + d = n + 1 /\ len - d + 1 = last - n /\ last - n \in Nat
    BY <1>1, <1>10
  <2> HIDE DEF d
  <2>1. d \in D /\ \A k \in D : d <= k
    BY <1>1, <1>7, <1>8, <2>0
  <2>2. Min(D) = d
    <3>1. D \in SUBSET Nat /\ D # {}
      BY <1>1, <1>8, <2>1
    <3>2. Min(D) \in D /\ \A k \in D : Min(D) <= k
      BY <3>1, MinIsLeast
    <3> HIDE DEF D
    <3>3. Min(D) <= d /\ d <= Min(D) /\ Min(D) \in Nat /\ d \in Nat
      BY <2>1, <3>1, <3>2
    <3> QED BY <3>3
  <2>3. TruncateAt(l, prev + Min(D)) = l
    BY <1>1, <2>0, <2>2 DEF TruncateAt
  <2> DEFINE u == SubSeq(es, d, Len(es))
  <2>4. u \in Seq(Entry) /\ Len(u) = last - n /\ \A j \in 1..Len(u) : u[j] = es[d + j - 1]
    <3>1. d \in 1..Len(es) /\ last - n = Len(es) - d + 1
      BY <1>5, <2>0
    <3>u. u = SubSeq(es, d, Len(es)) /\ es \in Seq(Entry)
      BY <1>5
    <3> HIDE DEF u
    <3>2. u \in Seq(Entry) /\ Len(u) = last - n /\ \A j \in 1..(last - n) : u[j] = es[d + j - 1]
      BY <3>1, <3>u, SuffixShape
    <3> QED BY <3>2
  <2>5. new = l \o u
    BY <1>2, <2>1, <2>2, <2>3
  <2> HIDE DEF u
  <2>6. ASSUME NEW j \in 1..Len(u) PROVE n + j \in 1..MaxIndex /\ u[j] = Committed(n + j)
    <3>0. j \in 1..(last - n)
      BY <2>4
    <3>1. d + j - 1 \in 1..len /\ prev + (d + j - 1) = n + j
      BY ONLY <1>1, <2>0, <3>0
    <3>2. u[j] = es[d + j - 1] /\ es[d + j - 1] = Committed(prev + (d + j - 1))
          /\ prev + (d + j - 1) \in 1..MaxIndex
      BY <1>3, <1>6, <2>4, <3>1
    <3> QED BY <3>1, <3>2
  <2>7. GoodLog(new) /\ FirstIndex(new) = f /\ new[1] = l[1] /\ LastIndex(new) = n + Len(u)
    <3>1. u \in Seq(Entry)
      BY <2>4
    <3>2. \A j \in 1..Len(u) : LastIndex(l) + j \in 1..MaxIndex /\ u[j] = Committed(LastIndex(l) + j)
      BY <2>6
    <3>3. /\ GoodLog(new) /\ FirstIndex(new) = FirstIndex(l) /\ new[1] = l[1]
          /\ LastIndex(new) = LastIndex(l) + Len(u)
      BY <2>5, <3>1, <3>2, ExtendGood, ZenonT(30)
    <3> QED BY <3>3 DEF f
  <2> QED BY <1>1, <1>10, <2>4, <2>7 DEF f
<1> QED BY <1>1, <1>9, <1>10

\* Compaction up to an index moves the floor there, or leaves it if it is ahead.
LEMMA CompactGood ==
  ASSUME NEW l, GoodLog(l), NEW i \in 1..MaxIndex, NEW t \in Nat, NEW new,
         new = Compact(l, i, Placeholder(i, t))
  PROVE  /\ GoodLog(new)
         /\ i <= FirstIndex(l) => new = l
         /\ i > FirstIndex(l) =>
              /\ FirstIndex(new) = i /\ new[1].term = t
              /\ LastIndex(new) = IF i <= LastIndex(l) THEN LastIndex(l) ELSE i
<1> DEFINE f == FirstIndex(l)
           n == LastIndex(l)
           len == Len(l)
           p == Placeholder(i, t)
<1>1. /\ len \in Nat /\ f \in Nat /\ n \in 0..MaxIndex /\ n = f + len - 1
      /\ MaxIndex \in Nat /\ i \in Nat /\ i \in 0..MaxIndex
  BY GoodLogLookups, CommittedAssumption
<1>2. l \in Seq(Entry)
  BY DEF GoodLog
<1> HIDE DEF f, n, len
<1>3. CASE i <= f
  BY <1>1, <1>3 DEF Compact, f
<1>4. CASE i > f
  <2> DEFINE from == i - f + 2
             u == SubSeq(l, from, len)
  <2>0. new = <<p>> \o u
    <3>1. ~(i <= f)
      BY <1>1, <1>4
    <3> QED BY <3>1 DEF Compact, f, len
  <2>1. GoodLog(<<p>>) /\ FirstIndex(<<p>>) = i /\ LastIndex(<<p>>) = i /\ <<p>>[1].term = t
    BY <1>1, PlaceholderLog
  <2> HIDE DEF p
  <2>2. CASE i >= n
    <3>1. u = <<>>
      <4>1. from \in Int /\ len \in Int /\ len < from
        BY <1>1, <2>2
      <4> QED BY <4>1, SubSeqEmpty
    <3>2. u \in Seq(Entry) /\ Len(u) = 0
      <4> HIDE DEF u
      <4> QED BY <3>1
    <3>3. GoodLog(new) /\ FirstIndex(new) = i /\ new[1] = <<p>>[1] /\ LastIndex(new) = i
      <4> HIDE DEF u
      <4>1. \A j \in 1..Len(u) : LastIndex(<<p>>) + j \in 1..MaxIndex
                                 /\ u[j] = Committed(LastIndex(<<p>>) + j)
        BY <3>2
      <4>2. LastIndex(<<p>>) + Len(u) = i
        BY <1>1, <2>1, <3>2
      <4> QED BY <2>0, <2>1, <3>2, <4>1, <4>2, ExtendGood
    <3> QED BY <1>1, <1>4, <2>1, <2>2, <3>3 DEF f, n
  <2>3. CASE i < n
    <3>1. from \in 1..len /\ n - i = len - from + 1
      BY <1>1, <1>4, <2>3
    <3>2. \A j \in 1..(n - i) : from + j - 1 = (i + j) - f + 1
      BY <1>1
    <3> HIDE DEF from
    <3>3. u \in Seq(Entry) /\ Len(u) = n - i /\ \A j \in 1..(n - i) : u[j] = l[from + j - 1]
      BY <1>2, <3>1, SuffixShape DEF len
    <3> HIDE DEF u
    <3>4. ASSUME NEW j \in 1..Len(u) PROVE i + j \in 1..MaxIndex /\ u[j] = Committed(i + j)
      <4>1. i + j \in (f + 1)..n /\ j \in 1..(n - i)
        BY <1>1, <1>4, <3>3
      <4>2. l[(i + j) - f + 1] = Committed(i + j) /\ i + j \in 1..MaxIndex
        BY <4>1, GoodLogLookups DEF f, n
      <4> QED BY <3>2, <3>3, <4>1, <4>2
    <3>5. GoodLog(new) /\ FirstIndex(new) = i /\ new[1] = <<p>>[1] /\ LastIndex(new) = i + Len(u)
      <4>1. u \in Seq(Entry)
        BY <3>3
      <4>2. \A j \in 1..Len(u) : LastIndex(<<p>>) + j \in 1..MaxIndex
                                 /\ u[j] = Committed(LastIndex(<<p>>) + j)
        BY <2>1, <3>4
      <4> DEFINE h == <<p>>
      <4>3. GoodLog(h) /\ FirstIndex(h) = i /\ LastIndex(h) = i /\ new = h \o u /\ h[1] = <<p>>[1]
        BY <2>0, <2>1
      <4>4. \A j \in 1..Len(u) : LastIndex(h) + j \in 1..MaxIndex
                                 /\ u[j] = Committed(LastIndex(h) + j)
        BY <4>2
      <4> HIDE DEF h
      <4>5. /\ GoodLog(new) /\ FirstIndex(new) = FirstIndex(h) /\ new[1] = h[1]
            /\ LastIndex(new) = LastIndex(h) + Len(u)
        BY <4>1, <4>3, <4>4, ExtendGood
      <4> QED BY <4>3, <4>5
    <3> QED BY <1>1, <1>4, <2>1, <2>3, <3>3, <3>5 DEF f, n
  <2> QED BY <1>1, <2>2, <2>3
<1> QED BY <1>1, <1>3, <1>4

-----------------------------------------------------------------------------
(***************************************************************************)
(* What the steps that touch the log do to it                              *)
(***************************************************************************)

\* Rules 3 to 5 leave the floor, never shorten the log, and commit at most what
\* the log then holds.
LEMMA AppendEffect ==
  ASSUME SnapTypeInv, NEW prev \in 0..MaxIndex, NEW last \in prev..MaxIndex, NEW commit \in 0..last,
         HandleAppendEntries(prev, last, commit)
  PROVE  /\ GoodLog(log')
         /\ FirstIndex(log') = FirstIndex(log) /\ log'[1] = log[1]
         /\ LastIndex(log) <= LastIndex(log')
         /\ commitIndex' \in 0..MaxIndex /\ commitIndex <= commitIndex'
         /\ commitIndex' = commitIndex \/ commitIndex' <= LastIndex(log')
<1>1. /\ GoodLog(log) /\ prev <= LastIndex(log)
      /\ log' = AppendAll(log, prev, [k \in 1..(last - prev) |-> Committed(prev + k)])
      /\ commitIndex' = Max({commitIndex, Min({commit, last})})
  BY DEF HandleAppendEntries, SnapTypeInv, Consistent
<1>2. /\ GoodLog(log')
      /\ FirstIndex(log') = FirstIndex(log) /\ log'[1] = log[1]
      /\ LastIndex(log') = IF last <= LastIndex(log) THEN LastIndex(log) ELSE last
  BY <1>1, AppendCommitted
<1>3. LastIndex(log) \in 0..MaxIndex /\ MaxIndex \in Nat /\ commitIndex \in 0..MaxIndex
      /\ last \in 0..MaxIndex /\ commit \in 0..MaxIndex /\ commit <= last
  BY <1>1, GoodLogLookups, CommittedAssumption DEF SnapTypeInv
<1>4. Min({commit, last}) = commit
  <2>1. {commit, last} \in SUBSET Nat /\ {commit, last} # {}
    BY <1>3
  <2>2. Min({commit, last}) \in {commit, last} /\ Min({commit, last}) <= commit
    BY <2>1, MinIsLeast
  <2> QED BY <1>3, <2>2
<1>5. /\ commitIndex' \in {commitIndex, commit}
      /\ commitIndex <= commitIndex'
  <2>1. {commitIndex, commit} \in SUBSET (0..MaxIndex) /\ {commitIndex, commit} # {}
    BY <1>3
  <2>2. Max({commitIndex, commit}) \in {commitIndex, commit}
        /\ commitIndex <= Max({commitIndex, commit})
    BY <1>3, <2>1, MaxIsGreatest
  <2> QED BY <1>1, <1>4, <2>2
<1>6. LastIndex(log) <= LastIndex(log') /\ last <= LastIndex(log')
  BY <1>2, <1>3
<1>7. LastIndex(log') \in 0..MaxIndex
  BY <1>2, GoodLogLookups
<1> QED BY <1>2, <1>3, <1>5, <1>6, <1>7

\* An installed snapshot leaves a log that is its placeholder.
LEMMA InstallEffect ==
  ASSUME SnapTypeInv, NEW idx \in 1..MaxIndex, NEW upTo \in idx..MaxIndex, NEW snap,
         snap = Snap(idx, TermOf(idx), 1..upTo), HandleInstallSnapshot(snap)
  PROVE  /\ snap \in Snapshot /\ snap.idx = idx /\ snap.term = TermOf(idx) /\ Complete(snap)
         /\ GoodLog(log') /\ log'[1].term = TermOf(idx)
         /\ FirstIndex(log') = idx /\ LastIndex(log') = idx
<1>1. /\ snap.idx = idx /\ snap.term = TermOf(idx) /\ snap.data = 1..upTo
      /\ snap = [idx |-> idx, term |-> TermOf(idx), data |-> 1..upTo]
  BY DEF Snap
<1>2. TermOf(idx) \in Nat /\ MaxIndex \in Nat
  BY CommittedIsEntry, CommittedAssumption
<1>3. 1..upTo \subseteq 1..MaxIndex /\ 1..idx \subseteq 1..upTo
  BY <1>2
<1>4. snap \in Snapshot /\ Complete(snap)
  BY <1>1, <1>2, <1>3 DEF Snapshot, Complete
<1>5. log' = <<Placeholder(idx, TermOf(idx))>> /\ idx \in 0..MaxIndex
  BY <1>1, <1>2 DEF HandleInstallSnapshot
<1> QED BY <1>1, <1>2, <1>4, <1>5, PlaceholderLog

\* CompactLog moves the floor to the saved snapshot, or leaves the log alone.
LEMMA CompactEffect ==
  ASSUME SnapTypeInv, CompactLog
  PROVE  /\ take.snap \in Snapshot /\ store = take.snap /\ store # NoSnap
         /\ GoodLog(log')
         /\ \/ log' = log
            \/ /\ FirstIndex(log') = take.snap.idx /\ log'[1].term = take.snap.term
               /\ FirstIndex(log) < take.snap.idx
               /\ LastIndex(log') = IF take.snap.idx <= LastIndex(log) THEN LastIndex(log)
                                                                      ELSE take.snap.idx
<1>1. take.snap \in Snapshot /\ store = take.snap /\ take.pc = "saved"
  BY DEF CompactLog, SnapTypeInv, TakeOK
<1>2. take.snap.idx \in 1..MaxIndex /\ take.snap.term \in Nat
  BY <1>1 DEF Snapshot
<1>3. NoSnap \notin Snapshot
  BY NoSnapAssumption, CommittedAssumption DEF Snapshot
<1>4. GoodLog(log) /\ log' = Compact(log, take.snap.idx, Placeholder(take.snap.idx, take.snap.term))
  BY DEF CompactLog, SnapTypeInv
<1>5. FirstIndex(log) \in Nat /\ take.snap.idx \in Nat
  BY <1>2, <1>4, GoodLogLookups, CommittedAssumption
<1> DEFINE i == take.snap.idx
           t == take.snap.term
           new == log'
<1>6. i \in 1..MaxIndex /\ t \in Nat /\ new = Compact(log, i, Placeholder(i, t))
  BY <1>2, <1>4
<1> HIDE DEF i, t, new
<1>7. /\ GoodLog(new)
      /\ i <= FirstIndex(log) => new = log
      /\ i > FirstIndex(log) =>
           /\ FirstIndex(new) = i /\ new[1].term = t
           /\ LastIndex(new) = IF i <= LastIndex(log) THEN LastIndex(log) ELSE i
  BY <1>4, <1>6, CompactGood
<1> QED BY <1>1, <1>3, <1>5, <1>7 DEF i, t, new

\* A restart leaves the placeholder of the stored snapshot.
LEMMA RestartEffect ==
  ASSUME SnapTypeInv, Restart, NEW idx, idx = IF store = NoSnap THEN 0 ELSE store.idx
  PROVE  /\ GoodLog(log') /\ FirstIndex(log') = idx /\ LastIndex(log') = idx
         /\ log'[1].term = IF store = NoSnap THEN 0 ELSE store.term
         /\ idx \in 0..MaxIndex /\ commitIndex' = idx /\ lastApplied' = idx
<1> DEFINE t == IF store = NoSnap THEN 0 ELSE store.term
<1>1. idx \in 0..MaxIndex /\ t \in Nat
  BY CommittedAssumption DEF SnapTypeInv, Snapshot
<1>2. log' = <<Placeholder(idx, t)>> /\ commitIndex' = idx /\ lastApplied' = idx
  BY DEF Restart
<1> HIDE DEF t
<1>3. GoodLog(log') /\ FirstIndex(log') = idx /\ LastIndex(log') = idx /\ log'[1].term = t
  BY <1>1, <1>2, PlaceholderLog
<1> QED BY <1>1, <1>2, <1>3 DEF t

-----------------------------------------------------------------------------
(***************************************************************************)
(* Types                                                                   *)
(***************************************************************************)

LEMMA SnapTypeInit == Init => SnapTypeInv
<1> SUFFICES ASSUME Init PROVE SnapTypeInv
  OBVIOUS
<1>1. GoodLog(log)
  BY PlaceholderLog, CommittedAssumption DEF Init
<1>2. apply.pc = "idle" /\ take.pc = "idle" /\ ApplyOK /\ TakeOK
  BY DEF Init, ApplyOK, TakeOK, Idle
<1>3. used \in [{"installs", "snapshots", "crashes"} -> Nat]
  BY DEF Init
<1>4. 0 \in 0..MaxIndex
  BY CommittedAssumption
<1> QED BY <1>1, <1>2, <1>3, <1>4 DEF Init, SnapTypeInv

\* Every step keeps SnapTypeInv.
LEMMA SnapTypeStep == SnapTypeInv /\ [Next]_vars => SnapTypeInv'
<1> SUFFICES ASSUME SnapTypeInv, [Next]_vars PROVE SnapTypeInv'
  OBVIOUS
<1>a. MaxIndex \in Nat /\ used \in [{"installs", "snapshots", "crashes"} -> Nat]
  BY CommittedAssumption DEF SnapTypeInv
<1>b. FirstIndex(log) \in 0..MaxIndex /\ LastIndex(log) \in 0..MaxIndex /\ GoodLog(log)
  BY GoodLogLookups DEF SnapTypeInv
<1>1. CASE UNCHANGED vars
  BY <1>1 DEF vars, history, SnapTypeInv, ApplyOK, TakeOK
<1>2. ASSUME NEW prev \in 0..MaxIndex, NEW last \in prev..MaxIndex, NEW commit \in 0..last,
             HandleAppendEntries(prev, last, commit)
      PROVE  SnapTypeInv'
  <2>1. GoodLog(log') /\ commitIndex' \in 0..MaxIndex
    BY <1>2, AppendEffect
  <2>2. applyCh' \in BOOLEAN
    BY <1>2 DEF HandleAppendEntries
  <2> QED BY <1>2, <2>1, <2>2 DEF HandleAppendEntries, history, SnapTypeInv, ApplyOK, TakeOK
<1>3. ASSUME NEW idx \in 1..MaxIndex, NEW upTo \in idx..MaxIndex,
             HandleInstallSnapshot(Snap(idx, TermOf(idx), 1..upTo))
      PROVE  SnapTypeInv'
  <2> DEFINE snap == Snap(idx, TermOf(idx), 1..upTo)
  <2>1. snap \in Snapshot /\ snap.idx = idx /\ GoodLog(log')
    BY <1>3, InstallEffect
  <2> HIDE DEF snap
  <2>2. HandleInstallSnapshot(snap)
    BY <1>3 DEF snap
  <2>3. used' \in [{"installs", "snapshots", "crashes"} -> Nat]
    BY <1>a, <2>2 DEF HandleInstallSnapshot, Spend
  <2>4. regressed' \in BOOLEAN /\ raced' \in BOOLEAN
    BY <2>2 DEF HandleInstallSnapshot, UseState
  <2>5. commitIndex' \in 0..MaxIndex /\ lastApplied' \in 0..MaxIndex /\ installed' \subseteq 1..MaxIndex
    BY <1>a, <2>1, <2>2 DEF HandleInstallSnapshot, SnapTypeInv
  <2> QED BY <2>1, <2>2, <2>3, <2>4, <2>5 DEF HandleInstallSnapshot, SnapTypeInv, ApplyOK, TakeOK
<1>4. ASSUME NEW snap \in restoring, RestoreInstalled(snap) PROVE SnapTypeInv'
  <2>1. dispatched' \subseteq 1..MaxIndex /\ restoring' \subseteq Snapshot
    BY <1>4 DEF RestoreInstalled, SnapTypeInv, Snapshot
  <2> QED BY <1>4, <2>1 DEF RestoreInstalled, history, SnapTypeInv, ApplyOK, TakeOK
<1>5. CASE ApplyWake
  BY <1>5 DEF ApplyWake, history, SnapTypeInv, ApplyOK, TakeOK
<1>6. CASE ApplyPick
  <2>1. lastApplied' \in 0..MaxIndex
    BY <1>6, <1>b DEF ApplyPick, SnapTypeInv
  <2>2. ApplyOK'
    <3>1. CASE apply' = Idle
      BY <3>1 DEF ApplyOK, Idle
    <3>2. CASE apply' # Idle
      <4>1. /\ apply' = Picked(lastApplied + 1)
            /\ lastApplied + 1 <= commitIndex /\ InLog(log, lastApplied + 1)
        BY <1>6, <3>2 DEF ApplyPick
      <4>2. lastApplied + 1 \in 1..MaxIndex
        BY <1>a, <4>1 DEF SnapTypeInv
      <4>3. EntryAt(log, lastApplied + 1) \in Entry
        <5>1. /\ FirstIndex(log) <= lastApplied + 1 /\ lastApplied + 1 <= LastIndex(log)
              /\ LastIndex(log) = FirstIndex(log) + Len(log) - 1 /\ Len(log) \in Nat
          BY <1>b, <4>1, GoodLogLookups DEF InLog
        <5>2. (lastApplied + 1) - FirstIndex(log) + 1 \in 1..Len(log)
          BY ONLY <1>a, <1>b, <4>2, <5>1
        <5>3. \A k \in 1..Len(log) : log[k] \in Entry
          BY <1>b, GoodLogLookups
        <5> QED BY <5>2, <5>3 DEF EntryAt
      <4>4. EntryAt(log, lastApplied + 1).cmd \in 0..MaxIndex
        BY <4>3 DEF Entry
      <4> HIDE DEF EntryAt
      <4>5. /\ apply'.pc = "picked" /\ apply'.idx = lastApplied + 1
            /\ apply'.cmd = EntryAt(log, lastApplied + 1).cmd
            /\ apply' = [pc |-> apply'.pc, idx |-> apply'.idx, cmd |-> apply'.cmd]
        BY <4>1 DEF Picked
      <4> QED BY <4>2, <4>4, <4>5 DEF ApplyOK
    <3> QED BY <3>1, <3>2
  <2> QED BY <1>6, <2>1, <2>2 DEF ApplyPick, history, SnapTypeInv, TakeOK
<1>7. CASE ApplyEntry
  <2>1. /\ apply = [pc |-> apply.pc, idx |-> apply.idx, cmd |-> apply.cmd]
        /\ apply.idx \in 1..MaxIndex /\ apply.cmd \in 0..MaxIndex
    BY <1>7 DEF ApplyEntry, SnapTypeInv, ApplyOK
  <2>2. apply' = [pc |-> "applied", idx |-> apply.idx, cmd |-> apply.cmd]
    BY <1>7, <2>1 DEF ApplyEntry
  <2>3. ApplyOK'
    BY <2>1, <2>2 DEF ApplyOK
  <2>4. dispatched' \subseteq 1..MaxIndex /\ raced' \in BOOLEAN
    BY <1>7, <1>a, <2>1 DEF ApplyEntry, UseState, SnapTypeInv
  <2> QED BY <1>7, <2>3, <2>4 DEF ApplyEntry, SnapTypeInv, TakeOK
<1>8. CASE ApplyDone
  <2>1. lastApplied' \in 0..MaxIndex
    BY <1>8, <1>a DEF ApplyDone, SnapTypeInv, ApplyOK
  <2> QED BY <1>8, <2>1 DEF ApplyDone, history, SnapTypeInv, ApplyOK, TakeOK
<1>9. CASE TakeSnapshot
  <2>1. lastApplied \in 1..MaxIndex /\ TermAt(log, lastApplied) \in Nat
    <3>1. lastApplied \in (FirstIndex(log) + 1)..MaxIndex
      BY <1>9, <1>a, <1>b DEF TakeSnapshot, SnapTypeInv
    <3>2. lastApplied <= LastIndex(log) => TermAt(log, lastApplied) = TermOf(lastApplied)
      BY <1>a, <1>b, <3>1, GoodLogLookups
    <3>3. ~(lastApplied <= LastIndex(log)) => TermAt(log, lastApplied) = 0
      BY DEF TermAt, InLog
    <3>4. lastApplied \in 1..MaxIndex
      BY <1>a, <1>b, <3>1
    <3> QED BY <3>2, <3>3, <3>4, CommittedIsEntry
  <2>2. /\ take' = [pc |-> "read", idx |-> lastApplied, term |-> TermAt(log, lastApplied)]
        /\ used' \in [{"installs", "snapshots", "crashes"} -> Nat]
    BY <1>9, <1>a DEF TakeSnapshot, Spend
  <2>3. TakeOK'
    BY <2>1, <2>2 DEF TakeOK
  <2> QED BY <1>9, <2>2, <2>3 DEF TakeSnapshot, history, SnapTypeInv, ApplyOK
<1>10. CASE SerializeState
  <2>1. take.idx \in 1..MaxIndex /\ take.term \in Nat /\ dispatched \subseteq 1..MaxIndex
    BY <1>10 DEF SerializeState, SnapTypeInv, TakeOK
  <2>2. Snap(take.idx, take.term, dispatched) \in Snapshot
    BY <2>1 DEF Snap, Snapshot
  <2>3. TakeOK'
    BY <1>10, <2>2 DEF SerializeState, TakeOK
  <2>4. raced' \in BOOLEAN
    BY <1>10 DEF SerializeState, UseState
  <2> QED BY <1>10, <2>3, <2>4 DEF SerializeState, SnapTypeInv, ApplyOK
<1>11. CASE Save
  <2>1. take = [pc |-> take.pc, snap |-> take.snap] /\ take.snap \in Snapshot
    BY <1>11 DEF Save, SnapTypeInv, TakeOK
  <2>2. CASE store' = take.snap /\ take' = [take EXCEPT !.pc = "saved"]
    <3>1. take' = [pc |-> "saved", snap |-> take.snap]
      BY <2>1, <2>2
    <3>2. TakeOK'
      BY <2>1, <2>2, <3>1 DEF TakeOK
    <3> QED BY <1>11, <2>1, <2>2, <3>2 DEF Save, history, SnapTypeInv, ApplyOK
  <2>3. CASE take' = Idle /\ UNCHANGED store
    BY <1>11, <2>3 DEF Save, history, SnapTypeInv, ApplyOK, TakeOK, Idle
  <2> QED BY <1>11, <2>2, <2>3 DEF Save
<1>12. CASE CompactLog
  <2>1. GoodLog(log') /\ take.snap \in Snapshot
    BY <1>12, CompactEffect
  <2> QED BY <1>12, <2>1 DEF CompactLog, history, SnapTypeInv, ApplyOK, TakeOK, Idle
<1>13. CASE Restart
  <2>1. GoodLog(log') /\ commitIndex' \in 0..MaxIndex /\ lastApplied' \in 0..MaxIndex
    BY <1>13, RestartEffect
  <2>2. used' \in [{"installs", "snapshots", "crashes"} -> Nat]
    BY <1>13, <1>a DEF Restart, Spend
  <2>3. dispatched' \subseteq 1..MaxIndex
    BY <1>13 DEF Restart, RestoredState, SnapTypeInv, Snapshot
  <2> QED BY <1>13, <2>1, <2>2, <2>3 DEF Restart, SnapTypeInv, ApplyOK, TakeOK, Idle
<1> QED
  BY <1>1, <1>2, <1>3, <1>4, <1>5, <1>6, <1>7, <1>8, <1>9, <1>10, <1>11, <1>12, <1>13 DEF Next

-----------------------------------------------------------------------------
(***************************************************************************)
(* Nothing is compacted before it is saved                                 *)
(***************************************************************************)

LEMMA FloorInit == Init => FloorInv
<1> SUFFICES ASSUME Init PROVE FloorInv
  OBVIOUS
<1>1. FirstIndex(log) = 0
  BY PlaceholderLog, CommittedAssumption DEF Init
<1>2. take.pc = "idle"
  BY DEF Init, Idle
<1> QED BY <1>1, <1>2 DEF FloorInv, FloorPersisted

\* Every step keeps FloorInv.
LEMMA FloorStep == SnapTypeInv /\ FloorInv /\ [Next]_vars => FloorInv'
<1> SUFFICES ASSUME SnapTypeInv, FloorInv, [Next]_vars PROVE FloorInv'
  OBVIOUS
<1>a. FirstIndex(log) \in Nat /\ NoSnap \notin Snapshot /\ MaxIndex \in Nat
  BY GoodLogLookups, NoSnapAssumption, CommittedAssumption DEF SnapTypeInv, Snapshot
<1>b. /\ take.pc \in {"idle", "read", "serialized", "saved"}
      /\ take.pc = "read" => take.idx \in Nat
      /\ take.pc \in {"serialized", "saved"} =>
            /\ take = [pc |-> take.pc, snap |-> take.snap]
            /\ take.snap \in Snapshot /\ take.snap.idx \in Nat
  BY <1>a DEF SnapTypeInv, TakeOK, Snapshot
<1>1. CASE FirstIndex(log') = FirstIndex(log) /\ UNCHANGED <<take, installed, store>>
  BY <1>1 DEF FloorInv, FloorPersisted, TakeIdx
<1>2. ASSUME NEW prev \in 0..MaxIndex, NEW last \in prev..MaxIndex, NEW commit \in 0..last,
             HandleAppendEntries(prev, last, commit)
      PROVE  FloorInv'
  <2>1. FirstIndex(log') = FirstIndex(log)
    BY <1>2, AppendEffect
  <2> QED BY <1>1, <1>2, <2>1 DEF HandleAppendEntries, history
<1>3. ASSUME NEW idx \in 1..MaxIndex, NEW upTo \in idx..MaxIndex,
             HandleInstallSnapshot(Snap(idx, TermOf(idx), 1..upTo))
      PROVE  FloorInv'
  <2>1. FirstIndex(log') = idx /\ Snap(idx, TermOf(idx), 1..upTo).idx = idx
    BY <1>3, InstallEffect
  <2>2. idx \in installed'
    BY <1>3, <2>1 DEF HandleInstallSnapshot
  <2> QED BY <2>1, <2>2 DEF FloorInv, FloorPersisted
<1>4. CASE \/ UNCHANGED vars \/ ApplyWake \/ ApplyPick \/ ApplyEntry \/ ApplyDone
           \/ \E snap \in restoring : RestoreInstalled(snap)
  <2>1. UNCHANGED <<log, take, installed, store>>
    BY <1>4 DEF vars, history, ApplyWake, ApplyPick, ApplyEntry, ApplyDone, RestoreInstalled
  <2> QED BY <1>1, <2>1
<1>5. CASE TakeSnapshot
  <2>1. take'.pc = "read" /\ take'.idx = lastApplied /\ lastApplied > FirstIndex(log)
        /\ UNCHANGED <<log, installed, store>>
    BY <1>5 DEF TakeSnapshot, history
  <2>2. lastApplied \in Nat
    BY <1>a DEF SnapTypeInv
  <2> QED BY <1>a, <2>1, <2>2 DEF FloorInv, FloorPersisted, TakeIdx
<1>6. CASE SerializeState
  <2>1. take'.pc = "serialized" /\ take'.snap.idx = take.idx /\ take.pc = "read"
        /\ UNCHANGED <<log, installed, store>>
    BY <1>6 DEF SerializeState, Snap
  <2> QED BY <2>1 DEF FloorInv, FloorPersisted, TakeIdx
<1>7. CASE Save
  <2>1. CASE store' = take.snap /\ take' = [take EXCEPT !.pc = "saved"]
    <3>1. take.pc = "serialized" /\ take'.pc = "saved" /\ take'.snap = take.snap
          /\ UNCHANGED <<log, installed>> /\ store' \in Snapshot
      BY <1>7, <1>b, <2>1 DEF Save, history
    <3>2. FirstIndex(log) \in installed \/ FirstIndex(log) <= take.snap.idx
      BY <3>1 DEF FloorInv, TakeIdx
    <3> QED BY <1>a, <1>b, <2>1, <3>1, <3>2 DEF FloorInv, FloorPersisted, TakeIdx
  <2>2. CASE take' = Idle /\ UNCHANGED store
    BY <1>7, <2>2 DEF Save, history, Idle, FloorInv, FloorPersisted
  <2> QED BY <1>7, <2>1, <2>2 DEF Save
<1>8. CASE CompactLog
  <2>1. /\ store = take.snap /\ store # NoSnap
        /\ log' = log \/ FirstIndex(log') = take.snap.idx
    BY <1>8, CompactEffect
  <2>2. take'.pc = "idle" /\ UNCHANGED <<store, installed>> /\ take.snap.idx \in Nat
    BY <1>8, <1>b DEF CompactLog, history, Idle
  <2> QED BY <2>1, <2>2 DEF FloorInv, FloorPersisted
<1>9. CASE Restart
  <2>1. FirstIndex(log') = IF store = NoSnap THEN 0 ELSE store.idx
    BY <1>9, RestartEffect
  <2>2. take'.pc = "idle" /\ UNCHANGED store
    BY <1>9 DEF Restart, Idle
  <2>3. store # NoSnap => store.idx \in Nat
    BY <1>a DEF SnapTypeInv, Snapshot
  <2> QED BY <2>1, <2>2, <2>3 DEF FloorInv, FloorPersisted
<1> QED BY <1>2, <1>3, <1>4, <1>5, <1>6, <1>7, <1>8, <1>9 DEF Next

-----------------------------------------------------------------------------
(***************************************************************************)
(* The indices stay within what is committed, and the terms are right      *)
(***************************************************************************)

LEMMA BoundsInit == Init => BoundsInv
<1> SUFFICES ASSUME Init PROVE BoundsInv
  OBVIOUS
<1>1. FirstIndex(log) = 0 /\ LastIndex(log) = 0 /\ log[1].term = 0
  BY PlaceholderLog, CommittedAssumption DEF Init
<1>2. take.pc = "idle" /\ apply.pc = "idle" /\ Snapshots = {} /\ commitIndex = 0 /\ lastApplied = 0
  BY DEF Init, Idle, Snapshots
<1> QED BY <1>1, <1>2 DEF BoundsInv, FirstIndex, TermOf

\* Every step keeps BoundsInv.
LEMMA BoundsStep == SnapTypeInv /\ SnapTypeInv' /\ BoundsInv /\ [Next]_vars => BoundsInv'
<1> SUFFICES ASSUME SnapTypeInv, SnapTypeInv', BoundsInv, [Next]_vars PROVE BoundsInv'
  OBVIOUS
<1>a. /\ FirstIndex(log) \in Nat /\ LastIndex(log) \in Nat /\ FirstIndex(log) = log[1].index
      /\ FirstIndex(log') \in Nat /\ LastIndex(log') \in Nat /\ FirstIndex(log') = log'[1].index
      /\ commitIndex \in Nat /\ lastApplied \in Nat /\ MaxIndex \in Nat
      /\ commitIndex' \in Nat /\ lastApplied' \in Nat
  <2>1. GoodLog(log) /\ GoodLog(log') /\ MaxIndex \in Nat
    BY CommittedAssumption DEF SnapTypeInv
  <2>2. FirstIndex(log) \in Nat /\ LastIndex(log) \in Nat /\ FirstIndex(log) = log[1].index
    BY <2>1, GoodLogLookups
  <2>3. FirstIndex(log') \in Nat /\ LastIndex(log') \in Nat /\ FirstIndex(log') = log'[1].index
    BY <2>1, GoodLogLookups
  <2>4. commitIndex \in Nat /\ lastApplied \in Nat /\ commitIndex' \in Nat /\ lastApplied' \in Nat
    BY <2>1 DEF SnapTypeInv
  <2> QED BY <2>1, <2>2, <2>3, <2>4
<1>b. /\ take.pc \in {"idle", "read", "serialized", "saved"}
      /\ take.pc = "read" => take.idx \in Nat
      /\ take.pc \in {"serialized", "saved"} =>
            /\ take = [pc |-> take.pc, snap |-> take.snap]
            /\ take.snap \in Snapshot /\ take.snap.idx \in Nat
      /\ take.pc # "idle" => TakeIdx \in Nat
  BY <1>a DEF SnapTypeInv, TakeOK, Snapshot, TakeIdx
<1>c. /\ apply.pc \in {"picked", "applied"} => apply.idx \in Nat
  BY <1>a DEF SnapTypeInv, ApplyOK
<1>1. CASE UNCHANGED vars
  BY <1>1 DEF vars, history, BoundsInv, Snapshots, TakeIdx
<1>2. ASSUME NEW prev \in 0..MaxIndex, NEW last \in prev..MaxIndex, NEW commit \in 0..last,
             HandleAppendEntries(prev, last, commit)
      PROVE  BoundsInv'
  <2>1. /\ FirstIndex(log') = FirstIndex(log) /\ log'[1] = log[1]
        /\ LastIndex(log) <= LastIndex(log')
        /\ commitIndex <= commitIndex'
        /\ commitIndex' = commitIndex \/ commitIndex' <= LastIndex(log')
    BY <1>2, AppendEffect
  <2>2. UNCHANGED <<lastApplied, lastSnapshot, apply, take, store, regressed>>
    BY <1>2 DEF HandleAppendEntries, history
  <2>3. UNCHANGED Snapshots /\ UNCHANGED TakeIdx
    BY <2>2 DEF Snapshots, TakeIdx
  <2> QED BY <1>a, <1>b, <1>c, <2>1, <2>2, <2>3 DEF BoundsInv
<1>3. ASSUME NEW idx \in 1..MaxIndex, NEW upTo \in idx..MaxIndex,
             HandleInstallSnapshot(Snap(idx, TermOf(idx), 1..upTo))
      PROVE  BoundsInv'
  <2> DEFINE snap == Snap(idx, TermOf(idx), 1..upTo)
  <2>1. /\ snap.idx = idx /\ snap.term = TermOf(idx)
        /\ FirstIndex(log') = idx /\ LastIndex(log') = idx /\ log'[1].term = TermOf(idx)
    BY <1>3, InstallEffect
  <2> HIDE DEF snap
  <2>2. /\ commitIndex' = idx /\ lastApplied' = idx /\ lastSnapshot' = snap
        /\ ~regressed' => ~regressed /\ ~(idx < commitIndex)
        /\ UNCHANGED <<apply, take, store>>
    BY <1>3, <2>1 DEF HandleInstallSnapshot, snap
  <2>a. idx \in Nat /\ (~regressed' => ~regressed /\ commitIndex <= idx)
    BY <1>a, <2>2
  <2>3. \A s \in Snapshots' : s \in Snapshots \/ s = snap
    BY <2>2 DEF Snapshots
  <2>4. UNCHANGED TakeIdx
    BY <2>2 DEF TakeIdx
  <2> QED BY <1>a, <1>b, <1>c, <2>a, <2>1, <2>2, <2>3, <2>4 DEF BoundsInv
<1>4. CASE ApplyWake \/ ApplyEntry \/ \E snap \in restoring : RestoreInstalled(snap)
  <2>1. /\ UNCHANGED <<log, commitIndex, lastApplied, lastSnapshot, take, store, regressed>>
        /\ apply'.pc \in {"picked", "applied"} =>
              apply.pc \in {"picked", "applied"} /\ apply'.idx = apply.idx
    <3>1. apply.pc = "picked" => apply = [pc |-> apply.pc, idx |-> apply.idx, cmd |-> apply.cmd]
      BY DEF SnapTypeInv, ApplyOK
    <3> QED BY <1>4, <3>1 DEF ApplyWake, ApplyEntry, RestoreInstalled, history
  <2>2. UNCHANGED Snapshots /\ UNCHANGED TakeIdx
    BY <2>1 DEF Snapshots, TakeIdx
  <2> QED BY <2>1, <2>2 DEF BoundsInv
<1>5. CASE ApplyPick
  <2>1. /\ UNCHANGED <<log, commitIndex, lastSnapshot, take, store, regressed>>
        /\ lastApplied' = lastApplied \/ lastApplied' = FirstIndex(log)
        /\ \/ apply'.pc = "idle"
           \/ apply'.pc = "picked" /\ apply'.idx = lastApplied + 1 /\ lastApplied + 1 <= commitIndex
    BY <1>5 DEF ApplyPick, Picked, Idle, history
  <2>2. UNCHANGED Snapshots /\ UNCHANGED TakeIdx
    BY <2>1 DEF Snapshots, TakeIdx
  <2> QED BY <2>1, <2>2 DEF BoundsInv
<1>6. CASE ApplyDone
  <2>1. /\ UNCHANGED <<log, commitIndex, lastSnapshot, take, store, regressed>>
        /\ apply.pc = "applied" /\ lastApplied' = apply.idx /\ apply'.pc = "loop"
    BY <1>6 DEF ApplyDone, history
  <2>2. UNCHANGED Snapshots /\ UNCHANGED TakeIdx
    BY <2>1 DEF Snapshots, TakeIdx
  <2> QED BY <2>1, <2>2 DEF BoundsInv
<1>7. CASE TakeSnapshot
  <2>1. /\ take'.pc = "read" /\ take'.idx = lastApplied /\ take'.term = TermAt(log, lastApplied)
        /\ lastApplied > FirstIndex(log)
        /\ UNCHANGED <<log, commitIndex, lastApplied, lastSnapshot, apply, store, regressed>>
    BY <1>7 DEF TakeSnapshot, history
  <2>2. lastApplied <= LastIndex(log) => TermAt(log, lastApplied) = TermOf(lastApplied)
    <3>1. lastApplied <= LastIndex(log) => lastApplied \in (FirstIndex(log) + 1)..LastIndex(log)
      BY <1>a, <2>1
    <3> QED BY <3>1, GoodLogLookups DEF SnapTypeInv
  <2>3. UNCHANGED Snapshots /\ TakeIdx' = lastApplied
    BY <2>1 DEF Snapshots, TakeIdx
  <2> QED BY <1>a, <2>1, <2>2, <2>3 DEF BoundsInv
<1>8. CASE SerializeState
  <2>1. /\ take'.pc = "serialized" /\ take.pc = "read"
        /\ take'.snap.idx = take.idx /\ take'.snap.term = take.term
        /\ UNCHANGED <<log, commitIndex, lastApplied, lastSnapshot, apply, store, regressed>>
    BY <1>8 DEF SerializeState, Snap
  <2>2. UNCHANGED Snapshots /\ TakeIdx' = TakeIdx
    BY <2>1 DEF Snapshots, TakeIdx
  <2> QED BY <2>1, <2>2 DEF BoundsInv
<1>9. CASE Save
  <2>0. take.pc = "serialized"
        /\ UNCHANGED <<log, commitIndex, lastApplied, lastSnapshot, apply, regressed>>
    BY <1>9 DEF Save, history
  <2>1. CASE store' = take.snap /\ take' = [take EXCEPT !.pc = "saved"]
    <3>1. take'.pc = "saved" /\ take'.snap = take.snap
      BY <1>b, <2>0, <2>1
    <3>2. TakeIdx' = TakeIdx /\ \A s \in Snapshots' : s \in Snapshots \/ s = take.snap
      BY <2>0, <2>1, <3>1 DEF Snapshots, TakeIdx
    <3> QED BY <2>0, <2>1, <3>1, <3>2 DEF BoundsInv
  <2>2. CASE take' = Idle /\ UNCHANGED store
    <3>1. take'.pc = "idle" /\ UNCHANGED Snapshots
      BY <2>0, <2>2 DEF Idle, Snapshots
    <3> QED BY <2>0, <3>1 DEF BoundsInv
  <2> QED BY <1>9, <2>1, <2>2 DEF Save
<1>10. CASE CompactLog
  <2>1. \/ log' = log
        \/ /\ FirstIndex(log') = take.snap.idx /\ log'[1].term = take.snap.term
           /\ LastIndex(log') = IF take.snap.idx <= LastIndex(log) THEN LastIndex(log)
                                                                  ELSE take.snap.idx
    BY <1>10, CompactEffect
  <2>2. /\ take'.pc = "idle" /\ take.pc = "saved" /\ TakeIdx = take.snap.idx
        /\ UNCHANGED <<commitIndex, lastApplied, apply, regressed>>
        /\ \A s \in Snapshots' : s \in Snapshots \/ s = take.snap
    BY <1>10 DEF CompactLog, history, Idle, Snapshots, TakeIdx
  <2> QED BY <1>a, <1>b, <2>1, <2>2 DEF BoundsInv
<1>11. CASE Restart
  <2> DEFINE idx == IF store = NoSnap THEN 0 ELSE store.idx
  <2>1. /\ FirstIndex(log') = idx /\ LastIndex(log') = idx
        /\ log'[1].term = IF store = NoSnap THEN 0 ELSE store.term
        /\ commitIndex' = idx /\ lastApplied' = idx
    BY <1>11, RestartEffect
  <2>2. /\ take'.pc = "idle" /\ apply'.pc = "idle" /\ UNCHANGED regressed
        /\ Snapshots' \subseteq Snapshots /\ (store # NoSnap => store \in Snapshots)
    BY <1>11 DEF Restart, Idle, Snapshots
  <2>3. idx \in Nat /\ TermOf(0) = 0
    BY <1>a, <2>1 DEF TermOf
  <2> QED BY <1>a, <2>1, <2>2, <2>3 DEF BoundsInv
<1> QED BY <1>1, <1>2, <1>3, <1>4, <1>5, <1>6, <1>7, <1>8, <1>9, <1>10, <1>11 DEF Next

-----------------------------------------------------------------------------
(***************************************************************************)
(* The state machine holds what it is said to hold                         *)
(***************************************************************************)

\* With no Restore due, held is in the state.
LEMMA HeldNow ==
  ASSUME NEW i, NEW state
  PROVE  HeldBy(i, {}, state) <=> 1..i \subseteq state
  BY DEF HeldBy

\* With one Restore due, held is in its snapshot.
LEMMA HeldThen ==
  ASSUME NEW i, NEW state, NEW snap
  PROVE  HeldBy(i, {snap}, state) <=> i <= snap.idx
  BY DEF HeldBy

\* Adding to the state keeps what is held.
LEMMA HeldMore ==
  ASSUME NEW i, NEW due, NEW state, NEW more, HeldBy(i, due, state), state \subseteq more
  PROVE  HeldBy(i, due, more)
  BY DEF HeldBy

LEMMA StateInit == Init => StateInv
<1> SUFFICES ASSUME Init PROVE StateInv
  OBVIOUS
<1>1. FirstIndex(log) = 0
  BY PlaceholderLog, CommittedAssumption DEF Init
<1>2. take.pc = "idle" /\ apply.pc = "idle" /\ Snapshots = {} /\ lastApplied = 0 /\ restoring = {}
  BY DEF Init, Idle, Snapshots
<1>3. HeldBy(0, {}, dispatched)
  BY HeldNow
<1> QED BY <1>1, <1>2, <1>3 DEF StateInv, Held

\* Every step keeps StateInv.
LEMMA StateStep ==
  SnapTypeInv /\ SnapTypeInv' /\ BoundsInv /\ BoundsInv' /\ StateInv /\ [Next]_vars => StateInv'
<1> SUFFICES ASSUME SnapTypeInv, SnapTypeInv', BoundsInv, BoundsInv', StateInv, [Next]_vars,
                    ~raced', ~regressed'
             PROVE  StateInv'
  BY DEF StateInv
<1>a. /\ FirstIndex(log) \in Nat /\ commitIndex \in Nat /\ lastApplied \in Nat /\ MaxIndex \in Nat
      /\ restoring \subseteq Snapshot
  <2>1. GoodLog(log) /\ MaxIndex \in Nat
    BY CommittedAssumption DEF SnapTypeInv
  <2>2. FirstIndex(log) \in Nat
    BY <2>1, GoodLogLookups
  <2> QED BY <2>1, <2>2 DEF SnapTypeInv
<1>b. /\ take.pc \in {"idle", "read", "serialized", "saved"}
      /\ take.pc \in {"serialized", "saved"} => take = [pc |-> take.pc, snap |-> take.snap]
      /\ take.pc # "idle" => TakeIdx \in Nat
  BY <1>a DEF SnapTypeInv, TakeOK, Snapshot, TakeIdx
<1>c. /\ apply.pc \in {"idle", "loop", "picked", "applied"}
      /\ apply.pc \in {"picked", "applied"} =>
           /\ apply = [pc |-> apply.pc, idx |-> apply.idx, cmd |-> apply.cmd]
           /\ apply.idx \in Nat /\ apply.idx >= 1
  BY <1>a DEF SnapTypeInv, ApplyOK
<1>1. CASE UNCHANGED vars
  BY <1>1 DEF vars, history, StateInv, Held, Snapshots, TakeIdx
<1>2. ASSUME NEW prev \in 0..MaxIndex, NEW last \in prev..MaxIndex, NEW commit \in 0..last,
             HandleAppendEntries(prev, last, commit)
      PROVE  StateInv'
  <2>1. FirstIndex(log') = FirstIndex(log)
    BY <1>2, AppendEffect
  <2>2. UNCHANGED <<lastApplied, lastSnapshot, dispatched, apply, take, restoring, store,
                    regressed, raced>>
    BY <1>2 DEF HandleAppendEntries, history
  <2>3. UNCHANGED Snapshots /\ UNCHANGED TakeIdx
    BY <2>2 DEF Snapshots, TakeIdx
  <2> QED BY <2>1, <2>2, <2>3 DEF StateInv, Held
<1>3. ASSUME NEW idx \in 1..MaxIndex, NEW upTo \in idx..MaxIndex,
             HandleInstallSnapshot(Snap(idx, TermOf(idx), 1..upTo))
      PROVE  StateInv'
  <2> DEFINE snap == Snap(idx, TermOf(idx), 1..upTo)
  <2>1. snap.idx = idx /\ FirstIndex(log') = idx /\ Complete(snap)
    BY <1>3, InstallEffect
  <2> HIDE DEF snap
  <2>2. /\ lastApplied' = idx /\ lastSnapshot' = snap
        /\ ~regressed /\ ~(idx < commitIndex)
        /\ restoring' = restoring \cup {snap}
        /\ ~raced /\ restoring = {}
        /\ UNCHANGED <<apply, take, store, dispatched>>
    BY <1>3, <2>1 DEF HandleInstallSnapshot, UseState, snap
  <2>3. commitIndex <= idx /\ idx \in Nat /\ restoring' = {snap}
    BY <1>a, <2>2
  <2>4. \A s \in Snapshots' : s \in Snapshots \/ s = snap
    BY <2>2 DEF Snapshots
  <2>5. UNCHANGED TakeIdx
    BY <2>2 DEF TakeIdx
  <2>6. \A i \in Int : i <= idx => HeldBy(i, restoring', dispatched')
    BY <2>1, <2>3, HeldThen
  <2>7. \A s \in restoring' \cup Snapshots' : Complete(s)
    BY <2>1, <2>2, <2>3, <2>4 DEF StateInv
  <2>8. Held(lastApplied)' /\ Held(FirstIndex(log))'
    BY <2>1, <2>2, <2>3, <2>6 DEF Held
  <2>b. /\ apply.pc \in {"picked", "applied"} => apply.idx <= commitIndex
        /\ take.pc # "idle" => TakeIdx <= commitIndex
    BY <2>2 DEF BoundsInv
  <2>c. /\ apply.pc \in {"picked", "applied"} =>
               apply.idx <= idx /\ apply.idx - 1 <= idx /\ apply.idx \in Int /\ apply.idx - 1 \in Int
        /\ take.pc # "idle" => TakeIdx <= idx /\ TakeIdx \in Int
    BY <1>a, <1>b, <1>c, <2>3, <2>b
  <2>9. apply'.pc = "picked" => /\ Held(apply.idx - 1)'
                                /\ apply'.cmd = apply'.idx \/ Held(apply.idx)'
    BY <2>2, <2>6, <2>c DEF Held
  <2>10. apply'.pc = "applied" => Held(apply.idx)'
    BY <2>2, <2>6, <2>c DEF Held
  <2>11. take'.pc # "idle" => Held(TakeIdx)'
    BY <2>2, <2>5, <2>6, <2>c DEF Held
  <2>12. take'.pc \in {"serialized", "saved"} => Complete(take'.snap)
    BY <2>2 DEF StateInv
  <2> QED BY <2>3, <2>7, <2>8, <2>9, <2>10, <2>11, <2>12 DEF StateInv
<1>4. ASSUME NEW snap \in restoring, RestoreInstalled(snap) PROVE StateInv'
  <2>1. UNCHANGED <<log, lastApplied, lastSnapshot, apply, take, store, regressed, raced>>
        /\ restoring' = restoring \ {snap} /\ dispatched' = snap.data
    BY <1>4 DEF RestoreInstalled, history
  <2>2. restoring = {snap} /\ restoring' = {} /\ Complete(snap)
    BY <2>1 DEF StateInv
  <2>3. UNCHANGED Snapshots /\ UNCHANGED TakeIdx
    BY <2>1 DEF Snapshots, TakeIdx
  <2>4. \A i \in Int : HeldBy(i, restoring, dispatched) => HeldBy(i, restoring', dispatched')
    <3> SUFFICES ASSUME NEW i \in Int, HeldBy(i, restoring, dispatched)
                 PROVE  HeldBy(i, restoring', dispatched')
      OBVIOUS
    <3>1. i <= snap.idx /\ snap.idx \in Int
      BY <1>a, <2>2, HeldThen DEF Snapshot
    <3>2. 1..i \subseteq snap.data
      BY <2>2, <3>1 DEF Complete
    <3> QED BY <2>1, <2>2, <3>2, HeldNow
  <2> QED BY <1>a, <1>b, <1>c, <2>1, <2>2, <2>3, <2>4 DEF StateInv, Held
<1>5. CASE ApplyWake
  <2>1. UNCHANGED <<log, lastApplied, lastSnapshot, dispatched, take, restoring, store, regressed, raced>>
        /\ apply'.pc = "loop"
    BY <1>5 DEF ApplyWake, history
  <2>2. UNCHANGED Snapshots /\ UNCHANGED TakeIdx
    BY <2>1 DEF Snapshots, TakeIdx
  <2> QED BY <2>1, <2>2 DEF StateInv, Held
<1>6. CASE ApplyPick
  <2>1. UNCHANGED <<log, lastSnapshot, dispatched, take, restoring, store, regressed, raced>>
    BY <1>6 DEF ApplyPick, history
  <2>2. UNCHANGED Snapshots /\ UNCHANGED TakeIdx
    BY <2>1 DEF Snapshots, TakeIdx
  <2>3. lastApplied' = lastApplied \/ lastApplied' = FirstIndex(log)
    BY <1>6 DEF ApplyPick
  <2>4. ASSUME apply' # Idle
        PROVE  /\ apply'.pc = "picked" /\ apply'.idx = lastApplied + 1
               /\ apply'.cmd = apply'.idx \/ apply'.idx = FirstIndex(log)
    <3>1. apply' = Picked(lastApplied + 1) /\ InLog(log, lastApplied + 1)
      BY <1>6, <2>4 DEF ApplyPick
    <3>2. apply'.pc = "picked" /\ apply'.idx = lastApplied + 1
          /\ apply'.cmd = EntryAt(log, lastApplied + 1).cmd
      BY <3>1 DEF Picked
    <3>3. CASE lastApplied + 1 = FirstIndex(log)
      BY <3>2, <3>3
    <3>4. CASE lastApplied + 1 # FirstIndex(log)
      <4>1. LastIndex(log) \in Int /\ GoodLog(log)
        BY GoodLogLookups DEF SnapTypeInv
      <4>2. lastApplied + 1 \in (FirstIndex(log) + 1)..LastIndex(log)
        BY <1>a, <3>1, <3>4, <4>1 DEF InLog
      <4>3. EntryAt(log, lastApplied + 1) = Committed(lastApplied + 1)
            /\ lastApplied + 1 \in 1..MaxIndex
        BY <4>1, <4>2, GoodLogLookups
      <4> QED BY <3>2, <4>3, CommittedIsEntry
    <3> QED BY <3>3, <3>4
  <2>5. CASE apply' = Idle
    <3>1. apply'.pc = "idle"
      BY <2>5 DEF Idle
    <3> QED BY <2>1, <2>2, <2>3, <3>1 DEF StateInv, Held
  <2>6. CASE apply' # Idle
    <3>1. apply'.idx - 1 = lastApplied
      BY <1>a, <2>4, <2>6
    <3> QED BY <2>1, <2>2, <2>3, <2>4, <2>6, <3>1 DEF StateInv, Held
  <2> QED BY <2>5, <2>6
<1>7. CASE ApplyEntry
  <2>1. /\ UNCHANGED <<log, lastApplied, lastSnapshot, take, restoring, store, regressed>>
        /\ ~raced /\ restoring = {} /\ apply.pc = "picked"
        /\ dispatched' = dispatched \cup ({apply.cmd} \ {0})
    BY <1>7 DEF ApplyEntry, UseState
  <2>2. apply'.pc = "applied" /\ apply'.idx = apply.idx
    BY <1>7, <1>c, <2>1 DEF ApplyEntry
  <2>3. UNCHANGED Snapshots /\ UNCHANGED TakeIdx
    BY <2>1 DEF Snapshots, TakeIdx
  <2>4. \A i : HeldBy(i, restoring, dispatched) => HeldBy(i, restoring', dispatched')
    BY <2>1, HeldMore
  <2>5. HeldBy(apply.idx, restoring', dispatched')
    <3>1. CASE HeldBy(apply.idx, restoring, dispatched)
      BY <2>4, <3>1
    <3>2. CASE apply.cmd = apply.idx
      <4>1. 1..(apply.idx - 1) \subseteq dispatched
        BY <2>1, HeldNow DEF StateInv, Held
      <4>2. 1..apply.idx \subseteq dispatched'
        BY <1>c, <2>1, <3>2, <4>1
      <4> QED BY <2>1, <4>2, HeldNow
    <3> QED BY <2>1, <3>1, <3>2 DEF StateInv, Held
  <2> QED BY <2>1, <2>2, <2>3, <2>4, <2>5 DEF StateInv, Held
<1>8. CASE ApplyDone
  <2>1. /\ UNCHANGED <<log, lastSnapshot, dispatched, take, restoring, store, regressed, raced>>
        /\ apply.pc = "applied" /\ lastApplied' = apply.idx /\ apply'.pc = "loop"
    BY <1>8 DEF ApplyDone, history
  <2>2. UNCHANGED Snapshots /\ UNCHANGED TakeIdx
    BY <2>1 DEF Snapshots, TakeIdx
  <2> QED BY <2>1, <2>2 DEF StateInv, Held
<1>9. CASE TakeSnapshot
  <2>1. /\ take'.pc = "read" /\ take'.idx = lastApplied
        /\ UNCHANGED <<log, lastApplied, lastSnapshot, dispatched, apply, restoring, store,
                       regressed, raced>>
    BY <1>9 DEF TakeSnapshot, history
  <2>2. UNCHANGED Snapshots /\ TakeIdx' = lastApplied
    BY <2>1 DEF Snapshots, TakeIdx
  <2> QED BY <2>1, <2>2 DEF StateInv, Held
<1>10. CASE SerializeState
  <2>1. /\ take'.pc = "serialized" /\ take.pc = "read"
        /\ take'.snap.idx = take.idx /\ take'.snap.data = dispatched
        /\ ~raced /\ restoring = {}
        /\ UNCHANGED <<log, lastApplied, lastSnapshot, dispatched, apply, restoring, store, regressed>>
    BY <1>10 DEF SerializeState, Snap, UseState
  <2>2. UNCHANGED Snapshots /\ TakeIdx' = TakeIdx /\ TakeIdx = take.idx
    BY <2>1 DEF Snapshots, TakeIdx
  <2>3. Complete(take'.snap)
    <3>1. 1..take.idx \subseteq dispatched
      BY <2>1, <2>2, HeldNow DEF StateInv, Held
    <3> QED BY <2>1, <3>1 DEF Complete
  <2> QED BY <2>1, <2>2, <2>3 DEF StateInv, Held
<1>11. CASE Save
  <2>0. take.pc = "serialized"
        /\ UNCHANGED <<log, lastApplied, lastSnapshot, dispatched, apply, restoring, regressed, raced>>
    BY <1>11 DEF Save, history
  <2>1. CASE store' = take.snap /\ take' = [take EXCEPT !.pc = "saved"]
    <3>1. take'.pc = "saved" /\ take'.snap = take.snap
      BY <1>b, <2>0, <2>1
    <3>2. TakeIdx' = TakeIdx /\ \A s \in Snapshots' : s \in Snapshots \/ s = take.snap
      BY <2>0, <2>1, <3>1 DEF Snapshots, TakeIdx
    <3> QED BY <2>0, <2>1, <3>1, <3>2 DEF StateInv, Held
  <2>2. CASE take' = Idle /\ UNCHANGED store
    <3>1. take'.pc = "idle" /\ UNCHANGED Snapshots
      BY <2>0, <2>2 DEF Idle, Snapshots
    <3> QED BY <2>0, <3>1 DEF StateInv, Held
  <2> QED BY <1>11, <2>1, <2>2 DEF Save
<1>12. CASE CompactLog
  <2>1. log' = log \/ FirstIndex(log') = take.snap.idx
    BY <1>12, CompactEffect
  <2>2. /\ take'.pc = "idle" /\ take.pc = "saved" /\ TakeIdx = take.snap.idx
        /\ UNCHANGED <<lastApplied, dispatched, apply, restoring, regressed, raced>>
        /\ \A s \in Snapshots' : s \in Snapshots \/ s = take.snap
    BY <1>12 DEF CompactLog, history, Idle, Snapshots, TakeIdx
  <2> QED BY <2>1, <2>2 DEF StateInv, Held
<1>13. CASE Restart
  <2> DEFINE idx == IF store = NoSnap THEN 0 ELSE store.idx
  <2>1. FirstIndex(log') = idx /\ lastApplied' = idx
    BY <1>13, RestartEffect
  <2>2. /\ take'.pc = "idle" /\ apply'.pc = "idle" /\ restoring' = {}
        /\ UNCHANGED <<regressed, raced>>
        /\ Snapshots' \subseteq Snapshots /\ (store # NoSnap => store \in Snapshots)
        /\ dispatched' = RestoredState
    BY <1>13 DEF Restart, Idle, Snapshots
  <2>3. 1..idx \subseteq dispatched'
    BY <2>2 DEF RestoredState, StateInv, Complete
  <2>4. HeldBy(idx, restoring', dispatched')
    BY <2>2, <2>3, HeldNow
  <2> QED BY <2>1, <2>2, <2>4 DEF StateInv, Held
<1> QED
  BY <1>1, <1>2, <1>3, <1>4, <1>5, <1>6, <1>7, <1>8, <1>9, <1>10, <1>11, <1>12, <1>13 DEF Next

-----------------------------------------------------------------------------
(***************************************************************************)
(* Theorems                                                                *)
(***************************************************************************)

SnapInv == SnapTypeInv /\ FloorInv /\ BoundsInv /\ StateInv

\* SnapInv is inductive.
LEMMA SnapInvariant == Spec => []SnapInv
<1>1. Init => SnapInv
  BY SnapTypeInit, FloorInit, BoundsInit, StateInit DEF SnapInv
<1>2. SnapInv /\ [Next]_vars => SnapInv'
  BY SnapTypeStep, FloorStep, BoundsStep, StateStep DEF SnapInv
<1> QED BY <1>1, <1>2, PTL DEF Spec

\* SnapTypeInv gives the types the runs check.
LEMMA SnapTypeOK == SnapTypeInv => TypeOK
<1> SUFFICES ASSUME SnapTypeInv PROVE TypeOK
  OBVIOUS
<1>1. Len(log) > 0 /\ \A k \in 1..Len(log) : log[k] \in Entry
  BY GoodLogLookups DEF SnapTypeInv
<1>2. \A s \in Snapshots \cup restoring : s \in Snapshot
  BY DEF SnapTypeInv, Snapshots
<1> QED BY <1>1, <1>2 DEF TypeOK, SnapTypeInv, ApplyOK, TakeOK, Entry, Snapshot

\* Whatever appends, applications, compactions, installations and restarts
\* interleave, the log is contiguous, holds what the cluster committed and
\* answers termAt truthfully at its floor, unless commitIndex was taken back.
THEOREM LogsAreTruthful == Spec => []LogTruthful
<1>1. SnapInv => LogTruthful
  BY SnapTypeOK DEF SnapInv, SnapTypeInv, BoundsInv, GoodLog, LogTruthful
<1> QED BY <1>1, SnapInvariant, PTL

\* compactLogLocked never drops an entry that no saved snapshot covers: a floor
\* that was not installed is in S3.
THEOREM FloorIsPersisted == Spec => []FloorPersisted
<1>1. SnapInv => FloorPersisted
  BY DEF SnapInv, FloorInv
<1> QED BY <1>1, SnapInvariant, PTL

\* A snapshot, saved or cached, holds every entry up to its index, although
\* TakeSnapshot reads the index and the state in two critical sections.
THEOREM SnapshotsAreComplete == Spec => []SnapshotComplete
<1>1. SnapInv => SnapshotComplete
  BY DEF SnapInv, StateInv, Complete, SnapshotComplete
<1> QED BY <1>1, SnapInvariant, PTL

\* The state machine loses an applied entry only through an installation that
\* raced its Restore or was behind commitIndex.
THEOREM AppliedIsHeld == Spec => []AppliedHeld
<1>1. SnapInv => AppliedHeld
  BY HeldNow DEF SnapInv, StateInv, Held, AppliedHeld, RestoreLosesNothing
<1> QED BY <1>1, SnapInvariant, PTL
=============================================================================
