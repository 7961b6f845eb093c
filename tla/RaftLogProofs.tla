--------------------------- MODULE RaftLogProofs ---------------------------
(***************************************************************************)
(* Facts about the log operators, for every log whose placeholder has      *)
(* index 0 (a node that has not compacted).  AppendAllShape says what rule *)
(* 4 of HandleAppendEntries leaves in the log, position by position.       *)
(* ClosedFormIsLoop says that this is what the loop in the code leaves.    *)
(***************************************************************************)
EXTENDS RaftLog, SequenceTheorems, WellFoundedInduction, TLAPS

\* Min of a non-empty set of naturals is its least element.
LEMMA MinIsLeast ==
    ASSUME NEW S \in SUBSET Nat, S # {}
    PROVE  Min(S) \in S /\ \A y \in S : Min(S) <= y
  <1> DEFINE R == {ss \in Nat \X Nat : ss[1] < ss[2]}
  <1>1. IsWellFoundedOn(R, Nat)
    BY NatLessThanWellFounded DEF OpToRel
  <1> HIDE DEF R
  <1>2. PICK x \in S : \A y \in S : ~ (<<y, x>> \in R)
    BY <1>1, WFMin
  <1>3. \A y \in S : x <= y
    <2> SUFFICES ASSUME NEW y \in S PROVE x <= y
      OBVIOUS
    <2>1. ~ (<<y, x>> \in R)
      BY <1>2
    <2>2. <<y, x>> \in Nat \X Nat
      OBVIOUS
    <2> QED
      BY <2>1, <2>2 DEF R
  <1> QED
    BY <1>3 DEF Min

\* Max of a non-empty bounded set of naturals is its greatest element.
LEMMA MaxIsGreatest ==
    ASSUME NEW b \in Nat, NEW S \in SUBSET (0..b), S # {}
    PROVE  Max(S) \in S /\ \A y \in S : y <= Max(S)
  <1> DEFINE T == {b - y : y \in S}
  <1>1. T \in SUBSET Nat /\ T # {}
    <2>1. ASSUME NEW y \in S PROVE b - y \in Nat
      OBVIOUS
    <2> QED
      BY <2>1
  <1>2. Min(T) \in T /\ \A y \in T : Min(T) <= y
    BY <1>1, MinIsLeast
  <1>3. PICK x \in S : Min(T) = b - x
    BY <1>2
  <1>4. \A y \in S : x >= y
    BY <1>2, <1>3
  <1> QED
    BY <1>4 DEF Max

-----------------------------------------------------------------------------
\* A log over the entries in S that starts at index 0 and is contiguous.
LogFrom0(l, S) ==
    /\ l \in Seq(S)
    /\ Len(l) > 0
    /\ \A k \in 1..Len(l) : l[k].index = k - 1

\* Entries a request carries after prevIdx.
BatchAfter(es, prevIdx, S) ==
    /\ es \in Seq(S)
    /\ \A k \in 1..Len(es) : es[k].index = prevIdx + k

\* The first and last index and the lookups of such a log, by position.
LEMMA LogFrom0Lookups ==
    ASSUME NEW S, NEW l, LogFrom0(l, S)
    PROVE  /\ Len(l) \in Nat
           /\ FirstIndex(l) = 0
           /\ LastIndex(l) = Len(l) - 1
           /\ LastTerm(l) = l[Len(l)].term
           /\ \A i \in Int : InLog(l, i) <=> i \in 0..(Len(l) - 1)
           /\ \A i \in Int : EntryAt(l, i) = l[i + 1]
           /\ \A i \in 0..(Len(l) - 1) : TermAt(l, i) = l[i + 1].term
  <1>1. Len(l) \in Nat /\ Len(l) >= 1
    BY DEF LogFrom0
  <1>2. FirstIndex(l) = 0 /\ LastIndex(l) = Len(l) - 1
    BY <1>1 DEF LogFrom0, FirstIndex, LastIndex
  <1> QED
    BY <1>1, <1>2 DEF InLog, EntryAt, TermAt, LastTerm

\* What TruncateAt leaves: the positions before idx.
LEMMA TruncateShape ==
    ASSUME NEW S, NEW l, LogFrom0(l, S), NEW idx \in 1..Len(l)
    PROVE  /\ TruncateAt(l, idx) \in Seq(S)
           /\ Len(TruncateAt(l, idx)) = idx
           /\ \A k \in 1..idx : TruncateAt(l, idx)[k] = l[k]
  <1>1. Len(l) \in Nat /\ l \in Seq(S)
    BY DEF LogFrom0
  <1>a. FirstIndex(l) = 0 /\ LastIndex(l) = Len(l) - 1
    BY LogFrom0Lookups
  <1>2. CASE idx = Len(l)
    <2>1. TruncateAt(l, idx) = l
      BY <1>1, <1>2, <1>a DEF TruncateAt
    <2> QED
      BY <2>1, <1>1, <1>2
  <1>3. CASE idx < Len(l)
    <2>1. TruncateAt(l, idx) = SubSeq(l, 1, idx)
      BY <1>1, <1>3, <1>a DEF TruncateAt
    <2> QED
      BY <2>1, <1>1, <1>3, SubSeqProperties
  <1> QED
    BY <1>1, <1>2, <1>3

\* What entriesFrom returns: the positions of the log from idx on.
LEMMA EntriesFromShape ==
    ASSUME NEW S, NEW l, LogFrom0(l, S), NEW idx \in Nat, idx >= 1
    PROVE  /\ EntriesFrom(l, idx) \in Seq(S)
           /\ Len(EntriesFrom(l, idx)) \in Nat
           /\ \A k \in 1..Len(EntriesFrom(l, idx)) :
                 /\ idx + k \in 2..Len(l)
                 /\ EntriesFrom(l, idx)[k] = l[idx + k]
  <1>1. Len(l) \in Nat /\ l \in Seq(S)
    BY DEF LogFrom0
  <1>2. FirstIndex(l) = 0
    BY LogFrom0Lookups
  <1>3. EntriesFrom(l, idx) = SubSeq(l, idx + 1, Len(l))
    BY <1>2 DEF EntriesFrom
  <1> HIDE DEF EntriesFrom
  <1>4. CASE idx + 1 <= Len(l)
    <2>1. idx + 1 \in 1..(Len(l) + 1) /\ Len(l) \in idx..Len(l)
      BY <1>1, <1>4
    <2>2. /\ SubSeq(l, idx + 1, Len(l)) \in Seq(S)
          /\ Len(SubSeq(l, idx + 1, Len(l))) = Len(l) - idx
          /\ \A k \in 1..(Len(l) - idx) :
                SubSeq(l, idx + 1, Len(l))[k] = l[idx + k]
      BY <1>1, <1>4, <2>1, SubSeqProperties
    <2> QED
      BY <1>1, <1>3, <1>4, <2>2
  <1>5. CASE ~(idx + 1 <= Len(l))
    <2>1. EntriesFrom(l, idx) = << >>
      BY <1>1, <1>3, <1>5
    <2> QED
      BY <2>1
  <1> QED
    BY <1>4, <1>5

\* Rule 4 of HandleAppendEntries: either every entry was held already and the
\* log is untouched, or the log becomes its own first prevIdx + k positions,
\* for the first entry k that was missing or in conflict, followed by the
\* received entries from k on.
Appended(S, l, prevIdx, es, new) ==
    \/ /\ new = l
       /\ \A k \in 1..Len(es) : /\ prevIdx + k + 1 \in 1..Len(l)
                                /\ l[prevIdx + k + 1].term = es[k].term
    \/ \E k \in 1..Len(es) :
          /\ prevIdx + k <= Len(l)
          /\ new \in Seq(S)
          /\ Len(new) = prevIdx + Len(es) + 1
          /\ \A j \in 1..(prevIdx + k) : new[j] = l[j]
          /\ \A j \in (prevIdx + k + 1)..Len(new) : new[j] = es[j - prevIdx - 1]
          /\ prevIdx + k < Len(l) => l[prevIdx + k + 1].term # es[k].term
          /\ \A j \in 1..(k - 1) : l[prevIdx + j + 1].term = es[j].term

\* AppendAll, the closed form of rule 4, has that shape.
LEMMA AppendAllShape ==
    ASSUME NEW S, NEW l, LogFrom0(l, S),
           NEW prevIdx \in Nat, prevIdx <= LastIndex(l),
           NEW es, BatchAfter(es, prevIdx, S),
           NEW new, new = AppendAll(l, prevIdx, es)
    PROVE  Appended(S, l, prevIdx, es, new)
  <1>a. /\ FirstIndex(l) = 0 /\ LastIndex(l) = Len(l) - 1
        /\ \A i \in Int : InLog(l, i) <=> i \in 0..(Len(l) - 1)
        /\ \A i \in 0..(Len(l) - 1) : TermAt(l, i) = l[i + 1].term
    BY LogFrom0Lookups
  <1>b. Len(l) \in Nat /\ l \in Seq(S) /\ Len(es) \in Nat /\ es \in Seq(S)
    BY DEF LogFrom0, BatchAfter
  <1>1. /\ Len(l) \in Nat /\ l \in Seq(S) /\ FirstIndex(l) = 0
        /\ LastIndex(l) = Len(l) - 1
        /\ Len(es) \in Nat /\ es \in Seq(S)
    BY <1>a, <1>b
  <1> DEFINE D == Differing(l, prevIdx, es)
  <1>2. \A k \in 1..Len(es) :
            k \in D <=> \/ prevIdx + k >= Len(l)
                        \/ l[prevIdx + k + 1].term # es[k].term
    <2> SUFFICES ASSUME NEW k \in 1..Len(es)
                 PROVE  k \in D <=> \/ prevIdx + k >= Len(l)
                                    \/ l[prevIdx + k + 1].term # es[k].term
      OBVIOUS
    <2>1. prevIdx + k \in Int /\ prevIdx + k > 0
      BY <1>1
    <2>2. InLog(l, prevIdx + k) <=> prevIdx + k < Len(l)
      BY <1>1, <2>1, <1>a
    <2>3. prevIdx + k < Len(l) => TermAt(l, prevIdx + k) = l[prevIdx + k + 1].term
      BY <1>1, <2>1, <1>a
    <2> QED
      BY <1>1, <2>1, <2>2, <2>3 DEF Differing
  <1>3. CASE D = {}
    BY <1>1, <1>2, <1>3 DEF AppendAll, Appended
  <1>4. CASE D # {}
    <2>1. D \in SUBSET Nat
      BY DEF Differing
    <2> DEFINE k == Min(D)
    <2>2. k \in D /\ \A j \in D : k <= j
      BY <2>1, <1>4, MinIsLeast
    <2>3. k \in 1..Len(es)
      BY <2>2 DEF Differing
    <2> HIDE DEF D, k
    <2>4. \A j \in 1..(k - 1) : j \notin D
      BY <2>2, <2>3, <1>1
    <2>5. \A j \in 1..(k - 1) : prevIdx + j < Len(l)
                                  /\ l[prevIdx + j + 1].term = es[j].term
      <3> SUFFICES ASSUME NEW j \in 1..(k - 1)
                   PROVE  /\ prevIdx + j < Len(l)
                          /\ l[prevIdx + j + 1].term = es[j].term
        OBVIOUS
      <3>1. j \in 1..Len(es)
        BY <2>3, <1>1
      <3>2. j \notin D
        BY <2>4
      <3>3. ~(prevIdx + j >= Len(l)) /\ l[prevIdx + j + 1].term = es[j].term
        BY <3>1, <3>2, <1>2
      <3> QED
        BY <3>1, <3>3, <1>1
    <2>6. prevIdx + k <= Len(l)
      <3>1. CASE k = 1
        BY <3>1, <1>1
      <3>2. CASE k > 1
        <4>1. k - 1 \in 1..(k - 1)
          BY <3>2, <2>3, <1>1
        <4>2. prevIdx + (k - 1) < Len(l)
          BY <4>1, <2>5
        <4> QED
          BY <4>2, <2>3, <1>1
      <3> QED
        BY <3>1, <3>2, <2>3
    <2> DEFINE t == TruncateAt(l, prevIdx + k)
               u == SubSeq(es, k, Len(es))
    <2>7. prevIdx + k \in 1..Len(l)
      BY <2>3, <2>6, <1>1
    <2>8. t \in Seq(S) /\ Len(t) = prevIdx + k
             /\ \A j \in 1..(prevIdx + k) : t[j] = l[j]
      BY <2>7, TruncateShape
    <2>9. u \in Seq(S) /\ Len(u) = Len(es) - k + 1
             /\ \A j \in 1..Len(u) : u[j] = es[k + j - 1]
      BY <2>3, <1>1, SubSeqProperties
    <2>10. new = t \o u
      BY <1>4 DEF AppendAll, D, k
    <2> HIDE DEF t, u
    <2>a. /\ new \in Seq(S) /\ Len(new) = Len(t) + Len(u)
          /\ \A i \in 1..(Len(t) + Len(u)) :
                new[i] = IF i <= Len(t) THEN t[i] ELSE u[i - Len(t)]
      <3>1. t \in Seq(S) /\ u \in Seq(S)
        BY <2>8, <2>9
      <3> QED
        BY <3>1, <2>10, ConcatProperties
    <2>11. new \in Seq(S) /\ Len(new) = prevIdx + Len(es) + 1
      <3>1. Len(t) = prevIdx + k /\ Len(u) = Len(es) - k + 1
        BY <2>8, <2>9
      <3> QED
        BY <3>1, <2>a, <2>3, <1>1
    <2>12. \A j \in 1..(prevIdx + k) : new[j] = l[j]
      <3> SUFFICES ASSUME NEW j \in 1..(prevIdx + k) PROVE new[j] = l[j]
        OBVIOUS
      <3>1. Len(t) = prevIdx + k /\ Len(u) = Len(es) - k + 1
        BY <2>8, <2>9
      <3>2. j \in 1..(Len(t) + Len(u)) /\ j <= Len(t)
        BY <1>1, <2>3, <3>1
      <3> QED
        BY <2>8, <2>a, <3>2
    <2>13. \A j \in (prevIdx + k + 1)..Len(new) : new[j] = es[j - prevIdx - 1]
      <3> SUFFICES ASSUME NEW j \in (prevIdx + k + 1)..Len(new)
                   PROVE  new[j] = es[j - prevIdx - 1]
        OBVIOUS
      <3>1. j - (prevIdx + k) \in 1..Len(u)
        BY <2>9, <2>11, <2>3, <1>1
      <3>2. new[j] = u[j - (prevIdx + k)]
        <4>1. Len(t) = prevIdx + k /\ Len(new) = Len(t) + Len(u)
          BY <2>8, <2>a
        <4>2. j \in 1..(Len(t) + Len(u)) /\ ~(j <= Len(t))
          BY <4>1, <2>3, <2>11, <1>1
        <4> QED
          BY <4>1, <4>2, <2>a
      <3>3. k + (j - (prevIdx + k)) - 1 = j - prevIdx - 1
        BY <2>3, <2>11, <1>1
      <3> QED
        BY <3>1, <3>2, <3>3, <2>9
    <2>14. prevIdx + k < Len(l) => l[prevIdx + k + 1].term # es[k].term
      <3>1. k \in D <=> \/ prevIdx + k >= Len(l)
                        \/ l[prevIdx + k + 1].term # es[k].term
        BY <2>3, <1>2
      <3>2. prevIdx + k < Len(l) => ~(prevIdx + k >= Len(l))
        BY <2>3, <1>1
      <3> QED
        BY <3>1, <3>2, <2>2
    <2> QED
      BY <2>3, <2>5, <2>6, <2>11, <2>12, <2>13, <2>14 DEF Appended
  <1> QED
    BY <1>3, <1>4

-----------------------------------------------------------------------------
\* The closed form of rule 4 and the loop

\* What rule 4 leaves is a contiguous log again.
LEMMA AppendedIsLog ==
    ASSUME NEW S, NEW l, LogFrom0(l, S), NEW prevIdx \in Nat, prevIdx <= LastIndex(l),
           NEW es, BatchAfter(es, prevIdx, S), NEW new, Appended(S, l, prevIdx, es, new)
    PROVE  LogFrom0(new, S)
  <1>1. Len(l) \in Nat /\ Len(es) \in Nat
    BY DEF LogFrom0, BatchAfter
  <1>2. CASE new = l
    BY <1>2
  <1>3. ASSUME NEW k \in 1..Len(es), prevIdx + k <= Len(l), new \in Seq(S),
               Len(new) = prevIdx + Len(es) + 1,
               \A j \in 1..(prevIdx + k) : new[j] = l[j],
               \A j \in (prevIdx + k + 1)..Len(new) : new[j] = es[j - prevIdx - 1]
        PROVE  LogFrom0(new, S)
    <2>1. ASSUME NEW j \in 1..Len(new) PROVE new[j].index = j - 1
      <3>1. CASE j <= prevIdx + k
        <4>1. j \in 1..(prevIdx + k) /\ j \in 1..Len(l)
          BY <1>1, <1>3, <3>1
        <4> QED
          BY <4>1, <1>3 DEF LogFrom0
      <3>2. CASE j > prevIdx + k
        <4>1. j \in (prevIdx + k + 1)..Len(new) /\ j - prevIdx - 1 \in 1..Len(es)
          BY <1>1, <1>3, <3>2
        <4>2. es[j - prevIdx - 1].index = prevIdx + (j - prevIdx - 1)
          BY <4>1 DEF BatchAfter
        <4> QED
          BY <4>1, <4>2, <1>3
      <3> QED
        BY <3>1, <3>2, <1>1, <1>3
    <2> QED
      BY <1>1, <1>3, <2>1 DEF LogFrom0
  <1> QED
    BY <1>2, <1>3 DEF Appended

\* The body of the loop on such a log, for an index in it or just after it.
LEMMA AppendOneShape ==
    ASSUME NEW S, NEW l, LogFrom0(l, S), NEW idx \in 1..Len(l), NEW e \in S
    PROVE  IF idx < Len(l) /\ l[idx + 1].term = e.term
           THEN AppendOne(l, idx, e) = l
           ELSE /\ AppendOne(l, idx, e) \in Seq(S)
                /\ Len(AppendOne(l, idx, e)) = idx + 1
                /\ \A j \in 1..idx : AppendOne(l, idx, e)[j] = l[j]
                /\ AppendOne(l, idx, e)[idx + 1] = e
  <1>1. /\ Len(l) \in Nat /\ FirstIndex(l) = 0
        /\ InLog(l, idx) <=> idx \in 0..(Len(l) - 1)
        /\ idx \in 0..(Len(l) - 1) => TermAt(l, idx) = l[idx + 1].term
    BY LogFrom0Lookups
  <1>2. CASE idx < Len(l) /\ l[idx + 1].term = e.term
    BY <1>1, <1>2 DEF AppendOne
  <1>3. CASE ~(idx < Len(l) /\ l[idx + 1].term = e.term)
    <2> DEFINE t == TruncateAt(l, idx)
    <2>1. AppendOne(l, idx, e) = Append(t, e)
      BY <1>1, <1>3 DEF AppendOne
    <2>2. t \in Seq(S) /\ Len(t) = idx /\ \A j \in 1..idx : t[j] = l[j]
      BY TruncateShape
    <2> HIDE DEF t
    <2>3. /\ Append(t, e) \in Seq(S) /\ Len(Append(t, e)) = idx + 1
          /\ \A j \in 1..idx : Append(t, e)[j] = t[j]
          /\ Append(t, e)[idx + 1] = e
      BY <2>2, AppendProperties
    <2> QED
      BY <1>3, <2>1, <2>2, <2>3
  <1> QED
    BY <1>2, <1>3

\* The first entries of a batch are a batch.
LEMMA BatchPrefix ==
    ASSUME NEW S, NEW prevIdx \in Nat, NEW es, BatchAfter(es, prevIdx, S),
           NEW k \in 0..Len(es)
    PROVE  /\ BatchAfter(SubSeq(es, 1, k), prevIdx, S)
           /\ Len(SubSeq(es, 1, k)) = k
           /\ \A j \in 1..k : SubSeq(es, 1, k)[j] = es[j]
  <1>1. Len(es) \in Nat /\ es \in Seq(S)
    BY DEF BatchAfter
  <1>2. /\ SubSeq(es, 1, k) \in Seq(S) /\ Len(SubSeq(es, 1, k)) = k
        /\ \A j \in 1..k : SubSeq(es, 1, k)[j] = es[j]
    BY <1>1, SubSeqProperties
  <1> QED
    BY <1>1, <1>2 DEF BatchAfter

\* One more entry is one more round of the loop.
LEMMA OneMoreRound ==
    ASSUME NEW S, NEW l, LogFrom0(l, S), NEW prevIdx \in Nat, prevIdx <= LastIndex(l),
           NEW es, BatchAfter(es, prevIdx, S), NEW k \in 1..Len(es),
           NEW a, a = AppendAll(l, prevIdx, SubSeq(es, 1, k - 1)),
           NEW b, b = AppendAll(l, prevIdx, SubSeq(es, 1, k))
    PROVE  b = AppendOne(a, prevIdx + k, es[k])
  <1> DEFINE p == SubSeq(es, 1, k - 1)
             q == SubSeq(es, 1, k)
             idx == prevIdx + k
             c == AppendOne(a, idx, es[k])
  <1>1. /\ Len(es) \in Nat /\ es \in Seq(S) /\ es[k] \in S
        /\ Len(l) \in Nat /\ l \in Seq(S) /\ k \in Nat /\ idx \in Nat
    BY DEF BatchAfter, LogFrom0
  <1>2. /\ BatchAfter(p, prevIdx, S) /\ Len(p) = k - 1
        /\ \A j \in 1..(k - 1) : p[j] = es[j]
    <2>1. k - 1 \in 0..Len(es)
      BY <1>1
    <2> QED
      BY <2>1, BatchPrefix
  <1>3. /\ BatchAfter(q, prevIdx, S) /\ Len(q) = k
        /\ \A j \in 1..k : q[j] = es[j]
    <2>1. k \in 0..Len(es)
      BY <1>1
    <2> QED
      BY <2>1, BatchPrefix
  <1>p. a = AppendAll(l, prevIdx, p) /\ b = AppendAll(l, prevIdx, q)
    OBVIOUS
  <1> HIDE DEF p, q
  <1>4. Appended(S, l, prevIdx, p, a) /\ Appended(S, l, prevIdx, q, b)
    BY <1>2, <1>3, <1>p, AppendAllShape
  <1>5. LogFrom0(a, S) /\ LogFrom0(b, S)
    BY <1>2, <1>3, <1>4, AppendedIsLog
  <1>6. Len(a) \in Nat /\ a \in Seq(S) /\ Len(b) \in Nat /\ b \in Seq(S)
    BY <1>5 DEF LogFrom0
  <1>7. prevIdx + 1 <= Len(l)
    BY <1>1, LogFrom0Lookups
  \* If c differs from a, it is determined by the positions.
  <1>8. ASSUME idx \in 1..Len(a), ~(idx < Len(a) /\ a[idx + 1].term = es[k].term),
               Len(b) = idx + 1, \A j \in 1..idx : b[j] = a[j], b[idx + 1] = es[k]
        PROVE  b = c
    <2>1. /\ c \in Seq(S) /\ Len(c) = idx + 1
          /\ \A j \in 1..idx : c[j] = a[j]
          /\ c[idx + 1] = es[k]
      <3> HIDE DEF idx
      <3> QED
        BY <1>1, <1>5, <1>8, AppendOneShape
    <2> HIDE DEF idx, c
    <2>2. ASSUME NEW j \in 1..Len(b) PROVE b[j] = c[j]
      <3>1. j \in 1..idx \/ j = idx + 1
        BY <1>1, <1>8
      <3> QED
        BY <1>8, <2>1, <3>1
    <2> QED
      BY <1>6, <1>8, <2>1, <2>2, SeqEqual
  \* b, if q holds an entry that is missing or in conflict.
  <1>9. CASE b = l /\ \A j \in 1..k : /\ prevIdx + j + 1 \in 1..Len(l)
                                      /\ l[prevIdx + j + 1].term = es[j].term
    <2>1. a = l
      <3>1. ASSUME NEW j \in 1..(k - 1)
            PROVE  prevIdx + j < Len(l) /\ l[prevIdx + j + 1].term = p[j].term
        <4>1. j \in 1..k
          BY <1>1
        <4>2. prevIdx + j + 1 \in 1..Len(l) /\ l[prevIdx + j + 1].term = es[j].term
          BY <1>9, <4>1
        <4>3. p[j] = es[j]
          BY <1>2
        <4> QED
          BY <1>1, <4>2, <4>3
      <3> QED
        BY <3>1, <1>2, <1>4 DEF Appended
    <2>2. idx \in 1..Len(a) /\ idx < Len(a) /\ a[idx + 1].term = es[k].term
      BY <1>1, <1>9, <2>1
    <2> HIDE DEF idx
    <2>3. c = a
      BY <1>1, <1>5, <2>2, AppendOneShape
    <2> QED
      BY <1>9, <2>1, <2>3 DEF idx
  <1>10. ASSUME NEW f \in 1..k, prevIdx + f <= Len(l), Len(b) = prevIdx + k + 1,
                \A j \in 1..(prevIdx + f) : b[j] = l[j],
                \A j \in (prevIdx + f + 1)..Len(b) : b[j] = q[j - prevIdx - 1],
                prevIdx + f < Len(l) => l[prevIdx + f + 1].term # q[f].term,
                \A j \in 1..(f - 1) : l[prevIdx + j + 1].term = q[j].term
         PROVE  b = c
    <2>0. f \in 1..k /\ Len(b) = prevIdx + k + 1 /\ k \in Nat
      BY <1>1, <1>10
    <2>1. b[idx + 1] = es[k]
      <3>1. idx + 1 \in (prevIdx + f + 1)..Len(b) /\ (idx + 1) - prevIdx - 1 = k
        BY <2>0
      <3> QED
        BY <3>1, <1>3, <1>10
    <2>2. \A j \in 1..k : q[j] = es[j]
      BY <1>3
    <2>3. CASE a = l /\ \A j \in 1..(k - 1) : /\ prevIdx + j + 1 \in 1..Len(l)
                                              /\ l[prevIdx + j + 1].term = es[j].term
      <3>1. f = k
        <4> SUFFICES ASSUME f # k PROVE FALSE
          OBVIOUS
        <4>1. f \in 1..(k - 1)
          BY <1>1
        <4>2. prevIdx + f + 1 \in 1..Len(l) /\ l[prevIdx + f + 1].term = es[f].term
          BY <2>3, <4>1
        <4>3. prevIdx + f < Len(l)
          BY <1>1, <4>2
        <4> QED
          BY <1>10, <2>2, <4>2, <4>3
      <3> QED
        BY <1>1, <1>8, <1>10, <2>1, <2>2, <2>3, <3>1
    <2>4. ASSUME NEW g \in 1..(k - 1), prevIdx + g <= Len(l), Len(a) = prevIdx + k,
                 \A j \in 1..(prevIdx + g) : a[j] = l[j],
                 \A j \in (prevIdx + g + 1)..Len(a) : a[j] = es[j - prevIdx - 1],
                 prevIdx + g < Len(l) => l[prevIdx + g + 1].term # es[g].term,
                 \A j \in 1..(g - 1) : l[prevIdx + j + 1].term = es[j].term
          PROVE  b = c
      <3>1. f = g
        <4>1. ASSUME f < g PROVE FALSE
          <5>1. f \in 1..(g - 1) /\ prevIdx + f < Len(l)
            BY <1>1, <2>4, <4>1
          <5> QED
            BY <5>1, <1>10, <2>2, <2>4
        <4>2. ASSUME g < f PROVE FALSE
          <5>1. g \in 1..(f - 1) /\ g \in 1..k /\ prevIdx + g < Len(l)
            BY <1>1, <1>10, <4>2
          <5> QED
            BY <5>1, <1>10, <2>2, <2>4
        <4> QED
          BY <1>1, <4>1, <4>2
      <3>2. ASSUME NEW j \in 1..idx PROVE b[j] = a[j]
        <4>1. CASE j <= prevIdx + g
          BY <1>1, <1>10, <2>4, <3>1, <4>1
        <4>2. CASE j > prevIdx + g
          <5>1. /\ j \in (prevIdx + g + 1)..Len(a) /\ j \in (prevIdx + f + 1)..Len(b)
                /\ j - prevIdx - 1 \in 1..k
            <6>1. Len(a) = prevIdx + k
              BY <2>4
            <6> QED
              BY <2>0, <3>1, <4>2, <6>1
          <5> QED
            BY <5>1, <1>10, <2>2, <2>4
        <4> QED
          BY <1>1, <4>1, <4>2
      <3>3. idx \in 1..Len(a) /\ ~(idx < Len(a)) /\ Len(b) = idx + 1
        <4>1. Len(a) = prevIdx + k
          BY <2>4
        <4> QED
          BY <2>0, <4>1
      <3> QED
        BY <1>8, <2>1, <3>2, <3>3
    <2> QED
      <3>1. \A j \in 1..(k - 1) : p[j] = es[j]
        BY <1>2
      <3>2. \/ a = l /\ \A j \in 1..(k - 1) : /\ prevIdx + j + 1 \in 1..Len(l)
                                              /\ l[prevIdx + j + 1].term = es[j].term
            \/ \E g \in 1..(k - 1) :
                  /\ prevIdx + g <= Len(l) /\ Len(a) = prevIdx + (k - 1) + 1
                  /\ \A j \in 1..(prevIdx + g) : a[j] = l[j]
                  /\ \A j \in (prevIdx + g + 1)..Len(a) : a[j] = p[j - prevIdx - 1]
                  /\ prevIdx + g < Len(l) => l[prevIdx + g + 1].term # p[g].term
                  /\ \A j \in 1..(g - 1) : l[prevIdx + j + 1].term = p[j].term
        <4>1. Len(p) = k - 1 /\ Appended(S, l, prevIdx, p, a)
          BY <1>2, <1>4
        <4>2. CASE a = l /\ \A j \in 1..Len(p) : /\ prevIdx + j + 1 \in 1..Len(l)
                                               /\ l[prevIdx + j + 1].term = p[j].term
          BY <3>1, <4>1, <4>2
        <4> QED
          BY <4>1, <4>2 DEF Appended
      <3>3. ASSUME NEW g \in 1..(k - 1), Len(a) = prevIdx + (k - 1) + 1,
                   \A j \in (prevIdx + g + 1)..Len(a) : a[j] = p[j - prevIdx - 1],
                   prevIdx + g < Len(l) => l[prevIdx + g + 1].term # p[g].term,
                   \A j \in 1..(g - 1) : l[prevIdx + j + 1].term = p[j].term
            PROVE  /\ Len(a) = prevIdx + k
                   /\ \A j \in (prevIdx + g + 1)..Len(a) : a[j] = es[j - prevIdx - 1]
                   /\ prevIdx + g < Len(l) => l[prevIdx + g + 1].term # es[g].term
                   /\ \A j \in 1..(g - 1) : l[prevIdx + j + 1].term = es[j].term
        <4>1. Len(a) = prevIdx + k
          BY <1>1, <3>3
        <4>2. ASSUME NEW j \in (prevIdx + g + 1)..Len(a) PROVE a[j] = es[j - prevIdx - 1]
          <5>1. j - prevIdx - 1 \in 1..(k - 1)
            BY <1>1, <4>1
          <5> QED
            BY <3>1, <3>3, <5>1
        <4>3. \A j \in 1..(g - 1) : j \in 1..(k - 1)
          BY <1>1
        <4> QED
          BY <3>1, <3>3, <4>1, <4>2, <4>3
      <3> QED
        BY <2>3, <2>4, <3>2, <3>3
  <1> QED
    <2>1. \/ b = l /\ \A j \in 1..k : /\ prevIdx + j + 1 \in 1..Len(l)
                                      /\ l[prevIdx + j + 1].term = q[j].term
          \/ \E f \in 1..k :
                /\ prevIdx + f <= Len(l) /\ Len(b) = prevIdx + k + 1
                /\ \A j \in 1..(prevIdx + f) : b[j] = l[j]
                /\ \A j \in (prevIdx + f + 1)..Len(b) : b[j] = q[j - prevIdx - 1]
                /\ prevIdx + f < Len(l) => l[prevIdx + f + 1].term # q[f].term
                /\ \A j \in 1..(f - 1) : l[prevIdx + j + 1].term = q[j].term
      BY <1>3, <1>4 DEF Appended
    <2>2. b = c
      BY <1>3, <1>9, <1>10, <2>1
    <2> QED
      BY <2>2

\* The closed form is the loop.  The logs that the closed form gives for the
\* first i entries satisfy the equation that defines the loop, so there is a
\* function that does; and any two that do agree, or there would be a first
\* round after which they differ.
LEMMA ClosedFormIsLoop ==
    ASSUME NEW S, NEW l, LogFrom0(l, S), NEW prevIdx \in Nat, prevIdx <= LastIndex(l),
           NEW es, BatchAfter(es, prevIdx, S)
    PROVE  AppendLoop(l, prevIdx, es) = AppendAll(l, prevIdx, es)
  <1> DEFINE n == Len(es)
             Loop(f) == [i \in 0..n |->
                            IF i = 0 THEN l ELSE AppendOne(f[i - 1], prevIdx + i, es[i])]
             h == [i \in 0..n |-> AppendAll(l, prevIdx, SubSeq(es, 1, i))]
             after == CHOOSE f : f = Loop(f)
  <1>1. n \in Nat /\ es \in Seq(S)
    BY DEF BatchAfter
  <1>2. h[0] = l
    <2>1. 0 \in 0..n
      BY <1>1
    <2>2. Len(SubSeq(es, 1, 0)) = 0
      BY <2>1, BatchPrefix
    <2>3. Differing(l, prevIdx, SubSeq(es, 1, 0)) = {}
      BY <2>2 DEF Differing
    <2> QED
      BY <2>1, <2>3 DEF AppendAll
  <1>3. ASSUME NEW i \in 1..n
        PROVE  h[i] = AppendOne(h[i - 1], prevIdx + i, es[i])
    <2>1. i \in 0..n /\ i - 1 \in 0..n
      BY <1>1
    <2>2. /\ h[i] = AppendAll(l, prevIdx, SubSeq(es, 1, i))
          /\ h[i - 1] = AppendAll(l, prevIdx, SubSeq(es, 1, i - 1))
      BY <2>1
    <2> HIDE DEF h
    <2> QED
      BY <2>2, OneMoreRound
  <1>4. h[n] = AppendAll(l, prevIdx, es)
    <2>1. n \in 0..n
      BY <1>1
    <2>2. /\ SubSeq(es, 1, n) \in Seq(S) /\ Len(SubSeq(es, 1, n)) = n
          /\ \A j \in 1..n : SubSeq(es, 1, n)[j] = es[j]
      BY <2>1, BatchPrefix DEF BatchAfter
    <2>3. SubSeq(es, 1, n) = es
      BY <1>1, <2>2, SeqEqual
    <2> QED
      BY <2>1, <2>3
  <1>5. h = [i \in 0..n |-> h[i]]
    OBVIOUS
  <1> HIDE DEF h
  <1>6. h = Loop(h)
    <2>1. \A i \in 0..n : h[i] = IF i = 0 THEN l ELSE AppendOne(h[i - 1], prevIdx + i, es[i])
      <3> SUFFICES ASSUME NEW i \in 0..n
                   PROVE  h[i] = IF i = 0 THEN l ELSE AppendOne(h[i - 1], prevIdx + i, es[i])
        OBVIOUS
      <3>1. i = 0 \/ i \in 1..n
        BY <1>1
      <3> QED
        BY <1>2, <1>3, <3>1
    <2> QED
      BY <1>5, <2>1
  <1>7. after = Loop(after)
    BY <1>6
  <1>8. AppendLoop(l, prevIdx, es) = after[n]
    BY DEF AppendLoop
  <1> HIDE DEF after
  <1>9. /\ \A i \in 0..n : after[i] = IF i = 0 THEN l ELSE AppendOne(after[i - 1], prevIdx + i, es[i])
    BY <1>7
  <1>10. \A i \in 0..n : after[i] = h[i]
    <2> DEFINE D == {i \in 0..n : after[i] # h[i]}
    <2> SUFFICES ASSUME D # {} PROVE FALSE
      OBVIOUS
    <2>1. D \in SUBSET Nat
      BY <1>1
    <2>2. Min(D) \in D /\ \A j \in D : Min(D) <= j
      BY <2>1, MinIsLeast
    <2>3. PICK i \in 0..n : after[i] # h[i] /\ \A j \in D : i <= j
      BY <2>2
    <2>4. CASE i = 0
      BY <1>2, <1>9, <2>3, <2>4
    <2>5. CASE i # 0
      <3>1. i \in 1..n /\ i - 1 \in 0..n /\ ~(i <= i - 1)
        BY <1>1, <2>5
      <3>2. after[i - 1] = h[i - 1]
        BY <2>3, <3>1
      <3> QED
        BY <1>3, <1>9, <2>3, <2>5, <3>1, <3>2
    <2> QED
      BY <2>4, <2>5
  <1> QED
    <2>1. n \in 0..n
      BY <1>1
    <2> QED
      BY <1>4, <1>8, <1>10, <2>1
=============================================================================
