--------------------------- MODULE ObserverProofs ---------------------------
(***************************************************************************)
(* What the state observer's alerts and gauges may be relied on to say,    *)
(* for every cluster, any addresses, timeouts and number of faults:        *)
(* SplitBrainAlertTrue, QuorumLossSeen, SilentAlertCause and               *)
(* LeaderGaugesCause.                                                      *)
(*                                                                         *)
(* A poll is not atomic, and nodes stop, start and are elected while it    *)
(* lasts.  So all four rest on what an answer is still good for when the   *)
(* poll is complete (PollInv): the node that gave it ran during this poll, *)
(* led the term it gave if it said that it leads, and has been at no other *)
(* address since.  TypeOK, with its bound on what waits for CloudWatch,    *)
(* needs to know how old the last publish may be when observe goes to      *)
(* sleep (PublishInv).                                                     *)
(*                                                                         *)
(* From RaftLogProofs come the facts about Min and Max.                    *)
(***************************************************************************)
EXTENDS Observer, RaftLogProofs, FiniteSetTheorems

\* What may be polled.
Place == Addr \cup ToSet(StaticAddrs)

\* The types of what TypeOK leaves out.
TypesInv ==
    /\ role \in [Node -> {"leader", "follower"}] /\ term \in [Node -> 0..MaxTerm]
    /\ addrs \in Seq(Place) /\ asked \in Seq(Place)
    /\ seenUp \subseteq Node
    /\ uptime \in 0..Cooldown /\ cwAge \in 0..CwInterval

\* A leader leads a term, which is on record.
LedInv == \A n \in Node : role[n] = "leader" => term[n] >= 1 /\ <<n, term[n]>> \in led

\* What an answer said is true of the node and of a time in this poll: it ran
\* then, and has been replaced by nothing since.  An address that did not
\* answer stands for itself.
AnswerTrue(i) ==
    /\ answers[i].reachable \in BOOLEAN
    /\ answers[i].reachable =>
        /\ answers[i].id \in seenUp
        /\ answers[i].role \in {"leader", "follower"} /\ answers[i].term \in 0..MaxTerm
        /\ answers[i].role = "leader" =>
            answers[i].term >= 1 /\ <<answers[i].id, answers[i].term>> \in led
        /\ home[answers[i].id] \in {asked[i], NoAddr}
    /\ ~answers[i].reachable => answers[i] = Unreachable(asked[i])

\* A node answers at one address.
OneAddress ==
    \A i, j \in DOMAIN answers :
        answers[i].reachable /\ answers[j].reachable /\ answers[i].id = answers[j].id
            => asked[i] = asked[j]

PollInv ==
    /\ DOMAIN answers \subseteq DOMAIN asked
    /\ pc # "polling" => DOMAIN answers = {}
    /\ pc = "polling" => Up \subseteq seenUp
    /\ \A i \in DOMAIN answers : AnswerTrue(i)
    /\ OneAddress

\* Nothing waits for longer than the last publish is ago, which is less than an
\* interval when observe goes to sleep.
PublishInv ==
    /\ oldest <= cwAge
    /\ pc = "sleeping" => cwAge < CwInterval
    /\ pc = "resolving" => oldest = None

ObserverInv == TypeOK /\ TypesInv /\ LedInv /\ PollInv /\ PublishInv

-----------------------------------------------------------------------------
\* Facts about the operators

\* Min and Max of two integers.
LEMMA OfTwo ==
  ASSUME NEW a \in Int, NEW b \in Int
  PROVE  /\ Min({a, b}) = IF a <= b THEN a ELSE b
         /\ Max({a, b}) = IF a >= b THEN a ELSE b
  BY DEF Min, Max

\* The timeouts and the bounds are numbers.
LEMMA Numbers ==
  /\ Cooldown \in Nat /\ Cooldown > 0 /\ NoLeaderTimeout \in Nat /\ NoLeaderTimeout > 0
  /\ CwInterval \in Nat /\ CwInterval > 0 /\ MaxTerm \in Nat
  BY ObserverAssumption

\* SetToSeq lists the elements of a finite set.
LEMMA SetToSeqLists ==
  ASSUME NEW S, IsFiniteSet(S)
  PROVE  /\ SetToSeq(S) \in [1..Cardinality(S) -> S]
         /\ Cardinality(S) \in Nat
<1>1. Cardinality(S) \in Nat /\ ExistsBijection(1..Cardinality(S), S)
  BY FS_CardinalityType
<1>2. PICK f \in [1..Cardinality(S) -> S] : IsInjective(f)
  BY <1>1 DEF ExistsBijection, Bijection, Injection, IsInjective
<1> QED BY <1>1, <1>2 DEF SetToSeq

\* resolve_addrs finds addresses.
LEMMA ResolveFinds ==
  ASSUME TypeOK, NEW failed \in SUBSET Node
  PROVE  Resolve(failed) \in Seq(Place)
<1> DEFINE S == {n \in Node \ failed : row[n] # NoAddr}
           q == SetToSeq(S)
<1>1. IsFiniteSet(S)
  BY FS_Subset, ObserverAssumption
<1>2. q \in [1..Cardinality(S) -> S] /\ Cardinality(S) \in Nat
  BY <1>1, SetToSeqLists
<1> HIDE DEF q
<1>3. \A i \in 1..Cardinality(S) : row[q[i]] \in Addr
  BY <1>2 DEF TypeOK
<1>4. Resolve(failed) = [i \in 1..Cardinality(S) |-> row[q[i]]]
  BY <1>2 DEF Resolve, q
<1> HIDE DEF S
<1> QED BY <1>2, <1>3, <1>4 DEF Place

\* There is an address for every node, so the rows of Init exist.
LEMMA RowsExist ==
  \E r \in [Node -> Addr] : \A m, n \in Node : r[m] = r[n] => m = n
<1> DEFINE a == Cardinality(Node)
           b == Cardinality(Addr)
<1>1. a \in Nat /\ b \in Nat /\ a <= b
  BY FS_CardinalityType, ObserverAssumption
<1>2. PICK f \in Bijection(1..a, Node) : TRUE
  BY FS_CardinalityType, ObserverAssumption DEF ExistsBijection
<1>3. PICK g \in Bijection(1..b, Addr) : TRUE
  BY FS_CardinalityType, ObserverAssumption DEF ExistsBijection
<1> HIDE DEF a, b
<1>4. f \in [1..a -> Node] /\ \A n \in Node : \E i \in 1..a : f[i] = n
  BY <1>2 DEF Bijection, Surjection
<1>5. g \in [1..b -> Addr] /\ \A i, j \in 1..b : g[i] = g[j] => i = j
  BY <1>3 DEF Bijection, Injection, IsInjective
<1> DEFINE at(n) == CHOOSE i \in 1..a : f[i] = n
<1>6. \A n \in Node : at(n) \in 1..a /\ at(n) \in 1..b /\ f[at(n)] = n
  BY <1>1, <1>4
<1> HIDE DEF at
<1>7. [n \in Node |-> g[at(n)]] \in [Node -> Addr]
  BY <1>5, <1>6
<1>8. ASSUME NEW m \in Node, NEW n \in Node, g[at(m)] = g[at(n)] PROVE m = n
  BY <1>5, <1>6, <1>8
<1> QED BY <1>7, <1>8

USE DEF None

\* The initial states satisfy the invariant.
LEMMA ObserverInit == Init => ObserverInv
<1> SUFFICES ASSUME Init PROVE ObserverInv
  OBVIOUS
<1> USE ObserverAssumption
<1>1. row \in [Node -> Addr]
  <2> DEFINE Apart(r) == \A m, n \in Node : r[m] = r[n] => m = n
  <2>1. \E r \in [Node -> Addr] : Apart(r)
    BY RowsExist
  <2>2. row = CHOOSE r \in [Node -> Addr] : Apart(r)
    BY DEF Init
  <2> HIDE DEF Apart
  <2> QED BY <2>1, <2>2
<1>2. home \in [Node -> Addr \cup {NoAddr}]
  <2>1. CASE home = row BY <1>1, <2>1
  <2>2. ASSUME NEW n \in Node, home = [row EXCEPT ![n] = NoAddr] PROVE <1>2
    BY <1>1, <2>2
  <2> QED BY <2>1, <2>2 DEF Init
<1>3. uptime \in 0..Cooldown /\ cwAge \in 0..CwInterval
  <2>1. uptime \in 0..Cooldown BY DEF Init
  <2>2. Min({uptime, CwInterval}) = IF uptime <= CwInterval THEN uptime ELSE CwInterval
    BY <2>1, OfTwo
  <2> QED BY <2>1, <2>2 DEF Init
<1>4. TypeOK /\ PublishInv
  BY <1>1, <1>2, <1>3 DEF Init, TypeOK, PublishInv
<1>5. TypesInv /\ LedInv /\ PollInv
  BY <1>1, <1>3 DEF Init, TypesInv, LedInv, PollInv, OneAddress
<1> QED BY <1>4, <1>5 DEF ObserverInv

-----------------------------------------------------------------------------
\* The steps of the coordinators: whoever has answered stays where it was while
\* the poll lasts, or is gone.
LEMMA ClusterKeeps ==
  ASSUME ObserverInv, ClusterNext
  PROVE  ObserverInv'
<1>0. TypeOK /\ TypesInv /\ LedInv /\ PollInv /\ PublishInv
  BY DEF ObserverInv
<1> USE ObserverAssumption
<1> USE DEF clientVars, alertVars, metricVars
<1>1. ASSUME NEW n \in Node, NEW t \in 0..MaxTerm, Elect(n, t) PROVE ObserverInv'
  <2>1. TypeOK' /\ PublishInv' BY <1>0, <1>1 DEF Elect, TypeOK, PublishInv
  <2>2. TypesInv' BY <1>0, <1>1 DEF Elect, Role, TypesInv
  <2>3. t >= 1 BY <1>1 DEF Elect
  <2>4. LedInv' BY <1>0, <1>1, <2>3 DEF Elect, Role, LedInv, TypesInv
  <2>5. PollInv' BY <1>0, <1>1 DEF Elect, PollInv, AnswerTrue, OneAddress, Up
  <2> QED BY <2>1, <2>2, <2>4, <2>5 DEF ObserverInv
<1>2. ASSUME NEW n \in Node, NEW t \in 0..MaxTerm, StepDown(n, t) PROVE ObserverInv'
  <2>1. TypeOK' /\ PublishInv' BY <1>0, <1>2 DEF StepDown, TypeOK, PublishInv
  <2>2. TypesInv' BY <1>0, <1>2 DEF StepDown, Role, TypesInv
  <2>3. LedInv' BY <1>0, <1>2 DEF StepDown, Role, LedInv, TypesInv
  <2>4. PollInv' BY <1>0, <1>2 DEF StepDown, PollInv, AnswerTrue, OneAddress, Up
  <2> QED BY <2>1, <2>2, <2>3, <2>4 DEF ObserverInv
<1>3. ASSUME NEW n \in Node, Stop(n) PROVE ObserverInv'
  <2>1. TypeOK' /\ PublishInv' BY <1>0, <1>3 DEF Stop, TypeOK, PublishInv
  <2>2. TypesInv' BY <1>0, <1>3 DEF Stop, Role, TypesInv
  <2>3. LedInv' BY <1>0, <1>3 DEF Stop, Role, LedInv, TypesInv
  <2>4. \A m \in Node : home'[m] \in {home[m], NoAddr}
    BY <1>0, <1>3 DEF Stop, TypeOK
  <2>5. \A i \in DOMAIN answers : AnswerTrue(i)'
    BY <1>0, <1>3, <2>4 DEF Stop, PollInv, AnswerTrue, TypesInv
  <2>6. PollInv' BY <1>0, <1>3, <2>4, <2>5 DEF Stop, PollInv, OneAddress, Up
  <2> QED BY <2>1, <2>2, <2>3, <2>6 DEF ObserverInv
<1>4. ASSUME NEW n \in Node, Expire(n) PROVE ObserverInv'
  <2>1. TypeOK' /\ PublishInv' BY <1>0, <1>4 DEF Expire, TypeOK, PublishInv
  <2>2. TypesInv' /\ LedInv' BY <1>0, <1>4 DEF Expire, TypesInv, LedInv
  <2>3. PollInv' BY <1>0, <1>4 DEF Expire, PollInv, AnswerTrue, OneAddress, Up
  <2> QED BY <2>1, <2>2, <2>3 DEF ObserverInv
<1>5. ASSUME NEW n \in Node, NEW a \in Addr, Start(n, a) PROVE ObserverInv'
  <2>1. TypeOK' /\ PublishInv' BY <1>0, <1>5 DEF Start, TypeOK, PublishInv
  <2>2. TypesInv' /\ LedInv' BY <1>0, <1>5 DEF Start, TypesInv, LedInv
  <2>3. \A m \in Node \ {n} : home'[m] = home[m]
    BY <1>0, <1>5 DEF Start, TypeOK
  <2>4. seenUp \subseteq seenUp' /\ (pc = "polling" => n \notin seenUp /\ n \in seenUp')
    BY <1>5 DEF Start
  <2>5. \A i \in DOMAIN answers : AnswerTrue(i)'
    <3> SUFFICES ASSUME NEW i \in DOMAIN answers PROVE AnswerTrue(i)'
      OBVIOUS
    <3>1. AnswerTrue(i) /\ pc = "polling" BY <1>0 DEF PollInv
    <3>2. answers[i].reachable => answers[i].id \in Node \ {n}
      BY <1>0, <2>4, <3>1 DEF AnswerTrue, TypesInv
    <3>3. UNCHANGED <<answers, asked, led>> BY <1>5 DEF Start
    <3> QED BY <2>3, <2>4, <3>1, <3>2, <3>3 DEF AnswerTrue
  <2>6. PollInv' BY <1>0, <1>5, <2>3, <2>4, <2>5 DEF Start, PollInv, OneAddress, Up
  <2> QED BY <2>1, <2>2, <2>6 DEF ObserverInv
<1> QED BY <1>1, <1>2, <1>3, <1>4, <1>5 DEF ClusterNext

\* The addresses.
LEMMA AddressesKeep ==
  ASSUME ObserverInv, ResolveInitial \/ Construct \/ Refresh
  PROVE  ObserverInv'
<1> USE ObserverAssumption
<1> USE DEF ObserverInv, TypesInv, LedInv, PollInv, PublishInv, OneAddress,
            clusterVars, alertVars, metricVars
<1>1. addrs' \in Seq(Place)
  <2>1. StaticAddrs \in Seq(Place) BY DEF Place
  <2>2. CASE ResolveInitial BY <2>1, <2>2, ResolveFinds DEF ResolveInitial
  <2>3. CASE Construct BY <2>3 DEF Construct
  <2>4. CASE Refresh BY <2>4, ResolveFinds DEF Refresh
  <2> QED BY <2>2, <2>3, <2>4
<1> USE DEF TypeOK, AnswerTrue, Up
<1>2. CASE ResolveInitial BY <1>1, <1>2 DEF ResolveInitial
<1>3. CASE Construct BY <1>1, <1>3 DEF Construct
<1>4. CASE Refresh BY <1>1, <1>4 DEF Refresh
<1> QED BY <1>2, <1>3, <1>4

\* A poll begins with nothing heard.
LEMMA BeginKeeps ==
  ASSUME ObserverInv, BeginPoll
  PROVE  ObserverInv'
  BY DEF ObserverInv, TypeOK, TypesInv, LedInv, PollInv, PublishInv, AnswerTrue, OneAddress, Up,
         BeginPoll, clusterVars, alertVars, metricVars

\* What answers now is true, and answers where it answered before.
LEMMA AnswerKeeps ==
  ASSUME ObserverInv, NEW i, Answer(i)
  PROVE  ObserverInv'
<1> USE ObserverAssumption
<1>1. PICK ans :
        /\ \/ \E n \in Up : home[n] = asked[i] /\ ans = Answered(n, role[n], term[n])
           \/ ans = Unreachable(asked[i])
        /\ answers' = [j \in DOMAIN answers \cup {i} |-> IF j = i THEN ans ELSE answers[j]]
  BY DEF Answer
<1>2. i \in DOMAIN asked /\ i \notin DOMAIN answers /\ pc = "polling"
      /\ UNCHANGED <<clusterVars, pc, addrs, asked, seenUp, alertVars, metricVars>>
  BY DEF Answer
<1>3. /\ DOMAIN answers' = DOMAIN answers \cup {i} /\ answers'[i] = ans
      /\ \A j \in DOMAIN answers : answers'[j] = answers[j]
  BY <1>1, <1>2
<1>4. asked[i] \in Place /\ asked[i] \notin Node
  BY <1>2 DEF ObserverInv, TypesInv, Place
<1>5. \A j \in DOMAIN answers : AnswerTrue(j)'
  BY <1>2, <1>3, Zenon DEF ObserverInv, PollInv, AnswerTrue, clusterVars
<1>6. AnswerTrue(i)' /\ (ans.id \in Node <=> ans.reachable)
      /\ (ans.reachable => ans.id \in Up /\ home[ans.id] = asked[i])
  <2>1. CASE ans = Unreachable(asked[i])
    BY <1>2, <1>3, <1>4, <2>1 DEF AnswerTrue, Unreachable
  <2>2. ASSUME NEW n \in Up, home[n] = asked[i], ans = Answered(n, role[n], term[n])
        PROVE  /\ AnswerTrue(i)' /\ (ans.id \in Node <=> ans.reachable)
               /\ (ans.reachable => ans.id \in Up /\ home[ans.id] = asked[i])
    BY <1>2, <1>3, <2>2 DEF ObserverInv, TypesInv, LedInv, PollInv, AnswerTrue, Answered, Up, clusterVars
  <2> QED BY <1>1, <2>1, <2>2
<1>7. TypeOK'
  BY <1>2, <1>3, <1>6 DEF ObserverInv, TypeOK, clusterVars, alertVars, metricVars
<1>8. OneAddress'
  <2>1. ASSUME NEW j \in DOMAIN answers, answers[j].reachable, ans.reachable, answers[j].id = ans.id
        PROVE  asked[j] = asked[i]
    <3>1. home[ans.id] \in {asked[j], NoAddr} BY <2>1 DEF ObserverInv, PollInv, AnswerTrue
    <3> QED BY <1>6, <2>1, <3>1 DEF Up
  <2>2. \A j, k \in DOMAIN answers :
            answers[j].reachable /\ answers[k].reachable /\ answers[j].id = answers[k].id
                => asked[j] = asked[k]
    BY DEF ObserverInv, PollInv, OneAddress
  <2> QED BY <1>2, <1>3, <2>1, <2>2 DEF OneAddress
<1>9. PollInv'
  BY <1>2, <1>3, <1>5, <1>6, <1>8 DEF ObserverInv, PollInv, Up, clusterVars
<1> QED
  BY <1>2, <1>7, <1>9 DEF ObserverInv, TypesInv, LedInv, PublishInv, clusterVars, alertVars, metricVars

\* The positions of the answers are finitely many.
LEMMA AnswersFinite ==
  ASSUME ObserverInv, NEW S \in SUBSET DOMAIN answers
  PROVE  IsFiniteSet(S) /\ Cardinality(S) \in Nat /\ S \subseteq 1..Len(asked) /\ Len(asked) \in Nat
<1>1. DOMAIN answers \subseteq 1..Len(asked) /\ Len(asked) \in Nat
  BY DEF ObserverInv, TypesInv, PollInv
<1>2. IsFiniteSet(1..Len(asked))
  BY <1>1, FS_Interval
<1> QED BY <1>1, <1>2, FS_Subset, FS_CardinalityType

\* The leaders in the list have led the term they gave, and are nodes.
LEMMA LeadersTrue ==
  ASSUME ObserverInv, NEW i \in Leaders(answers)
  PROVE  /\ i \in DOMAIN answers /\ answers[i].reachable /\ answers[i].role = "leader"
         /\ answers[i].id \in Node
         /\ answers[i].term \in 1..MaxTerm /\ <<answers[i].id, answers[i].term>> \in led
<1>1. AnswerTrue(i) /\ i \in DOMAIN answers /\ answers[i].role = "leader"
  BY DEF Leaders, ObserverInv, PollInv
<1>2. answers[i].reachable
  BY <1>1 DEF AnswerTrue, Unreachable
<1> QED
  BY <1>1, <1>2, ObserverAssumption DEF AnswerTrue, ObserverInv, TypesInv

\* The term of the cluster as polled is a term.
LEMMA CurrentTermBounded ==
  ASSUME ObserverInv
  PROVE  CurrentTerm(answers) \in 0..MaxTerm
<1> DEFINE T == {answers[i].term : i \in {j \in DOMAIN answers : answers[j].reachable}} \cup {0}
<1>1. MaxTerm \in Nat BY ObserverAssumption
<1>2. T \in SUBSET (0..MaxTerm) /\ T # {}
  <2>1. \A i \in DOMAIN answers : answers[i].reachable => answers[i].term \in 0..MaxTerm
    BY DEF ObserverInv, PollInv, AnswerTrue
  <2> QED BY <1>1, <2>1
<1> HIDE DEF T
<1>3. Max(T) \in T
  BY <1>1, <1>2, MaxIsGreatest
<1> QED BY <1>2, <1>3 DEF T, CurrentTerm

\* The alerts of a check are keys.
LEMMA AlertsAreKeys ==
  ASSUME ObserverInv
  PROVE  Alerts(answers) \subseteq Key
<1>1. SplitKeys(answers) \subseteq Key
  <2> SUFFICES ASSUME NEW t \in SplitTerms(answers)
               PROVE  [kind |-> "split-brain", term |-> t,
                       ids |-> {answers[i].id : i \in LeadersOf(answers, t)},
                       many |-> Cardinality(LeadersOf(answers, t))] \in Key
    BY DEF SplitKeys
  <2>1. t \in 1..MaxTerm
    BY LeadersTrue DEF SplitTerms
  <2>2. {answers[i].id : i \in LeadersOf(answers, t)} \in SUBSET Node
    BY LeadersTrue DEF LeadersOf
  <2>3. Cardinality(LeadersOf(answers, t)) \in Nat
    BY AnswersFinite DEF LeadersOf, Leaders
  <2> QED BY <2>1, <2>2, <2>3 DEF Key
<1>2. NoLeaderKeys(answers) \subseteq Key
  BY CurrentTermBounded DEF NoLeaderKeys, Key
<1>3. QuorumKeys(answers) \subseteq Key
  <2>1. ReachableCount(answers) \in Nat /\ Cardinality(DOMAIN answers) \in Nat
    BY AnswersFinite DEF ReachableCount
  <2> QED BY <2>1 DEF QuorumKeys, Key
<1> QED BY <1>1, <1>2, <1>3 DEF Alerts

\* A gauge that SetGauges writes 1 is that of a leader in the list.
LEMMA GaugesFromList ==
  ASSUME ObserverInv, SetGauges(answers), NEW l \in gauge'
  PROVE  \/ l \in gauge \ {answers[i].id : i \in DOMAIN answers}
         \/ l \in {answers[i].id : i \in Leaders(answers)}
<1> DEFINE at == {i \in DOMAIN answers : answers[i].id = l}
<1>1. at \in SUBSET (0..Len(asked)) /\ Len(asked) \in Nat
  <2>1. at \subseteq 1..Len(asked) /\ Len(asked) \in Nat
    BY AnswersFinite
  <2> QED BY <2>1
<1>2. CASE at = {}
  BY <1>2 DEF SetGauges
<1>3. CASE at # {}
  <2>1. Max(at) \in at
    BY <1>1, <1>3, MaxIsGreatest
  <2>2. l \in gauge \ {answers[i].id : i \in DOMAIN answers} \/ answers[Max(at)].role = "leader"
    BY DEF SetGauges
  <2> QED BY <2>1, <2>2 DEF Leaders
<1> QED BY <1>2, <1>3

\* The domain and the values of With.
LEMMA WithShape ==
  ASSUME NEW f, NEW S, NEW v
  PROVE  /\ DOMAIN With(f, S, v) = DOMAIN f \cup S
         /\ \A k \in DOMAIN f \cup S : With(f, S, v)[k] = IF k \in S THEN v ELSE f[k]
  BY DEF With

\* After a check the marked keys are the ones there were and the ones that were
\* due, and each has an outcome.
LEMMA CheckMarks ==
  ASSUME ObserverInv, NEW failed \in SUBSET Due(answers), Check(answers, failed)
  PROVE  /\ DOMAIN sentAge' = DOMAIN sentAge \cup Due(answers) /\ DOMAIN outcome' = DOMAIN sentAge'
         /\ \A k \in DOMAIN sentAge' : k \in Key /\ sentAge'[k] < Cooldown
         /\ leaderless' \in None..NoLeaderTimeout /\ uptime' = uptime
<1> USE Numbers
<1>1. DOMAIN sentAge' = DOMAIN sentAge \cup Due(answers)
      /\ \A k \in DOMAIN sentAge' : sentAge'[k] = IF k \in Due(answers) THEN 0 ELSE sentAge[k]
  <2>1. sentAge' = With(sentAge, Due(answers), 0) BY DEF Check
  <2>2. DOMAIN With(sentAge, Due(answers), 0) = DOMAIN sentAge \cup Due(answers)
    BY WithShape
  <2>3. \A k \in DOMAIN sentAge \cup Due(answers) :
          With(sentAge, Due(answers), 0)[k] = IF k \in Due(answers) THEN 0 ELSE sentAge[k]
    BY WithShape
  <2> QED BY <2>1, <2>2, <2>3
<1>2. DOMAIN outcome' = DOMAIN outcome \cup Due(answers)
  <2>1. DOMAIN With(outcome, Due(answers), "sent") = DOMAIN outcome \cup Due(answers)
    BY WithShape
  <2>2. DOMAIN outcome' = DOMAIN With(outcome, Due(answers), "sent") \cup failed
    BY WithShape DEF Check
  <2> QED BY <2>1, <2>2
<1>3. Due(answers) \subseteq Key
  BY AlertsAreKeys DEF Due
<1>4. DOMAIN sentAge = DOMAIN outcome /\ \A k \in DOMAIN sentAge : k \in Key /\ sentAge[k] < Cooldown
  BY DEF ObserverInv, TypeOK
<1>5. \A k \in DOMAIN sentAge' : k \in Key /\ sentAge'[k] < Cooldown
  BY <1>1, <1>3, <1>4
<1>6. leaderless' \in None..NoLeaderTimeout /\ uptime' = uptime
  BY DEF Check, Leaderless, ObserverInv, TypeOK
<1> QED BY <1>1, <1>2, <1>4, <1>5, <1>6

\* The end of a poll.
LEMMA FinishKeeps ==
  ASSUME ObserverInv, FinishPoll
  PROVE  ObserverInv'
<1> USE Numbers
<1>1. PICK failed \in SUBSET Due(answers) : Check(answers, failed)
  BY DEF FinishPoll
<1>2. gauge' \subseteq Node
  <2>1. SetGauges(answers) /\ gauge \subseteq Node
    BY DEF FinishPoll, ObserverInv, TypeOK
  <2>2. {answers[i].id : i \in Leaders(answers)} \subseteq Node
    BY LeadersTrue
  <2> QED BY <2>1, <2>2, GaugesFromList
<1>3. /\ oldest' \in None..CwInterval /\ cwAge' \in 0..CwInterval
      /\ oldest' <= cwAge' /\ cwAge' < CwInterval
  <2>1. oldest \in None..CwInterval /\ cwAge \in 0..CwInterval /\ oldest <= cwAge
    BY DEF ObserverInv, TypeOK, TypesInv, PublishInv
  <2>2. Max({oldest, 0}) = IF oldest >= 0 THEN oldest ELSE 0
    <3>1. oldest \in Int /\ 0 \in Int BY <2>1
    <3> QED BY <3>1, OfTwo
  <2> QED BY <2>1, <2>2 DEF FinishPoll, CloudWatch
<1>4. /\ pc' = "sleeping" /\ asked' = <<>> /\ answers' = <<>> /\ seenUp' = {}
      /\ UNCHANGED <<clusterVars, addrs>>
  BY DEF FinishPoll
<1>5. TypeOK'
  BY <1>1, <1>2, <1>3, <1>4, CheckMarks DEF ObserverInv, TypeOK, clusterVars
<1>6. TypesInv' /\ LedInv'
  BY <1>1, <1>3, <1>4, CheckMarks DEF ObserverInv, TypesInv, LedInv, clusterVars
<1>7. PollInv' /\ PublishInv'
  BY <1>3, <1>4 DEF PollInv, PublishInv, OneAddress
<1> QED BY <1>5, <1>6, <1>7 DEF ObserverInv

\* Time passes.
LEMMA TickKeeps ==
  ASSUME ObserverInv, Tick
  PROVE  ObserverInv'
<1> USE Numbers
<1>1. ASSUME NEW a \in Int, NEW b \in Nat
      PROVE  Grow(a, b) = IF a = None THEN None ELSE IF a + 1 <= b THEN a + 1 ELSE b
  <2>1. Min({a + 1, b}) = IF a + 1 <= b THEN a + 1 ELSE b
    <3>1. a + 1 \in Int /\ b \in Int OBVIOUS
    <3> QED BY <3>1, OfTwo
  <2> QED BY <2>1 DEF Grow
<1>2. /\ uptime \in 0..Cooldown /\ cwAge \in 0..CwInterval /\ oldest \in None..CwInterval
      /\ leaderless \in None..NoLeaderTimeout /\ oldest <= cwAge
      /\ pc = "sleeping" => cwAge < CwInterval
      /\ pc = "resolving" => oldest = None
      /\ pc \in {"resolving", "sleeping"}
  BY DEF ObserverInv, TypeOK, TypesInv, PublishInv, Tick
<1>3. /\ uptime' \in 0..Cooldown /\ cwAge' \in 0..CwInterval
      /\ leaderless' \in None..NoLeaderTimeout
  BY <1>1, <1>2 DEF Tick
<1>4. oldest' \in None..CwInterval /\ oldest' <= cwAge'
  <2>1. cwAge' = IF cwAge + 1 <= CwInterval THEN cwAge + 1 ELSE CwInterval
    BY <1>1, <1>2 DEF Tick
  <2>2. oldest' = IF oldest = None THEN None ELSE oldest + 1
    BY DEF Tick
  <2> QED BY <1>2, <2>1, <2>2
<1>5. /\ DOMAIN sentAge' = DOMAIN outcome'
      /\ \A k \in DOMAIN sentAge' : k \in Key /\ sentAge'[k] < Cooldown
  BY DEF Tick, Restrict, ObserverInv, TypeOK
<1>6. /\ pc' = (IF pc = "sleeping" THEN "idle" ELSE pc)
      /\ UNCHANGED <<clusterVars, used, addrs, asked, answers, seenUp, gauge>>
  BY DEF Tick
<1>7. TypeOK'
  BY <1>2, <1>3, <1>4, <1>5, <1>6 DEF ObserverInv, TypeOK, clusterVars
<1>8. TypesInv' /\ LedInv'
  BY <1>3, <1>6 DEF ObserverInv, TypesInv, LedInv, clusterVars
<1>9. PollInv'
  BY <1>2, <1>6 DEF ObserverInv, PollInv, OneAddress
<1>10. PublishInv'
  BY <1>2, <1>4, <1>6 DEF PublishInv, Tick
<1> QED BY <1>7, <1>8, <1>9, <1>10 DEF ObserverInv

\* Every step keeps the invariant.
LEMMA ObserverStep == ObserverInv /\ [Next]_vars => ObserverInv'
<1> SUFFICES ASSUME ObserverInv, [Next]_vars PROVE ObserverInv'
  OBVIOUS
<1>1. CASE UNCHANGED vars
  BY <1>1 DEF ObserverInv, TypeOK, TypesInv, LedInv, PollInv, PublishInv, AnswerTrue, OneAddress, Up,
         vars, clusterVars, clientVars, alertVars, metricVars
<1> QED
  BY <1>1, ClusterKeeps, AddressesKeep, BeginKeeps, AnswerKeeps, FinishKeeps, TickKeeps
     DEF Next, Observe

\* ObserverInv is an invariant.
LEMMA ObserverInvariant == Spec => []ObserverInv
  BY ObserverInit, ObserverStep, PTL DEF Spec

-----------------------------------------------------------------------------
\* Two different elements make a cardinality of more than one, and the other way
\* round.
LEMMA MoreThanOne ==
  ASSUME NEW S, IsFiniteSet(S)
  PROVE  Cardinality(S) > 1 <=> \E x, y \in S : x # y
<1>1. Cardinality(S) \in Nat
  BY FS_CardinalityType
<1>2. ASSUME NEW x \in S, NEW y \in S, x # y PROVE Cardinality(S) > 1
  <2>1. IsFiniteSet({x}) /\ Cardinality({x}) = 1 BY FS_Singleton
  <2>2. IsFiniteSet({x, y}) /\ Cardinality({x, y}) = 2
    <3>1. {x} \cup {y} = {x, y} OBVIOUS
    <3>2. y \notin {x} BY <1>2
    <3>3. /\ IsFiniteSet({x} \cup {y})
          /\ Cardinality({x} \cup {y}) = IF y \in {x} THEN Cardinality({x}) ELSE Cardinality({x}) + 1
      BY <2>1, FS_AddElement
    <3> QED BY <2>1, <3>1, <3>2, <3>3
  <2>3. Cardinality({x, y}) <= Cardinality(S) BY FS_Subset
  <2> QED BY <1>1, <2>2, <2>3
<1>3. ASSUME Cardinality(S) > 1 PROVE \E x, y \in S : x # y
  <2>1. S # {} BY <1>3, FS_EmptySet
  <2>2. PICK x \in S : TRUE BY <2>1
  <2>3. S # {x} BY <1>3, FS_Singleton
  <2> QED BY <2>2, <2>3
<1> QED BY <1>2, <1>3

\* If no address is polled twice, no node answers twice.
LEMMA AnswersApart ==
  ASSUME ObserverInv, NoTwice, NEW i \in DOMAIN answers, NEW j \in DOMAIN answers,
         answers[i].reachable, answers[j].reachable, answers[i].id = answers[j].id
  PROVE  i = j
  BY DEF ObserverInv, PollInv, OneAddress, NoTwice

\* For any cluster, terms, addresses and faults: a split-brain alert names nodes
\* that have led the term it names, and two of them unless an address was polled
\* twice.
THEOREM SplitBrainAlertsAreTrue == Spec => []SplitBrainAlertTrue
<1>1. ObserverInv => SplitBrainAlertTrue
  <2> SUFFICES ASSUME ObserverInv, NEW k \in SplitKeys(answers)
               PROVE  /\ \A n \in k.ids : <<n, k.term>> \in led
                      /\ NoTwice => Cardinality(k.ids) > 1
    BY DEF SplitBrainAlertTrue, ObserverInv
  <2>1. PICK t \in SplitTerms(answers) :
            k.term = t /\ k.ids = {answers[i].id : i \in LeadersOf(answers, t)}
    BY DEF SplitKeys
  <2>2. \A n \in k.ids : <<n, k.term>> \in led
    BY <2>1, LeadersTrue DEF LeadersOf
  <2>3. ASSUME NoTwice PROVE Cardinality(k.ids) > 1
    <3>1. IsFiniteSet(LeadersOf(answers, t)) /\ Cardinality(LeadersOf(answers, t)) > 1
      BY AnswersFinite DEF SplitTerms, LeadersOf, Leaders
    <3>2. PICK i, j \in LeadersOf(answers, t) : i # j
      BY <3>1, MoreThanOne
    <3>3. answers[i].id # answers[j].id
      BY <2>3, <3>2, LeadersTrue, AnswersApart DEF LeadersOf
    <3>4. k.ids \subseteq Node
      BY <2>1, LeadersTrue DEF LeadersOf
    <3>5. IsFiniteSet(k.ids)
      BY <3>4, FS_Subset, ObserverAssumption
    <3> QED BY <2>1, <3>3, <3>5, MoreThanOne
  <2> QED BY <2>2, <2>3
<1> QED BY <1>1, ObserverInvariant, PTL

\* For any cluster: a poll during which no majority ran is reported, if every node
\* was polled, at an address of its own.
THEOREM QuorumLossIsSeen == Spec => []QuorumLossSeen
<1>1. ObserverInv => QuorumLossSeen
  <2> SUFFICES ASSUME ObserverInv, Complete, 2 * Cardinality(seenUp) <= Cardinality(Node),
                      ~(Len(asked) < Cardinality(Node)), NoTwice
               PROVE  QuorumKeys(answers) # {}
    BY DEF QuorumLossSeen
  <2> DEFINE R == {i \in DOMAIN answers : answers[i].reachable}
  <2>1. IsFiniteSet(seenUp) /\ Cardinality(seenUp) \in Nat
        /\ Cardinality(Node) \in Nat /\ Cardinality(Node) > 0
    <3>1. IsFiniteSet(seenUp)
      BY FS_Subset, ObserverAssumption DEF ObserverInv, TypesInv
    <3>2. Cardinality(Node) # 0 /\ Cardinality(Node) \in Nat
      BY FS_EmptySet, FS_CardinalityType, ObserverAssumption
    <3> QED BY <3>1, <3>2, FS_CardinalityType
  <2>2. Cardinality(R) \in Nat /\ Cardinality(R) <= Cardinality(seenUp)
    <3> DEFINE f == [i \in R |-> answers[i].id]
    <3>1. \A i \in R : answers[i].id \in seenUp
      BY DEF ObserverInv, PollInv, AnswerTrue
    <3>2. f \in Injection(R, seenUp)
      BY <3>1, AnswersApart DEF Injection, IsInjective
    <3> QED BY <2>1, <3>2, AnswersFinite, FS_Injection
  <2>3. DOMAIN answers = 1..Len(asked) /\ Len(asked) \in Nat /\ Cardinality(DOMAIN answers) = Len(asked)
    <3>1. DOMAIN answers = 1..Len(asked) /\ Len(asked) \in Nat
      BY DEF Complete, ObserverInv, TypesInv
    <3>2. Cardinality(1..Len(asked)) = Len(asked)
      <4>1. 1 \in Int /\ Len(asked) \in Int BY <3>1
      <4>2. Cardinality(1..Len(asked)) = IF 1 > Len(asked) THEN 0 ELSE Len(asked) - 1 + 1
        BY <4>1, FS_Interval
      <4> QED BY <3>1, <4>2
    <3> QED BY <3>1, <3>2
  <2>4. ~(ReachableCount(answers) >= Quorum(Cardinality(DOMAIN answers)))
    BY <2>1, <2>2, <2>3 DEF Quorum, ReachableCount
  <2>5. answers # <<>>
    BY <2>1, <2>3
  <2> QED BY <2>4, <2>5 DEF QuorumKeys
<1> QED BY <1>1, ObserverInvariant, PTL

\* Only the end of a poll sends observe to sleep.
LEMMA OnlyFinishSleeps ==
  ASSUME [Next]_vars, Complete, pc' = "sleeping"
  PROVE  FinishPoll
  BY DEF Next, vars, ClusterNext, Observe, Elect, StepDown, Stop, Expire, Start, ResolveInitial,
         Construct, BeginPoll, Answer, Refresh, Tick, Complete, clientVars

\* No alert of a check is passed over but for the three reasons: it was sent, or
\* its publish failed, within the cooldown, or the host is younger than that.
THEOREM SilenceHasACause == Spec => SilentAlertCause
<1>1. ObserverInv /\ [Next]_vars
        => [Complete /\ pc' = "sleeping" =>
              \A k \in Alerts(answers) : k \in DOMAIN outcome' \/ uptime < Cooldown]_vars
  <2> SUFFICES ASSUME ObserverInv, [Next]_vars, Complete, pc' = "sleeping", NEW k \in Alerts(answers)
               PROVE  k \in DOMAIN outcome' \/ uptime < Cooldown
    OBVIOUS
  <2>1. FinishPoll BY OnlyFinishSleeps
  <2>2. PICK failed \in SUBSET Due(answers) : Check(answers, failed)
    BY <2>1 DEF FinishPoll
  <2>3. DOMAIN outcome' = DOMAIN sentAge \cup Due(answers)
    BY <2>2, CheckMarks
  <2>4. uptime \in 0..Cooldown BY DEF ObserverInv, TypesInv
  <2> QED BY <2>3, <2>4, ObserverAssumption DEF Due, SinceSent
<1> QED BY <1>1, ObserverInvariant, PTL DEF Spec, SilentAlertCause

\* Two leader gauges after an update are two leaders of that poll, or one of them
\* is the gauge of a node that was not heard.
THEOREM LeaderGaugesHaveACause == Spec => LeaderGaugesCause
<1>1. ObserverInv /\ [Next]_vars
        => [Complete /\ pc' = "sleeping" =>
              LET heard == {answers[i].id : i \in DOMAIN answers}
              IN  Cardinality(gauge') > 1 =>
                    \/ gauge' \subseteq {answers[i].id : i \in Leaders(answers)}
                    \/ ~(gauge' \subseteq heard)]_vars
  <2> SUFFICES ASSUME ObserverInv, [Next]_vars, Complete, pc' = "sleeping",
                      gauge' \subseteq {answers[i].id : i \in DOMAIN answers}
               PROVE  gauge' \subseteq {answers[i].id : i \in Leaders(answers)}
    OBVIOUS
  <2>1. SetGauges(answers) BY OnlyFinishSleeps DEF FinishPoll
  <2> QED BY <2>1, GaugesFromList
<1> QED BY <1>1, ObserverInvariant, PTL DEF Spec, LeaderGaugesCause
=============================================================================
