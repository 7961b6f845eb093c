--------------------------- MODULE CatchUpProofs ----------------------------
(***************************************************************************)
(* MatchHeld of CatchUp, for any number of entries, leaders and restarts.  *)
(***************************************************************************)
EXTENDS CatchUp, TLAPS

Requests ==
    [kind : {"append"}, term : 0..MaxLeaders, prev : 0..MaxIndex, last : 0..MaxIndex]
        \cup [kind : {"install"}, term : 0..MaxLeaders, last : 1..MaxIndex]

Replies == [kind : {"reply"}, last : 0..MaxIndex, ok : BOOLEAN]

\* The messages and the counters have their types, nothing comes from a term
\* that is yet to come, and the cached snapshot is the floor.
TypeInv ==
    /\ TypeOK
    /\ used \in [{"leaders", "restarts"} -> Nat] /\ CurrentTerm <= MaxLeaders
    /\ call \in Requests \cup Replies \cup {None}
    /\ late \subseteq Requests
    /\ leader.cached = leader.first
    /\ follower.term <= CurrentTerm
    /\ \A m \in late : m.term <= CurrentTerm
    /\ call \in Requests => call.term = CurrentTerm

\* Requests to install a snapshot, of the present leader, that may arrive late.
LateInstalls == {m \in late : m.kind = "install" /\ m.term = CurrentTerm}

\* Why a late installation takes nothing back: it was sent below the floor, and
\* until one like it was accepted the leader has counted on nothing beyond it.
InstallsBehind ==
    /\ \A m \in LateInstalls :
        /\ m.last <= leader.first
        /\ nextIndex <= m.last \/ m.last <= follower.first
    /\ call.kind = "append" => \A m \in LateInstalls : m.last <= follower.first
    /\ call.kind = "install" =>
        /\ nextIndex <= call.last /\ call.last <= leader.first
        /\ \A m \in LateInstalls : m.last <= call.last
    /\ call.kind = "reply" /\ call.ok => \A m \in LateInstalls : m.last <= follower.first

\* What the leader counts on, and what it is about to, the follower holds; the
\* follower has then heard of the leader, and heeds no earlier one.
CountsHeld ==
    /\ matchIndex < nextIndex /\ matchIndex <= follower.last
    /\ matchIndex > 0 \/ call.kind = "reply" => follower.term = CurrentTerm
    /\ call.kind = "append" => call.prev = nextIndex - 1
    /\ call.kind = "reply" =>
        IF call.ok THEN call.last <= follower.last ELSE matchIndex < nextIndex - 1

MatchInv == used["restarts"] = 0 => InstallsBehind /\ CountsHeld

-----------------------------------------------------------------------------
(***************************************************************************)
(* Operators                                                               *)
(***************************************************************************)

\* The greater of two numbers, which moves the leader's pointers and the end of
\* the follower's log.
LEMMA MaxOfTwo ==
  ASSUME NEW x \in Int, NEW y \in Int
  PROVE  Max({x, y}) = IF x >= y THEN x ELSE y
<1> DEFINE z == IF x >= y THEN x ELSE y
<1>1. z \in {x, y} /\ \A v \in {x, y} : z >= v
  OBVIOUS
<1>2. \A w \in {x, y} : (\A v \in {x, y} : w >= v) => w = z
  OBVIOUS
<1> QED BY <1>1, <1>2 DEF Max

\* What a request is, by its kind.
LEMMA RequestShape ==
  ASSUME NEW m \in Requests
  PROVE  /\ m.kind \in {"append", "install"}
         /\ m.term \in 0..MaxLeaders /\ m.last \in 0..MaxIndex
         /\ m.kind = "append" => m.prev \in 0..MaxIndex
         /\ m.kind = "install" => m.last >= 1
  BY CatchUpAssumption DEF Requests

\* What the outstanding call is, by its kind.
LEMMA CallShape ==
  ASSUME call \in Requests \cup Replies \cup {None}
  PROVE  /\ call.kind \in {"append", "install", "reply", "none"}
         /\ call.kind \in {"append", "install"} => call \in Requests
         /\ call.kind = "reply" => call.last \in 0..MaxIndex /\ call.ok \in BOOLEAN
         /\ call.kind = "none" <=> call = None
  BY RequestShape DEF Requests, Replies, None

\* The effect of a request on the follower: an append leaves the floor alone and
\* takes nothing away; an installation either changes nothing, being behind the
\* floor, or leaves the snapshot alone.
LEMMA HandledEffect ==
  ASSUME TypeInv, NEW m \in Requests
  PROVE  /\ Handled(m) \in [term : 0..MaxLeaders, first : 0..MaxIndex,
                            last : 0..MaxIndex, saved : 0..MaxIndex]
         /\ Handled(m).term = m.term
         /\ Handled(m).first <= Handled(m).last
         /\ follower.first <= Handled(m).first
         /\ m.kind = "append" =>
              /\ Handled(m).first = follower.first /\ follower.last <= Handled(m).last
              /\ m.prev <= follower.last => m.last <= Handled(m).last
         /\ m.kind = "install" =>
              /\ m.last <= Handled(m).first
              /\ Handled(m).last = IF m.last <= follower.first THEN follower.last ELSE m.last
<1>1. /\ m.kind \in {"append", "install"}
      /\ m.term \in 0..MaxLeaders /\ m.last \in 0..MaxIndex
      /\ m.kind = "append" => m.prev \in 0..MaxIndex
      /\ m.kind = "install" => m.last >= 1
  BY RequestShape
<1>2. /\ follower \in [term : 0..MaxLeaders, first : 0..MaxIndex,
                       last : 0..MaxIndex, saved : 0..MaxIndex]
      /\ follower.first <= follower.last
  BY DEF TypeInv, TypeOK
<1>3. MaxIndex \in Nat /\ MaxLeaders \in Nat
  BY CatchUpAssumption
<1>4. CASE m.kind = "append"
  <2>1. Appended(m) \in 0..MaxIndex /\ follower.last <= Appended(m)
        /\ (m.prev <= follower.last => m.last <= Appended(m))
    BY <1>1, <1>2, <1>3, <1>4, MaxOfTwo DEF Appended
  <2>2. Handled(m) = [term |-> m.term, first |-> follower.first, last |-> Appended(m),
                      saved |-> follower.saved]
    <3>1. Handled(m) = [[follower EXCEPT !.last = Appended(m)] EXCEPT !.term = m.term]
      BY <1>4 DEF Handled
    <3>2. [follower EXCEPT !.last = Appended(m)] =
              [term |-> follower.term, first |-> follower.first, last |-> Appended(m),
               saved |-> follower.saved]
      BY <1>2
    <3> QED BY <3>1, <3>2
  <2> QED BY <1>1, <1>2, <1>3, <1>4, <2>1, <2>2
<1>5. CASE m.kind = "install"
  <2>1. Handled(m) = [Installed(m) EXCEPT !.term = m.term]
    BY <1>5 DEF Handled
  <2>2. CASE m.last <= follower.first /\ follower.first > 0
    <3>1. Installed(m) = follower
      BY <2>2 DEF Installed
    <3> QED BY <1>1, <1>2, <1>3, <1>5, <2>1, <2>2, <3>1
  <2>3. CASE ~(m.last <= follower.first /\ follower.first > 0)
    <3>1. Installed(m) = [term |-> follower.term, first |-> m.last, last |-> m.last,
                          saved |-> follower.saved]
      BY <1>2, <2>3 DEF Installed
    <3>2. Handled(m) = [term |-> m.term, first |-> m.last, last |-> m.last, saved |-> follower.saved]
      BY <2>1, <3>1
    <3> QED BY <1>1, <1>2, <1>3, <1>5, <2>3, <3>2
  <2> QED BY <2>2, <2>3
<1> QED BY <1>1, <1>4, <1>5

-----------------------------------------------------------------------------
(***************************************************************************)
(* Types                                                                   *)
(***************************************************************************)

LEMMA TypeInit == Init => TypeInv
  BY CatchUpAssumption DEF Init, TypeInv, TypeOK, CurrentTerm, None, NoSnapshot, Requests

\* Every step keeps TypeInv.
LEMMA TypeStep == TypeInv /\ [Next]_vars => TypeInv'
<1> SUFFICES ASSUME TypeInv, [Next]_vars PROVE TypeInv'
  OBVIOUS
<1>a. /\ MaxIndex \in Nat /\ MaxLeaders \in Nat /\ MaxRestarts \in Nat
      /\ leader \in [first : 0..MaxIndex, last : 0..MaxIndex, cached : 0..MaxIndex]
      /\ follower \in [term : 0..MaxLeaders, first : 0..MaxIndex,
                       last : 0..MaxIndex, saved : 0..MaxIndex]
      /\ leader.first <= leader.last /\ follower.first <= follower.last
      /\ leader.cached = leader.first
      /\ nextIndex \in 1..(MaxIndex + 1) /\ matchIndex \in 0..MaxIndex
      /\ used \in [{"leaders", "restarts"} -> Nat]
  BY CatchUpAssumption DEF TypeInv, TypeOK
<1>1. CASE UNCHANGED vars
  BY <1>1 DEF vars, TypeInv, TypeOK, CurrentTerm
<1>2. CASE Propose
  <2>1. leader' = [leader EXCEPT !.last = @ + 1] /\ leader.last < MaxIndex
    BY <1>2 DEF Propose
  <2>2. /\ leader' \in [first : 0..MaxIndex, last : 0..MaxIndex, cached : 0..MaxIndex]
        /\ leader'.first <= leader'.last /\ leader'.cached = leader'.first
    BY <1>a, <2>1
  <2> QED BY <1>2, <2>2 DEF Propose, TypeInv, TypeOK, CurrentTerm
<1>3. CASE LeaderSnapshot
  <2>1. PICK idx \in (leader.first + 1)..leader.last :
            leader' = [first |-> idx, last |-> leader.last, cached |-> idx]
    BY <1>3, <1>a DEF LeaderSnapshot
  <2>2. /\ leader' \in [first : 0..MaxIndex, last : 0..MaxIndex, cached : 0..MaxIndex]
        /\ leader'.first <= leader'.last /\ leader'.cached = leader'.first
    BY <1>a, <2>1
  <2> QED BY <1>3, <2>2 DEF LeaderSnapshot, TypeInv, TypeOK, CurrentTerm
<1>4. CASE SendAppend
  <2>0. CurrentTerm \in 0..MaxLeaders
    BY <1>a DEF TypeInv, CurrentTerm
  <2>1. CASE BelowFloor /\ leader.cached # NoSnapshot
    <3>1. call' = InstallCall /\ UNCHANGED nextIndex
      BY <1>4, <2>1 DEF SendAppend
    <3>2. InstallCall \in Requests /\ InstallCall.term = CurrentTerm
      BY <1>a, <2>0, <2>1 DEF InstallCall, Requests, NoSnapshot
    <3> QED BY <1>4, <3>1, <3>2 DEF SendAppend, TypeInv, TypeOK, CurrentTerm
  <2>2. CASE ~(BelowFloor /\ leader.cached # NoSnapshot)
    <3>1. nextIndex' = Max({nextIndex, leader.first + 1}) /\ call' = AppendCall(nextIndex')
      BY <1>4, <2>2 DEF SendAppend
    <3>2. nextIndex' = nextIndex
      BY <1>a, <2>2, <3>1, MaxOfTwo DEF BelowFloor, NoSnapshot
    <3>3. AppendCall(nextIndex') \in Requests /\ AppendCall(nextIndex').term = CurrentTerm
      BY <1>a, <2>0, <3>2 DEF AppendCall, Requests
    <3> QED BY <1>4, <3>1, <3>2, <3>3 DEF SendAppend, TypeInv, TypeOK, CurrentTerm
  <2> QED BY <2>1, <2>2
<1>5. CASE CallFails
  <2>1. call \in Requests \/ call.kind = "reply"
    BY <1>5, CallShape DEF CallFails, TypeInv
  <2>2. late' \subseteq Requests /\ \A m \in late' : m.term <= CurrentTerm
    <3>1. \A m \in late' : m \in late \/ (m = call /\ call \in Requests)
      BY <1>5, <2>1 DEF CallFails
    <3>2. call \in Requests => call.term <= CurrentTerm
      BY <1>a DEF TypeInv, CurrentTerm
    <3> QED BY <3>1, <3>2 DEF TypeInv
  <2>3. None \notin Requests
    BY RequestShape DEF None
  <2> QED BY <1>5, <2>2, <2>3 DEF CallFails, TypeInv, TypeOK, CurrentTerm
<1>6. CASE HandleReply
  <2>1. call.last \in 0..MaxIndex /\ call.ok \in BOOLEAN
    BY <1>6, CallShape DEF HandleReply, TypeInv
  <2>2. nextIndex' \in 1..(MaxIndex + 1) /\ matchIndex' \in 0..MaxIndex
    <3>1. CASE call.ok
      <4>1. /\ matchIndex' = Max({matchIndex, call.last})
            /\ nextIndex' = Max({nextIndex, call.last + 1})
        BY <1>6, <3>1 DEF HandleReply, AcceptedUpTo
      <4> QED BY <1>a, <2>1, <4>1, MaxOfTwo
    <3>2. CASE ~call.ok
      BY <1>6, <1>a, <3>2 DEF HandleReply
    <3> QED BY <3>1, <3>2
  <2>3. None \notin Requests
    BY RequestShape DEF None
  <2> QED BY <1>6, <2>2, <2>3 DEF HandleReply, TypeInv, TypeOK, CurrentTerm
<1>7. CASE LeaderChange
  <2>1. /\ used'["leaders"] = used["leaders"] + 1 /\ used["leaders"] < MaxLeaders
        /\ used' \in [{"leaders", "restarts"} -> Nat]
        /\ UNCHANGED <<follower, late>> /\ call' = None /\ matchIndex' = 0
        /\ nextIndex' = leader.last + 1
    BY <1>7, <1>a DEF LeaderChange, Spend
  <2>2. PICK floor \in 0..leader.last :
            leader' = [first |-> floor, last |-> leader.last, cached |-> floor]
    BY <1>7, <1>a DEF LeaderChange
  <2>3. /\ leader' \in [first : 0..MaxIndex, last : 0..MaxIndex, cached : 0..MaxIndex]
        /\ leader'.first <= leader'.last /\ leader'.cached = leader'.first
    BY <1>a, <2>2
  <2>4. \A m \in late' : m.term <= CurrentTerm'
    <3>1. \A m \in late : m.term \in Nat /\ m.term <= used["leaders"]
      BY RequestShape, <1>a DEF TypeInv, CurrentTerm
    <3> QED BY <3>1, <2>1, <1>a DEF CurrentTerm
  <2>5. None \notin Requests
    BY RequestShape DEF None
  <2>6. CurrentTerm' <= MaxLeaders /\ follower'.term <= CurrentTerm'
    BY <1>a, <2>1 DEF TypeInv, CurrentTerm
  <2> QED BY <1>a, <2>1, <2>3, <2>4, <2>5, <2>6 DEF TypeInv, TypeOK
<1>8. CASE FollowerHandles
  <2>1. call \in Requests /\ follower' = Handled(call)
    BY <1>8, CallShape DEF FollowerHandles, TypeInv
  <2>2. call' \in Replies /\ call' \notin Requests
    <3>1. call.last \in 0..MaxIndex
      BY <2>1, RequestShape
    <3>2. PICK b \in BOOLEAN : call' = [kind |-> "reply", last |-> call.last, ok |-> b]
      BY <1>8 DEF FollowerHandles
    <3> QED BY <3>1, <3>2, RequestShape DEF Replies
  <2>3. follower'.term <= CurrentTerm
    BY <1>a, <2>1, HandledEffect DEF TypeInv, CurrentTerm
  <2> QED BY <1>8, <2>1, <2>2, <2>3, HandledEffect DEF FollowerHandles, TypeInv, TypeOK, CurrentTerm
<1>9. CASE FollowerSnapshot
  <2>1. PICK idx \in (follower.first + 1)..follower.last :
            follower' = [term |-> follower.term, first |-> idx, last |-> follower.last, saved |-> idx]
    BY <1>9, <1>a DEF FollowerSnapshot
  <2>2. /\ follower' \in [term : 0..MaxLeaders, first : 0..MaxIndex,
                          last : 0..MaxIndex, saved : 0..MaxIndex]
        /\ follower'.first <= follower'.last /\ follower'.term = follower.term
    BY <1>a, <2>1
  <2> QED BY <1>9, <2>2 DEF FollowerSnapshot, TypeInv, TypeOK, CurrentTerm
<1>10. CASE FollowerRestart
  <2>1. /\ follower' = [term |-> 0, first |-> follower.saved, last |-> follower.saved,
                        saved |-> follower.saved]
        /\ used'["leaders"] = used["leaders"] /\ used' \in [{"leaders", "restarts"} -> Nat]
    <3>1. follower' = [follower EXCEPT !.term = 0, !.first = follower.saved, !.last = follower.saved]
          /\ used' = [used EXCEPT !["restarts"] = @ + 1]
      BY <1>10 DEF FollowerRestart, Spend
    <3>2. follower' = [term |-> 0, first |-> follower.saved, last |-> follower.saved,
                       saved |-> follower.saved]
      BY <1>a, <3>1
    <3>3. used'["leaders"] = used["leaders"] /\ used' \in [{"leaders", "restarts"} -> Nat]
      BY <1>a, <3>1
    <3> QED BY <3>2, <3>3
  <2>2. /\ follower' \in [term : 0..MaxLeaders, first : 0..MaxIndex,
                          last : 0..MaxIndex, saved : 0..MaxIndex]
        /\ follower'.first <= follower'.last /\ follower'.term <= used["leaders"]
    BY <1>a, <2>1
  <2> QED BY <1>10, <2>1, <2>2 DEF FollowerRestart, TypeInv, TypeOK, CurrentTerm
<1>11. ASSUME NEW m \in late, FollowerHandlesLate(m) PROVE TypeInv'
  <2>1. m \in Requests /\ m.term <= CurrentTerm
    BY DEF TypeInv
  <2>2. follower' = follower \/ follower' = Handled(m)
    BY <1>11 DEF FollowerHandlesLate
  <2>3. /\ follower' \in [term : 0..MaxLeaders, first : 0..MaxIndex,
                          last : 0..MaxIndex, saved : 0..MaxIndex]
        /\ follower'.first <= follower'.last /\ follower'.term <= CurrentTerm
    BY <1>a, <2>1, <2>2, HandledEffect DEF TypeInv
  <2> QED BY <1>11, <2>3 DEF FollowerHandlesLate, TypeInv, TypeOK, CurrentTerm
<1> QED
  BY <1>1, <1>2, <1>3, <1>4, <1>5, <1>6, <1>7, <1>8, <1>9, <1>10, <1>11 DEF Next

-----------------------------------------------------------------------------
(***************************************************************************)
(* What the leader counts on                                               *)
(***************************************************************************)

\* Nothing is counted on at the start.
LEMMA MatchInit == Init => MatchInv
  BY DEF Init, MatchInv, InstallsBehind, CountsHeld, LateInstalls, None

\* Every step keeps MatchInv.
LEMMA MatchStep == TypeInv /\ TypeInv' /\ MatchInv /\ [Next]_vars => MatchInv'
<1> SUFFICES ASSUME TypeInv, TypeInv', MatchInv, [Next]_vars, used'["restarts"] = 0
             PROVE  InstallsBehind' /\ CountsHeld'
  BY DEF MatchInv
<1>a. /\ leader.first \in Nat /\ leader.last \in Nat /\ leader.cached = leader.first
      /\ follower.term \in Nat /\ follower.first \in Nat /\ follower.last \in Nat
      /\ follower.term <= used["leaders"] /\ follower.first <= follower.last
      /\ nextIndex \in Nat /\ matchIndex \in Nat /\ nextIndex >= 1
      /\ used \in [{"leaders", "restarts"} -> Nat]
      /\ leader \in [first : 0..MaxIndex, last : 0..MaxIndex, cached : 0..MaxIndex]
      /\ follower \in [term : 0..MaxLeaders, first : 0..MaxIndex,
                       last : 0..MaxIndex, saved : 0..MaxIndex]
  BY CatchUpAssumption DEF TypeInv, TypeOK, CurrentTerm
<1>b. /\ \A m \in late : m \in Requests /\ m.last \in Nat /\ m.term \in Nat /\ m.term <= used["leaders"]
      /\ call \in Requests => call.last \in Nat /\ call.term = used["leaders"]
      /\ call.kind \in {"append", "install"} => call \in Requests
      /\ call.kind = "reply" => call.last \in Nat /\ call.ok \in BOOLEAN
  BY RequestShape, CallShape, CatchUpAssumption DEF TypeInv, CurrentTerm
<1>c. used["restarts"] = 0 => InstallsBehind /\ CountsHeld
  BY DEF MatchInv
<1>1. CASE UNCHANGED vars
  BY <1>1, <1>c DEF vars, InstallsBehind, CountsHeld, LateInstalls, CurrentTerm
<1>2. CASE Propose
  <2>1. leader'.first = leader.first /\ UNCHANGED <<nextIndex, matchIndex, follower, call, late, used>>
    BY <1>2, <1>a DEF Propose
  <2> QED BY <1>c, <2>1 DEF InstallsBehind, CountsHeld, LateInstalls, CurrentTerm
<1>3. CASE LeaderSnapshot
  <2>1. PICK idx \in (leader.first + 1)..leader.last : leader'.first = idx
    BY <1>3, <1>a DEF LeaderSnapshot
  <2>2. /\ UNCHANGED <<nextIndex, matchIndex, follower, call, late, used>>
        /\ leader.first <= leader'.first /\ leader'.first \in Nat
    BY <1>3, <1>a, <2>1 DEF LeaderSnapshot
  <2>3. UNCHANGED LateInstalls
    BY <2>2 DEF LateInstalls, CurrentTerm
  <2>4. \A m \in LateInstalls : m.last \in Nat
    BY <1>b DEF LateInstalls
  <2> QED BY <1>a, <1>b, <1>c, <2>2, <2>3, <2>4 DEF InstallsBehind, CountsHeld, CurrentTerm
<1>4. CASE SendAppend
  <2>0. UNCHANGED <<leader, matchIndex, follower, late, used>> /\ UNCHANGED LateInstalls /\ call = None
    BY <1>4 DEF SendAppend, LateInstalls, CurrentTerm
  <2>1. \A m \in LateInstalls : m.last \in Nat
    BY <1>b DEF LateInstalls
  <2>2. CASE BelowFloor /\ leader.cached # NoSnapshot
    <3>1. call' = InstallCall /\ UNCHANGED nextIndex
      BY <1>4, <2>2 DEF SendAppend
    <3>2. call'.kind = "install" /\ call'.last = leader.first
      BY <1>a, <3>1 DEF InstallCall
    <3> QED BY <1>a, <1>c, <2>0, <2>1, <2>2, <3>1, <3>2
        DEF InstallsBehind, CountsHeld, CurrentTerm, BelowFloor
  <2>3. CASE ~(BelowFloor /\ leader.cached # NoSnapshot)
    <3>1. nextIndex' = Max({nextIndex, leader.first + 1}) /\ call' = AppendCall(nextIndex')
      BY <1>4, <2>3 DEF SendAppend
    <3>2. nextIndex' = nextIndex /\ nextIndex > leader.first
      BY <1>a, <2>3, <3>1, MaxOfTwo DEF BelowFloor, NoSnapshot
    <3>3. call'.kind = "append" /\ call'.prev = nextIndex - 1
      BY <3>1, <3>2 DEF AppendCall
    <3> QED BY <1>a, <1>c, <2>0, <2>1, <3>2, <3>3 DEF InstallsBehind, CountsHeld, CurrentTerm
  <2> QED BY <2>2, <2>3
<1>5. CASE CallFails
  <2>1. UNCHANGED <<leader, nextIndex, matchIndex, follower, used>> /\ call'.kind = "none"
    BY <1>5 DEF CallFails, None
  <2>2. \A m \in LateInstalls' : m \in LateInstalls \/ (m = call /\ m.kind = "install")
    BY <1>5, <2>1 DEF CallFails, LateInstalls, CurrentTerm
  <2> QED BY <1>a, <1>c, <2>1, <2>2 DEF InstallsBehind, CountsHeld, CurrentTerm
<1>6. CASE HandleReply
  <2>1. UNCHANGED <<leader, follower, late, used>> /\ UNCHANGED LateInstalls
        /\ call.kind = "reply" /\ call'.kind = "none"
    BY <1>6 DEF HandleReply, None, LateInstalls, CurrentTerm
  <2>2. \A m \in LateInstalls : m.last \in Nat
    BY <1>b DEF LateInstalls
  <2>3. CASE call.ok
    <3>1. /\ matchIndex' = Max({matchIndex, call.last})
          /\ nextIndex' = Max({nextIndex, call.last + 1})
      BY <1>6, <2>3 DEF HandleReply, AcceptedUpTo
    <3>2. /\ matchIndex' = IF matchIndex >= call.last THEN matchIndex ELSE call.last
          /\ nextIndex' = IF nextIndex >= call.last + 1 THEN nextIndex ELSE call.last + 1
      BY <1>a, <1>b, <2>1, <3>1, MaxOfTwo
    <3> QED BY <1>a, <1>b, <1>c, <2>1, <2>2, <2>3, <3>2 DEF InstallsBehind, CountsHeld, CurrentTerm
  <2>4. CASE ~call.ok
    <3>1. nextIndex' \in {nextIndex, nextIndex - 1} /\ UNCHANGED matchIndex
      BY <1>6, <2>4 DEF HandleReply
    <3> QED BY <1>a, <1>b, <1>c, <2>1, <2>2, <2>4, <3>1 DEF InstallsBehind, CountsHeld, CurrentTerm
  <2> QED BY <2>3, <2>4
<1>7. CASE LeaderChange
  <2>1. /\ used'["leaders"] = used["leaders"] + 1
        /\ matchIndex' = 0 /\ nextIndex' = leader.last + 1 /\ call'.kind = "none"
        /\ UNCHANGED <<follower, late>>
    BY <1>7, <1>a DEF LeaderChange, Spend, None
  <2>2. LateInstalls' = {}
    BY <1>a, <1>b, <2>1 DEF LateInstalls, CurrentTerm
  <2> QED BY <1>a, <2>1, <2>2 DEF InstallsBehind, CountsHeld
<1>8. CASE FollowerHandles
  <2>1. /\ call \in Requests /\ call.kind \in {"append", "install"}
        /\ follower' = Handled(call)
        /\ call'.kind = "reply" /\ call'.last = call.last
        /\ call'.ok <=> (call.kind = "append" => call.prev <= follower.last)
        /\ UNCHANGED <<leader, nextIndex, matchIndex, late, used>> /\ UNCHANGED LateInstalls
    BY <1>8, <1>b DEF FollowerHandles, LateInstalls, CurrentTerm
  <2>2. \A m \in LateInstalls : m.last \in Nat
    BY <1>b DEF LateInstalls
  <2>3. call.last \in Nat /\ call.term = CurrentTerm
    BY <1>b, <2>1 DEF CurrentTerm
  <2>4. follower'.first \in Nat /\ follower'.last \in Nat
        /\ follower'.term = CurrentTerm /\ follower.first <= follower'.first
        /\ follower'.first <= follower'.last
    BY <2>1, <2>3, HandledEffect, CatchUpAssumption
  <2>5. CASE call.kind = "append"
    <3>1. /\ follower'.first = follower.first /\ follower.last <= follower'.last
          /\ call.prev <= follower.last => call.last <= follower'.last
      BY <2>1, <2>5, HandledEffect
    <3>2. call.prev \in Nat
      BY <2>1, <2>5, RequestShape, CatchUpAssumption
    <3> QED BY <1>a, <1>c, <2>1, <2>2, <2>3, <2>4, <2>5, <3>1, <3>2
        DEF InstallsBehind, CountsHeld, CurrentTerm
  <2>6. CASE call.kind = "install"
    <3>1. /\ call.last <= follower'.first
          /\ follower'.last = IF call.last <= follower.first THEN follower.last ELSE call.last
      BY <2>1, <2>6, HandledEffect
    <3> QED BY <1>a, <1>c, <2>1, <2>2, <2>3, <2>4, <2>6, <3>1
        DEF InstallsBehind, CountsHeld, CurrentTerm
  <2> QED BY <2>1, <2>5, <2>6
<1>9. CASE FollowerSnapshot
  <2>1. PICK idx \in (follower.first + 1)..follower.last :
            follower' = [follower EXCEPT !.first = idx, !.saved = idx]
    BY <1>9 DEF FollowerSnapshot
  <2>2. /\ follower'.first = idx /\ follower'.last = follower.last /\ follower'.term = follower.term
        /\ UNCHANGED <<leader, nextIndex, matchIndex, call, late, used>> /\ UNCHANGED LateInstalls
    BY <1>9, <1>a, <2>1 DEF FollowerSnapshot, LateInstalls, CurrentTerm
  <2>3. \A m \in LateInstalls : m.last \in Nat
    BY <1>b DEF LateInstalls
  <2> QED BY <1>a, <1>c, <2>2, <2>3 DEF InstallsBehind, CountsHeld, CurrentTerm
<1>10. CASE FollowerRestart
  BY <1>10, <1>a DEF FollowerRestart, Spend
<1>11. ASSUME NEW m \in late, FollowerHandlesLate(m) PROVE InstallsBehind' /\ CountsHeld'
  <2>1. /\ UNCHANGED <<leader, nextIndex, matchIndex, call, used>>
        /\ LateInstalls' \subseteq LateInstalls
        /\ follower' = IF m.term < follower.term THEN follower ELSE Handled(m)
    BY <1>11 DEF FollowerHandlesLate, LateInstalls, CurrentTerm
  <2>2. \A r \in LateInstalls : r.last \in Nat
    BY <1>b DEF LateInstalls
  <2>3. CASE m.term < follower.term
    BY <1>c, <2>1, <2>3 DEF InstallsBehind, CountsHeld, CurrentTerm
  <2>4. CASE ~(m.term < follower.term)
    <3>1. m \in Requests /\ m.last \in Nat /\ m.term \in Nat /\ m.term <= CurrentTerm
      BY <1>b DEF CurrentTerm
    <3>2. /\ follower'.first \in Nat /\ follower'.last \in Nat /\ follower'.term = m.term
          /\ follower.first <= follower'.first /\ follower'.first <= follower'.last
      BY <2>1, <2>4, <3>1, HandledEffect, CatchUpAssumption
    <3>3. CASE m.kind = "append"
      <4>1. follower'.first = follower.first /\ follower.last <= follower'.last
        BY <2>1, <2>4, <3>1, <3>3, HandledEffect
      <4> QED BY <1>a, <1>b, <1>c, <2>1, <2>2, <2>4, <3>1, <3>2, <4>1
          DEF InstallsBehind, CountsHeld, CurrentTerm
    <3>4. CASE m.kind = "install"
      <4>1. follower'.last = IF m.last <= follower.first THEN follower.last ELSE m.last
        BY <2>1, <2>4, <3>1, <3>4, HandledEffect
      <4>2. m.term = CurrentTerm => m \in LateInstalls
        BY <3>4 DEF LateInstalls
      <4>3. InstallsBehind'
        BY <1>a, <1>b, <1>c, <2>1, <2>2, <3>2 DEF InstallsBehind
      <4>4. CASE m.term = CurrentTerm
        BY <1>a, <1>b, <1>c, <2>1, <2>2, <3>1, <3>2, <4>1, <4>2, <4>3, <4>4
        DEF InstallsBehind, CountsHeld, CurrentTerm
      <4>5. CASE m.term # CurrentTerm
        <5>1. matchIndex = 0 /\ call.kind # "reply"
          BY <1>a, <1>c, <2>1, <2>4, <3>1, <4>5 DEF CountsHeld, CurrentTerm
        <5> QED BY <1>a, <1>c, <2>1, <3>2, <4>3, <5>1 DEF CountsHeld, CurrentTerm
      <4> QED BY <4>4, <4>5
    <3> QED BY <3>1, <3>3, <3>4, RequestShape
  <2> QED BY <2>3, <2>4
<1> QED
  BY <1>1, <1>2, <1>3, <1>4, <1>5, <1>6, <1>7, <1>8, <1>9, <1>10, <1>11 DEF Next

\* The leader commits by counting matchIndex, and may: as long as the follower
\* keeps its memory it holds every entry the leader counts on, for any number of
\* entries, leaders, compactions, lost calls and late requests.
THEOREM LeaderCountsWhatIsHeld == Spec => []MatchHeld
<1>1. Init => TypeInv /\ MatchInv
  BY TypeInit, MatchInit
<1>2. TypeInv /\ MatchInv /\ [Next]_vars => TypeInv' /\ MatchInv'
  BY TypeStep, MatchStep
<1>3. TypeInv /\ MatchInv => MatchHeld
  BY DEF TypeInv, MatchInv, CountsHeld, MatchHeld
<1> QED BY <1>1, <1>2, <1>3, PTL DEF Spec
=============================================================================
