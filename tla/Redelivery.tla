----------------------------- MODULE Redelivery -----------------------------
(***************************************************************************)
(* The redelivery loop of experiment 3 (_sqs_redeliver_loop in             *)
(* chaos-bench/exp3.py, inject_sqs_redelivery in chaos-bench/chaos.py) on  *)
(* the ingest queue, beside the dispatcher that consumes it.  A message is *)
(* visible, held by whoever received it last until its visibility timeout, *)
(* or deleted.  The queue is a standard one and delivers at least once: a  *)
(* message that is held or deleted may be received again all the same.     *)
(***************************************************************************)
EXTENDS Integers, FiniteSets

CONSTANTS
    Message,     \* the messages of the ingest queue
    MaxExpiries, \* bound: visibility timeouts that pass
    MaxCopies    \* bound: messages the queue delivers once more of itself

ASSUME RedeliveryAssumption == MaxExpiries \in Nat /\ MaxCopies \in Nat

VARIABLES
    holder,    \* "visible", "bench", "dispatcher" or "deleted"
    batch,     \* the messages of the call under way, still to be released
    seen,      \* how often the dispatcher received each message
    lapsed,    \* history: the messages of which a hold of the dispatcher expired
    late,      \* history: those of which a hold of the bench expired
    copied,    \* history: those the queue made visible again of itself
    expiries, copies

redeliveryVars == <<holder, batch, seen, lapsed, late, copied, expiries, copies>>

RedeliveryInit ==
    /\ holder = [m \in Message |-> "visible"] /\ batch = {}
    /\ seen = [m \in Message |-> 0]
    /\ lapsed = {} /\ late = {} /\ copied = {} /\ expiries = 0 /\ copies = 0

Hold(m, h) == holder' = [holder EXCEPT ![m] = h]

-----------------------------------------------------------------------------
(***************************************************************************)
(* The queue and the dispatcher                                            *)
(***************************************************************************)
Deliver(m) ==
    /\ holder[m] = "visible" /\ seen[m] < MaxExpiries + MaxCopies + 2
    /\ Hold(m, "dispatcher")
    /\ seen' = [seen EXCEPT ![m] = @ + 1]
    /\ UNCHANGED <<batch, lapsed, late, copied, expiries, copies>>

Delete(m) ==
    /\ holder[m] = "dispatcher"
    /\ Hold(m, "deleted")
    /\ UNCHANGED <<batch, seen, lapsed, late, copied, expiries, copies>>

\* A visibility timeout passes: 10 s for the bench, the queue's for the dispatcher.
HoldExpires(m) ==
    /\ holder[m] \in {"bench", "dispatcher"} /\ expiries < MaxExpiries
    /\ Hold(m, "visible") /\ expiries' = expiries + 1
    /\ lapsed' = IF holder[m] = "dispatcher" THEN lapsed \cup {m} ELSE lapsed
    /\ late' = IF holder[m] = "bench" THEN late \cup {m} ELSE late
    /\ UNCHANGED <<batch, seen, copied, copies>>

\* At-least-once delivery: a copy of a message turns up that a server of the
\* queue did not know to be held or deleted.
Resurface(m) ==
    /\ holder[m] # "visible" /\ copies < MaxCopies
    /\ Hold(m, "visible") /\ copies' = copies + 1
    /\ copied' = copied \cup {m}
    /\ UNCHANGED <<batch, seen, lapsed, late, expiries>>

-----------------------------------------------------------------------------
(***************************************************************************)
(* inject_sqs_redelivery                                                   *)
(***************************************************************************)

\* Mutant: messages in flight are taken too.
ReceiveInFlight ==
    /\ batch = {}
    /\ \E ms \in SUBSET {m \in Message : holder[m] # "deleted"} \ {{}} :
        /\ batch' = ms
        /\ holder' = [m \in Message |-> IF m \in ms THEN "bench" ELSE holder[m]]
    /\ UNCHANGED <<seen, lapsed, late, copied, expiries, copies>>

\* receive_message gives messages that are visible: none that is in flight.
ReceiveBatch ==
    /\ batch = {}
    /\ \E ms \in SUBSET {m \in Message : holder[m] = "visible"} \ {{}} :
        /\ batch' = ms
        /\ holder' = [m \in Message |-> IF m \in ms THEN "bench" ELSE holder[m]]
    /\ UNCHANGED <<seen, lapsed, late, copied, expiries, copies>>

\* change_message_visibility to 0, through a receipt handle that may have been
\* overtaken: if the message is held anew SQS may or may not accept it, if it is
\* gone the error is passed over.
Release(m) ==
    /\ m \in batch
    /\ batch' = batch \ {m}
    /\ \/ holder[m] \in {"bench", "dispatcher"} /\ Hold(m, "visible")
       \/ holder[m] # "bench" /\ UNCHANGED holder
    /\ UNCHANGED <<seen, lapsed, late, copied, expiries, copies>>

\* Another error ends the call: the rest of the batch waits for its timeout.
Abandon ==
    /\ batch # {}
    /\ batch' = {}
    /\ UNCHANGED <<holder, seen, lapsed, late, copied, expiries, copies>>

RedeliveryNext ==
    \/ ReceiveBatch \/ Abandon
    \/ \E m \in Message :
        Deliver(m) \/ Delete(m) \/ HoldExpires(m) \/ Resurface(m) \/ Release(m)

-----------------------------------------------------------------------------
\* The loop of inject_sqs_redelivery hides messages the dispatcher does not have
\* and redelivers none, whatever its docstring says of messages in flight.  The
\* dispatcher sees a message twice only when its own hold has expired, when the
\* bench held the message for more than its 10 s before it let it go, or when
\* the queue delivered it again of itself.
SecondDeliveryCause ==
    \A m \in Message : seen[m] > 1 => m \in lapsed \cup late \cup copied
=============================================================================
