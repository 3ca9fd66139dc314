----------------------------- MODULE NatsBroker -----------------------------
(***************************************************************************)
(* Dispatcher workers over NatsBroker (dispatcher/brokers.py): a pull      *)
(* subscription of the durable JetStream consumer "<queue>-workers" that   *)
(* all workers share.                                                      *)
(*                                                                         *)
(* Every call of the client goes through NatsBroker._run, which logs an    *)
(* exception and carries on: a fetch, ack, nak or dead-letter publish may  *)
(* fail without the worker noticing.  ack and nak are messages published   *)
(* without waiting for an answer.  The server counts a delivery as pending *)
(* until it is acknowledged or its ack wait (30 s by default, the same as  *)
(* the timeout of one POST) runs out; then it delivers it again, to any    *)
(* worker, and an ack or nak of the older delivery still counts.           *)
(***************************************************************************)
EXTENDS Dispatcher

CONSTANTS MaxFaults,   (* BOUND: crashes, failed or lost calls, late answers   *)
          DlqStream    (* does a stream capture the subject "<queue>.dead"?    *)

ASSUME NatsAssumption == MaxFaults \in Nat /\ DlqStream \in BOOLEAN

VARIABLES open,      (* messages of the stream the consumer has no ack for     *)
          pending,   (* delivered, the ack wait is running                     *)
          wire,      (* acks and naks on their way to the server               *)
          dlq,       (* messages stored under the dead-letter subject          *)
          unstored,  (* history: messages whose dead-letter publish failed     *)
          faults

brokerVars == <<open, pending, wire, dlq, unstored, faults>>
vars == <<dispatcherVars, brokerVars>>

Ack(m) == [cmd |-> "ack", m |-> m]
Nak(m) == [cmd |-> "nak", m |-> m]

TypeOK ==
    /\ DispatcherTypeOK
    /\ open \subseteq Messages
    /\ pending \subseteq open
    /\ wire \subseteq [cmd : {"ack", "nak"}, m : Messages]
    /\ dlq \subseteq Messages
    /\ unstored \subseteq Messages
    /\ faults \in 0..MaxFaults

Init ==
    /\ DispatcherInit
    /\ open = Messages
    /\ pending = {}
    /\ wire = {}
    /\ dlq = {}
    /\ unstored = {}
    /\ faults = 0

Fault == faults < MaxFaults /\ faults' = faults + 1

-----------------------------------------------------------------------------
(* poll: fetch(1).  json.loads is outside _run, so a body it refuses ends  *)
(* the process.                                                            *)
Poll(w) ==
    /\ pc[w] = "poll"
    /\ \E m \in open \ pending :
          /\ pending' = pending \cup {m}
          /\ IF m \in Undecodable THEN Dies(w) ELSE Fetched(w, m, 0)
    /\ UNCHANGED <<open, wire, dlq, unstored, faults>>

(* The server delivers, the fetch fails: to the worker the queue is empty. *)
FetchLost(w) ==
    /\ pc[w] = "poll"
    /\ \E m \in open \ pending : pending' = pending \cup {m}
    /\ Fault
    /\ UNCHANGED <<dispatcherVars, open, wire, dlq, unstored>>

Post(w) ==
    /\ PostAccepted(w) \/ PostFailed(w)
    /\ UNCHANGED brokerVars

(* Send a command, or fail to and swallow the exception.                   *)
Send(c) == \/ wire' = wire \cup {c} /\ UNCHANGED faults
           \/ UNCHANGED wire /\ Fault

(* Mutant of AckMessage: nak in place of ack.                              *)
AckNaks(w) ==
    /\ pc[w] = "ack"
    /\ Send(Nak(msg[w]))
    /\ Settled(w)
    /\ UNCHANGED <<open, pending, dlq, unstored>>

AckMessage(w) ==
    /\ pc[w] = "ack"
    /\ Send(Ack(msg[w]))
    /\ Settled(w)
    /\ UNCHANGED <<open, pending, dlq, unstored>>

(* Mutant of NackMessage: ack in place of nak.                             *)
NackAcks(w) ==
    /\ pc[w] = "nack"
    /\ Send(Ack(msg[w]))
    /\ Settled(w)
    /\ UNCHANGED <<open, pending, dlq, unstored>>

NackMessage(w) ==
    /\ pc[w] = "nack"
    /\ Send(Nak(msg[w]))
    /\ Settled(w)
    /\ UNCHANGED <<open, pending, dlq, unstored>>

(* Mutant of DeadLetterPublish: the message is acknowledged only.          *)
DeadLetterDrops(w) ==
    /\ pc[w] = "dead"
    /\ pc' = [pc EXCEPT ![w] = "deadack"]
    /\ UNCHANGED <<msg, attempts, handled, confirmed, failures>>
    /\ UNCHANGED brokerVars

(* dead_letter: the publish waits for the server's PubAck.  It fails when  *)
(* no stream captures the subject, and may fail when one does; either way  *)
(* the exception is swallowed ...                                          *)
DeadLetterPublish(w) ==
    /\ pc[w] = "dead"
    /\ pc' = [pc EXCEPT ![w] = "deadack"]
    /\ \/ /\ DlqStream
          /\ dlq' = dlq \cup {msg[w]}
          /\ UNCHANGED <<unstored, faults>>
       \/ /\ IF DlqStream THEN Fault ELSE UNCHANGED faults
          /\ unstored' = unstored \cup {msg[w]}
          /\ UNCHANGED dlq
    /\ UNCHANGED <<msg, attempts, handled, confirmed, failures>>
    /\ UNCHANGED <<open, pending, wire>>

(* ... and the delivery is acknowledged.                                   *)
DeadLetterAck(w) ==
    /\ pc[w] = "deadack"
    /\ Send(Ack(msg[w]))
    /\ Settled(w)
    /\ UNCHANGED <<open, pending, dlq, unstored>>

Crash(w) ==
    /\ pc[w] # "down"
    /\ Fault
    /\ Dies(w)
    /\ UNCHANGED <<open, pending, wire, dlq, unstored>>

Restart(w) ==
    /\ Starts(w)
    /\ UNCHANGED brokerVars

-----------------------------------------------------------------------------
(* The server (external).  An ack or nak takes effect, whichever delivery  *)
(* of the message it answers ...                                           *)
Receive(c) ==
    /\ c \in wire
    /\ wire' = wire \ {c}
    /\ pending' = pending \ {c.m}
    /\ open' = IF c.cmd = "ack" THEN open \ {c.m} ELSE open
    /\ UNCHANGED <<dispatcherVars, dlq, unstored, faults>>

(* ... or is lost.                                                         *)
Lose(c) ==
    /\ c \in wire
    /\ wire' = wire \ {c}
    /\ Fault
    /\ UNCHANGED <<dispatcherVars, open, pending, dlq, unstored>>

(* Nobody is going to answer for the delivery.                             *)
Orphan(m) ==
    /\ \A w \in Workers : ~(Holding(w) /\ msg[w] = m)
    /\ \A c \in wire : c.m # m

(* The ack wait runs out; while a worker is still at the message or its    *)
(* answer is on its way, that is a late answer.                            *)
Expire(m) ==
    /\ m \in pending
    /\ pending' = pending \ {m}
    /\ IF Orphan(m) THEN UNCHANGED faults ELSE Fault
    /\ UNCHANGED <<dispatcherVars, open, wire, dlq, unstored>>

-----------------------------------------------------------------------------
Commands == [cmd : {"ack", "nak"}, m : Messages]

WorkerStep(w) ==
    \/ Poll(w) \/ Post(w) \/ AckMessage(w) \/ NackMessage(w)
    \/ DeadLetterPublish(w) \/ DeadLetterAck(w)

Next ==
    \/ \E w \in Workers : WorkerStep(w) \/ FetchLost(w) \/ Crash(w) \/ Restart(w)
    \/ \E c \in Commands : Receive(c) \/ Lose(c)
    \/ \E m \in Messages : Expire(m)

Spec == Init /\ [][Next]_vars

(* run() loops forever and every POST ends within its timeout; KEDA does   *)
(* not leave the Deployment without a pod; what is sent arrives unless     *)
(* lost; an unanswered delivery's ack wait runs out.                       *)
Fairness ==
    /\ \A w \in Workers : WF_vars(WorkerStep(w))
    /\ WF_vars(AllDown /\ \E w \in Workers : Restart(w))
    /\ \A c \in Commands : WF_vars(Receive(c))
    /\ \A m \in Messages : WF_vars(Orphan(m) /\ Expire(m))

FairSpec == Spec /\ Fairness
-----------------------------------------------------------------------------
(* The stream forgets a message only after the handler processed it or the *)
(* dispatcher gave it up; the one way to lose it is a dead-letter publish  *)
(* that failed.  Crashes, late and lost answers and stale acks of an older *)
(* delivery cannot.                                                        *)
NoSilentLoss == Messages \subseteq open \cup handled \cup dlq \cup unstored

(* Without faults a message is posted by one worker at a time, and never   *)
(* again once a worker has seen its 2xx.                                   *)
NoDuplicateWithoutFault ==
    faults = 0 =>
        /\ \A w \in Workers : pc[w] = "post" => msg[w] \notin confirmed
        /\ \A v, w \in Workers : v # w /\ Holding(v) => msg[v] # msg[w]

(* A poll always gives a fresh Message, so a worker whose limit is two or  *)
(* more never uses it up: only the others dead-letter anything.            *)
NeverDeadLettered ==
    \A w \in Workers : MaxAttempts[w] > 1 => pc[w] \notin {"dead", "deadack"}

(* Every message leaves the stream's backlog, through crashes, lost acks   *)
(* and expired deliveries.                                                 *)
EventuallySettled == \A m \in Messages : <>[](m \notin open)

(* The dispatcher's contract, when every message handed to dead_letter     *)
(* counts as parked, stored or not: the backlog never grows again.         *)
Contract == INSTANCE AtLeastOnce
            WITH outstanding <- open, parked <- dlq \cup unstored
ContractSpec == Contract!Spec

(* core.py:50-51: brokers with a dead-letter queue "preserve the message   *)
(* for inspection".                                                        *)
DeadLettersPreserved == Messages \subseteq open \cup handled \cup dlq
=============================================================================
