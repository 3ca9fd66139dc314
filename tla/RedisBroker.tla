---------------------------- MODULE RedisBroker -----------------------------
(***************************************************************************)
(* Dispatcher workers over RedisBroker (dispatcher/brokers.py): a Redis    *)
(* list consumed with LPOP and refilled with RPUSH, and a second list of   *)
(* dead letters.                                                           *)
(*                                                                         *)
(* LPOP removes the message before the worker has seen it, and no call     *)
(* acknowledges anything later: between poll and settle the only copy of a *)
(* message is a local variable of the worker.  Every call is one request   *)
(* and one reply.  When the reply is lost the server has already acted;    *)
(* depending on its version the client library repeats the request, or     *)
(* raises and the process ends.                                            *)
(***************************************************************************)
EXTENDS Dispatcher, Sequences

CONSTANT MaxFaults      (* BOUND: crashes and lost replies                     *)

ASSUME RedisAssumption == MaxFaults \in Nat /\ IsFiniteSet(Messages)

VARIABLES queue,   (* the Redis list                                         *)
          dlq,     (* the Redis list of dead letters, order aside            *)
          struck,  (* history: messages in a worker's hands during a fault   *)
          faults

brokerVars == <<queue, dlq, struck, faults>>
vars == <<dispatcherVars, brokerVars>>

TypeOK ==
    /\ DispatcherTypeOK
    /\ queue \in Seq(Messages)
    /\ dlq \subseteq Messages
    /\ struck \subseteq Messages
    /\ faults \in 0..MaxFaults

(* The producers' messages in any order of arrival: some enumeration of    *)
(* Messages without repetition.                                            *)
Arrivals ==
    {s \in [1..Cardinality(Messages) -> Messages] :
        /\ \A m \in Messages : \E i \in DOMAIN s : s[i] = m
        /\ \A i, j \in DOMAIN s : s[i] = s[j] => i = j}

Init ==
    /\ DispatcherInit
    /\ queue \in Arrivals
    /\ dlq = {}
    /\ struck = {}
    /\ faults = 0

Fault(m) ==
    /\ faults < MaxFaults
    /\ faults' = faults + 1
    /\ struck' = struck \cup ({m} \ {None})

NoFault == UNCHANGED <<struck, faults>>

-----------------------------------------------------------------------------
(* Mutant of Poll: LINDEX in place of LPOP.                                *)
PollPeeks(w) ==
    /\ pc[w] = "poll"
    /\ queue # << >>
    /\ Head(queue) \notin Undecodable
    /\ Fetched(w, Head(queue), 0)
    /\ UNCHANGED brokerVars

(* poll: LPOP, then a fresh Message, so attempts starts at 0 each time.    *)
(* A body json.loads refuses ends the process after the LPOP.              *)
Poll(w) ==
    /\ pc[w] = "poll"
    /\ queue # << >>
    /\ queue' = Tail(queue)
    /\ IF Head(queue) \in Undecodable
       THEN Dies(w)
       ELSE Fetched(w, Head(queue), 0)
    /\ NoFault
    /\ UNCHANGED dlq

(* The popped message was in the reply that got lost.                      *)
PollReplyLost(w) ==
    /\ pc[w] = "poll"
    /\ queue # << >>
    /\ queue' = Tail(queue)
    /\ Fault(Head(queue))
    /\ Dies(w) \/ UNCHANGED dispatcherVars
    /\ UNCHANGED dlq

Post(w) ==
    /\ PostAccepted(w) \/ PostFailed(w)
    /\ UNCHANGED brokerVars

(* ack makes no call.                                                      *)
AckMessage(w) ==
    /\ pc[w] = "ack"
    /\ Settled(w)
    /\ UNCHANGED brokerVars

(* Mutants of NackMessage: the body is not pushed back, or LPUSH in place  *)
(* of RPUSH.                                                               *)
NackDrops(w) ==
    /\ pc[w] = "nack"
    /\ Settled(w)
    /\ UNCHANGED brokerVars

NackToHead(w) ==
    /\ pc[w] = "nack"
    /\ queue' = <<msg[w]>> \o queue
    /\ Settled(w)
    /\ NoFault
    /\ UNCHANGED dlq

(* nack: RPUSH of the body to the tail of the same list.                   *)
NackMessage(w) ==
    /\ pc[w] = "nack"
    /\ queue' = Append(queue, msg[w])
    /\ Settled(w)
    /\ NoFault
    /\ UNCHANGED dlq

(* Mutants of DeadLetter: the default of the Broker class, which drops the *)
(* message, or a push to both lists.                                       *)
DeadLetterDrops(w) ==
    /\ pc[w] = "dead"
    /\ Settled(w)
    /\ UNCHANGED brokerVars

DeadLetterAndNack(w) ==
    /\ pc[w] = "dead"
    /\ dlq' = dlq \cup {msg[w]}
    /\ queue' = Append(queue, msg[w])
    /\ Settled(w)
    /\ NoFault

(* dead_letter: RPUSH of the body to the dead-letter list.                 *)
DeadLetter(w) ==
    /\ pc[w] = "dead"
    /\ dlq' = dlq \cup {msg[w]}
    /\ Settled(w)
    /\ NoFault
    /\ UNCHANGED queue

(* The RPUSH was done but its reply lost: the client repeats it, or dies.  *)
PushReplyLost(w) ==
    /\ \/ pc[w] = "nack" /\ queue' = Append(queue, msg[w]) /\ UNCHANGED dlq
       \/ pc[w] = "dead" /\ dlq' = dlq \cup {msg[w]} /\ UNCHANGED queue
    /\ Fault(msg[w])
    /\ Dies(w) \/ UNCHANGED dispatcherVars

(* The process is killed, or a request cannot be sent and the call raises. *)
Crash(w) ==
    /\ pc[w] # "down"
    /\ Fault(msg[w])
    /\ Dies(w)
    /\ UNCHANGED <<queue, dlq>>

Restart(w) ==
    /\ Starts(w)
    /\ UNCHANGED brokerVars

WorkerStep(w) ==
    Poll(w) \/ Post(w) \/ AckMessage(w) \/ NackMessage(w) \/ DeadLetter(w)

Next == \E w \in Workers :
    WorkerStep(w) \/ PollReplyLost(w) \/ PushReplyLost(w) \/ Crash(w) \/ Restart(w)

Spec == Init /\ [][Next]_vars

(* run() loops forever, every POST ends within its timeout, and KEDA does  *)
(* not leave the Deployment without a pod; a pod that was scaled in need   *)
(* not come back while another one runs.                                   *)
Fairness ==
    /\ \A w \in Workers : WF_vars(WorkerStep(w))
    /\ WF_vars(AllDown /\ \E w \in Workers : Restart(w))

FairSpec == Spec /\ Fairness
-----------------------------------------------------------------------------
Holders(m) == {w \in Workers : Holding(w) /\ msg[w] = m}
Places(m)  == {i \in DOMAIN queue : queue[i] = m}
Outstanding == {m \in Messages : Places(m) # {} \/ Holders(m) # {}}

Accounted(m) == m \in Outstanding \cup confirmed \cup dlq

OneCopy(m) ==
    /\ \A i, j \in Places(m) : i = j
    /\ \A v, w \in Holders(m) : v = w
    /\ Places(m) = {} \/ Holders(m) = {}
    /\ m \in dlq => m \notin Outstanding
    /\ m \in confirmed => Places(m) = {} /\ \A w \in Holders(m) : pc[w] = "ack"

(* The damage of a fault is confined to the message in the worker's hands: *)
(* any other decodable message is in the list, in one worker's hands, seen *)
(* answered with a 2xx, or dead-lettered ...                               *)
LossConfined == \A m \in Messages \ (struck \cup Undecodable) : Accounted(m)

(* ... and is there only once: not twice in the list, not in the list and  *)
(* in a worker's hands, and never again after its 2xx or its dead-         *)
(* lettering.                                                              *)
NoCopies == \A m \in Messages \ struck : OneCopy(m)

(* A poll always gives a fresh Message, so a worker whose limit is two or  *)
(* more never uses it up: only the others fill the dead-letter list.       *)
NeverDeadLettered ==
    \A w \in Workers : MaxAttempts[w] > 1 => pc[w] # "dead"

(* RPUSH puts a retried message behind the others, so a message the        *)
(* handler keeps rejecting delays the rest but does not starve them: every *)
(* message no fault has struck is eventually processed or dead-lettered.   *)
NoStarvation ==
    \A m \in Messages \ (Rejected \cup Undecodable) :
        <>(m \in handled \cup dlq \cup struck)

(* The dispatcher's contract, with the list and the workers' variables as  *)
(* the queue, for every message it can be kept for: one that was struck or *)
(* cannot be decoded counts as outstanding for ever.                       *)
Contract == INSTANCE AtLeastOnce
            WITH outstanding <- Outstanding \cup struck \cup Undecodable,
                 parked <- dlq
ContractSpec == Contract!Spec

(* core.py:11-14: "anything else retries up to max_attempts (then the      *)
(* message is dropped)".                                                   *)
AttemptsBounded ==
    \A m \in Messages : \E w \in Workers : failures[m] <= MaxAttempts[w]
=============================================================================
