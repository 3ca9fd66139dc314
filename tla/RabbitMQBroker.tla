--------------------------- MODULE RabbitMQBroker ---------------------------
(***************************************************************************)
(* Dispatcher workers over RabbitMQBroker (dispatcher/brokers.py).         *)
(*                                                                         *)
(* basic_get is a synchronous call: its reply comes after the server has   *)
(* processed whatever the worker sent before.  basic_ack, basic_nack and   *)
(* basic_publish (no confirms) are only written to the connection, so they *)
(* travel on a FIFO wire and are lost when the connection breaks first.    *)
(* The server returns the unacknowledged deliveries of a broken connection *)
(* to their original places in the queue; get serves the oldest ready      *)
(* message.                                                                *)
(***************************************************************************)
EXTENDS Dispatcher, Sequences

CONSTANTS MaxFaults,    (* BOUND: worker crashes and broken connections        *)
          MaxRestarts   (* BOUND: restarts of the RabbitMQ server              *)

ASSUME RabbitMQAssumption == MaxFaults \in Nat /\ MaxRestarts \in Nat

VARIABLES ready,     (* messages in the queue, ordered by number               *)
          unacked,   (* per connection: delivered, awaiting ack or nack        *)
          wire,      (* per connection: commands sent, not yet received        *)
          conn,      (* is the worker's connection open at the server?         *)
          dlq,       (* the contents of the dead-letter queue                  *)
          parked,    (* history: messages ever stored in the dead-letter queue *)
          faults,
          restarts

brokerVars == <<ready, unacked, wire, conn, dlq, parked, faults, restarts>>
vars == <<dispatcherVars, brokerVars>>

Publish(m) == [cmd |-> "publish", m |-> m]
Ack(m)     == [cmd |-> "ack",     m |-> m]
Nack(m)    == [cmd |-> "nack",    m |-> m]

Commands == [cmd : {"publish", "ack", "nack"}, m : Messages]

TypeOK ==
    /\ DispatcherTypeOK
    /\ ready \subseteq Messages
    /\ unacked \in [Workers -> SUBSET Messages]
    /\ wire \in [Workers -> Seq(Commands)]
    /\ conn \in [Workers -> BOOLEAN]
    /\ dlq \subseteq parked
    /\ parked \subseteq Messages
    /\ faults \in 0..MaxFaults
    /\ restarts \in 0..MaxRestarts

(* Both queues are declared durable; the producers' messages are assumed   *)
(* to be published as persistent.                                          *)
Init ==
    /\ DispatcherInit
    /\ ready = Messages
    /\ unacked = [w \in Workers |-> {}]
    /\ wire = [w \in Workers |-> << >>]
    /\ conn = [w \in Workers |-> TRUE]
    /\ dlq = {}
    /\ parked = {}
    /\ faults = 0
    /\ restarts = 0

Oldest(m) == m \in ready /\ \A n \in ready : m <= n

Send(w, c) == wire' = [wire EXCEPT ![w] = Append(@, c)]

-----------------------------------------------------------------------------
(* Mutants of Poll: auto_ack=True, or a server that leaves a delivered     *)
(* message ready.                                                          *)
PollAutoAck(w) ==
    /\ pc[w] = "poll"
    /\ conn[w]
    /\ wire[w] = << >>
    /\ \E m \in Messages :
          /\ Oldest(m)
          /\ ready' = ready \ {m}
          /\ IF m \in Undecodable THEN Dies(w) ELSE Fetched(w, m, 0)
    /\ UNCHANGED <<unacked, wire, conn, dlq, parked, faults, restarts>>

PollBrowses(w) ==
    /\ pc[w] = "poll"
    /\ conn[w]
    /\ wire[w] = << >>
    /\ \E m \in Messages :
          /\ Oldest(m)
          /\ unacked' = [unacked EXCEPT ![w] = @ \cup {m}]
          /\ IF m \in Undecodable THEN Dies(w) ELSE Fetched(w, m, 0)
    /\ UNCHANGED <<ready, wire, conn, dlq, parked, faults, restarts>>

(* poll: basic_get(auto_ack=False) delivers the oldest message.  When      *)
(* json.loads refuses the body the exception ends the process, with the    *)
(* delivery unacknowledged.                                                *)
Poll(w) ==
    /\ pc[w] = "poll"
    /\ conn[w]
    /\ wire[w] = << >>
    /\ \E m \in Messages :
          /\ Oldest(m)
          /\ ready' = ready \ {m}
          /\ unacked' = [unacked EXCEPT ![w] = @ \cup {m}]
          /\ IF m \in Undecodable THEN Dies(w) ELSE Fetched(w, m, 0)
    /\ UNCHANGED <<wire, conn, dlq, parked, faults, restarts>>

Post(w) ==
    /\ PostAccepted(w) \/ PostFailed(w)
    /\ UNCHANGED brokerVars

(* Mutants of AckMessage: the message is nacked, or no command is sent.    *)
AckRequeues(w) ==
    /\ pc[w] = "ack"
    /\ conn[w]
    /\ Send(w, Nack(msg[w]))
    /\ Settled(w)
    /\ UNCHANGED <<ready, unacked, conn, dlq, parked, faults, restarts>>

AckForgotten(w) ==
    /\ pc[w] = "ack"
    /\ conn[w]
    /\ Settled(w)
    /\ UNCHANGED brokerVars

AckMessage(w) ==
    /\ pc[w] = "ack"
    /\ conn[w]
    /\ Send(w, Ack(msg[w]))
    /\ Settled(w)
    /\ UNCHANGED <<ready, unacked, conn, dlq, parked, faults, restarts>>

NackMessage(w) ==
    /\ pc[w] = "nack"
    /\ conn[w]
    /\ Send(w, Nack(msg[w]))
    /\ Settled(w)
    /\ UNCHANGED <<ready, unacked, conn, dlq, parked, faults, restarts>>

(* Mutant of DeadLetterPublish: the message is acknowledged only.          *)
DeadLetterDrops(w) ==
    /\ pc[w] = "dead"
    /\ conn[w]
    /\ pc' = [pc EXCEPT ![w] = "deadack"]
    /\ UNCHANGED <<msg, attempts, handled, confirmed, failures>>
    /\ UNCHANGED brokerVars

(* dead_letter: first publish the body to the dead-letter queue ...        *)
DeadLetterPublish(w) ==
    /\ pc[w] = "dead"
    /\ conn[w]
    /\ Send(w, Publish(msg[w]))
    /\ pc' = [pc EXCEPT ![w] = "deadack"]
    /\ UNCHANGED <<msg, attempts, handled, confirmed, failures>>
    /\ UNCHANGED <<ready, unacked, conn, dlq, parked, faults, restarts>>

(* ... then acknowledge the delivery.                                      *)
DeadLetterAck(w) ==
    /\ pc[w] = "deadack"
    /\ conn[w]
    /\ Send(w, Ack(msg[w]))
    /\ Settled(w)
    /\ UNCHANGED <<ready, unacked, conn, dlq, parked, faults, restarts>>

(* Any call on a broken connection raises, and nothing in run() catches it.*)
CallFails(w) ==
    /\ pc[w] \in {"poll", "ack", "nack", "dead", "deadack"}
    /\ ~conn[w]
    /\ Dies(w)
    /\ UNCHANGED brokerVars

Crash(w) ==
    /\ pc[w] # "down"
    /\ faults < MaxFaults
    /\ faults' = faults + 1
    /\ Dies(w)
    /\ UNCHANGED <<ready, unacked, wire, conn, dlq, parked, restarts>>

(* A new process opens a connection of its own; the worker's old one is    *)
(* closed by then (a half-open one that lingers is one more worker's).     *)
Restart(w) ==
    /\ ~conn[w]
    /\ Starts(w)
    /\ conn' = [conn EXCEPT ![w] = TRUE]
    /\ UNCHANGED <<ready, unacked, wire, dlq, parked, faults, restarts>>

-----------------------------------------------------------------------------
(* The server (external).                                                  *)
Receive(w) ==
    /\ wire[w] # << >>
    /\ wire' = [wire EXCEPT ![w] = Tail(@)]
    /\ LET c == Head(wire[w]) IN
          \/ /\ c.cmd = "publish"
             /\ dlq' = dlq \cup {c.m}
             /\ parked' = parked \cup {c.m}
             /\ UNCHANGED <<ready, unacked>>
          \/ /\ c.cmd = "ack"
             /\ unacked' = [unacked EXCEPT ![w] = @ \ {c.m}]
             /\ UNCHANGED <<ready, dlq, parked>>
          \/ /\ c.cmd = "nack"
             /\ unacked' = [unacked EXCEPT ![w] = @ \ {c.m}]
             /\ ready' = ready \cup {c.m}
             /\ UNCHANGED <<dlq, parked>>
    /\ UNCHANGED <<dispatcherVars, conn, faults, restarts>>

(* The server notices that a dead worker's connection is gone, or a live   *)
(* worker's connection breaks, a fault.  The worker learns of it at its    *)
(* next call.                                                              *)
ConnectionLost(w) ==
    /\ conn[w]
    /\ \/ pc[w] = "down" /\ UNCHANGED faults
       \/ pc[w] # "down" /\ faults < MaxFaults /\ faults' = faults + 1
    /\ conn' = [conn EXCEPT ![w] = FALSE]
    /\ wire' = [wire EXCEPT ![w] = << >>]
    /\ ready' = ready \cup unacked[w]
    /\ unacked' = [unacked EXCEPT ![w] = {}]
    /\ UNCHANGED <<dispatcherVars, dlq, parked, restarts>>

(* The server restarts.  The queues survive, but the copies in the dead-   *)
(* letter queue do not: basic_publish passes no properties, so they are    *)
(* transient (delivery mode 1).                                            *)
ServerRestart ==
    /\ restarts < MaxRestarts
    /\ restarts' = restarts + 1
    /\ conn' = [w \in Workers |-> FALSE]
    /\ wire' = [w \in Workers |-> << >>]
    /\ ready' = ready \cup UNION {unacked[w] : w \in Workers}
    /\ unacked' = [w \in Workers |-> {}]
    /\ dlq' = {}
    /\ UNCHANGED <<dispatcherVars, parked, faults>>

-----------------------------------------------------------------------------
WorkerStep(w) ==
    \/ Poll(w) \/ Post(w) \/ AckMessage(w) \/ NackMessage(w)
    \/ DeadLetterPublish(w) \/ DeadLetterAck(w) \/ CallFails(w)

ServerStep(w) == Receive(w) \/ ConnectionLost(w)

Next ==
    \/ \E w \in Workers : WorkerStep(w) \/ Crash(w) \/ Restart(w) \/ ServerStep(w)
    \/ ServerRestart

Spec == Init /\ [][Next]_vars

(* run() loops forever and every POST ends within its timeout; KEDA does   *)
(* not leave the Deployment without a pod; the server reads its sockets    *)
(* and drops the connections of dead peers (TCP, heartbeats).              *)
Fairness ==
    /\ \A w \in Workers :
        /\ WF_vars(WorkerStep(w))
        /\ WF_vars(Receive(w))
        /\ WF_vars(pc[w] = "down" /\ ConnectionLost(w))
    /\ WF_vars(AllDown /\ \E w \in Workers : Restart(w))

FairSpec == Spec /\ Fairness
-----------------------------------------------------------------------------
Outstanding == ready \cup UNION {unacked[w] : w \in Workers}

(* Nothing is lost, whatever crashes or breaks: a message the queue has    *)
(* forgotten was processed by the handler or stored in the dead-letter     *)
(* queue.  At stake are the acks sent before a connection breaks and the   *)
(* publish-then-ack order of dead_letter.                                  *)
NoLoss == Messages \subseteq Outstanding \cup handled \cup parked

(* A delivery is outstanding at one place only, so at most one connection  *)
(* can settle it.                                                          *)
OnePlace ==
    /\ \A w \in Workers : unacked[w] \cap ready = {}
    /\ \A v, w \in Workers : v # w => unacked[v] \cap unacked[w] = {}

(* Without faults a message is posted by one worker at a time, and never   *)
(* again once a worker has seen its 2xx: duplicates need a crash, a broken *)
(* connection or a lost answer.                                            *)
NoDuplicateWithoutFault ==
    faults = 0 /\ restarts = 0 =>
        /\ \A w \in Workers : pc[w] = "post" => msg[w] \notin confirmed
        /\ \A v, w \in Workers : v # w /\ Holding(v) => msg[v] # msg[w]

(* A poll always gives a fresh Message, so a worker whose limit is two or  *)
(* more never uses it up: only the others fill the dead-letter queue.      *)
NeverDeadLettered ==
    \A w \in Workers : MaxAttempts[w] > 1 => pc[w] \notin {"dead", "deadack"}

(* Every message leaves the queue, through crashes and reconnections, if   *)
(* the handler accepts it after finitely many failures, unless a body that *)
(* cannot be decoded is older and blocks the queue.                        *)
EventuallySettled ==
    \A m \in Messages :
        {n \in Undecodable : n <= m} = {} => <>[](m \notin Outstanding)

(* The dispatcher's contract, with the queue as "outstanding".             *)
Contract == INSTANCE AtLeastOnce WITH outstanding <- Outstanding
ContractSpec == Contract!Spec

=============================================================================
