--------------------------- MODULE RabbitMQProofs ---------------------------
(***************************************************************************)
(* Theorems about RabbitMQBroker, for any messages, workers and bounds.    *)
(*                                                                         *)
(* NoLoss is not inductive: that an ack on the wire may be obeyed depends  *)
(* on what the worker knew when it sent it.  WireInv says what a wire can  *)
(* carry, WorkerInv what a worker knows at each point of step().           *)
(***************************************************************************)
EXTENDS RabbitMQBroker, DispatcherProofs, SequenceTheorems

(* A wire carries the settlement of one unacknowledged delivery at most: a *)
(* justified ack, a nack, or a dead-letter publish that the ack follows.   *)
WireForm(w) ==
    \/ wire[w] = << >>
    \/ \E m \in unacked[w] :
          \/ wire[w] = <<Ack(m)>> /\ m \in handled \cup parked
          \/ wire[w] = <<Nack(m)>>
          \/ wire[w] = <<Publish(m)>>
          \/ wire[w] = <<Publish(m), Ack(m)>>

WireInv == \A w \in Workers :
    /\ WireForm(w)
    /\ ~conn[w] => wire[w] = << >> /\ unacked[w] = {}

WorkerInv == \A w \in Workers :
    /\ Holding(w) => msg[w] \in Messages /\ (conn[w] => msg[w] \in unacked[w])
    /\ pc[w] \in {"post", "ack", "nack", "dead"} => wire[w] = << >>
    /\ pc[w] = "ack" => msg[w] \in handled
    /\ pc[w] = "deadack" /\ conn[w] =>
          \/ wire[w] = << >> /\ msg[w] \in parked
          \/ wire[w] = <<Publish(msg[w])>>

IInv == TypeOK /\ OnePlace /\ WireInv /\ WorkerInv /\ NoLoss

-----------------------------------------------------------------------------
(* Sequences of at most two elements.                                      *)
LEMMA ShortWires ==
  ASSUME NEW a, NEW b
  PROVE  /\ Append(<< >>, a) = <<a>> /\ Append(<<a>>, b) = <<a, b>>
         /\ Tail(<<a>>) = << >> /\ Tail(<<a, b>>) = <<b>>
         /\ Head(<<a>>) = a /\ Head(<<a, b>>) = a
<1> DEFINE s == Append(<<a>>, b)
           t == <<a, b>>
<1>1. s \in Seq({a, b}) /\ Len(s) = 2 /\ s[1] = a /\ s[2] = b
  <2>1. <<a>> \in Seq({a, b}) /\ Len(<<a>>) = 1 /\ <<a>>[1] = a
    OBVIOUS
  <2>2. QED
    BY <2>1, AppendProperties
<1>2. t \in Seq({a, b}) /\ Len(t) = 2 /\ t[1] = a /\ t[2] = b
  OBVIOUS
<1>3. s = t
  <2> HIDE DEF s, t
  <2>1. \A i \in 1 .. Len(s) : s[i] = t[i]
    BY <1>1, <1>2
  <2>2. QED
    BY <1>1, <1>2, <2>1, SeqEqual
<1>4. /\ Append(<< >>, a) = <<a>> /\ Tail(<<a, b>>) = <<b>>
      /\ Head(<<a>>) = a /\ Head(<<a, b>>) = a
  OBVIOUS
<1>5. Tail(<<a>>) = << >>
  OBVIOUS
<1>6. QED
  BY <1>3, <1>4, <1>5

(* The fields of the three commands.                                       *)
LEMMA CommandFields ==
  ASSUME NEW m \in Messages
  PROVE  /\ {Ack(m), Nack(m), Publish(m)} \subseteq Commands
         /\ Ack(m).cmd = "ack" /\ Ack(m).m = m
         /\ Nack(m).cmd = "nack" /\ Nack(m).m = m
         /\ Publish(m).cmd = "publish" /\ Publish(m).m = m
  BY DEF Ack, Nack, Publish, Commands

(* The invariant holds initially: every message is in the queue.           *)
LEMMA InitIInv == Init => IInv
<1> SUFFICES ASSUME Init PROVE IInv
  OBVIOUS
<1>1. TypeOK
  BY InitType, RabbitMQAssumption, DispatcherAssumption
     DEF Init, TypeOK, DispatcherInit, RabbitMQAssumption, DispatcherAssumption
<1>2. OnePlace /\ WireInv
  BY DEF Init, OnePlace, WireInv, WireForm
<1>3. WorkerInv
  BY DEF Init, DispatcherInit, WorkerInv, Holding
<1>4. NoLoss
  BY DEF Init, NoLoss, Outstanding
<1>5. QED
  BY <1>1, <1>2, <1>3, <1>4 DEF IInv

(* basic_get moves the oldest message to the connection's deliveries.      *)
LEMMA PollInv ==
  ASSUME IInv, NEW w \in Workers, Poll(w)
  PROVE  IInv'
<1> USE DEF IInv
<1>1. PICK m \in Messages :
        /\ m \in ready /\ ready' = ready \ {m}
        /\ unacked' = [unacked EXCEPT ![w] = @ \cup {m}]
        /\ Dies(w) \/ Fetched(w, m, 0)
  BY DEF Poll, Oldest
<1>a. /\ DispatcherTypeOK' /\ OnlyWorker(w) /\ UNCHANGED handled
      /\ \/ pc'[w] = "down"
         \/ pc'[w] = "post" /\ msg'[w] = m
  BY <1>1, DiesStep, FetchedStep DEF TypeOK
<1>b. /\ pc[w] = "poll" /\ conn[w] /\ wire[w] = << >>
      /\ UNCHANGED <<wire, conn, dlq, parked, faults, restarts>>
  BY DEF Poll
<1>2. TypeOK'
  BY <1>1, <1>a, <1>b DEF TypeOK
<1>3. OnePlace'
  BY <1>1 DEF OnePlace, TypeOK
<1>4. WireInv'
  BY <1>1, <1>a, <1>b DEF TypeOK, WireInv, WireForm
<1>5. WorkerInv'
  BY <1>1, <1>a, <1>b DEF TypeOK, WorkerInv, OnlyWorker, Holding
<1>6. NoLoss'
  BY <1>1, <1>a, <1>b DEF TypeOK, NoLoss, Outstanding
<1>7. QED
  BY <1>2, <1>3, <1>4, <1>5, <1>6

(* The POST changes nothing at the broker; an ack follows a 2xx only.      *)
LEMMA PostInv ==
  ASSUME IInv, NEW w \in Workers, Post(w)
  PROVE  IInv'
<1> USE DEF IInv
<1>1. msg[w] \in Messages /\ UNCHANGED brokerVars /\ (PostAccepted(w) \/ PostFailed(w))
  BY DEF Post, WorkerInv, Holding, PostAccepted, PostFailed
<1>a. /\ DispatcherTypeOK' /\ OnlyWorker(w) /\ msg' = msg /\ pc[w] = "post"
      /\ pc'[w] \in {"ack", "nack", "dead"} /\ (pc'[w] = "ack" => msg[w] \in handled')
      /\ handled \subseteq handled'
  BY <1>1, PostStep DEF TypeOK
<1>2. TypeOK'
  BY <1>1, <1>a DEF TypeOK, brokerVars
<1>3. OnePlace'
  BY <1>1 DEF OnePlace, brokerVars
<1>4. WireInv'
  BY <1>1, <1>a DEF WireInv, WireForm, brokerVars
<1>5. WorkerInv'
  BY <1>1, <1>a DEF TypeOK, WorkerInv, OnlyWorker, Holding, brokerVars
<1>6. NoLoss'
  BY <1>1, <1>a DEF NoLoss, Outstanding, brokerVars
<1>7. QED
  BY <1>2, <1>3, <1>4, <1>5, <1>6

(* ack sends a justified ack: the worker knows of the 2xx.                 *)
LEMMA AckMessageInv ==
  ASSUME IInv, NEW w \in Workers, AckMessage(w)
  PROVE  IInv'
<1> USE DEF IInv
<1>1. /\ pc[w] = "ack" /\ conn[w] /\ msg[w] \in Messages /\ msg[w] \in unacked[w]
      /\ wire' = [wire EXCEPT ![w] = Append(@, Ack(msg[w]))] /\ Settled(w)
      /\ UNCHANGED <<ready, unacked, conn, dlq, parked, faults, restarts>>
  BY DEF AckMessage, Send, WorkerInv, Holding
<1>a. DispatcherTypeOK' /\ OnlyWorker(w) /\ pc'[w] = "poll" /\ UNCHANGED handled
  BY <1>1, SettledStep DEF TypeOK
<1>b. wire'[w] = <<Ack(msg[w])>>
  BY <1>1, ShortWires DEF TypeOK, WorkerInv
<1>2. TypeOK'
  BY <1>1, <1>a, CommandFields DEF TypeOK
<1>3. OnePlace'
  BY <1>1 DEF OnePlace
<1>4. WireInv'
  <2>1. \A v \in Workers \ {w} : wire'[v] = wire[v]
    BY <1>1 DEF TypeOK
  <2>2. WireForm(w)'
    BY <1>1, <1>a, <1>b DEF WorkerInv, WireForm
  <2>3. QED
    BY <1>1, <1>a, <2>1, <2>2 DEF WireInv, WireForm
<1>5. WorkerInv'
  <2>1. \A v \in Workers \ {w} : wire'[v] = wire[v]
    BY <1>1 DEF TypeOK
  <2>2. QED
    BY <1>1, <1>a, <2>1 DEF WorkerInv, OnlyWorker, Holding
<1>6. NoLoss'
  BY <1>1, <1>a DEF NoLoss, Outstanding
<1>7. QED
  BY <1>2, <1>3, <1>4, <1>5, <1>6

(* nack sends the delivery back.                                           *)
LEMMA NackMessageInv ==
  ASSUME IInv, NEW w \in Workers, NackMessage(w)
  PROVE  IInv'
<1> USE DEF IInv
<1>1. /\ pc[w] = "nack" /\ conn[w] /\ msg[w] \in Messages /\ msg[w] \in unacked[w]
      /\ wire' = [wire EXCEPT ![w] = Append(@, Nack(msg[w]))] /\ Settled(w)
      /\ UNCHANGED <<ready, unacked, conn, dlq, parked, faults, restarts>>
  BY DEF NackMessage, Send, WorkerInv, Holding
<1>a. DispatcherTypeOK' /\ OnlyWorker(w) /\ pc'[w] = "poll" /\ UNCHANGED handled
  BY <1>1, SettledStep DEF TypeOK
<1>b. wire'[w] = <<Nack(msg[w])>>
  BY <1>1, ShortWires DEF TypeOK, WorkerInv
<1>2. TypeOK'
  BY <1>1, <1>a, CommandFields DEF TypeOK
<1>3. OnePlace'
  BY <1>1 DEF OnePlace
<1>4. WireInv'
  <2>1. \A v \in Workers \ {w} : wire'[v] = wire[v]
    BY <1>1 DEF TypeOK
  <2>2. WireForm(w)'
    BY <1>1, <1>a, <1>b DEF WorkerInv, WireForm
  <2>3. QED
    BY <1>1, <1>a, <2>1, <2>2 DEF WireInv, WireForm
<1>5. WorkerInv'
  <2>1. \A v \in Workers \ {w} : wire'[v] = wire[v]
    BY <1>1 DEF TypeOK
  <2>2. QED
    BY <1>1, <1>a, <2>1 DEF WorkerInv, OnlyWorker, Holding
<1>6. NoLoss'
  BY <1>1, <1>a DEF NoLoss, Outstanding
<1>7. QED
  BY <1>2, <1>3, <1>4, <1>5, <1>6

(* The ack of dead_letter is justified by the publish before it.           *)
LEMMA DeadLetterAckInv ==
  ASSUME IInv, NEW w \in Workers, DeadLetterAck(w)
  PROVE  IInv'
<1> USE DEF IInv
<1>1. /\ pc[w] = "deadack" /\ conn[w] /\ msg[w] \in Messages /\ msg[w] \in unacked[w]
      /\ wire' = [wire EXCEPT ![w] = Append(@, Ack(msg[w]))] /\ Settled(w)
      /\ UNCHANGED <<ready, unacked, conn, dlq, parked, faults, restarts>>
  BY DEF DeadLetterAck, Send, WorkerInv, Holding
<1>a. DispatcherTypeOK' /\ OnlyWorker(w) /\ pc'[w] = "poll" /\ UNCHANGED handled
  BY <1>1, SettledStep DEF TypeOK
<1>b. wire'[w] = <<Ack(msg[w])>> \/ wire'[w] = <<Publish(msg[w]), Ack(msg[w])>>
  <2>1. wire[w] = << >> \/ wire[w] = <<Publish(msg[w])>>
    BY <1>1 DEF WorkerInv
  <2>2. wire'[w] = Append(wire[w], Ack(msg[w]))
    BY <1>1 DEF TypeOK
  <2>3. QED
    BY <2>1, <2>2, ShortWires
<1>2. TypeOK'
  BY <1>1, <1>a, CommandFields DEF TypeOK
<1>3. OnePlace'
  BY <1>1 DEF OnePlace
<1>4. WireInv'
  <2>1. \A v \in Workers \ {w} : wire'[v] = wire[v]
    BY <1>1 DEF TypeOK
  <2>2. WireForm(w)'
    BY <1>1, <1>a, <1>b DEF WorkerInv, WireForm
  <2>3. QED
    BY <1>1, <1>a, <2>1, <2>2 DEF WireInv, WireForm
<1>5. WorkerInv'
  <2>1. \A v \in Workers \ {w} : wire'[v] = wire[v]
    BY <1>1 DEF TypeOK
  <2>2. QED
    BY <1>1, <1>a, <2>1 DEF WorkerInv, OnlyWorker, Holding
<1>6. NoLoss'
  BY <1>1, <1>a DEF NoLoss, Outstanding
<1>7. QED
  BY <1>2, <1>3, <1>4, <1>5, <1>6

(* The publish of dead_letter is on the wire before the ack.               *)
LEMMA DeadLetterPublishInv ==
  ASSUME IInv, NEW w \in Workers, DeadLetterPublish(w)
  PROVE  IInv'
<1> USE DEF IInv
<1>1. /\ pc[w] = "dead" /\ conn[w] /\ msg[w] \in Messages /\ msg[w] \in unacked[w]
      /\ wire' = [wire EXCEPT ![w] = Append(@, Publish(msg[w]))]
      /\ UNCHANGED <<ready, unacked, conn, dlq, parked, faults, restarts>>
  BY DEF DeadLetterPublish, Send, WorkerInv, Holding
<1>a. DispatcherTypeOK' /\ OnlyWorker(w) /\ pc'[w] = "deadack" /\ UNCHANGED <<msg, handled>>
  BY DeadAckStep DEF DeadLetterPublish, TypeOK
<1>b. wire'[w] = <<Publish(msg[w])>>
  BY <1>1, ShortWires DEF TypeOK, WorkerInv
<1>c. \A v \in Workers \ {w} : wire'[v] = wire[v]
  BY <1>1 DEF TypeOK
<1>2. TypeOK'
  BY <1>1, <1>a, CommandFields DEF TypeOK
<1>3. OnePlace'
  BY <1>1 DEF OnePlace
<1>4. WireInv'
  BY <1>1, <1>a, <1>b, <1>c DEF WireInv, WireForm
<1>5. WorkerInv'
  BY <1>1, <1>a, <1>b, <1>c DEF WorkerInv, OnlyWorker, Holding
<1>6. NoLoss'
  BY <1>1, <1>a DEF NoLoss, Outstanding
<1>7. QED
  BY <1>2, <1>3, <1>4, <1>5, <1>6

(* An exception in a broker call leaves the wire and the server alone.     *)
LEMMA CallFailsInv ==
  ASSUME IInv, NEW w \in Workers, CallFails(w)
  PROVE  IInv'
<1> USE DEF IInv
<1>1. /\ Dies(w) /\ faults' \in 0..MaxFaults
      /\ UNCHANGED <<ready, unacked, wire, conn, dlq, parked, restarts>>
  BY RabbitMQAssumption DEF CallFails, TypeOK, brokerVars, RabbitMQAssumption
<1>a. DispatcherTypeOK' /\ OnlyWorker(w) /\ pc'[w] = "down" /\ UNCHANGED handled
  BY <1>1, DiesStep DEF TypeOK
<1>2. TypeOK'
  BY <1>1, <1>a DEF TypeOK
<1>3. OnePlace'
  BY <1>1 DEF OnePlace
<1>4. WireInv'
  BY <1>1, <1>a DEF WireInv, WireForm
<1>5. WorkerInv'
  BY <1>1, <1>a DEF WorkerInv, OnlyWorker, Holding
<1>6. NoLoss'
  BY <1>1, <1>a DEF NoLoss, Outstanding
<1>7. QED
  BY <1>2, <1>3, <1>4, <1>5, <1>6

(* So does a crash: what was sent before may still arrive.                 *)
LEMMA CrashInv ==
  ASSUME IInv, NEW w \in Workers, Crash(w)
  PROVE  IInv'
<1> USE DEF IInv
<1>1. /\ Dies(w) /\ faults' \in 0..MaxFaults
      /\ UNCHANGED <<ready, unacked, wire, conn, dlq, parked, restarts>>
  BY RabbitMQAssumption DEF Crash, TypeOK, brokerVars, RabbitMQAssumption
<1>a. DispatcherTypeOK' /\ OnlyWorker(w) /\ pc'[w] = "down" /\ UNCHANGED handled
  BY <1>1, DiesStep DEF TypeOK
<1>2. TypeOK'
  BY <1>1, <1>a DEF TypeOK
<1>3. OnePlace'
  BY <1>1 DEF OnePlace
<1>4. WireInv'
  BY <1>1, <1>a DEF WireInv, WireForm
<1>5. WorkerInv'
  BY <1>1, <1>a DEF WorkerInv, OnlyWorker, Holding
<1>6. NoLoss'
  BY <1>1, <1>a DEF NoLoss, Outstanding
<1>7. QED
  BY <1>2, <1>3, <1>4, <1>5, <1>6

(* A new process starts with an empty connection.                          *)
LEMMA RestartInv ==
  ASSUME IInv, NEW w \in Workers, Restart(w)
  PROVE  IInv'
<1> USE DEF IInv
<1>1. /\ Starts(w) /\ ~conn[w] /\ conn' = [conn EXCEPT ![w] = TRUE]
      /\ UNCHANGED <<ready, unacked, wire, dlq, parked, faults, restarts>>
  BY DEF Restart
<1>a. DispatcherTypeOK' /\ OnlyWorker(w) /\ pc'[w] = "poll" /\ UNCHANGED <<msg, handled>>
  BY <1>1, StartsStep DEF TypeOK
<1>2. TypeOK'
  BY <1>1, <1>a DEF TypeOK
<1>3. OnePlace'
  BY <1>1 DEF OnePlace
<1>4. WireInv'
  BY <1>1, <1>a DEF TypeOK, WireInv, WireForm
<1>5. WorkerInv'
  BY <1>1, <1>a DEF TypeOK, WorkerInv, OnlyWorker, Holding
<1>6. NoLoss'
  BY <1>1, <1>a DEF NoLoss, Outstanding
<1>7. QED
  BY <1>2, <1>3, <1>4, <1>5, <1>6

(* A broken connection gives its deliveries back and drops its wire.       *)
LEMMA ConnectionLostInv ==
  ASSUME IInv, NEW w \in Workers, ConnectionLost(w)
  PROVE  IInv'
<1> USE DEF IInv
<1>1. /\ faults' \in 0..MaxFaults
      /\ conn' = [conn EXCEPT ![w] = FALSE]
      /\ wire' = [wire EXCEPT ![w] = << >>]
      /\ ready' = ready \cup unacked[w]
      /\ unacked' = [unacked EXCEPT ![w] = {}]
      /\ UNCHANGED <<dispatcherVars, dlq, parked, restarts>>
  BY RabbitMQAssumption DEF ConnectionLost, TypeOK, RabbitMQAssumption
<1>2. TypeOK'
  BY <1>1, SameStep DEF TypeOK
<1>3. OnePlace'
  BY <1>1 DEF OnePlace, TypeOK
<1>4. WireInv'
  BY <1>1 DEF WireInv, WireForm, TypeOK, dispatcherVars
<1>5. WorkerInv'
  BY <1>1 DEF WorkerInv, Holding, TypeOK, dispatcherVars
<1>6. NoLoss'
  BY <1>1 DEF NoLoss, Outstanding, TypeOK, dispatcherVars
<1>7. QED
  BY <1>2, <1>3, <1>4, <1>5, <1>6

(* A server restart does so for every connection.                          *)
LEMMA ServerRestartInv ==
  ASSUME IInv, ServerRestart
  PROVE  IInv'
<1> USE DEF IInv
<1>1. /\ restarts' \in 0..MaxRestarts
      /\ conn' = [w \in Workers |-> FALSE] /\ wire' = [w \in Workers |-> << >>]
      /\ unacked' = [w \in Workers |-> {}]
      /\ ready' = ready \cup UNION {unacked[w] : w \in Workers}
      /\ dlq' = {} /\ UNCHANGED <<dispatcherVars, parked, faults>>
  BY RabbitMQAssumption DEF ServerRestart, TypeOK, RabbitMQAssumption
<1>2. TypeOK'
  <2>1. ready' \subseteq Messages
    BY <1>1 DEF TypeOK
  <2>2. QED
    BY <1>1, <2>1, SameStep DEF TypeOK
<1>3. OnePlace'
  BY <1>1 DEF OnePlace
<1>4. WireInv'
  BY <1>1 DEF WireInv, WireForm
<1>5. WorkerInv'
  BY <1>1 DEF WorkerInv, Holding, dispatcherVars
<1>6. NoLoss'
  BY <1>1 DEF NoLoss, Outstanding, dispatcherVars
<1>7. QED
  BY <1>2, <1>3, <1>4, <1>5, <1>6

(* The server obeys the head of a wire.  By WireForm that is an ack of     *)
(* something handled or parked, a nack, or a publish the ack follows.      *)
LEMMA ReceiveCases ==
  ASSUME IInv, NEW w \in Workers, Receive(w)
  PROVE  \E m \in unacked[w] :
            \/ /\ wire[w] = <<Ack(m)>> /\ m \in handled \cup parked
               /\ wire'[w] = << >>
               /\ unacked' = [unacked EXCEPT ![w] = @ \ {m}]
               /\ UNCHANGED <<ready, dlq, parked>>
            \/ /\ wire[w] = <<Nack(m)>> /\ wire'[w] = << >>
               /\ unacked' = [unacked EXCEPT ![w] = @ \ {m}]
               /\ ready' = ready \cup {m}
               /\ UNCHANGED <<dlq, parked>>
            \/ /\ \/ wire[w] = <<Publish(m)>> /\ wire'[w] = << >>
                  \/ wire[w] = <<Publish(m), Ack(m)>> /\ wire'[w] = <<Ack(m)>>
               /\ dlq' = dlq \cup {m} /\ parked' = parked \cup {m}
               /\ UNCHANGED <<ready, unacked>>
<1> USE DEF IInv
<1>1. /\ wire[w] # << >> /\ wire'[w] = Tail(wire[w])
  BY DEF Receive, TypeOK
<1>2. PICK m \in unacked[w] :
          \/ wire[w] = <<Ack(m)>> /\ m \in handled \cup parked
          \/ wire[w] = <<Nack(m)>>
          \/ wire[w] = <<Publish(m)>>
          \/ wire[w] = <<Publish(m), Ack(m)>>
  BY <1>1 DEF WireInv, WireForm
<1>3. m \in Messages
  BY <1>2 DEF TypeOK
<1>4. CASE wire[w] = <<Ack(m)>> /\ m \in handled \cup parked
  <2>1. Head(wire[w]) = Ack(m) /\ wire'[w] = << >>
    BY <1>1, <1>4, ShortWires
  <2>2. QED
    BY <1>3, <1>4, <2>1, CommandFields DEF Receive
<1>5. CASE wire[w] = <<Nack(m)>>
  <2>1. Head(wire[w]) = Nack(m) /\ wire'[w] = << >>
    BY <1>1, <1>5, ShortWires
  <2>2. QED
    BY <1>3, <1>5, <2>1, CommandFields DEF Receive
<1>6. CASE wire[w] = <<Publish(m)>>
  <2>1. Head(wire[w]) = Publish(m) /\ wire'[w] = << >>
    BY <1>1, <1>6, ShortWires
  <2>2. QED
    BY <1>3, <1>6, <2>1, CommandFields DEF Receive
<1>7. CASE wire[w] = <<Publish(m), Ack(m)>>
  <2>1. Head(wire[w]) = Publish(m) /\ wire'[w] = <<Ack(m)>>
    BY <1>1, <1>7, ShortWires
  <2>2. QED
    BY <1>3, <1>7, <2>1, CommandFields DEF Receive
<1>8. QED
  BY <1>2, <1>4, <1>5, <1>6, <1>7

(* Obeying the head of a wire: an ack forgets what is settled.             *)
LEMMA ReceiveInv ==
  ASSUME IInv, NEW w \in Workers, Receive(w)
  PROVE  IInv'
<1> USE DEF IInv
<1> DEFINE
      Acked(m) ==
        /\ wire[w] = <<Ack(m)>> /\ m \in handled \cup parked
        /\ wire'[w] = << >>
        /\ unacked' = [unacked EXCEPT ![w] = @ \ {m}]
        /\ UNCHANGED <<ready, dlq, parked>>
      Nacked(m) ==
        /\ wire[w] = <<Nack(m)>> /\ wire'[w] = << >>
        /\ unacked' = [unacked EXCEPT ![w] = @ \ {m}]
        /\ ready' = ready \cup {m}
        /\ UNCHANGED <<dlq, parked>>
      Published(m) ==
        /\ \/ wire[w] = <<Publish(m)>> /\ wire'[w] = << >>
           \/ wire[w] = <<Publish(m), Ack(m)>> /\ wire'[w] = <<Ack(m)>>
        /\ dlq' = dlq \cup {m} /\ parked' = parked \cup {m}
        /\ UNCHANGED <<ready, unacked>>
<1>1. PICK m \in unacked[w] : Acked(m) \/ Nacked(m) \/ Published(m)
  BY ReceiveCases
<1>a. /\ UNCHANGED <<dispatcherVars, conn, faults, restarts>>
      /\ wire' = [wire EXCEPT ![w] = Tail(@)] /\ wire[w] # << >>
      /\ m \in Messages
      /\ \A v \in Workers \ {w} : wire'[v] = wire[v]
  BY <1>1 DEF Receive, TypeOK
<1>b. conn[w]
  BY <1>a DEF WireInv
<1>c. Acked(m) \/ Nacked(m) => ~Holding(w)
  <2>1. <<Publish(msg[w])>> # <<Ack(m)>> /\ <<Publish(msg[w])>> # <<Nack(m)>>
    BY ZenonT(20) DEF Publish, Ack, Nack
  <2>2. QED
    BY <1>a, <1>b, <2>1 DEF WorkerInv, Holding
<1>d. Published(m) /\ Holding(w) => msg[w] = m /\ wire'[w] = << >> /\ pc[w] = "deadack"
  <2>1. <<Publish(msg[w])>> # <<Publish(m), Ack(m)>>
    OBVIOUS
  <2>2. <<Publish(msg[w])>> = <<Publish(m)>> => msg[w] = m
    BY DEF Publish
  <2>3. QED
    BY <1>a, <1>b, <2>1, <2>2 DEF WorkerInv, Holding
<1> HIDE DEF Acked, Nacked, Published
<1>2. TypeOK'
  <2>1. wire' \in [Workers -> Seq(Commands)]
    BY <1>a DEF TypeOK
  <2>2. CASE Acked(m)
    BY <1>1, <1>a, <2>1, <2>2, SameStep DEF TypeOK, Acked
  <2>3. CASE Nacked(m)
    BY <1>1, <1>a, <2>1, <2>3, SameStep DEF TypeOK, Nacked
  <2>4. CASE Published(m)
    BY <1>1, <1>a, <2>1, <2>4, SameStep DEF TypeOK, Published
  <2>5. QED
    BY <1>1, <2>2, <2>3, <2>4
<1>3. OnePlace'
  <2>1. CASE Acked(m)
    BY <1>1, <1>a, <2>1 DEF OnePlace, TypeOK, Acked
  <2>2. CASE Nacked(m)
    BY <1>1, <1>a, <2>2 DEF OnePlace, TypeOK, Nacked
  <2>3. CASE Published(m)
    BY <1>1, <1>a, <2>3 DEF OnePlace, TypeOK, Published
  <2>4. QED
    BY <1>1, <2>1, <2>2, <2>3
<1>4. WireInv'
  <2>1. CASE Acked(m)
    BY <1>1, <1>a, <2>1 DEF WireInv, WireForm, OnePlace, TypeOK, dispatcherVars, Acked
  <2>2. CASE Nacked(m)
    BY <1>1, <1>a, <2>2 DEF WireInv, WireForm, OnePlace, TypeOK, dispatcherVars, Nacked
  <2>3. CASE Published(m)
    <3>1. ASSUME NEW v \in Workers \ {w} PROVE WireForm(v)'
      BY <1>a, <2>3 DEF WireInv, WireForm, dispatcherVars, Published
    <3>2. WireForm(w)'
      <4>1. unacked'[w] = unacked[w] /\ m \in parked'
        BY <2>3 DEF Published
      <4>2. wire'[w] = << >> \/ wire'[w] = <<Ack(m)>>
        BY <2>3 DEF Published
      <4>3. QED
        BY <1>1, <4>1, <4>2 DEF WireForm
    <3>3. QED
      BY <1>a, <1>b, <2>3, <3>1, <3>2 DEF WireInv, Published
  <2>4. QED
    BY <1>1, <2>1, <2>2, <2>3
<1>5. WorkerInv'
  <2>1. CASE Acked(m) \/ Nacked(m)
    BY <1>a, <1>c, <2>1 DEF WorkerInv, Holding, TypeOK, OnePlace, dispatcherVars, Acked, Nacked
  <2>2. CASE Published(m)
    BY <1>a, <1>d, <2>2 DEF WorkerInv, Holding, dispatcherVars, Published
  <2>3. QED
    BY <1>1, <2>1, <2>2
<1>6. NoLoss'
  <2>1. CASE Acked(m)
    BY <1>1, <1>a, <2>1 DEF NoLoss, Outstanding, TypeOK, dispatcherVars, Acked
  <2>2. CASE Nacked(m)
    BY <1>1, <1>a, <2>2 DEF NoLoss, Outstanding, TypeOK, dispatcherVars, Nacked
  <2>3. CASE Published(m)
    BY <1>1, <1>a, <2>3 DEF NoLoss, Outstanding, TypeOK, dispatcherVars, Published
  <2>4. QED
    BY <1>1, <2>1, <2>2, <2>3
<1>7. QED
  BY <1>2, <1>3, <1>4, <1>5, <1>6

(* The invariant is inductive.                                             *)
LEMMA InductiveStep == IInv /\ [Next]_vars => IInv'
<1> SUFFICES ASSUME IInv, [Next]_vars PROVE IInv'
  OBVIOUS
<1>1. ASSUME NEW w \in Workers, WorkerStep(w) PROVE IInv'
  BY <1>1, PollInv, PostInv, AckMessageInv, NackMessageInv, DeadLetterPublishInv,
     DeadLetterAckInv, CallFailsInv DEF WorkerStep
<1>2. ASSUME NEW w \in Workers, Crash(w) \/ Restart(w) \/ ServerStep(w) PROVE IInv'
  BY <1>2, CrashInv, RestartInv, ReceiveInv, ConnectionLostInv DEF ServerStep
<1>3. CASE UNCHANGED vars
  <2>1. TypeOK'
    BY <1>3, SameStep DEF IInv, TypeOK, vars, brokerVars
  <2>2. QED
    BY <1>3, <2>1 DEF IInv, OnePlace, WireInv, WireForm, WorkerInv, Holding, NoLoss,
       Outstanding, vars, dispatcherVars, brokerVars
<1>4. QED
  BY <1>1, <1>2, <1>3, ServerRestartInv DEF Next

-----------------------------------------------------------------------------
(* The inductive invariant holds of every behaviour of the dispatcher over *)
(* RabbitMQ.                                                               *)
THEOREM Inductive == Spec => []IInv
  BY InitIInv, InductiveStep, PTL DEF Spec

(* Type correctness.                                                       *)
THEOREM TypeCorrect == Spec => []TypeOK
  BY Inductive, PTL DEF IInv

(* Whatever crashes, connections lost and server restarts occur, a message *)
(* RabbitMQ has forgotten was processed or dead-lettered.                  *)
THEOREM NothingLost == Spec => []NoLoss
  BY Inductive, PTL DEF IInv

(* A delivery is outstanding on one connection at most, and is not in the  *)
(* queue then.                                                             *)
THEOREM OnePlaceHolds == Spec => []OnePlace
  BY Inductive, PTL DEF IInv

-----------------------------------------------------------------------------
(* poll counts from 0 again, whatever the broker does in between.          *)
LEMMA FreshNext == TypeOK /\ FreshInv /\ [Next]_vars => FreshInv'
<1> SUFFICES ASSUME TypeOK, FreshInv, [Next]_vars PROVE FreshInv'
  OBVIOUS
<1> USE DEF TypeOK
<1>1. ASSUME NEW w \in Workers, WorkerStep(w) \/ Crash(w) \/ Restart(w) PROVE FreshInv'
  <2>1. \/ \E m \in Messages : Fetched(w, m, 0)
        \/ PostAccepted(w) \/ PostFailed(w) \/ Settled(w) \/ Dies(w) \/ Starts(w)
        \/ pc[w] = "dead" /\ pc' = [pc EXCEPT ![w] = "deadack"] /\ UNCHANGED attempts
    BY <1>1 DEF WorkerStep, Poll, Post, AckMessage, NackMessage, DeadLetterPublish,
       DeadLetterAck, CallFails, Crash, Restart
  <2>2. QED
    BY <2>1, FreshStep
<1>2. ASSUME NEW w \in Workers, ServerStep(w) PROVE FreshInv'
  BY <1>2, FreshSame DEF ServerStep, Receive, ConnectionLost
<1>3. CASE ServerRestart
  BY <1>3, FreshSame DEF ServerRestart
<1>4. CASE UNCHANGED vars
  BY <1>4, FreshSame DEF vars
<1>5. QED
  BY <1>1, <1>2, <1>3, <1>4 DEF Next

(* A worker with a limit of two or more never dead-letters a message:      *)
(* every poll starts counting again, so the retries of step() never run    *)
(* out.                                                                    *)
THEOREM DeadLettersUnreachable == Spec => []NeverDeadLettered
<1>1. Init => FreshInv
  BY DEF Init, DispatcherInit, FreshInv
<1>2. FreshInv => NeverDeadLettered
  BY DEF FreshInv, NeverDeadLettered
<1>3. QED
  BY <1>1, <1>2, FreshNext, TypeCorrect, PTL DEF Spec

-----------------------------------------------------------------------------
(* Each step of the workers and of the server is a step of the contract or *)
(* leaves its variables alone.                                             *)
LEMMA ContractStep ==
  IInv /\ [Next]_vars => [Contract!Next]_<<Outstanding, handled, parked>>
<1> SUFFICES ASSUME IInv, [Next]_vars
             PROVE  Contract!Next \/ UNCHANGED <<Outstanding, handled, parked>>
  OBVIOUS
<1> DEFINE Goal == Contract!Next \/ UNCHANGED <<Outstanding, handled, parked>>
<1> USE DEF IInv, TypeOK
<1>1. ASSUME NEW w \in Workers, Poll(w) PROVE Goal
  <2>1. PICK m \in Messages :
          /\ m \in ready /\ ready' = ready \ {m}
          /\ unacked' = [unacked EXCEPT ![w] = @ \cup {m}]
          /\ UNCHANGED <<handled, parked>>
    BY <1>1, DiesStep, FetchedStep DEF Poll, Oldest
  <2>2. Outstanding' = Outstanding
    BY <2>1 DEF Outstanding
  <2>3. QED
    BY <2>1, <2>2
<1>2. ASSUME NEW w \in Workers, Post(w) PROVE Goal
  <2>1. msg[w] \in Messages /\ UNCHANGED brokerVars /\ (PostAccepted(w) \/ PostFailed(w))
    BY <1>2 DEF Post, WorkerInv, Holding, PostAccepted, PostFailed
  <2>2. handled' = handled \/ handled' = handled \cup {msg[w]}
    BY <2>1, PostStep
  <2>3. UNCHANGED <<Outstanding, parked>>
    BY <2>1 DEF Outstanding, brokerVars
  <2>4. QED
    BY <2>1, <2>2, <2>3 DEF Contract!Next, Contract!Handle
<1>3. ASSUME NEW w \in Workers,
             \/ AckMessage(w) \/ NackMessage(w) \/ DeadLetterPublish(w)
             \/ DeadLetterAck(w) \/ CallFails(w) \/ Crash(w) \/ Restart(w)
      PROVE  Goal
  BY <1>3 DEF AckMessage, NackMessage, DeadLetterPublish, DeadLetterAck, CallFails, Crash,
     Restart, Settled, Dies, Starts, brokerVars, Outstanding
<1>4. ASSUME NEW w \in Workers, Receive(w) PROVE Goal
  <2>1. UNCHANGED handled
    BY <1>4 DEF Receive, dispatcherVars
  <2>2. PICK m \in unacked[w] :
          \/ /\ m \in handled \cup parked
             /\ unacked' = [unacked EXCEPT ![w] = @ \ {m}]
             /\ UNCHANGED <<ready, parked>>
          \/ /\ unacked' = [unacked EXCEPT ![w] = @ \ {m}]
             /\ ready' = ready \cup {m} /\ UNCHANGED parked
          \/ parked' = parked \cup {m} /\ UNCHANGED <<ready, unacked>>
    BY <1>4, ReceiveCases
  <2>3. m \in Messages /\ m \in Outstanding
    BY <2>2 DEF Outstanding
  <2>4. CASE /\ m \in handled \cup parked
             /\ unacked' = [unacked EXCEPT ![w] = @ \ {m}]
             /\ UNCHANGED <<ready, parked>>
    <3>1. m \notin ready /\ \A v \in Workers \ {w} : m \notin unacked[v]
      BY <2>2 DEF OnePlace
    <3>2. Outstanding' = Outstanding \ {m}
      BY <2>4, <3>1 DEF Outstanding
    <3>3. QED
      BY <2>1, <2>3, <2>4, <3>2 DEF Contract!Next, Contract!Forget
  <2>5. CASE /\ unacked' = [unacked EXCEPT ![w] = @ \ {m}]
             /\ ready' = ready \cup {m} /\ UNCHANGED parked
    <3>1. Outstanding' = Outstanding
      BY <2>2, <2>5 DEF Outstanding
    <3>2. QED
      BY <2>1, <2>5, <3>1
  <2>6. CASE parked' = parked \cup {m} /\ UNCHANGED <<ready, unacked>>
    <3>1. Outstanding' = Outstanding
      BY <2>6 DEF Outstanding
    <3>2. QED
      BY <2>1, <2>3, <2>6, <3>1 DEF Contract!Next, Contract!Park
  <2>7. QED
    BY <2>2, <2>4, <2>5, <2>6
<1>5. ASSUME NEW w \in Workers, ConnectionLost(w) PROVE Goal
  <2>1. Outstanding' = Outstanding
    BY <1>5 DEF ConnectionLost, Outstanding
  <2>2. QED
    BY <1>5, <2>1 DEF ConnectionLost, dispatcherVars
<1>6. CASE ServerRestart
  <2>1. Outstanding' = Outstanding
    BY <1>6 DEF ServerRestart, Outstanding
  <2>2. QED
    BY <1>6, <2>1 DEF ServerRestart, dispatcherVars
<1>7. CASE UNCHANGED vars
  BY <1>7 DEF vars, dispatcherVars, brokerVars, Outstanding
<1>8. QED
  BY <1>1, <1>2, <1>3, <1>4, <1>5, <1>6, <1>7 DEF Next, WorkerStep, ServerStep

(* The dispatcher over RabbitMQ keeps the contract of AtLeastOnce.         *)
THEOREM KeepsContract == Spec => ContractSpec
<1>1. Init => Contract!Init
  BY DEF Init, DispatcherInit, Contract!Init, Outstanding
<1>2. QED
  BY <1>1, ContractStep, Inductive, PTL DEF Spec, ContractSpec, Contract!Spec, Contract!vars

(* What the contract is worth, by its own actions alone: a message that is *)
(* no longer outstanding was processed or parked.  So NoLoss would hold of *)
(* any broker that keeps it.                                               *)
THEOREM ContractMeansNoLoss == ContractSpec => []NoLoss
<1>1. Contract!Init => NoLoss
  BY DEF Contract!Init, NoLoss
<1>2. NoLoss /\ [Contract!Next]_<<Outstanding, handled, parked>> => NoLoss'
  BY DEF NoLoss, Contract!Next, Contract!Handle, Contract!Park, Contract!Forget, Contract!Bury
<1>3. QED
  BY <1>1, <1>2, PTL DEF ContractSpec, Contract!Spec, Contract!vars

(* What RabbitMQ has forgotten stays forgotten: no nack, no connection     *)
(* that breaks and no server restart brings a settled message back.        *)
SettledForGood == [][Outstanding' \subseteq Outstanding]_vars

(* No message is delivered again after its settlement was received.        *)
THEOREM NeverBack == Spec => SettledForGood
<1>1. IInv /\ [Next]_vars => [Outstanding' \subseteq Outstanding]_vars
  BY ContractStep DEF Contract!Next, Contract!Handle, Contract!Park, Contract!Forget,
     Contract!Bury
<1>2. QED
  BY <1>1, Inductive, PTL DEF Spec, SettledForGood

-----------------------------------------------------------------------------
(* As long as nothing has failed: only a dead worker's connection may be   *)
(* gone, and it carries nothing ...                                        *)
ConnsQuiet == \A w \in Workers : IF pc[w] = "down" THEN wire[w] = << >> ELSE conn[w]

(* ... a message with a 2xx is not in the queue, but on the connection of  *)
(* the worker that is about to acknowledge it, or has sent the ack.        *)
ConfirmedQuiet ==
    /\ confirmed \cap ready = {}
    /\ \A w \in Workers : \A m \in unacked[w] \cap confirmed :
          (pc[w] = "ack" /\ msg[w] = m) \/ wire[w] = <<Ack(m)>>

IdleInv == \A w \in Workers : ~Holding(w) => msg[w] = None

QuietInv ==
    /\ IdleInv
    /\ faults = 0 /\ restarts = 0 => ConnsQuiet /\ ConfirmedQuiet

(* An empty wire carries no ack, so that who is not about to send one has  *)
(* nothing with a 2xx.                                                     *)
LEMMA EmptyWire ==
  ASSUME ConfirmedQuiet, NEW w \in Workers, wire[w] = << >>, pc[w] # "ack"
  PROVE  unacked[w] \cap confirmed = {}
<1> SUFFICES ASSUME NEW m \in unacked[w] \cap confirmed PROVE FALSE
  OBVIOUS
<1>1. wire[w] = <<Ack(m)>>
  BY DEF ConfirmedQuiet
<1>2. << >> # <<Ack(m)>>
  OBVIOUS
<1>3. QED
  BY <1>1, <1>2

(* What a step at one connection has to show for this.                     *)
LEMMA ConfirmedStep ==
  ASSUME ConfirmedQuiet, NEW w \in Workers, OnlyWorker(w),
         \A v \in Workers \ {w} : /\ unacked'[v] = unacked[v] /\ wire'[v] = wire[v]
                                 /\ unacked[v] \cap confirmed' \subseteq confirmed,
         confirmed' \cap ready' = {},
         \A m \in unacked'[w] \cap confirmed' :
            (pc'[w] = "ack" /\ msg'[w] = m) \/ wire'[w] = <<Ack(m)>>
  PROVE  ConfirmedQuiet'
<1> SUFFICES ASSUME NEW v \in Workers, NEW m \in unacked'[v] \cap confirmed'
             PROVE  (pc'[v] = "ack" /\ msg'[v] = m) \/ wire'[v] = <<Ack(m)>>
  BY DEF ConfirmedQuiet, Ack
<1>1. CASE v = w
  BY <1>1
<1>2. CASE v # w
  <2>1. (pc[v] = "ack" /\ msg[v] = m) \/ wire[v] = <<Ack(m)>>
    BY <1>2 DEF ConfirmedQuiet
  <2>2. QED
    BY <1>2, <2>1 DEF OnlyWorker
<1>3. QED
  BY <1>1, <1>2

(* basic_get takes a message without a 2xx.                                *)
LEMMA PollQuiet ==
  ASSUME IInv, QuietInv, NEW w \in Workers, Poll(w)
  PROVE  QuietInv'
<1> USE DEF IInv, TypeOK
<1>1. PICK m \in Messages :
        /\ m \in ready /\ ready' = ready \ {m}
        /\ unacked' = [unacked EXCEPT ![w] = @ \cup {m}]
        /\ Dies(w) \/ Fetched(w, m, 0)
  BY DEF Poll, Oldest
<1>2. /\ OnlyWorker(w) /\ UNCHANGED confirmed
      /\ \/ pc'[w] = "down" /\ msg'[w] = None
         \/ pc'[w] = "post" /\ msg'[w] = m
  BY <1>1, DiesStep, FetchedStep
<1>3. pc[w] = "poll" /\ conn[w] /\ wire[w] = << >> /\ UNCHANGED <<wire, conn, faults, restarts>>
  BY DEF Poll
<1>4. IdleInv'
  BY <1>2 DEF QuietInv, IdleInv, Holding, OnlyWorker
<1>5. ASSUME faults = 0 /\ restarts = 0
      PROVE  ConnsQuiet' /\ ConfirmedQuiet'
  <2>1. ConnsQuiet /\ ConfirmedQuiet
    BY <1>5 DEF QuietInv
  <2>2. ConnsQuiet'
    BY <1>2, <1>3, <2>1 DEF ConnsQuiet, OnlyWorker
  <2>3. m \notin confirmed /\ unacked[w] \cap confirmed = {}
    BY <1>1, <1>3, <2>1, EmptyWire DEF ConfirmedQuiet
  <2>4. unacked'[w] = unacked[w] \cup {m} /\ \A v \in Workers \ {w} : unacked'[v] = unacked[v]
    BY <1>1
  <2>5. ConfirmedQuiet'
    <3>1. confirmed' \cap ready' = {}
      BY <1>1, <1>2, <2>1 DEF ConfirmedQuiet
    <3>2. unacked'[w] \cap confirmed' = {}
      BY <1>2, <2>3, <2>4
    <3>3. \A v \in Workers \ {w} : wire'[v] = wire[v]
      BY <1>3
    <3>4. QED
      BY <1>2, <2>1, <2>4, <3>1, <3>2, <3>3, ConfirmedStep
  <2>6. QED
    BY <2>2, <2>5
<1>6. QED
  BY <1>3, <1>4, <1>5 DEF QuietInv

(* A POST that gives a 2xx leaves its worker about to acknowledge: the     *)
(* message is on that worker's connection alone.                           *)
LEMMA PostQuiet ==
  ASSUME IInv, QuietInv, NEW w \in Workers, Post(w)
  PROVE  QuietInv'
<1> USE DEF IInv, TypeOK
<1>1. msg[w] \in Messages /\ UNCHANGED brokerVars /\ (PostAccepted(w) \/ PostFailed(w))
  BY DEF Post, WorkerInv, Holding, PostAccepted, PostFailed
<1>2. /\ OnlyWorker(w) /\ msg' = msg /\ pc[w] = "post"
      /\ \/ pc'[w] = "ack" /\ confirmed' = confirmed \cup {msg[w]}
         \/ pc'[w] \in {"nack", "dead"} /\ confirmed' = confirmed
  BY <1>1, PostStep
<1>3. IdleInv'
  BY <1>2 DEF QuietInv, IdleInv, Holding, OnlyWorker
<1>4. ASSUME faults = 0 /\ restarts = 0
      PROVE  ConnsQuiet' /\ ConfirmedQuiet'
  <2>1. ConnsQuiet /\ ConfirmedQuiet
    BY <1>4 DEF QuietInv
  <2>2. ConnsQuiet'
    BY <1>1, <1>2, <2>1 DEF ConnsQuiet, OnlyWorker, brokerVars
  <2>3. conn[w] /\ wire[w] = << >> /\ msg[w] \in unacked[w]
    BY <1>2, <2>1 DEF ConnsQuiet, WorkerInv, Holding
  <2>4. msg[w] \notin ready /\ \A v \in Workers \ {w} : msg[w] \notin unacked[v]
    BY <2>3 DEF OnePlace
  <2>5. unacked[w] \cap confirmed = {}
    BY <1>2, <2>1, <2>3, EmptyWire
  <2>6. ConfirmedQuiet'
    BY <1>1, <1>2, <2>1, <2>3, <2>4, <2>5 DEF ConfirmedQuiet, OnlyWorker, brokerVars, Ack
  <2>7. QED
    BY <2>2, <2>6
<1>5. QED
  BY <1>1, <1>3, <1>4 DEF QuietInv, brokerVars

(* What a worker has just answered was its only message, with a 2xx if and *)
(* only if it sends an ack for that.                                       *)
LEMMA SettleQuiet ==
  ASSUME IInv, QuietInv, NEW w \in Workers, AckMessage(w) \/ NackMessage(w) \/ DeadLetterAck(w)
  PROVE  QuietInv'
<1> USE DEF IInv, TypeOK
<1>1. /\ conn[w] /\ Settled(w) /\ pc[w] \in {"ack", "nack", "deadack"}
      /\ \E c \in {Ack(msg[w]), Nack(msg[w])} :
            wire' = [wire EXCEPT ![w] = Append(@, c)]
      /\ pc[w] = "ack" => wire' = [wire EXCEPT ![w] = Append(@, Ack(msg[w]))]
      /\ UNCHANGED <<ready, unacked, conn, faults, restarts>>
  BY DEF AckMessage, NackMessage, DeadLetterAck, Send
<1>2. /\ OnlyWorker(w) /\ pc'[w] = "poll" /\ msg'[w] = None /\ UNCHANGED confirmed
  BY <1>1, SettledStep
<1>3. IdleInv'
  BY <1>2 DEF QuietInv, IdleInv, Holding, OnlyWorker
<1>4. ASSUME faults = 0 /\ restarts = 0
      PROVE  ConnsQuiet' /\ ConfirmedQuiet'
  <2>1. ConnsQuiet /\ ConfirmedQuiet
    BY <1>4 DEF QuietInv
  <2>2. \A v \in Workers \ {w} : wire'[v] = wire[v]
    BY <1>1
  <2>3. ConnsQuiet'
    BY <1>1, <1>2, <2>1, <2>2 DEF ConnsQuiet, OnlyWorker
  <2>4. ASSUME NEW m \in unacked[w] \cap confirmed
        PROVE  wire'[w] = <<Ack(m)>>
    <3>1. wire[w] # <<Ack(m)>>
      <4>1. <<Publish(msg[w])>> # <<Ack(m)>> /\ << >> # <<Ack(m)>>
        <5>1. <<Publish(msg[w])>> # <<Ack(m)>>
          BY ZenonT(20) DEF Publish, Ack
        <5>2. << >> # <<Ack(m)>>
          OBVIOUS
        <5>3. QED
          BY <5>1, <5>2
      <4>2. wire[w] = << >> \/ wire[w] = <<Publish(msg[w])>>
        BY <1>1 DEF WorkerInv
      <4>3. QED
        BY <4>1, <4>2
    <3>2. pc[w] = "ack" /\ msg[w] = m
      BY <2>1, <3>1 DEF ConfirmedQuiet
    <3>3. wire[w] = << >> /\ wire'[w] = Append(wire[w], Ack(m))
      BY <1>1, <3>2 DEF WorkerInv
    <3>4. QED
      BY <3>3, ShortWires
  <2>5. ConfirmedQuiet'
    BY <1>1, <1>2, <2>1, <2>2, <2>4 DEF ConfirmedQuiet, OnlyWorker, Ack
  <2>6. QED
    BY <2>3, <2>5
<1>5. QED
  BY <1>1, <1>3, <1>4 DEF QuietInv

(* A message that is dead-lettered had no 2xx.                             *)
LEMMA DeadLetterQuiet ==
  ASSUME IInv, QuietInv, NEW w \in Workers, DeadLetterPublish(w)
  PROVE  QuietInv'
<1> USE DEF IInv, TypeOK
<1>1. /\ pc[w] = "dead" /\ conn[w] /\ wire[w] = << >>
      /\ \A v \in Workers \ {w} : wire'[v] = wire[v]
      /\ UNCHANGED <<msg, confirmed, ready, unacked, conn, faults, restarts>>
  BY DEF DeadLetterPublish, Send, WorkerInv
<1>2. OnlyWorker(w) /\ pc'[w] = "deadack"
  BY DeadAckStep DEF DeadLetterPublish
<1>3. IdleInv'
  BY <1>1, <1>2 DEF QuietInv, IdleInv, Holding, OnlyWorker
<1>4. ASSUME faults = 0 /\ restarts = 0
      PROVE  ConnsQuiet' /\ ConfirmedQuiet'
  <2>1. ConnsQuiet /\ ConfirmedQuiet
    BY <1>4 DEF QuietInv
  <2>2. ConnsQuiet'
    BY <1>1, <1>2, <2>1 DEF ConnsQuiet, OnlyWorker
  <2>3. unacked[w] \cap confirmed = {}
    BY <1>1, <2>1, EmptyWire
  <2>4. ConfirmedQuiet'
    BY <1>1, <1>2, <2>1, <2>3 DEF ConfirmedQuiet, OnlyWorker, Ack
  <2>5. QED
    BY <2>2, <2>4
<1>5. QED
  BY <1>1, <1>3, <1>4 DEF QuietInv

(* A call fails after a fault only, a crash is one, and a new process has  *)
(* nothing in its hands.                                                   *)
LEMMA ProcessQuiet ==
  ASSUME IInv, QuietInv, NEW w \in Workers, CallFails(w) \/ Crash(w) \/ Restart(w)
  PROVE  QuietInv'
<1> USE DEF IInv, TypeOK
<1>1. CASE CallFails(w) \/ Crash(w)
  <2>1. OnlyWorker(w) /\ msg'[w] = None
    BY <1>1, DiesStep DEF CallFails, Crash
  <2>2. IdleInv'
    BY <2>1 DEF QuietInv, IdleInv, Holding, OnlyWorker
  <2>3. ~(faults' = 0 /\ restarts' = 0)
    BY <1>1 DEF QuietInv, ConnsQuiet, CallFails, Crash, brokerVars
  <2>4. QED
    BY <2>2, <2>3 DEF QuietInv
<1>2. CASE Restart(w)
  <2>1. /\ OnlyWorker(w) /\ pc[w] = "down" /\ pc'[w] = "poll" /\ UNCHANGED <<msg, confirmed>>
        /\ ~conn[w] /\ conn' = [conn EXCEPT ![w] = TRUE]
        /\ UNCHANGED <<ready, unacked, wire, faults, restarts>>
    BY <1>2, StartsStep DEF Restart
  <2>2. IdleInv'
    BY <2>1 DEF QuietInv, IdleInv, Holding, OnlyWorker
  <2>3. conn'[w] /\ \A v \in Workers \ {w} : conn'[v] = conn[v]
    BY <2>1
  <2>4. ConnsQuiet => ConnsQuiet'
    BY <2>1, <2>3 DEF ConnsQuiet, OnlyWorker
  <2>5. unacked[w] = {}
    BY <2>1 DEF WireInv
  <2>6. ConfirmedQuiet => ConfirmedQuiet'
    BY <2>1, <2>5 DEF ConfirmedQuiet, OnlyWorker, Ack
  <2>7. QED
    BY <2>1, <2>2, <2>4, <2>6 DEF QuietInv
<1>3. QED
  BY <1>1, <1>2

(* A nack or a dead letter that arrives had no 2xx.                        *)
LEMMA ReceiveQuiet ==
  ASSUME IInv, QuietInv, NEW w \in Workers, Receive(w)
  PROVE  QuietInv'
<1> USE DEF IInv, TypeOK
<1>1. /\ UNCHANGED <<dispatcherVars, conn, faults, restarts>> /\ wire[w] # << >>
      /\ \A v \in Workers \ {w} : wire'[v] = wire[v]
  BY DEF Receive
<1>2. IdleInv'
  BY <1>1 DEF QuietInv, IdleInv, Holding, dispatcherVars
<1>3. PICK m \in unacked[w] :
        \/ /\ wire[w] = <<Ack(m)>> /\ unacked' = [unacked EXCEPT ![w] = @ \ {m}]
           /\ UNCHANGED ready
        \/ /\ wire[w] = <<Nack(m)>> /\ unacked' = [unacked EXCEPT ![w] = @ \ {m}]
           /\ ready' = ready \cup {m}
        \/ /\ wire[w] = <<Publish(m)>> \/ wire[w] = <<Publish(m), Ack(m)>>
           /\ UNCHANGED <<ready, unacked>>
  BY ReceiveCases
<1>4. ASSUME faults = 0 /\ restarts = 0
      PROVE  ConnsQuiet' /\ ConfirmedQuiet'
  <2>1. ConnsQuiet /\ ConfirmedQuiet
    BY <1>4 DEF QuietInv
  <2>2. ConnsQuiet'
    BY <1>1, <2>1 DEF ConnsQuiet, dispatcherVars
  <2>3. \A n \in unacked[w] \cap confirmed : wire[w] = <<Ack(n)>>
    BY <1>1, <2>1 DEF ConfirmedQuiet, WorkerInv
  <2>4. \A n \in Messages :
          /\ <<Ack(n)>> = <<Ack(m)>> => n = m
          /\ <<Ack(n)>> # <<Nack(m)>>
          /\ <<Ack(n)>> # <<Publish(m)>>
          /\ <<Ack(n)>> # <<Publish(m), Ack(m)>>
    <3> SUFFICES ASSUME NEW n \in Messages
                 PROVE  /\ <<Ack(n)>> = <<Ack(m)>> => n = m
                        /\ <<Ack(n)>> # <<Nack(m)>>
                        /\ <<Ack(n)>> # <<Publish(m)>>
                        /\ <<Ack(n)>> # <<Publish(m), Ack(m)>>
      OBVIOUS
    <3>1. <<Ack(n)>> # <<Nack(m)>> /\ <<Ack(n)>> # <<Publish(m)>>
      BY ZenonT(20) DEF Publish, Ack, Nack
    <3>2. <<Ack(n)>> # <<Publish(m), Ack(m)>>
      OBVIOUS
    <3>3. <<Ack(n)>> = <<Ack(m)>> => n = m
      BY DEF Ack
    <3>4. QED
      BY <3>1, <3>2, <3>3
  <2>5. unacked'[w] \cap confirmed = {}
    BY <1>3, <2>3, <2>4
  <2>6. confirmed \cap ready' = {}
    BY <1>3, <2>1, <2>3, <2>4 DEF ConfirmedQuiet
  <2>7. \A v \in Workers \ {w} : unacked'[v] = unacked[v]
    BY <1>3
  <2>8. ConfirmedQuiet'
    BY <1>1, <2>1, <2>5, <2>6, <2>7 DEF ConfirmedQuiet, dispatcherVars, Ack
  <2>9. QED
    BY <2>2, <2>8
<1>5. QED
  BY <1>1, <1>2, <1>4 DEF QuietInv

(* A connection that goes without a fault was a dead worker's: nothing on  *)
(* it had a 2xx.                                                           *)
LEMMA LostQuiet ==
  ASSUME IInv, QuietInv, ServerRestart \/ \E w \in Workers : ConnectionLost(w)
  PROVE  QuietInv'
<1> USE DEF IInv, TypeOK
<1>1. UNCHANGED dispatcherVars
  BY DEF ServerRestart, ConnectionLost
<1>2. IdleInv'
  BY <1>1 DEF QuietInv, IdleInv, Holding, dispatcherVars
<1>3. CASE ~(faults' = 0 /\ restarts' = 0)
  BY <1>2, <1>3 DEF QuietInv
<1>4. CASE faults' = 0 /\ restarts' = 0
  <2>1. PICK w \in Workers : ConnectionLost(w)
    BY <1>4 DEF ServerRestart
  <2>2. /\ pc[w] = "down" /\ faults = 0 /\ restarts = 0
        /\ conn' = [conn EXCEPT ![w] = FALSE] /\ wire' = [wire EXCEPT ![w] = << >>]
        /\ ready' = ready \cup unacked[w] /\ unacked' = [unacked EXCEPT ![w] = {}]
    BY <1>4, <2>1 DEF ConnectionLost
  <2>3. ConnsQuiet /\ ConfirmedQuiet
    BY <2>2 DEF QuietInv
  <2>4. ConnsQuiet'
    BY <1>1, <2>2, <2>3 DEF ConnsQuiet, dispatcherVars
  <2>5. unacked[w] \cap confirmed = {}
    BY <2>2, <2>3, EmptyWire DEF ConnsQuiet
  <2>6. /\ unacked'[w] = {}
        /\ \A v \in Workers \ {w} : unacked'[v] = unacked[v] /\ wire'[v] = wire[v]
    BY <2>2
  <2>7. ConfirmedQuiet'
    BY <1>1, <2>2, <2>3, <2>5, <2>6 DEF ConfirmedQuiet, dispatcherVars, Ack
  <2>8. QED
    BY <1>2, <2>4, <2>7 DEF QuietInv
<1>5. QED
  BY <1>3, <1>4

(* The quiet part of the invariant is preserved.                           *)
LEMMA QuietNext == IInv /\ QuietInv /\ [Next]_vars => QuietInv'
<1> SUFFICES ASSUME IInv, QuietInv, [Next]_vars PROVE QuietInv'
  OBVIOUS
<1>1. CASE UNCHANGED vars
  BY <1>1 DEF QuietInv, IdleInv, ConnsQuiet, ConfirmedQuiet, Holding, Ack, vars,
     dispatcherVars, brokerVars
<1>2. QED
  BY <1>1, PollQuiet, PostQuiet, SettleQuiet, DeadLetterQuiet, ProcessQuiet, ReceiveQuiet,
     LostQuiet DEF Next, WorkerStep, ServerStep

(* Without faults no message is posted by two workers at a time, nor again *)
(* after its 2xx was seen, although acks are only written to a socket and  *)
(* a process that meets a body it cannot decode gives up its connection.   *)
THEOREM NoDuplicates == Spec => []NoDuplicateWithoutFault
<1>1. Init => QuietInv
  BY DEF Init, DispatcherInit, QuietInv, IdleInv, ConnsQuiet, ConfirmedQuiet, Holding
<1>2. IInv /\ QuietInv => NoDuplicateWithoutFault
  <2> SUFFICES ASSUME IInv, QuietInv, faults = 0 /\ restarts = 0
               PROVE  /\ \A w \in Workers : pc[w] = "post" => msg[w] \notin confirmed
                      /\ \A v, w \in Workers : v # w /\ Holding(v) => msg[v] # msg[w]
    BY DEF NoDuplicateWithoutFault
  <2>1. ConnsQuiet /\ ConfirmedQuiet /\ IdleInv /\ WorkerInv /\ OnePlace
    BY DEF QuietInv, IInv
  <2>2. \A w \in Workers : Holding(w) => conn[w] /\ msg[w] \in unacked[w] /\ msg[w] \in Messages
    BY <2>1 DEF ConnsQuiet, WorkerInv, Holding
  <2>3. ASSUME NEW w \in Workers, pc[w] = "post" PROVE msg[w] \notin confirmed
    <3>1. msg[w] \in unacked[w] /\ wire[w] = << >>
      BY <2>1, <2>2, <2>3 DEF WorkerInv, Holding
    <3>2. QED
      BY <2>1, <2>3, <3>1, EmptyWire
  <2>4. ASSUME NEW v \in Workers, NEW w \in Workers, v # w, Holding(v)
        PROVE  msg[v] # msg[w]
    <3>1. CASE Holding(w)
      BY <2>1, <2>2, <2>4, <3>1 DEF OnePlace
    <3>2. CASE ~Holding(w)
      BY <2>1, <2>2, <2>4, <3>2, DispatcherAssumption DEF IdleInv, DispatcherAssumption
    <3>3. QED
      BY <3>1, <3>2
  <2>5. QED
    BY <2>3, <2>4
<1>3. QED
  BY <1>1, <1>2, QuietNext, Inductive, PTL DEF Spec
=============================================================================
