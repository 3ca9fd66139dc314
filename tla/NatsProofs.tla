----------------------------- MODULE NatsProofs -----------------------------
(***************************************************************************)
(* Theorems about NatsBroker, for any messages, workers and bounds.        *)
(*                                                                         *)
(* An ack may reach the server long after it was sent, when the message    *)
(* has been delivered to somebody else: what makes it safe is what the     *)
(* sender knew, so the invariant says that of every ack on the wire.       *)
(***************************************************************************)
EXTENDS NatsBroker, DispatcherProofs

(* Processed by the handler, or given up by a worker.                      *)
Answered == handled \cup dlq \cup unstored

WireInv == \A m \in Messages : Ack(m) \in wire => m \in Answered

WorkerInv == \A w \in Workers :
    /\ Holding(w) => msg[w] \in Messages
    /\ pc[w] = "ack" => msg[w] \in handled
    /\ pc[w] = "deadack" => msg[w] \in dlq \cup unstored

IInv == TypeOK /\ WireInv /\ WorkerInv /\ NoSilentLoss

-----------------------------------------------------------------------------
(* Acks and naks of different messages are different commands.             *)
LEMMA CommandFacts ==
  ASSUME NEW m \in Messages, NEW n \in Messages
  PROVE  /\ Ack(m) \in Commands /\ Nak(m) \in Commands
         /\ Ack(m) = Ack(n) => m = n
         /\ Ack(m) # Nak(n)
         /\ Ack(m).cmd = "ack" /\ Ack(m).m = m
  BY DEF Ack, Nak, Commands

(* The invariant holds initially: the consumer has acknowledged nothing.   *)
LEMMA InitIInv == Init => IInv
<1> SUFFICES ASSUME Init PROVE IInv
  OBVIOUS
<1>1. TypeOK
  BY InitType, NatsAssumption DEF Init, TypeOK, NatsAssumption
<1>2. QED
  BY <1>1 DEF Init, DispatcherInit, IInv, WireInv, WorkerInv, NoSilentLoss, Holding

(* Fetching, with or without the reply, settles nothing.                   *)
LEMMA PollInv ==
  ASSUME IInv, NEW w \in Workers, Poll(w) \/ FetchLost(w)
  PROVE  IInv'
<1> USE DEF IInv, TypeOK
<1>1. PICK m \in open \ pending :
        /\ pending' = pending \cup {m}
        /\ Dies(w) \/ Fetched(w, m, 0) \/ UNCHANGED dispatcherVars
  BY DEF Poll, FetchLost
<1>2. /\ DispatcherTypeOK'
      /\ \/ UNCHANGED dispatcherVars
         \/ /\ OnlyWorker(w) /\ UNCHANGED handled
            /\ pc'[w] = "down" \/ (pc'[w] = "post" /\ msg'[w] = m)
  BY <1>1, DiesStep, FetchedStep, SameStep
<1>3. UNCHANGED <<open, wire, dlq, unstored, handled>> /\ faults' \in 0..MaxFaults
  BY <1>2, NatsAssumption DEF Poll, FetchLost, Fault, NatsAssumption, dispatcherVars
<1>4. TypeOK'
  BY <1>1, <1>2, <1>3
<1>5. WorkerInv'
  <2>1. CASE UNCHANGED dispatcherVars
    BY <1>3, <2>1 DEF WorkerInv, Holding, dispatcherVars
  <2>2. CASE OnlyWorker(w) /\ (pc'[w] = "down" \/ (pc'[w] = "post" /\ msg'[w] = m))
    BY <1>3, <2>2 DEF WorkerInv, Holding, OnlyWorker
  <2>3. QED
    BY <1>2, <2>1, <2>2
<1>6. WireInv' /\ NoSilentLoss'
  BY <1>3 DEF WireInv, Answered, NoSilentLoss
<1>7. QED
  BY <1>4, <1>5, <1>6

(* The POST changes nothing at the broker; an ack follows a 2xx only.      *)
LEMMA PostInv ==
  ASSUME IInv, NEW w \in Workers, Post(w)
  PROVE  IInv'
<1> USE DEF IInv, TypeOK
<1>1. msg[w] \in Messages /\ UNCHANGED brokerVars /\ (PostAccepted(w) \/ PostFailed(w))
  BY DEF Post, WorkerInv, Holding, PostAccepted, PostFailed
<1>2. /\ DispatcherTypeOK' /\ OnlyWorker(w) /\ msg' = msg /\ pc[w] = "post"
      /\ pc'[w] \in {"ack", "nack", "dead"} /\ (pc'[w] = "ack" => msg[w] \in handled')
      /\ handled \subseteq handled'
  BY <1>1, PostStep
<1>3. TypeOK'
  BY <1>1, <1>2 DEF brokerVars
<1>4. WorkerInv'
  BY <1>1, <1>2 DEF WorkerInv, Holding, OnlyWorker, brokerVars
<1>5. WireInv' /\ NoSilentLoss'
  BY <1>1, <1>2 DEF WireInv, Answered, NoSilentLoss, brokerVars
<1>6. QED
  BY <1>3, <1>4, <1>5

(* A worker sends an ack only for what was answered; sending may fail.     *)
LEMMA SettleInv ==
  ASSUME IInv, NEW w \in Workers, AckMessage(w) \/ NackMessage(w) \/ DeadLetterAck(w)
  PROVE  IInv'
<1> USE DEF IInv, TypeOK
<1>1. /\ Holding(w) /\ Settled(w) /\ UNCHANGED <<open, pending, dlq, unstored>>
      /\ \/ Send(Ack(msg[w])) /\ msg[w] \in Answered
         \/ Send(Nak(msg[w]))
  BY DEF AckMessage, NackMessage, DeadLetterAck, WorkerInv, Holding, Answered
<1>2. DispatcherTypeOK' /\ OnlyWorker(w) /\ pc'[w] = "poll" /\ UNCHANGED handled
  BY <1>1, SettledStep
<1>3. msg[w] \in Messages
  BY <1>1 DEF WorkerInv
<1>4. /\ faults' \in 0..MaxFaults
      /\ \/ wire' = wire
         \/ wire' = wire \cup {Ack(msg[w])} /\ msg[w] \in Answered
         \/ wire' = wire \cup {Nak(msg[w])}
  BY <1>1, NatsAssumption DEF Send, Fault, NatsAssumption
<1>5. TypeOK'
  BY <1>1, <1>2, <1>3, <1>4, CommandFacts DEF Commands
<1>6. WireInv'
  BY <1>1, <1>2, <1>3, <1>4, CommandFacts DEF WireInv, Answered
<1>7. WorkerInv'
  BY <1>1, <1>2 DEF WorkerInv, Holding, OnlyWorker
<1>8. NoSilentLoss'
  BY <1>1, <1>2 DEF NoSilentLoss
<1>9. QED
  BY <1>5, <1>6, <1>7, <1>8

(* The dead-letter publish records its message, stored or not.             *)
LEMMA DeadLetterPublishInv ==
  ASSUME IInv, NEW w \in Workers, DeadLetterPublish(w)
  PROVE  IInv'
<1> USE DEF IInv, TypeOK
<1>1. msg[w] \in Messages
  BY DEF DeadLetterPublish, WorkerInv, Holding
<1>2. /\ DispatcherTypeOK' /\ OnlyWorker(w) /\ pc'[w] = "deadack"
      /\ UNCHANGED <<msg, handled, open, pending, wire>>
  BY DeadAckStep DEF DeadLetterPublish
<1>3. /\ \/ dlq' = dlq \cup {msg[w]} /\ UNCHANGED unstored
         \/ unstored' = unstored \cup {msg[w]} /\ UNCHANGED dlq
      /\ faults' \in 0..MaxFaults
  BY NatsAssumption DEF DeadLetterPublish, Fault, NatsAssumption
<1>4. TypeOK'
  BY <1>1, <1>2, <1>3
<1>5. WorkerInv'
  BY <1>1, <1>2, <1>3 DEF WorkerInv, Holding, OnlyWorker
<1>6. WireInv' /\ NoSilentLoss'
  BY <1>2, <1>3 DEF WireInv, Answered, NoSilentLoss
<1>7. QED
  BY <1>4, <1>5, <1>6

(* A crash or a new process leaves the wire and the server alone.          *)
LEMMA CrashRestartInv ==
  ASSUME IInv, NEW w \in Workers, Crash(w) \/ Restart(w)
  PROVE  IInv'
<1> USE DEF IInv, TypeOK
<1>1. /\ DispatcherTypeOK' /\ OnlyWorker(w) /\ pc'[w] \in {"down", "poll"}
      /\ UNCHANGED <<handled, open, pending, wire, dlq, unstored>>
      /\ faults' \in 0..MaxFaults
  <2>1. CASE Crash(w)
    BY <2>1, DiesStep, NatsAssumption DEF Crash, Fault, NatsAssumption
  <2>2. CASE Restart(w)
    BY <2>2, StartsStep DEF Restart, brokerVars
  <2>3. QED
    BY <2>1, <2>2
<1>2. QED
  BY <1>1 DEF WorkerInv, Holding, OnlyWorker, WireInv, Answered, NoSilentLoss

(* The server obeys or loses a command, or an ack wait runs out.           *)
LEMMA ServerInv ==
  ASSUME IInv,
         \/ \E c \in Commands : Receive(c) \/ Lose(c)
         \/ \E m \in Messages : Expire(m)
  PROVE  IInv'
<1> USE DEF IInv, TypeOK
<1>1. UNCHANGED <<dispatcherVars, dlq, unstored>> /\ wire' \subseteq wire
  BY DEF Receive, Lose, Expire
<1>2. /\ pending' \subseteq open' /\ open' \subseteq open /\ faults' \in 0..MaxFaults
      /\ \A n \in open \ open' : Ack(n) \in wire
  <2>1. ASSUME NEW c \in Commands, Receive(c)
        PROVE  /\ pending' \subseteq open' /\ open' \subseteq open /\ UNCHANGED faults
               /\ \A n \in open \ open' : Ack(n) \in wire
    BY <2>1 DEF Receive, Commands, Ack
  <2>2. ASSUME NEW c \in Commands, Lose(c)
        PROVE  UNCHANGED <<open, pending>> /\ faults' \in 0..MaxFaults
    BY <2>2, NatsAssumption DEF Lose, Fault, NatsAssumption
  <2>3. ASSUME NEW m \in Messages, Expire(m)
        PROVE  open' = open /\ pending' \subseteq pending /\ faults' \in 0..MaxFaults
    BY <2>3, NatsAssumption DEF Expire, Fault, NatsAssumption
  <2>4. QED
    BY <2>1, <2>2, <2>3
<1>3. TypeOK'
  BY <1>1, <1>2, SameStep
<1>4. WireInv' /\ WorkerInv'
  BY <1>1 DEF WireInv, Answered, WorkerInv, Holding, dispatcherVars
<1>5. NoSilentLoss'
  BY <1>1, <1>2 DEF NoSilentLoss, WireInv, Answered, dispatcherVars
<1>6. QED
  BY <1>3, <1>4, <1>5

(* The invariant is inductive.                                             *)
LEMMA InductiveStep == IInv /\ [Next]_vars => IInv'
<1> SUFFICES ASSUME IInv, [Next]_vars PROVE IInv'
  OBVIOUS
<1>1. CASE UNCHANGED vars
  <2>1. TypeOK'
    BY <1>1, SameStep DEF IInv, TypeOK, vars, brokerVars
  <2>2. QED
    BY <1>1, <2>1 DEF IInv, WireInv, WorkerInv, Holding, Answered, NoSilentLoss, vars,
       dispatcherVars, brokerVars
<1>2. QED
  BY <1>1, PollInv, PostInv, SettleInv, DeadLetterPublishInv, CrashRestartInv, ServerInv
  DEF Next, WorkerStep

(* The inductive invariant holds of every behaviour over NATS.             *)
THEOREM Inductive == Spec => []IInv
  BY InitIInv, InductiveStep, PTL DEF Spec

(* Whatever fails, expires or is lost, the variables keep their types.     *)
THEOREM TypeCorrect == Spec => []TypeOK
  BY Inductive, PTL DEF IInv

(* Whatever crashes, lost acks, late answers and failed calls occur, a     *)
(* message JetStream has forgotten was processed by the handler, stored    *)
(* in the dead-letter stream, or lost by a failed dead-letter publish.     *)
THEOREM NothingLostSilently == Spec => []NoSilentLoss
  BY Inductive, PTL DEF IInv

-----------------------------------------------------------------------------
(* Each step is a step of the contract or leaves its variables alone.      *)
LEMMA ContractStep ==
  IInv /\ [Next]_vars => [Contract!Next]_<<open, handled, dlq \cup unstored>>
<1> SUFFICES ASSUME IInv, [Next]_vars
             PROVE  Contract!Next \/ UNCHANGED <<open, handled, dlq \cup unstored>>
  OBVIOUS
<1> DEFINE Goal == Contract!Next \/ UNCHANGED <<open, handled, dlq \cup unstored>>
<1> USE DEF IInv, TypeOK
<1>1. ASSUME NEW w \in Workers, Post(w) PROVE Goal
  <2>1. msg[w] \in Messages /\ UNCHANGED brokerVars /\ (PostAccepted(w) \/ PostFailed(w))
    BY <1>1 DEF Post, WorkerInv, Holding, PostAccepted, PostFailed
  <2>2. handled' = handled \/ handled' = handled \cup {msg[w]}
    BY <2>1, PostStep
  <2>3. QED
    BY <2>1, <2>2 DEF Contract!Next, Contract!Handle, brokerVars
<1>2. ASSUME NEW w \in Workers, DeadLetterPublish(w) PROVE Goal
  <2>1. msg[w] \in Messages
    BY <1>2 DEF DeadLetterPublish, WorkerInv, Holding
  <2>2. (dlq \cup unstored)' = (dlq \cup unstored) \cup {msg[w]}
    BY <1>2 DEF DeadLetterPublish
  <2>3. QED
    BY <1>2, <2>1, <2>2 DEF DeadLetterPublish, Contract!Next, Contract!Park
<1>3. ASSUME NEW w \in Workers,
             \/ Poll(w) \/ FetchLost(w) \/ AckMessage(w) \/ NackMessage(w)
             \/ DeadLetterAck(w) \/ Crash(w) \/ Restart(w)
      PROVE  Goal
  BY <1>3 DEF Poll, FetchLost, AckMessage, NackMessage, DeadLetterAck, Crash, Restart,
     Fetched, Settled, Dies, Starts, brokerVars, dispatcherVars
<1>4. ASSUME NEW c \in Commands, Receive(c) PROVE Goal
  <2>1. UNCHANGED <<handled, dlq, unstored>> /\ c \in wire
    BY <1>4 DEF Receive, dispatcherVars
  <2>2. CASE c.cmd = "ack" /\ c.m \in open
    <3>1. c.m \in Messages /\ c = Ack(c.m)
      BY <2>2 DEF Commands, Ack
    <3>2. c.m \in handled \cup dlq \cup unstored
      BY <2>1, <3>1 DEF WireInv, Answered
    <3>3. open' = open \ {c.m}
      BY <1>4, <2>2 DEF Receive
    <3>4. QED
      BY <2>1, <2>2, <3>1, <3>2, <3>3 DEF Contract!Next, Contract!Forget
  <2>3. CASE ~(c.cmd = "ack" /\ c.m \in open)
    <3>1. open' = open
      BY <1>4, <2>3 DEF Receive
    <3>2. QED
      BY <2>1, <3>1
  <2>4. QED
    BY <2>2, <2>3
<1>5. ASSUME NEW c \in Commands, Lose(c) PROVE Goal
  BY <1>5 DEF Lose, dispatcherVars
<1>6. ASSUME NEW m \in Messages, Expire(m) PROVE Goal
  BY <1>6 DEF Expire, dispatcherVars
<1>7. CASE UNCHANGED vars
  BY <1>7 DEF vars, dispatcherVars, brokerVars
<1>8. QED
  BY <1>1, <1>2, <1>3, <1>4, <1>5, <1>6, <1>7 DEF Next, WorkerStep

(* The dispatcher over NATS keeps the contract, except that a dead letter  *)
(* counts as parked whether or not it was stored.                          *)
THEOREM KeepsContract == Spec => ContractSpec
<1>1. Init => Contract!Init
  BY DEF Init, DispatcherInit, Contract!Init
<1>2. QED
  BY <1>1, ContractStep, Inductive, PTL DEF Spec, ContractSpec, Contract!Spec, Contract!vars

-----------------------------------------------------------------------------
(* poll counts from 0 again, whatever the server does in between.          *)
LEMMA FreshNext == TypeOK /\ FreshInv /\ [Next]_vars => FreshInv'
<1> SUFFICES ASSUME TypeOK, FreshInv, [Next]_vars PROVE FreshInv'
  OBVIOUS
<1> USE DEF TypeOK
<1>1. ASSUME NEW w \in Workers, WorkerStep(w) \/ Crash(w) \/ Restart(w) PROVE FreshInv'
  <2>1. \/ \E m \in Messages : Fetched(w, m, 0)
        \/ PostAccepted(w) \/ PostFailed(w) \/ Settled(w) \/ Dies(w) \/ Starts(w)
        \/ pc[w] = "dead" /\ pc' = [pc EXCEPT ![w] = "deadack"] /\ UNCHANGED attempts
    BY <1>1 DEF WorkerStep, Poll, Post, AckMessage, NackMessage, DeadLetterPublish,
       DeadLetterAck, Crash, Restart
  <2>2. QED
    BY <2>1, FreshStep
<1>2. CASE UNCHANGED dispatcherVars
  BY <1>2, FreshSame
<1>3. QED
  BY <1>1, <1>2 DEF Next, vars, FetchLost, Receive, Lose, Expire

(* A worker with a limit of two or more never dead-letters a message.      *)
THEOREM DeadLettersUnreachable == Spec => []NeverDeadLettered
<1>1. Init => FreshInv
  BY DEF Init, DispatcherInit, FreshInv
<1>2. FreshInv => NeverDeadLettered
  BY DEF FreshInv, NeverDeadLettered
<1>3. IInv => TypeOK
  BY DEF IInv
<1>4. QED
  BY <1>1, <1>2, <1>3, FreshNext, Inductive, PTL DEF Spec

-----------------------------------------------------------------------------
(* As long as nothing has failed: a message in somebody's hands is in      *)
(* nobody else's and its delivery is pending ...                           *)
HandsQuiet ==
    \A w \in Workers : Holding(w) =>
        /\ msg[w] \in pending
        /\ \A v \in Workers \ {w} : Holding(v) => msg[v] # msg[w]

(* ... an answer on the wire is the only one to a pending delivery that    *)
(* nobody works on any more ...                                            *)
WireQuiet ==
    \A c \in wire :
        /\ c.m \in pending
        /\ \A w \in Workers : Holding(w) => msg[w] # c.m
        /\ \A d \in wire : c.m = d.m => c = d

(* ... and a message with a 2xx is about to be acknowledged, or has been.  *)
ConfirmedQuiet ==
    \A m \in confirmed :
        /\ Nak(m) \notin wire
        /\ \A w \in Workers : Holding(w) /\ msg[w] = m => pc[w] = "ack"
        /\ m \in open => Ack(m) \in wire \/ \E w \in Workers : Holding(w) /\ msg[w] = m

IdleInv == \A w \in Workers : ~Holding(w) => msg[w] = None

QuietInv == IdleInv /\ (faults = 0 => HandsQuiet /\ WireQuiet /\ ConfirmedQuiet)

(* A step that counts a fault leaves nothing to show.                      *)
LEMMA FaultStep == TypeOK /\ Fault => faults' # 0
  BY DEF TypeOK, Fault

(* Without faults a message that can be fetched is in nobody's hands, not  *)
(* on the wire, and has not had its 2xx.                                   *)
LEMMA FetchableQuiet ==
  ASSUME IInv, QuietInv, faults = 0, NEW m \in open \ pending
  PROVE  /\ m \in Messages /\ m \notin confirmed
         /\ \A w \in Workers : Holding(w) => msg[w] # m
         /\ \A c \in wire : c.m # m
<1>1. m \in Messages
  BY DEF IInv, TypeOK
<1>2. /\ \A w \in Workers : Holding(w) => msg[w] # m
      /\ \A c \in wire : c.m # m
  BY DEF QuietInv, HandsQuiet, WireQuiet
<1>3. Ack(m) \notin wire
  BY <1>1, <1>2, CommandFacts
<1>4. QED
  BY <1>1, <1>2, <1>3 DEF QuietInv, ConfirmedQuiet

(* A fetch hands over a message nobody has.                                *)
LEMMA PollQuiet ==
  ASSUME IInv, QuietInv, NEW w \in Workers, Poll(w) \/ FetchLost(w)
  PROVE  QuietInv'
<1> USE DEF IInv, TypeOK
<1>1. CASE FetchLost(w)
  <2>1. faults' # 0 /\ UNCHANGED dispatcherVars
    BY <1>1, FaultStep DEF FetchLost
  <2>2. QED
    BY <2>1 DEF QuietInv, IdleInv, Holding, dispatcherVars
<1>2. CASE Poll(w)
  <2>1. PICK m \in open \ pending :
          /\ pending' = pending \cup {m} /\ pc[w] = "poll"
          /\ UNCHANGED <<open, wire, dlq, unstored, faults>>
          /\ Dies(w) \/ Fetched(w, m, 0)
    BY <1>2 DEF Poll
  <2>2. m \in Messages /\ ~Holding(w)
    BY <2>1 DEF Holding
  <2>3. /\ OnlyWorker(w) /\ UNCHANGED confirmed
        /\ \/ pc'[w] = "down" /\ msg'[w] = None
           \/ pc'[w] = "post" /\ msg'[w] = m
    BY <2>1, <2>2, DiesStep, FetchedStep
  <2>4. IdleInv'
    BY <2>3 DEF QuietInv, IdleInv, Holding, OnlyWorker
  <2>5. ASSUME faults = 0
        PROVE  HandsQuiet' /\ WireQuiet' /\ ConfirmedQuiet'
    <3>1. /\ m \notin confirmed
          /\ \A v \in Workers : Holding(v) => msg[v] # m
          /\ \A c \in wire : c.m # m
      BY <2>5, FetchableQuiet
    <3>2. HandsQuiet /\ WireQuiet /\ ConfirmedQuiet
      BY <2>5 DEF QuietInv
    <3>3. \A v \in Workers : Holding(v)' =>
             \/ v = w /\ msg'[v] = m
             \/ v # w /\ Holding(v) /\ msg'[v] = msg[v] /\ pc'[v] = pc[v]
      BY <2>3 DEF Holding, OnlyWorker
    <3>4. \A v \in Workers : Holding(v) => Holding(v)' /\ msg'[v] = msg[v]
      BY <2>2, <2>3 DEF Holding, OnlyWorker
    <3>5. HandsQuiet'
      BY <2>1, <3>1, <3>2, <3>3 DEF HandsQuiet
    <3>6. WireQuiet'
      BY <2>1, <3>1, <3>2, <3>3 DEF WireQuiet
    <3>7. ConfirmedQuiet'
      <4> SUFFICES ASSUME NEW n \in confirmed
                   PROVE  /\ Nak(n) \notin wire
                          /\ \A v \in Workers : Holding(v)' /\ msg'[v] = n => pc'[v] = "ack"
                          /\ n \in open => \/ Ack(n) \in wire
                                          \/ \E v \in Workers : Holding(v)' /\ msg'[v] = n
        BY <2>1, <2>3 DEF ConfirmedQuiet, Nak, Ack
      <4>1. /\ Nak(n) \notin wire
            /\ \A v \in Workers : Holding(v) /\ msg[v] = n => pc[v] = "ack"
            /\ n \in open => Ack(n) \in wire \/ \E v \in Workers : Holding(v) /\ msg[v] = n
        BY <3>2 DEF ConfirmedQuiet
      <4>2. \A v \in Workers : Holding(v)' /\ msg'[v] = n => pc'[v] = "ack"
        BY <3>1, <3>3, <4>1
      <4>3. n \in open => Ack(n) \in wire \/ \E v \in Workers : Holding(v)' /\ msg'[v] = n
        BY <3>4, <4>1
      <4>4. QED
        BY <4>1, <4>2, <4>3
    <3>8. QED
      BY <3>5, <3>6, <3>7
  <2>6. QED
    BY <2>1, <2>4, <2>5 DEF QuietInv
<1>3. QED
  BY <1>1, <1>2

(* A POST that gives a 2xx leaves its worker about to acknowledge.         *)
LEMMA PostQuiet ==
  ASSUME IInv, QuietInv, NEW w \in Workers, Post(w)
  PROVE  QuietInv'
<1> USE DEF IInv, TypeOK
<1>1. msg[w] \in Messages /\ UNCHANGED brokerVars /\ (PostAccepted(w) \/ PostFailed(w))
  BY DEF Post, WorkerInv, Holding, PostAccepted, PostFailed
<1>2. /\ OnlyWorker(w) /\ msg' = msg /\ pc[w] = "post"
      /\ \/ pc'[w] = "ack" /\ confirmed' = confirmed \cup {msg[w]}
         \/ pc'[w] \in {"nack", "dead"} /\ confirmed' = confirmed
  BY <1>1, PostStep
<1>3. \A v \in Workers : Holding(v)' <=> Holding(v)
  BY <1>2 DEF Holding, OnlyWorker
<1>4. IdleInv'
  BY <1>2, <1>3 DEF QuietInv, IdleInv
<1>5. ASSUME faults = 0
      PROVE  HandsQuiet' /\ WireQuiet' /\ ConfirmedQuiet'
  <2>1. HandsQuiet /\ WireQuiet /\ ConfirmedQuiet
    BY <1>5 DEF QuietInv
  <2>2. HandsQuiet' /\ WireQuiet'
    BY <1>1, <1>2, <1>3, <2>1 DEF HandsQuiet, WireQuiet, brokerVars
  <2>3. Holding(w) /\ msg[w] \notin confirmed
    BY <1>2, <2>1 DEF Holding, ConfirmedQuiet
  <2>4. Nak(msg[w]) \notin wire
    BY <1>1, <2>1, <2>3 DEF WireQuiet, Nak
  <2>5. \A v \in Workers \ {w} : (Holding(v) => msg[v] # msg[w]) /\ pc'[v] = pc[v]
    BY <1>2, <2>1, <2>3 DEF HandsQuiet, OnlyWorker
  <2>6. ConfirmedQuiet'
    BY <1>1, <1>2, <1>3, <2>1, <2>3, <2>4, <2>5 DEF ConfirmedQuiet, brokerVars, Nak, Ack
  <2>7. QED
    BY <2>2, <2>6
<1>6. QED
  BY <1>1, <1>4, <1>5 DEF QuietInv, brokerVars

(* A worker that settles its message leaves one answer on the wire: an ack *)
(* if it saw a 2xx.                                                        *)
LEMMA SettleQuiet ==
  ASSUME IInv, QuietInv, NEW w \in Workers, AckMessage(w) \/ NackMessage(w) \/ DeadLetterAck(w)
  PROVE  QuietInv'
<1> USE DEF IInv, TypeOK
<1>1. /\ Holding(w) /\ Settled(w) /\ UNCHANGED <<open, pending, dlq, unstored>>
      /\ \/ Send(Ack(msg[w]))
         \/ Send(Nak(msg[w])) /\ pc[w] # "ack"
      /\ msg[w] \in Messages
  BY DEF AckMessage, NackMessage, DeadLetterAck, WorkerInv, Holding
<1>2. /\ OnlyWorker(w) /\ pc'[w] = "poll" /\ msg'[w] = None /\ UNCHANGED confirmed
  BY <1>1, SettledStep
<1>3. ~Holding(w)' /\ \A v \in Workers \ {w} :
          (Holding(v)' <=> Holding(v)) /\ msg'[v] = msg[v] /\ pc'[v] = pc[v]
  BY <1>2 DEF Holding, OnlyWorker
<1>4. IdleInv'
  BY <1>2, <1>3 DEF QuietInv, IdleInv
<1>5. CASE faults' # 0
  BY <1>4, <1>5 DEF QuietInv
<1>6. CASE faults' = 0
  <2>1. /\ faults = 0
        /\ \/ wire' = wire \cup {Ack(msg[w])}
           \/ wire' = wire \cup {Nak(msg[w])} /\ pc[w] # "ack"
    BY <1>1, <1>6, FaultStep DEF Send
  <2>2. HandsQuiet /\ WireQuiet /\ ConfirmedQuiet
    BY <2>1 DEF QuietInv
  <2>3. /\ msg[w] \in pending
        /\ \A v \in Workers \ {w} : Holding(v) => msg[v] # msg[w]
        /\ \A c \in wire : c.m # msg[w]
    BY <1>1, <2>2 DEF HandsQuiet, WireQuiet
  <2>4. Ack(msg[w]).m = msg[w] /\ Nak(msg[w]).m = msg[w]
    BY DEF Ack, Nak
  <2>5. HandsQuiet'
    BY <1>1, <1>3, <2>2 DEF HandsQuiet
  <2>6. WireQuiet'
    BY <1>1, <1>3, <2>1, <2>2, <2>3, <2>4 DEF WireQuiet
  <2>7. ConfirmedQuiet'
    <3> SUFFICES ASSUME NEW m \in confirmed
                 PROVE  /\ Nak(m) \notin wire'
                        /\ \A v \in Workers : Holding(v)' /\ msg'[v] = m => pc'[v] = "ack"
                        /\ m \in open' => \/ Ack(m) \in wire'
                                          \/ \E v \in Workers : Holding(v)' /\ msg'[v] = m
      BY <1>2 DEF ConfirmedQuiet, Nak, Ack
    <3>1. /\ Nak(m) \notin wire
          /\ \A v \in Workers : Holding(v) /\ msg[v] = m => pc[v] = "ack"
          /\ m \in open => Ack(m) \in wire \/ \E v \in Workers : Holding(v) /\ msg[v] = m
      BY <2>2 DEF ConfirmedQuiet
    <3>2. m \in Messages
      BY DEF DispatcherTypeOK
    <3>3. CASE m = msg[w]
      BY <1>1, <1>3, <2>1, <2>3, <3>1, <3>2, <3>3, CommandFacts
    <3>4. CASE m # msg[w]
      <4>1. /\ Nak(m) # Ack(msg[w]) /\ Nak(m) # Nak(msg[w])
        BY <3>4 DEF Ack, Nak
      <4>2. Nak(m) \notin wire'
        BY <2>1, <3>1, <4>1
      <4>3. \A v \in Workers : Holding(v)' /\ msg'[v] = m => pc'[v] = "ack"
        BY <1>3, <3>1
      <4>4. Ack(m) \in wire => Ack(m) \in wire'
        BY <2>1
      <4>5. \A v \in Workers : Holding(v) /\ msg[v] = m => Holding(v)' /\ msg'[v] = m
        BY <1>3, <3>4
      <4>6. QED
        BY <1>1, <3>1, <4>2, <4>3, <4>4, <4>5
    <3>5. QED
      BY <3>3, <3>4
  <2>8. QED
    BY <1>4, <2>5, <2>6, <2>7 DEF QuietInv
<1>7. QED
  BY <1>5, <1>6

(* The publish of a dead letter moves nothing: it had no 2xx.              *)
LEMMA DeadLetterQuiet ==
  ASSUME IInv, QuietInv, NEW w \in Workers, DeadLetterPublish(w)
  PROVE  QuietInv'
<1> USE DEF IInv, TypeOK
<1>1. /\ OnlyWorker(w) /\ pc[w] = "dead" /\ pc'[w] = "deadack"
      /\ UNCHANGED <<msg, confirmed, open, pending, wire>>
      /\ faults' = 0 => faults = 0
  BY DeadAckStep, FaultStep DEF DeadLetterPublish
<1>2. /\ \A v \in Workers : Holding(v)' <=> Holding(v)
      /\ \A v \in Workers : pc[v] = "ack" => pc'[v] = "ack"
  BY <1>1 DEF Holding, OnlyWorker
<1>3. IdleInv'
  BY <1>1, <1>2 DEF QuietInv, IdleInv
<1>4. HandsQuiet /\ WireQuiet /\ ConfirmedQuiet => HandsQuiet' /\ WireQuiet' /\ ConfirmedQuiet'
  BY <1>1, <1>2 DEF HandsQuiet, WireQuiet, ConfirmedQuiet, Nak, Ack
<1>5. QED
  BY <1>1, <1>3, <1>4 DEF QuietInv

(* A crash is a fault; a new process has nothing in its hands.             *)
LEMMA CrashRestartQuiet ==
  ASSUME IInv, QuietInv, NEW w \in Workers, Crash(w) \/ Restart(w)
  PROVE  QuietInv'
<1> USE DEF IInv, TypeOK
<1>1. CASE Crash(w)
  <2>1. faults' # 0 /\ OnlyWorker(w) /\ msg'[w] = None
    BY <1>1, FaultStep, DiesStep DEF Crash
  <2>2. QED
    BY <2>1 DEF QuietInv, IdleInv, Holding, OnlyWorker
<1>2. CASE Restart(w)
  <2>1. /\ OnlyWorker(w) /\ pc[w] = "down" /\ pc'[w] = "poll"
        /\ UNCHANGED <<msg, confirmed, open, pending, wire, faults>>
    BY <1>2, StartsStep DEF Restart, brokerVars
  <2>2. /\ \A v \in Workers : Holding(v)' <=> Holding(v)
        /\ \A v \in Workers : Holding(v) => pc'[v] = pc[v]
    BY <2>1 DEF Holding, OnlyWorker
  <2>3. IdleInv'
    BY <2>1, <2>2 DEF QuietInv, IdleInv
  <2>4. HandsQuiet /\ WireQuiet /\ ConfirmedQuiet => HandsQuiet' /\ WireQuiet' /\ ConfirmedQuiet'
    BY <2>1, <2>2 DEF HandsQuiet, WireQuiet, ConfirmedQuiet, Nak, Ack
  <2>5. QED
    BY <2>1, <2>3, <2>4 DEF QuietInv
<1>3. QED
  BY <1>1, <1>2

(* The server: an answer that arrives is the only one and nobody is at the *)
(* message; what expires without a fault, nobody answers for.              *)
LEMMA ServerQuiet ==
  ASSUME IInv, QuietInv,
         \/ \E c \in Commands : Receive(c) \/ Lose(c)
         \/ \E m \in Messages : Expire(m)
  PROVE  QuietInv'
<1> USE DEF IInv, TypeOK
<1>1. UNCHANGED dispatcherVars
  BY DEF Receive, Lose, Expire
<1>2. IdleInv' /\ \A v \in Workers : Holding(v)' <=> Holding(v)
  BY <1>1 DEF QuietInv, IdleInv, Holding, dispatcherVars
<1>3. CASE faults' # 0
  BY <1>2, <1>3 DEF QuietInv
<1>4. CASE faults' = 0
  <2>1. \/ \E c \in Commands : Receive(c) /\ faults = 0
        \/ \E m \in Messages : Expire(m) /\ Orphan(m) /\ faults = 0
    BY <1>4, FaultStep DEF Receive, Lose, Expire
  <2>2. HandsQuiet /\ WireQuiet /\ ConfirmedQuiet
    BY <2>1 DEF QuietInv
  <2>3. ASSUME NEW c \in Commands, Receive(c)
        PROVE  HandsQuiet' /\ WireQuiet' /\ ConfirmedQuiet'
    <3>1. /\ c \in wire /\ wire' = wire \ {c} /\ pending' = pending \ {c.m}
          /\ open' \subseteq open /\ (c.cmd = "ack" => c.m \notin open')
      BY <2>3 DEF Receive
    <3>2. HandsQuiet' /\ WireQuiet'
      BY <1>1, <1>2, <2>2, <3>1 DEF HandsQuiet, WireQuiet, dispatcherVars
    <3>3. \A m \in Messages : c = Ack(m) => m \notin open'
      BY <3>1, CommandFacts
    <3>4. ConfirmedQuiet'
      BY <1>1, <1>2, <2>2, <3>1, <3>3 DEF ConfirmedQuiet, DispatcherTypeOK, dispatcherVars, Nak, Ack
    <3>5. QED
      BY <3>2, <3>4
  <2>4. ASSUME NEW m \in Messages, Expire(m), Orphan(m)
        PROVE  HandsQuiet' /\ WireQuiet' /\ ConfirmedQuiet'
    <3>1. /\ pending' = pending \ {m} /\ UNCHANGED <<open, wire>>
          /\ \A v \in Workers : Holding(v) => msg[v] # m
          /\ \A d \in wire : d.m # m
      BY <2>4 DEF Expire, Orphan
    <3>2. HandsQuiet' /\ WireQuiet'
      BY <1>1, <1>2, <2>2, <3>1 DEF HandsQuiet, WireQuiet, dispatcherVars
    <3>3. ConfirmedQuiet'
      BY <1>1, <1>2, <2>2, <3>1 DEF ConfirmedQuiet, dispatcherVars, Nak, Ack
    <3>4. QED
      BY <3>2, <3>3
  <2>5. QED
    BY <1>2, <2>1, <2>3, <2>4 DEF QuietInv
<1>5. QED
  BY <1>3, <1>4

(* The quiet part of the invariant is preserved.                           *)
LEMMA QuietNext == IInv /\ QuietInv /\ [Next]_vars => QuietInv'
<1> SUFFICES ASSUME IInv, QuietInv, [Next]_vars PROVE QuietInv'
  OBVIOUS
<1>1. CASE UNCHANGED vars
  BY <1>1 DEF QuietInv, IdleInv, HandsQuiet, WireQuiet, ConfirmedQuiet, Holding, Ack, Nak, vars,
     dispatcherVars, brokerVars
<1>2. QED
  BY <1>1, PollQuiet, PostQuiet, SettleQuiet, DeadLetterQuiet, CrashRestartQuiet, ServerQuiet
  DEF Next, WorkerStep

(* Without faults no message is posted by two workers at a time, nor again *)
(* after its 2xx was seen, although acks are sent without waiting and any  *)
(* unanswered delivery may expire.                                         *)
THEOREM NoDuplicates == Spec => []NoDuplicateWithoutFault
<1>1. Init => QuietInv
  BY DEF Init, DispatcherInit, QuietInv, IdleInv, HandsQuiet, WireQuiet, ConfirmedQuiet, Holding
<1>2. IInv /\ QuietInv => NoDuplicateWithoutFault
  <2> SUFFICES ASSUME IInv, QuietInv, faults = 0
               PROVE  /\ \A w \in Workers : pc[w] = "post" => msg[w] \notin confirmed
                      /\ \A v, w \in Workers : v # w /\ Holding(v) => msg[v] # msg[w]
    BY DEF NoDuplicateWithoutFault
  <2>1. HandsQuiet /\ ConfirmedQuiet /\ IdleInv
    BY DEF QuietInv
  <2>2. ASSUME NEW w \in Workers, pc[w] = "post" PROVE msg[w] \notin confirmed
    BY <2>1, <2>2 DEF ConfirmedQuiet, Holding
  <2>3. ASSUME NEW v \in Workers, NEW w \in Workers, v # w, Holding(v)
        PROVE  msg[v] # msg[w]
    <3>1. msg[v] \in Messages
      BY <2>3 DEF IInv, WorkerInv
    <3>2. CASE Holding(w)
      BY <2>1, <2>3, <3>2 DEF HandsQuiet
    <3>3. CASE ~Holding(w)
      BY <2>1, <3>1, <3>3, DispatcherAssumption DEF IdleInv, DispatcherAssumption
    <3>4. QED
      BY <3>2, <3>3
  <2>4. QED
    BY <2>2, <2>3
<1>3. QED
  BY <1>1, <1>2, QuietNext, Inductive, PTL DEF Spec

-----------------------------------------------------------------------------
(* core.py:50-51: a dead letter is preserved when a stream captures its    *)
(* subject and no call has failed ...                                      *)
PreservedWithoutFault == DlqStream /\ faults = 0 => DeadLettersPreserved

(* ... because only a publish that failed leaves a message unstored.       *)
UnstoredInv == DlqStream /\ faults = 0 => unstored = {}

(* Only a failed publish can break this, and it counts as a fault.         *)
LEMMA UnstoredNext == TypeOK /\ UnstoredInv /\ [Next]_vars => UnstoredInv'
<1> SUFFICES ASSUME TypeOK, UnstoredInv, [Next]_vars, DlqStream, faults' = 0
             PROVE  unstored' = {}
  BY DEF UnstoredInv
<1>1. ~Fault
  BY FaultStep
<1>2. faults = 0 /\ unstored' = unstored
  BY <1>1 DEF Next, WorkerStep, Poll, FetchLost, Post, AckMessage, NackMessage,
     DeadLetterPublish, DeadLetterAck, Send, Crash, Restart, Receive, Lose, Expire, vars,
     brokerVars
<1>3. QED
  BY <1>2 DEF UnstoredInv

(* With the stream in place and no fault, what the consumer has forgotten  *)
(* was processed or is stored: the observation about dead letters needs    *)
(* one of the two.                                                         *)
THEOREM DeadLettersKept == Spec => []PreservedWithoutFault
<1>1. Init => UnstoredInv
  BY DEF Init, UnstoredInv
<1>2. NoSilentLoss /\ UnstoredInv => PreservedWithoutFault
  BY DEF NoSilentLoss, UnstoredInv, PreservedWithoutFault, DeadLettersPreserved
<1>3. QED
  BY <1>1, <1>2, UnstoredNext, TypeCorrect, NothingLostSilently, PTL DEF Spec
=============================================================================
