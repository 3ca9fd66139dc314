---------------------------- MODULE RedisProofs -----------------------------
(***************************************************************************)
(* Theorems about RedisBroker, for any messages, workers and bounds: what  *)
(* a crash or a lost reply costs is confined to the message it struck.     *)
(***************************************************************************)
EXTENDS RedisBroker, DispatcherProofs, SequenceTheorems, FiniteSetTheorems

(* What a worker holds at each point of step().                            *)
WorkerInv == \A w \in Workers :
    /\ pc[w] # "deadack"
    /\ Holding(w) => msg[w] \in Messages
    /\ ~Holding(w) => msg[w] = None
    /\ pc[w] = "ack" => msg[w] \in confirmed

IInv == TypeOK /\ WorkerInv /\ LossConfined /\ NoCopies

Unique(m) == \A i, j \in Places(m) : i = j

-----------------------------------------------------------------------------
(* LPOP and the places of a message in the list.                           *)
LEMMA TailPlaces ==
  ASSUME TypeOK, queue # << >>, queue' = Tail(queue), NEW m \in Messages
  PROVE  /\ queue' \in Seq(Messages)
         /\ Head(queue) \in Messages
         /\ Unique(m) => Unique(m)'
         /\ Places(m) = {} => Places(m)' = {}
         /\ m # Head(queue) /\ Places(m) # {} => Places(m)' # {}
         /\ m = Head(queue) => Places(m) # {} /\ (Unique(m) => Places(m)' = {})
<1>1. /\ queue' \in Seq(Messages) /\ Head(queue) \in Messages
      /\ Len(queue) \in Nat /\ Len(queue) > 0 /\ Len(queue') = Len(queue) - 1
      /\ DOMAIN queue = 1..Len(queue) /\ DOMAIN queue' = 1..(Len(queue) - 1)
      /\ Head(queue) = queue[1]
      /\ \A i \in 1..(Len(queue) - 1) : queue'[i] = queue[i + 1]
  BY HeadTailProperties DEF TypeOK
<1>2. \A i \in Places(m)' : i + 1 \in Places(m) /\ i \in Nat \ {0}
  BY <1>1 DEF Places
<1>3. \A i \in Places(m) : i = 1 \/ i - 1 \in Places(m)'
  BY <1>1 DEF Places
<1>4. Places(m) \subseteq Nat \ {0} /\ Places(m)' \subseteq Nat \ {0}
  BY <1>1 DEF Places
<1>5. 1 \in Places(m) <=> m = Head(queue)
  BY <1>1 DEF Places
<1>6. Unique(m) => Unique(m)'
  <2>1. SUFFICES ASSUME Unique(m), NEW i \in Places(m)', NEW j \in Places(m)' PROVE i = j
    BY DEF Unique
  <2>2. i + 1 = j + 1
    BY <1>2, <2>1 DEF Unique
  <2>3. QED
    BY <1>4, <2>2
<1>7. m = Head(queue) /\ Unique(m) => Places(m)' = {}
  <2>1. SUFFICES ASSUME m = Head(queue), Unique(m), NEW i \in Places(m)' PROVE FALSE
    OBVIOUS
  <2>2. i + 1 = 1 /\ i \in Nat \ {0}
    BY <1>2, <1>5, <2>1 DEF Unique
  <2>3. QED
    BY <2>2
<1>8. QED
  BY <1>1, <1>2, <1>3, <1>5, <1>6, <1>7

(* RPUSH and the places of a message in the list.                          *)
LEMMA AppendPlaces ==
  ASSUME TypeOK, NEW n \in Messages, queue' = Append(queue, n), NEW m \in Messages
  PROVE  /\ queue' \in Seq(Messages)
         /\ Places(n)' # {}
         /\ Places(m) # {} => Places(m)' # {}
         /\ m # n => Places(m)' = Places(m)
         /\ Places(n) = {} => Unique(n)'
<1>1. /\ queue' \in Seq(Messages) /\ Len(queue) \in Nat
      /\ DOMAIN queue = 1..Len(queue) /\ DOMAIN queue' = 1..(Len(queue) + 1)
      /\ \A i \in 1..Len(queue) : queue'[i] = queue[i]
      /\ queue'[Len(queue) + 1] = n
  BY AppendProperties DEF TypeOK
<1>2. Len(queue) + 1 \in Places(n)'
  BY <1>1 DEF Places
<1>3. Places(m) \subseteq Places(m)'
  BY <1>1 DEF Places
<1>4. \A k \in Messages : Places(k)' \subseteq Places(k) \cup {Len(queue) + 1}
  BY <1>1 DEF Places
<1>5. m # n => Len(queue) + 1 \notin Places(m)'
  BY <1>1 DEF Places
<1>6. Places(n) = {} => Unique(n)'
  BY <1>4 DEF Unique
<1>7. QED
  BY <1>1, <1>2, <1>3, <1>4, <1>5, <1>6

(* The invariant holds initially: every message is in the list, once.      *)
LEMMA InitIInv == Init => IInv
<1> SUFFICES ASSUME Init PROVE IInv
  OBVIOUS
<1>1. PICK n \in Nat : n = Cardinality(Messages) /\ queue \in [1..n -> Messages]
  BY RedisAssumption, FS_CardinalityType DEF Init, Arrivals, RedisAssumption
<1>2. TypeOK
  BY <1>1, InitType, RedisAssumption DEF Init, TypeOK, RedisAssumption
<1>3. WorkerInv /\ \A m \in Messages : Holders(m) = {}
  BY DEF Init, DispatcherInit, WorkerInv, Holding, Holders
<1>4. \A m \in Messages : Places(m) # {} /\ Unique(m)
  BY DEF Init, Arrivals, Places, Unique
<1>5. QED
  BY <1>2, <1>3, <1>4 DEF Init, DispatcherInit, IInv, LossConfined, NoCopies, Accounted,
     OneCopy, Outstanding, Unique

(* A poll takes the head of the list away: into the worker's hands, or,    *)
(* when the reply is lost or cannot be decoded, to nowhere.                *)
LEMMA PollInv ==
  ASSUME IInv, NEW w \in Workers, Poll(w) \/ PollReplyLost(w)
  PROVE  IInv'
<1> USE DEF IInv, TypeOK
<1> DEFINE h == Head(queue)
<1>1. /\ pc[w] = "poll" /\ queue # << >> /\ queue' = Tail(queue) /\ UNCHANGED dlq
      /\ faults' \in 0..MaxFaults
      /\ \/ Fetched(w, h, 0) /\ UNCHANGED struck
         \/ Dies(w) /\ h \in Undecodable /\ UNCHANGED struck
         \/ (Dies(w) \/ UNCHANGED dispatcherVars) /\ struck' = struck \cup ({h} \ {None})
  BY RedisAssumption DEF Poll, PollReplyLost, Fault, NoFault, RedisAssumption
<1>2. queue' \in Seq(Messages) /\ h \in Messages /\ h # None
  <2>1. \E m \in Messages : TRUE
    BY <1>1, EmptySeq
  <2>2. QED
    BY <1>1, <2>1, TailPlaces, DispatcherAssumption DEF DispatcherAssumption
<1>3. /\ DispatcherTypeOK' /\ UNCHANGED <<handled, confirmed>> /\ OnlyWorker(w)
      /\ \/ /\ pc'[w] = "post" /\ msg'[w] = h /\ struck' = struck
         \/ /\ pc'[w] \in {"down", "poll"} /\ msg'[w] = None
            /\ struck' = struck \cup {h} \/ (struck' = struck /\ h \in Undecodable)
  <2>1. ~Holding(w) /\ msg[w] = None
    BY <1>1 DEF Holding, WorkerInv
  <2>2. QED
    BY <1>1, <1>2, <2>1, FetchedStep, DiesStep, SameStep DEF OnlyWorker, dispatcherVars
<1>4. TypeOK'
  BY <1>1, <1>2, <1>3
<1>5. WorkerInv'
  BY <1>2, <1>3 DEF WorkerInv, Holding, OnlyWorker
<1>6. ASSUME NEW m \in Messages \ struck'
      PROVE  OneCopy(m)' /\ (m \notin Undecodable => Accounted(m)')
  <2>1. /\ OneCopy(m) /\ Unique(m)
        /\ m \notin Undecodable => Accounted(m)
    BY <1>3, <1>6 DEF NoCopies, LossConfined, OneCopy, Unique
  <2>2. /\ Unique(m)'
        /\ Places(m) = {} => Places(m)' = {}
        /\ m # h /\ Places(m) # {} => Places(m)' # {}
        /\ m = h => Places(m) # {} /\ Places(m)' = {}
    BY <1>1, <2>1, TailPlaces
  <2>3. \A v \in Workers \ {w} : (v \in Holders(m)' <=> v \in Holders(m)) /\ pc'[v] = pc[v]
    BY <1>3 DEF Holders, Holding, OnlyWorker
  <2>4. w \notin Holders(m) /\ Holders(m) \subseteq Workers /\ Holders(m)' \subseteq Workers
    BY <1>1 DEF Holders, Holding
  <2>5. CASE m = h /\ pc'[w] = "post"
    <3>1. Holders(m) = {} /\ m \notin dlq /\ m \notin confirmed
      BY <2>1, <2>2, <2>5 DEF OneCopy, Outstanding
    <3>2. Holders(m)' = {w}
      BY <1>3, <2>3, <2>4, <2>5, <3>1 DEF Holders, Holding
    <3>3. QED
      BY <1>1, <1>3, <2>2, <2>5, <3>1, <3>2 DEF OneCopy, Accounted, Outstanding, Unique
  <2>6. CASE m = h /\ pc'[w] # "post"
    <3>1. m \in Undecodable
      BY <1>3, <1>6, <2>6
    <3>2. Holders(m) = {} /\ m \notin dlq /\ m \notin confirmed
      BY <2>1, <2>2, <2>6 DEF OneCopy, Outstanding
    <3>3. Holders(m)' = {}
      BY <1>3, <2>3, <2>4, <2>6, <3>2 DEF Holders, Holding
    <3>4. QED
      BY <1>1, <1>3, <2>2, <2>6, <3>1, <3>2, <3>3 DEF OneCopy, Outstanding, Unique
  <2>7. CASE m # h
    <3>1. Holders(m)' = Holders(m)
      BY <1>2, <1>3, <1>6, <2>3, <2>4, <2>7, DispatcherAssumption
      DEF Holders, Holding, DispatcherAssumption
    <3>2. QED
      BY <1>1, <1>3, <2>1, <2>2, <2>3, <2>4, <2>7, <3>1
      DEF OneCopy, Accounted, Outstanding, Unique
  <2>8. QED
    BY <2>5, <2>6, <2>7
<1>7. QED
  BY <1>4, <1>5, <1>6 DEF LossConfined, NoCopies

(* The POST leaves the list alone; a message with a 2xx is about to be     *)
(* acked by its one holder.                                                *)
LEMMA PostInv ==
  ASSUME IInv, NEW w \in Workers, Post(w)
  PROVE  IInv'
<1> USE DEF IInv, TypeOK
<1>1. msg[w] \in Messages /\ UNCHANGED brokerVars /\ (PostAccepted(w) \/ PostFailed(w))
  BY DEF Post, WorkerInv, Holding, PostAccepted, PostFailed
<1>2. /\ DispatcherTypeOK' /\ OnlyWorker(w) /\ msg' = msg /\ pc[w] = "post"
      /\ pc'[w] \in {"ack", "nack", "dead"}
      /\ IF pc'[w] = "ack" THEN confirmed' = confirmed \cup {msg[w]}
                           ELSE confirmed' = confirmed
  BY <1>1, PostStep
<1>3. TypeOK'
  BY <1>1, <1>2 DEF brokerVars
<1>4. WorkerInv'
  BY <1>2 DEF WorkerInv, Holding, OnlyWorker
<1>5. ASSUME NEW m \in Messages \ struck'
      PROVE  OneCopy(m)' /\ (m \notin Undecodable => Accounted(m)')
  <2>1. OneCopy(m) /\ (m \notin Undecodable => Accounted(m))
    BY <1>1, <1>5 DEF NoCopies, LossConfined, brokerVars
  <2>2. Holders(m)' = Holders(m) /\ \A v \in Workers \ {w} : pc'[v] = pc[v]
    BY <1>2 DEF Holders, Holding, OnlyWorker
  <2>3. Places(m)' = Places(m)
    BY <1>1 DEF Places, brokerVars
  <2>4. m = msg[w] => w \in Holders(m)
    BY <1>2 DEF Holders, Holding
  <2>5. m = msg[w] => m \notin confirmed
    BY <1>2, <2>1, <2>4 DEF OneCopy
  <2>6. Holders(m) \subseteq Workers /\ \A v \in Holders(m) : msg[v] = m
    BY DEF Holders
  <2>7. QED
    BY <1>1, <1>2, <2>1, <2>2, <2>3, <2>4, <2>5, <2>6
    DEF OneCopy, Accounted, Outstanding, brokerVars
<1>6. QED
  BY <1>3, <1>4, <1>5 DEF LossConfined, NoCopies

(* ack drops the last copy of a message whose 2xx was seen.                *)
LEMMA AckInv ==
  ASSUME IInv, NEW w \in Workers, AckMessage(w)
  PROVE  IInv'
<1> USE DEF IInv, TypeOK
<1>1. pc[w] = "ack" /\ Settled(w) /\ UNCHANGED brokerVars /\ msg[w] \in confirmed
  BY DEF AckMessage, WorkerInv
<1>2. /\ DispatcherTypeOK' /\ OnlyWorker(w) /\ pc'[w] = "poll" /\ msg'[w] = None
      /\ UNCHANGED confirmed
  BY <1>1, SettledStep
<1>3. TypeOK' /\ WorkerInv'
  BY <1>1, <1>2 DEF brokerVars, WorkerInv, Holding, OnlyWorker
<1>4. ASSUME NEW m \in Messages \ struck'
      PROVE  OneCopy(m)' /\ (m \notin Undecodable => Accounted(m)')
  <2>1. OneCopy(m) /\ (m \notin Undecodable => Accounted(m))
    BY <1>1, <1>4 DEF NoCopies, LossConfined, brokerVars
  <2>2. Holders(m)' = Holders(m) \ {w} /\ \A v \in Workers \ {w} : pc'[v] = pc[v]
    BY <1>2 DEF Holders, Holding, OnlyWorker
  <2>3. Places(m)' = Places(m)
    BY <1>1 DEF Places, brokerVars
  <2>4. (w \in Holders(m) => m \in confirmed) /\ Holders(m) \subseteq Workers
    BY <1>1 DEF Holders
  <2>5. QED
    BY <1>1, <1>2, <2>1, <2>2, <2>3, <2>4 DEF OneCopy, Accounted, Outstanding, brokerVars
<1>5. QED
  BY <1>3, <1>4 DEF LossConfined, NoCopies

(* An RPUSH to either list moves the message there; without its reply the  *)
(* message is struck.                                                      *)
LEMMA PushInv ==
  ASSUME IInv, NEW w \in Workers, NackMessage(w) \/ DeadLetter(w) \/ PushReplyLost(w)
  PROVE  IInv'
<1> USE DEF IInv, TypeOK
<1> DEFINE n == msg[w]
<1>1. /\ pc[w] \in {"nack", "dead"} /\ faults' \in 0..MaxFaults
      /\ \/ pc[w] = "nack" /\ queue' = Append(queue, n) /\ UNCHANGED dlq
         \/ pc[w] = "dead" /\ dlq' = dlq \cup {n} /\ UNCHANGED queue
      /\ \/ Settled(w) /\ UNCHANGED struck
         \/ (Dies(w) \/ UNCHANGED dispatcherVars) /\ struck' = struck \cup ({n} \ {None})
  BY RedisAssumption DEF NackMessage, DeadLetter, PushReplyLost, Fault, NoFault, RedisAssumption
<1>2. n \in Messages /\ n # None /\ Holding(w)
  BY <1>1, DispatcherAssumption DEF WorkerInv, Holding, DispatcherAssumption
<1>3. /\ DispatcherTypeOK' /\ OnlyWorker(w) /\ UNCHANGED confirmed
      /\ \/ pc'[w] = "poll" /\ msg'[w] = None /\ struck' = struck
         \/ pc'[w] = "down" /\ msg'[w] = None /\ struck' = struck \cup {n}
         \/ pc'[w] = pc[w] /\ msg'[w] = n /\ struck' = struck \cup {n}
  BY <1>1, <1>2, SettledStep, DiesStep, SameStep DEF OnlyWorker, dispatcherVars
<1>4. queue' \in Seq(Messages)
  BY <1>1, <1>2, AppendProperties
<1>5. TypeOK'
  BY <1>1, <1>2, <1>3, <1>4
<1>6. WorkerInv'
  BY <1>1, <1>2, <1>3 DEF WorkerInv, Holding, OnlyWorker
<1>7. ASSUME NEW m \in Messages \ struck'
      PROVE  OneCopy(m)' /\ (m \notin Undecodable => Accounted(m)')
  <2>1. /\ OneCopy(m) /\ Unique(m)
        /\ m \notin Undecodable => Accounted(m)
    BY <1>3, <1>7 DEF NoCopies, LossConfined, OneCopy, Unique
  <2>2. /\ \A v \in Workers \ {w} : (v \in Holders(m)' <=> v \in Holders(m)) /\ pc'[v] = pc[v]
        /\ Holders(m) \subseteq Workers /\ Holders(m)' \subseteq Workers
    BY <1>3 DEF Holders, Holding, OnlyWorker
  <2>3. CASE m = n
    <3>1. w \in Holders(m) /\ w \notin Holders(m)'
      BY <1>2, <1>3, <1>7, <2>3 DEF Holders, Holding
    <3>2. Places(m) = {} /\ m \notin dlq /\ m \notin confirmed /\ Holders(m)' = {}
      BY <1>1, <2>1, <2>2, <2>3, <3>1 DEF OneCopy, Outstanding
    <3>3. CASE queue' = Append(queue, n) /\ dlq' = dlq
      <4>1. Places(m)' # {} /\ Unique(m)'
        BY <1>2, <2>3, <3>2, <3>3, AppendPlaces
      <4>2. QED
        BY <1>3, <3>2, <3>3, <4>1 DEF OneCopy, Accounted, Outstanding, Unique
    <3>4. CASE dlq' = dlq \cup {n} /\ queue' = queue
      <4>1. Places(m)' = {}
        BY <3>2, <3>4 DEF Places
      <4>2. QED
        BY <1>3, <2>3, <3>2, <3>4, <4>1 DEF OneCopy, Accounted, Outstanding
    <3>5. QED
      BY <1>1, <3>3, <3>4
  <2>4. CASE m # n
    <3>1. Holders(m)' = Holders(m) /\ w \notin Holders(m)
      BY <1>2, <1>3, <2>2, <2>4, DispatcherAssumption DEF Holders, Holding, DispatcherAssumption
    <3>2. Places(m)' = Places(m)
      <4>1. CASE queue' = Append(queue, n)
        BY <1>2, <2>4, <4>1, AppendPlaces
      <4>2. CASE queue' = queue
        BY <4>2 DEF Places
      <4>3. QED
        BY <1>1, <4>1, <4>2
    <3>3. m \in dlq' <=> m \in dlq
      BY <1>1, <2>4
    <3>4. QED
      BY <1>3, <2>1, <2>2, <3>1, <3>2, <3>3 DEF OneCopy, Accounted, Outstanding
  <2>5. QED
    BY <2>3, <2>4
<1>8. QED
  BY <1>5, <1>6, <1>7 DEF LossConfined, NoCopies

(* A crash strikes the message in the worker's hands; a new process has    *)
(* none.                                                                   *)
LEMMA CrashRestartInv ==
  ASSUME IInv, NEW w \in Workers, Crash(w) \/ Restart(w)
  PROVE  IInv'
<1> USE DEF IInv, TypeOK
<1>1. /\ UNCHANGED <<queue, dlq>> /\ faults' \in 0..MaxFaults
      /\ \/ Dies(w) /\ struck' = struck \cup ({msg[w]} \ {None})
         \/ Starts(w) /\ struck' = struck
  BY RedisAssumption DEF Crash, Restart, Fault, brokerVars, RedisAssumption
<1>2. /\ DispatcherTypeOK' /\ OnlyWorker(w) /\ UNCHANGED confirmed
      /\ pc'[w] \in {"down", "poll"} /\ msg'[w] = None
      /\ Holding(w) => msg[w] \in struck'
      /\ struck \subseteq struck' /\ struck' \subseteq Messages
  <2>1. CASE Dies(w) /\ struck' = struck \cup ({msg[w]} \ {None})
    BY <2>1, DiesStep, DispatcherAssumption DEF WorkerInv, DispatcherAssumption
  <2>2. CASE Starts(w) /\ struck' = struck
    BY <2>2, StartsStep DEF WorkerInv, Holding
  <2>3. QED
    BY <1>1, <2>1, <2>2
<1>3. TypeOK' /\ WorkerInv'
  BY <1>1, <1>2 DEF WorkerInv, Holding, OnlyWorker
<1>4. ASSUME NEW m \in Messages \ struck'
      PROVE  OneCopy(m)' /\ (m \notin Undecodable => Accounted(m)')
  <2>1. OneCopy(m) /\ (m \notin Undecodable => Accounted(m))
    BY <1>2, <1>4 DEF NoCopies, LossConfined
  <2>2. Holders(m)' = Holders(m) /\ w \notin Holders(m)
    BY <1>2, <1>4 DEF Holders, Holding, OnlyWorker
  <2>3. Places(m)' = Places(m) /\ Holders(m) \subseteq Workers
    BY <1>1 DEF Places, Holders
  <2>4. QED
    BY <1>1, <1>2, <2>1, <2>2, <2>3 DEF OneCopy, Accounted, Outstanding, OnlyWorker
<1>5. QED
  BY <1>3, <1>4 DEF LossConfined, NoCopies

(* The invariant is inductive.                                             *)
LEMMA InductiveStep == IInv /\ [Next]_vars => IInv'
<1> SUFFICES ASSUME IInv, [Next]_vars PROVE IInv'
  OBVIOUS
<1>1. CASE UNCHANGED vars
  <2>1. TypeOK' /\ WorkerInv'
    BY <1>1, SameStep DEF IInv, TypeOK, WorkerInv, Holding, vars, brokerVars, dispatcherVars
  <2>2. LossConfined' /\ NoCopies'
    BY <1>1 DEF IInv, LossConfined, NoCopies, Accounted, OneCopy, Outstanding, Places, Holders,
       Holding, vars, dispatcherVars, brokerVars
  <2>3. QED
    BY <2>1, <2>2 DEF IInv
<1>2. QED
  BY <1>1, PollInv, PostInv, AckInv, PushInv, CrashRestartInv DEF Next, WorkerStep

-----------------------------------------------------------------------------
(* The inductive invariant holds of every behaviour over Redis.            *)
THEOREM Inductive == Spec => []IInv
  BY InitIInv, InductiveStep, PTL DEF Spec

(* Whatever crashes and whichever replies are lost, the variables keep     *)
(* their types.                                                            *)
THEOREM TypeCorrect == Spec => []TypeOK
  BY Inductive, PTL DEF IInv

(* A message that no crash or lost reply struck, and that can be decoded,  *)
(* is never lost.                                                          *)
THEOREM LossIsConfined == Spec => []LossConfined
  BY Inductive, PTL DEF IInv

(* A message that no crash or lost reply struck never exists twice, and is *)
(* not delivered again once it was answered or dead-lettered.              *)
THEOREM DuplicationIsConfined == Spec => []NoCopies
  BY Inductive, PTL DEF IInv

-----------------------------------------------------------------------------
(* poll counts from 0 again, whatever happens to the replies.              *)
LEMMA FreshNext == TypeOK /\ FreshInv /\ [Next]_vars => FreshInv'
<1> SUFFICES ASSUME TypeOK, FreshInv, [Next]_vars PROVE FreshInv'
  OBVIOUS
<1> USE DEF TypeOK
<1>1. ASSUME NEW w \in Workers,
             WorkerStep(w) \/ PollReplyLost(w) \/ PushReplyLost(w) \/ Crash(w) \/ Restart(w)
      PROVE  FreshInv'
  <2>1. queue # << >> => Head(queue) \in Messages
    BY HeadTailProperties
  <2>2. \/ \E m \in Messages : Fetched(w, m, 0)
        \/ PostAccepted(w) \/ PostFailed(w) \/ Settled(w) \/ Dies(w) \/ Starts(w)
        \/ UNCHANGED dispatcherVars
    BY <1>1, <2>1 DEF WorkerStep, Poll, Post, AckMessage, NackMessage, DeadLetter,
       PollReplyLost, PushReplyLost, Crash, Restart
  <2>3. QED
    BY <2>2, FreshStep, FreshSame
<1>2. CASE UNCHANGED vars
  BY <1>2, FreshSame DEF vars
<1>3. QED
  BY <1>1, <1>2 DEF Next

(* A worker with a limit of two or more never dead-letters a message.      *)
THEOREM DeadLettersUnreachable == Spec => []NeverDeadLettered
<1>1. Init => FreshInv
  BY DEF Init, DispatcherInit, FreshInv
<1>2. FreshInv => NeverDeadLettered
  BY DEF FreshInv, NeverDeadLettered
<1>3. IInv => TypeOK
  BY DEF IInv
<1>4. QED
  BY <1>1, <1>2, <1>3, FreshNext, Inductive, PTL DEF Spec

-----------------------------------------------------------------------------
(* The messages the contract is kept for: those that are somewhere, and    *)
(* those no promise is made of any more.                                   *)
Kept == Outstanding \cup struck \cup Undecodable

(* A worker's step leaves the holders of the messages alone that are not   *)
(* in its hands, before or after.                                          *)
LEMMA OtherHolders ==
  ASSUME NEW w \in Workers, OnlyWorker(w), NEW m,
         Holding(w) => msg[w] # m, Holding(w)' => msg'[w] # m
  PROVE  Holders(m)' = Holders(m)
  BY DEF OnlyWorker, Holders, Holding

(* The contract's queue has lost the message at most that a step touched.  *)
LEMMA KeptStep ==
  ASSUME TypeOK, TypeOK', struck \subseteq struck', NEW n \in Kept,
         \A m \in Messages \ {n} : m \in Outstanding' <=> m \in Outstanding,
         struck' \subseteq struck \cup {n}
  PROVE  Kept' = Kept \/ Kept' = Kept \ {n}
<1>1. Outstanding \subseteq Messages /\ Outstanding' \subseteq Messages
  BY DEF Outstanding
<1>2. Kept' \subseteq Kept /\ Kept \ {n} \subseteq Kept'
  BY <1>1 DEF Kept, TypeOK
<1>3. QED
  BY <1>2

(* A poll hands a message over, or loses one nothing is promised of.       *)
LEMMA PollKept ==
  ASSUME IInv, NEW w \in Workers, Poll(w) \/ PollReplyLost(w)
  PROVE  UNCHANGED <<Kept, handled, dlq>>
<1> DEFINE h == Head(queue)
<1> USE DEF IInv
<1>1. /\ pc[w] = "poll" /\ queue # << >> /\ queue' = Tail(queue) /\ UNCHANGED dlq
      /\ \/ Fetched(w, h, 0) /\ UNCHANGED struck
         \/ Dies(w) /\ h \in Undecodable /\ UNCHANGED struck
         \/ (Dies(w) \/ UNCHANGED dispatcherVars) /\ struck' = struck \cup ({h} \ {None})
  BY DEF Poll, PollReplyLost, Fault, NoFault
<1>2. h \in Messages /\ h # None /\ Places(h) # {}
  <2>1. \E m \in Messages : TRUE
    BY <1>1, EmptySeq DEF TypeOK
  <2>2. h \in Messages
    BY <1>1, <2>1, TailPlaces
  <2>3. QED
    BY <1>1, <2>2, TailPlaces, DispatcherAssumption DEF DispatcherAssumption
<1>3. /\ OnlyWorker(w) /\ UNCHANGED handled
      /\ \/ pc'[w] = "post" /\ msg'[w] = h /\ struck' = struck
         \/ /\ ~Holding(w)'
            /\ struck' = struck \cup {h} \/ (struck' = struck /\ h \in Undecodable)
  <2>1. DispatcherTypeOK
    BY DEF TypeOK
  <2>2. QED
    BY <1>1, <1>2, <2>1, FetchedStep, DiesStep DEF OnlyWorker, Holding, dispatcherVars
<1>4. ASSUME NEW m \in Messages \ {h} PROVE m \in Outstanding' <=> m \in Outstanding
  <2>1. Holders(m)' = Holders(m)
    BY <1>1, <1>3, OtherHolders DEF Holding
  <2>2. Places(m)' # {} <=> Places(m) # {}
    BY <1>1, TailPlaces
  <2>3. QED
    BY <2>1, <2>2 DEF Outstanding
<1>5. h \in Kept /\ h \in Kept'
  <2>1. h \in Outstanding
    BY <1>2 DEF Outstanding
  <2>2. pc'[w] = "post" /\ msg'[w] = h => h \in Outstanding'
    BY <1>2 DEF Outstanding, Holders, Holding
  <2>3. QED
    BY <1>3, <2>1, <2>2 DEF Kept
<1>6. struck \subseteq struck' /\ struck' \subseteq struck \cup {h}
  BY <1>3
<1>7. TypeOK /\ TypeOK'
  BY PollInv
<1>8. Kept' = Kept
  BY <1>4, <1>5, <1>6, <1>7, KeptStep
<1>9. QED
  BY <1>1, <1>3, <1>8

(* An RPUSH to the list keeps the message, one to the dead-letter list may *)
(* be what removes it.                                                     *)
LEMMA PushKept ==
  ASSUME IInv, NEW w \in Workers, NackMessage(w) \/ DeadLetter(w) \/ PushReplyLost(w)
  PROVE  /\ msg[w] \in Messages /\ msg[w] \in Kept /\ UNCHANGED handled
         /\ \/ Kept' = Kept /\ dlq' = dlq
            \/ (Kept' = Kept \/ Kept' = Kept \ {msg[w]}) /\ dlq' = dlq \cup {msg[w]}
<1> DEFINE n == msg[w]
<1> USE DEF IInv
<1>1. /\ pc[w] \in {"nack", "dead"}
      /\ \/ queue' = Append(queue, n) /\ UNCHANGED dlq
         \/ dlq' = dlq \cup {n} /\ UNCHANGED queue
      /\ \/ Settled(w) /\ UNCHANGED struck
         \/ (Dies(w) \/ UNCHANGED dispatcherVars) /\ struck' = struck \cup ({n} \ {None})
  BY DEF NackMessage, DeadLetter, PushReplyLost, Fault, NoFault
<1>2. n \in Messages /\ Holding(w)
  BY <1>1 DEF WorkerInv, Holding
<1>3. OnlyWorker(w) /\ UNCHANGED handled /\ (Holding(w)' => msg'[w] = n)
  <2>1. DispatcherTypeOK
    BY DEF TypeOK
  <2>2. QED
    BY <1>1, <2>1, SettledStep, DiesStep DEF OnlyWorker, Holding, dispatcherVars
<1>4. ASSUME NEW m \in Messages \ {n} PROVE m \in Outstanding' <=> m \in Outstanding
  <2>1. Holders(m)' = Holders(m)
    BY <1>2, <1>3, OtherHolders
  <2>2. Places(m)' = Places(m)
    <3>1. CASE queue' = Append(queue, n)
      BY <1>2, <3>1, AppendPlaces
    <3>2. CASE queue' = queue
      BY <3>2 DEF Places
    <3>3. QED
      BY <1>1, <3>1, <3>2
  <2>3. QED
    BY <2>1, <2>2 DEF Outstanding
<1>5. n \in Kept
  BY <1>2 DEF Kept, Outstanding, Holders
<1>6. struck \subseteq struck' /\ struck' \subseteq struck \cup {n}
  BY <1>1
<1>7. TypeOK /\ TypeOK'
  BY PushInv
<1>8. Kept' = Kept \/ Kept' = Kept \ {n}
  BY <1>4, <1>5, <1>6, <1>7, KeptStep
<1>9. CASE queue' = Append(queue, n) /\ UNCHANGED dlq
  <2>1. n \in Outstanding'
    BY <1>2, <1>9, AppendPlaces DEF Outstanding
  <2>2. Kept' = Kept
    BY <1>5, <1>8, <2>1 DEF Kept
  <2>3. QED
    BY <1>2, <1>3, <1>5, <1>9, <2>2
<1>10. CASE dlq' = dlq \cup {n} /\ UNCHANGED queue
  BY <1>2, <1>3, <1>5, <1>8, <1>10
<1>11. QED
  BY <1>1, <1>9, <1>10

(* Each step is a step of the contract or leaves its variables alone.      *)
LEMMA ContractStep ==
  IInv /\ [Next]_vars => [Contract!Next]_<<Kept, handled, dlq>>
<1> SUFFICES ASSUME IInv, [Next]_vars
             PROVE  Contract!Next \/ UNCHANGED <<Kept, handled, dlq>>
  OBVIOUS
<1> DEFINE Goal == Contract!Next \/ UNCHANGED <<Kept, handled, dlq>>
<1> USE DEF IInv
<1>1. ASSUME NEW w \in Workers, Poll(w) \/ PollReplyLost(w) PROVE Goal
  BY <1>1, PollKept
<1>2. ASSUME NEW w \in Workers, Post(w) PROVE Goal
  <2>1. msg[w] \in Messages /\ UNCHANGED brokerVars /\ (PostAccepted(w) \/ PostFailed(w))
    BY <1>2 DEF Post, WorkerInv, Holding, PostAccepted, PostFailed
  <2>2. /\ OnlyWorker(w) /\ msg' = msg /\ Holding(w) /\ Holding(w)'
        /\ handled' = handled \/ handled' = handled \cup {msg[w]}
    BY <2>1, PostStep DEF TypeOK, Holding
  <2>3. UNCHANGED <<Kept, dlq>>
    <3>1. \A m : Holders(m)' = Holders(m)
      BY <2>2 DEF Holders, Holding, OnlyWorker
    <3>2. \A m : Places(m)' = Places(m)
      BY <2>1 DEF Places, brokerVars
    <3>3. QED
      BY <2>1, <3>1, <3>2 DEF Kept, Outstanding, brokerVars
  <2>4. QED
    BY <2>1, <2>2, <2>3 DEF Contract!Next, Contract!Handle, Kept
<1>3. ASSUME NEW w \in Workers, AckMessage(w) PROVE Goal
  <2>1. pc[w] = "ack" /\ Settled(w) /\ UNCHANGED brokerVars /\ msg[w] \in confirmed
    BY <1>3 DEF AckMessage, WorkerInv
  <2>2. OnlyWorker(w) /\ ~Holding(w)' /\ UNCHANGED handled
    BY <2>1, SettledStep DEF TypeOK, Holding
  <2>3. Holding(w) /\ msg[w] \in Messages /\ msg[w] \in handled /\ msg[w] \in Kept
    BY <2>1 DEF WorkerInv, Holding, TypeOK, DispatcherTypeOK, Kept, Outstanding, Holders
  <2>4. \A m : Places(m)' = Places(m)
    BY <2>1 DEF Places, brokerVars
  <2>5. \A m \in Messages \ {msg[w]} : m \in Outstanding' <=> m \in Outstanding
    BY <2>2, <2>4, OtherHolders DEF Outstanding
  <2>6. TypeOK /\ TypeOK'
    BY <1>3, AckInv
  <2>7. Kept' = Kept \/ Kept' = Kept \ {msg[w]}
    BY <2>1, <2>3, <2>5, <2>6, KeptStep DEF brokerVars
  <2>8. QED
    BY <2>1, <2>2, <2>3, <2>7 DEF Contract!Next, Contract!Forget, Kept, brokerVars
<1>4. ASSUME NEW w \in Workers, NackMessage(w) \/ DeadLetter(w) \/ PushReplyLost(w) PROVE Goal
  BY <1>4, PushKept DEF Contract!Next, Contract!Park, Contract!Bury, Kept
<1>5. ASSUME NEW w \in Workers, Crash(w) \/ Restart(w) PROVE Goal
  <2>1. /\ UNCHANGED <<queue, dlq>>
        /\ \/ Dies(w) /\ struck' = struck \cup ({msg[w]} \ {None})
           \/ Starts(w) /\ struck' = struck
    BY <1>5 DEF Crash, Restart, Fault, brokerVars
  <2>2. OnlyWorker(w) /\ ~Holding(w)' /\ UNCHANGED handled
    BY <2>1, DiesStep, StartsStep DEF TypeOK, Holding
  <2>3. \A m : Places(m)' = Places(m)
    BY <2>1 DEF Places
  <2>4. CASE Holding(w)
    <3>1. msg[w] \in Messages /\ msg[w] # None /\ msg[w] \in Kept
      BY <2>4, DispatcherAssumption
      DEF WorkerInv, Kept, Outstanding, Holders, DispatcherAssumption
    <3>2. struck' = struck \cup {msg[w]}
      BY <2>1, <2>4, <3>1 DEF Starts, Holding
    <3>3. \A m \in Messages \ {msg[w]} : m \in Outstanding' <=> m \in Outstanding
      BY <2>2, <2>3, OtherHolders DEF Outstanding
    <3>4. TypeOK /\ TypeOK'
      BY <1>5, CrashRestartInv
    <3>5. Kept' = Kept
      BY <3>1, <3>2, <3>3, <3>4, KeptStep DEF Kept
    <3>6. QED
      BY <2>1, <2>2, <3>5
  <2>5. CASE ~Holding(w)
    <3>1. \A m : Holders(m)' = Holders(m)
      BY <2>2, <2>5 DEF Holders, Holding, OnlyWorker
    <3>2. struck' = struck
      BY <2>1, <2>5 DEF WorkerInv
    <3>3. QED
      BY <2>1, <2>2, <2>3, <3>1, <3>2 DEF Kept, Outstanding
  <2>6. QED
    BY <2>4, <2>5
<1>6. CASE UNCHANGED vars
  BY <1>6 DEF vars, dispatcherVars, brokerVars, Kept, Outstanding, Places, Holders, Holding
<1>7. QED
  BY <1>1, <1>2, <1>3, <1>4, <1>5, <1>6 DEF Next, WorkerStep

(* The dispatcher over Redis keeps the contract of AtLeastOnce for every   *)
(* message that was not struck and can be decoded.                         *)
THEOREM KeepsContract == Spec => ContractSpec
<1>1. Init => Contract!Init
  <2> SUFFICES ASSUME Init PROVE Contract!Init
    OBVIOUS
  <2>1. \A m \in Messages : Places(m) # {}
    BY DEF Init, Arrivals, Places
  <2>2. Outstanding \cup struck \cup Undecodable = Messages
    BY <2>1, DispatcherAssumption DEF Init, Outstanding, DispatcherAssumption
  <2>3. QED
    BY <2>2 DEF Init, DispatcherInit, Contract!Init
<1>2. IInv /\ [Next]_vars => [Contract!Next]_Contract!vars
  BY ContractStep DEF Kept, Contract!vars
<1>3. QED
  BY <1>1, <1>2, Inductive, PTL DEF Spec, ContractSpec, Contract!Spec
=============================================================================
