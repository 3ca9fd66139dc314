-------------------------- MODULE DispatcherProofs --------------------------
(***************************************************************************)
(* Lemmas about the local steps of Dispatcher, for the proofs about each   *)
(* broker: every local step preserves the types, and leaves the other      *)
(* workers where they are.                                                 *)
(***************************************************************************)
EXTENDS Dispatcher, TLAPS

(* The workers other than w are where they were.                           *)
OnlyWorker(w) ==
    \A v \in Workers \ {w} : pc'[v] = pc[v] /\ msg'[v] = msg[v] /\ attempts'[v] = attempts[v]

(* The initial state has the right types.                                  *)
LEMMA InitType == DispatcherInit => DispatcherTypeOK
  BY DispatcherAssumption DEF DispatcherInit, DispatcherTypeOK, Locations

(* poll returned a message.                                                *)
LEMMA FetchedStep ==
  ASSUME DispatcherTypeOK, NEW w \in Workers, NEW m \in Messages, NEW n \in Nat,
         Fetched(w, m, n)
  PROVE  /\ DispatcherTypeOK'
         /\ OnlyWorker(w)
         /\ pc[w] = "poll" /\ pc'[w] = "post" /\ msg'[w] = m /\ attempts'[w] = n
         /\ UNCHANGED <<handled, confirmed>>
  BY DEF Fetched, DispatcherTypeOK, Locations, OnlyWorker

(* Counting a failed POST stays below the bound.                           *)
LEMMA CountFailureType ==
  ASSUME failures \in [Messages -> 0..MaxFailures], NEW m \in Messages, CountFailure(m)
  PROVE  failures' \in [Messages -> 0..MaxFailures]
<1> DEFINE n == IF failures[m] < MaxFailures THEN failures[m] + 1 ELSE failures[m]
<1>1. failures' = [failures EXCEPT ![m] = n]
  BY DEF CountFailure
<1>2. failures[m] \in 0..MaxFailures /\ MaxFailures \in Nat
  BY DispatcherAssumption DEF DispatcherAssumption
<1>3. n \in 0..MaxFailures
  BY <1>2
<1> HIDE DEF n
<1>4. QED
  BY <1>1, <1>3

(* A POST ends: the worker keeps its message, and a worker about to ack    *)
(* knows that the handler processed it.                                    *)
LEMMA PostStep ==
  ASSUME DispatcherTypeOK, NEW w \in Workers, msg[w] \in Messages,
         PostAccepted(w) \/ PostFailed(w)
  PROVE  /\ DispatcherTypeOK'
         /\ OnlyWorker(w)
         /\ pc[w] = "post" /\ pc'[w] \in {"ack", "nack", "dead"}
         /\ msg' = msg
         /\ pc'[w] = "ack" => /\ msg[w] \in handled'
                              /\ confirmed' = confirmed \cup {msg[w]}
         /\ pc'[w] # "ack" => confirmed' = confirmed
         /\ pc'[w] = "dead" => attempts[w] + 1 >= MaxAttempts[w]
         /\ handled \subseteq handled' /\ handled' \subseteq handled \cup {msg[w]}
<1> USE DispatcherAssumption DEF DispatcherTypeOK, Locations, OnlyWorker
<1>1. CASE PostAccepted(w)
  BY <1>1 DEF PostAccepted
<1>2. CASE PostFailed(w)
  <2>1. /\ pc' = [pc EXCEPT ![w] = IF attempts[w] + 1 >= MaxAttempts[w]
                                   THEN "dead" ELSE "nack"]
        /\ attempts' = [attempts EXCEPT ![w] = @ + 1]
        /\ UNCHANGED <<msg, confirmed>> /\ pc[w] = "post"
    BY <1>2 DEF PostFailed
  <2>2. handled' \in {handled, handled \cup {msg[w]}}
    BY <1>2 DEF PostFailed
  <2>3. failures' \in [Messages -> 0..MaxFailures]
    BY <1>2, CountFailureType DEF PostFailed
  <2>4. pc' \in [Workers -> Locations] /\ attempts' \in [Workers -> Nat]
    BY <2>1
  <2>5. /\ handled \subseteq handled' /\ handled' \subseteq handled \cup {msg[w]}
        /\ handled' \subseteq Messages /\ confirmed' \subseteq handled'
    BY <2>1, <2>2
  <2>6. DispatcherTypeOK'
    BY <2>1, <2>3, <2>4, <2>5
  <2>7. /\ OnlyWorker(w) /\ pc'[w] \in {"nack", "dead"}
        /\ pc'[w] = "dead" => attempts[w] + 1 >= MaxAttempts[w]
    BY <2>1
  <2>8. QED
    BY <2>1, <2>5, <2>6, <2>7
<1>3. QED
  BY <1>1, <1>2

(* The message is settled: the worker holds nothing.                       *)
LEMMA SettledStep ==
  ASSUME DispatcherTypeOK, NEW w \in Workers, Settled(w)
  PROVE  /\ DispatcherTypeOK'
         /\ OnlyWorker(w)
         /\ pc'[w] = "poll" /\ msg'[w] = None
         /\ UNCHANGED <<handled, confirmed>>
  BY DEF Settled, DispatcherTypeOK, Locations, OnlyWorker

(* The process dies: the worker holds nothing.                             *)
LEMMA DiesStep ==
  ASSUME DispatcherTypeOK, NEW w \in Workers, Dies(w)
  PROVE  /\ DispatcherTypeOK'
         /\ OnlyWorker(w)
         /\ pc'[w] = "down" /\ msg'[w] = None
         /\ UNCHANGED <<handled, confirmed>>
  BY DEF Dies, DispatcherTypeOK, Locations, OnlyWorker

(* A new process starts and holds nothing yet.                             *)
LEMMA StartsStep ==
  ASSUME DispatcherTypeOK, NEW w \in Workers, Starts(w)
  PROVE  /\ DispatcherTypeOK'
         /\ OnlyWorker(w)
         /\ pc[w] = "down" /\ pc'[w] = "poll"
         /\ UNCHANGED <<msg, handled, confirmed>>
  BY DEF Starts, DispatcherTypeOK, Locations, OnlyWorker

(* The first half of a dead_letter of two calls.                           *)
LEMMA DeadAckStep ==
  ASSUME DispatcherTypeOK, NEW w \in Workers, pc[w] = "dead",
         pc' = [pc EXCEPT ![w] = "deadack"],
         UNCHANGED <<msg, attempts, handled, confirmed, failures>>
  PROVE  /\ DispatcherTypeOK'
         /\ OnlyWorker(w)
         /\ pc'[w] = "deadack"
  BY DEF DispatcherTypeOK, Locations, OnlyWorker

(* A step of the server leaves the workers' types alone.                   *)
LEMMA SameStep == DispatcherTypeOK /\ UNCHANGED dispatcherVars => DispatcherTypeOK'
  BY DEF DispatcherTypeOK, dispatcherVars

-----------------------------------------------------------------------------
(* A message is posted for the first time, as far as its worker knows, and *)
(* so a worker with a limit of two or more does not give it up.            *)
FreshInv ==
    \A w \in Workers :
        /\ pc[w] = "post" => attempts[w] = 0
        /\ MaxAttempts[w] > 1 => pc[w] \notin {"dead", "deadack"}

(* Every local step preserves this when poll builds a fresh Message.       *)
LEMMA FreshStep ==
  ASSUME DispatcherTypeOK, FreshInv, NEW w \in Workers,
         \/ \E m \in Messages : Fetched(w, m, 0)
         \/ PostAccepted(w) \/ PostFailed(w) \/ Settled(w) \/ Dies(w) \/ Starts(w)
         \/ pc[w] = "dead" /\ pc' = [pc EXCEPT ![w] = "deadack"] /\ UNCHANGED attempts
  PROVE  FreshInv'
<1> USE DispatcherAssumption DEF DispatcherTypeOK, Locations, FreshInv, DispatcherAssumption
<1>1. CASE \E m \in Messages : Fetched(w, m, 0)
  BY <1>1 DEF Fetched
<1>2. CASE PostAccepted(w)
  BY <1>2 DEF PostAccepted
<1>3. CASE PostFailed(w)
  <2>1. /\ attempts[w] = 0 /\ MaxAttempts[w] \in Int
        /\ pc' = [pc EXCEPT ![w] = IF attempts[w] + 1 >= MaxAttempts[w]
                                   THEN "dead" ELSE "nack"]
        /\ attempts' = [attempts EXCEPT ![w] = @ + 1]
    BY <1>3 DEF PostFailed
  <2>2. MaxAttempts[w] > 1 => pc'[w] = "nack"
    BY <2>1
  <2>3. pc'[w] # "post"
    BY <2>1
  <2>4. QED
    BY <2>1, <2>2, <2>3
<1>4. CASE Settled(w) \/ Dies(w) \/ Starts(w)
  BY <1>4 DEF Settled, Dies, Starts
<1>5. CASE pc[w] = "dead" /\ pc' = [pc EXCEPT ![w] = "deadack"] /\ UNCHANGED attempts
  BY <1>5
<1>6. QED
  BY <1>1, <1>2, <1>3, <1>4, <1>5

(* A step that leaves the workers alone preserves it.                      *)
LEMMA FreshSame == FreshInv /\ UNCHANGED dispatcherVars => FreshInv'
  BY DEF FreshInv, dispatcherVars
=============================================================================
