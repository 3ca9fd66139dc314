----------------------------- MODULE Dispatcher -----------------------------
(***************************************************************************)
(* The broker-agnostic half of Dispatcher.step (dispatcher/core.py): what  *)
(* one worker process does between two calls of its broker.  A broker      *)
(* module EXTENDS this one and conjoins each local step with the effect of *)
(* the broker call that the code makes there.                              *)
(*                                                                         *)
(* A worker runs step() in a loop:                                         *)
(*                                                                         *)
(*    poll --> post --> ack ------------------------> poll                 *)
(*               |----> nack -----------------------> poll                 *)
(*               '----> dead ( --> deadack ) -------> poll                 *)
(*                                                                         *)
(* and is "down" when its process is not running: step() catches only the  *)
(* exceptions of the POST, so an exception in a broker call ends run().    *)
(***************************************************************************)
EXTENDS Integers, FiniteSets

CONSTANTS Messages,     (* the messages the producers enqueued                 *)
          Workers,      (* the dispatcher pods                                 *)
          MaxAttempts,  (* per pod: ELPIO_MAX_ATTEMPTS, spec.retry.maxAttempts *)
          Rejected,     (* messages the handler never answers with a 2xx       *)
          Undecodable,  (* messages whose body json.loads refuses              *)
          MaxFailures,  (* BOUND: failed POSTs counted for one message         *)
          None          (* "this worker holds no message"                      *)

(* A message is named by its place in the order of publication.  The CRD   *)
(* and the pydantic model take any integer for maxAttempts.  The pods of   *)
(* one queue differ in it while an edit of the ElpioTask is rolled out, or *)
(* when two ElpioTasks name the same queue.                                *)
ASSUME DispatcherAssumption ==
    /\ Messages \subseteq Nat
    /\ Rejected \subseteq Messages
    /\ Undecodable \subseteq Messages
    /\ MaxAttempts \in [Workers -> Int]
    /\ MaxFailures \in Nat
    /\ None \notin Messages

VARIABLES pc,         (* where each worker is in step()                        *)
          msg,        (* the Message in the worker's local variable            *)
          attempts,   (* msg.attempts                                          *)
          handled,    (* messages the handler has processed (external)         *)
          confirmed,  (* history: messages some worker saw a 2xx for           *)
          failures    (* history: POSTs of a message that did not give a 2xx   *)

dispatcherVars == <<pc, msg, attempts, handled, confirmed, failures>>

Locations == {"poll", "post", "ack", "nack", "dead", "deadack", "down"}

DispatcherTypeOK ==
    /\ pc \in [Workers -> Locations]
    /\ msg \in [Workers -> Messages \cup {None}]
    /\ attempts \in [Workers -> Nat]
    /\ handled \subseteq Messages
    /\ confirmed \subseteq handled
    /\ failures \in [Messages -> 0..MaxFailures]

DispatcherInit ==
    /\ pc = [w \in Workers |-> "poll"]
    /\ msg = [w \in Workers |-> None]
    /\ attempts = [w \in Workers |-> 0]
    /\ handled = {}
    /\ confirmed = {}
    /\ failures = [m \in Messages |-> 0]

-----------------------------------------------------------------------------
(* poll() returned Message m with its attempts field equal to n.           *)
Fetched(w, m, n) ==
    /\ pc[w] = "poll"
    /\ pc' = [pc EXCEPT ![w] = "post"]
    /\ msg' = [msg EXCEPT ![w] = m]
    /\ attempts' = [attempts EXCEPT ![w] = n]
    /\ UNCHANGED <<handled, confirmed, failures>>

(* Mutant of PostAccepted: any answer, a timeout's status 0 too, counts as *)
(* a 2xx.                                                                  *)
PostAcceptedAnyStatus(w) ==
    /\ pc[w] = "post"
    /\ pc' = [pc EXCEPT ![w] = "ack"]
    /\ handled' \in {handled} \cup
           (IF msg[w] \in Rejected THEN {} ELSE {handled \cup {msg[w]}})
    /\ confirmed' = confirmed \cup {msg[w]}
    /\ UNCHANGED <<msg, attempts, failures>>

(* The POST answers 2xx; the next call is broker.ack.                      *)
PostAccepted(w) ==
    /\ pc[w] = "post"
    /\ msg[w] \notin Rejected
    /\ pc' = [pc EXCEPT ![w] = "ack"]
    /\ handled' = handled \cup {msg[w]}
    /\ confirmed' = confirmed \cup {msg[w]}
    /\ UNCHANGED <<msg, attempts, failures>>

(* A failed POST of a message the handler can accept counts against the    *)
(* bound: after MaxFailures of them the handler has recovered.  The count  *)
(* of a message it never accepts saturates.                                *)
MayFail(m) == m \in Rejected \/ failures[m] < MaxFailures

CountFailure(m) ==
    failures' = [failures EXCEPT ![m] = IF @ < MaxFailures THEN @ + 1 ELSE @]

(* Mutant of PostFailed: the limit is compared with one attempt too many.  *)
PostFailedOneEarly(w) ==
    /\ pc[w] = "post"
    /\ MayFail(msg[w])
    /\ attempts' = [attempts EXCEPT ![w] = @ + 1]
    /\ pc' = [pc EXCEPT ![w] = IF attempts[w] + 2 >= MaxAttempts[w]
                               THEN "dead" ELSE "nack"]
    /\ CountFailure(msg[w])
    /\ UNCHANGED <<msg, handled, confirmed>>

(* The POST answers another status, or raises (no connection, or the 30 s  *)
(* timeout), which the code turns into status 0.  After a timeout the      *)
(* handler may well have done the work.  The attempt is counted and the    *)
(* next call is dead_letter or nack.                                       *)
PostFailed(w) ==
    /\ pc[w] = "post"
    /\ MayFail(msg[w])
    /\ handled' \in {handled} \cup
           (IF msg[w] \in Rejected THEN {} ELSE {handled \cup {msg[w]}})
    /\ attempts' = [attempts EXCEPT ![w] = @ + 1]
    /\ pc' = [pc EXCEPT ![w] = IF attempts[w] + 1 >= MaxAttempts[w]
                               THEN "dead" ELSE "nack"]
    /\ CountFailure(msg[w])
    /\ UNCHANGED <<msg, confirmed>>

(* The broker call that settles the message returned: step() returns True  *)
(* and run() calls it again (the rate-limit sleep is only a delay).        *)
Settled(w) ==
    /\ pc' = [pc EXCEPT ![w] = "poll"]
    /\ msg' = [msg EXCEPT ![w] = None]
    /\ attempts' = [attempts EXCEPT ![w] = 0]
    /\ UNCHANGED <<handled, confirmed, failures>>

(* The process ends: an exception left run(), or the pod was killed (there *)
(* is no SIGTERM handler, so a scale-in of the Deployment does this too).  *)
Dies(w) ==
    /\ pc' = [pc EXCEPT ![w] = "down"]
    /\ msg' = [msg EXCEPT ![w] = None]
    /\ attempts' = [attempts EXCEPT ![w] = 0]
    /\ UNCHANGED <<handled, confirmed, failures>>

(* The Deployment starts a new process.                                    *)
Starts(w) ==
    /\ pc[w] = "down"
    /\ pc' = [pc EXCEPT ![w] = "poll"]
    /\ UNCHANGED <<msg, attempts, handled, confirmed, failures>>

AllDown == \A w \in Workers : pc[w] = "down"

Holding(w) == pc[w] \in {"post", "ack", "nack", "dead", "deadack"}
=============================================================================
