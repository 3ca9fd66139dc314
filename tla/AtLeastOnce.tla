---------------------------- MODULE AtLeastOnce -----------------------------
(***************************************************************************)
(* What an ElpioTask promises of a message: "a durable queue with retries" *)
(* (models/task.py) in which a message is removed by a 2xx of the handler  *)
(* or by its dead-lettering, and by nothing else.  The order of messages,  *)
(* the number of deliveries and the workers are left open.  The broker     *)
(* modules are compared with this one by refinement.                       *)
(***************************************************************************)
CONSTANT Messages

VARIABLES outstanding,  (* messages the queue still answers for              *)
          handled,      (* messages the handler has processed                *)
          parked        (* messages stored in the dead-letter queue          *)

vars == <<outstanding, handled, parked>>

Init == outstanding = Messages /\ handled = {} /\ parked = {}

(* A POST reaches the handler and is processed.                            *)
Handle(m) ==
    /\ handled' = handled \cup {m}
    /\ UNCHANGED <<outstanding, parked>>

(* A copy of the message is stored in the dead-letter queue.               *)
Park(m) ==
    /\ parked' = parked \cup {m}
    /\ UNCHANGED <<outstanding, handled>>

(* The queue forgets the message.                                          *)
Forget(m) ==
    /\ m \in outstanding
    /\ m \in handled \cup parked
    /\ outstanding' = outstanding \ {m}
    /\ UNCHANGED <<handled, parked>>

(* Both at once, where storing the copy is what removes the message.       *)
Bury(m) ==
    /\ m \in outstanding
    /\ outstanding' = outstanding \ {m}
    /\ parked' = parked \cup {m}
    /\ UNCHANGED handled

Next == \E m \in Messages : Handle(m) \/ Park(m) \/ Forget(m) \/ Bury(m)

Spec == Init /\ [][Next]_vars
=============================================================================
