-------------------------- MODULE TaskTenantReconcile --------------------------
(***************************************************************************)
(* The kopf handlers of one ElpioTask or one ElpioTenant (operator/        *)
(* task_handlers.py and tenant_handlers.py): both render the spec into a   *)
(* list of objects, some of them optional, apply these one after the other *)
(* and report.  Around a task there are KEDA, which scales the dispatchers *)
(* off the depth of the queue, and the dispatchers, which empty it.        *)
(*                                                                         *)
(* kopf runs one change handler of an object at a time, until it succeeds, *)
(* for as long as the spec differs from the one it handled last, and once  *)
(* more (resume) after each start of the operator.                         *)
(***************************************************************************)
EXTENDS Integers, Sequences, Functions

CONSTANTS MinReplicas, MaxReplicas,   (* of the task                           *)
          MaxEdits,                   (* BOUND: edits of the spec              *)
          MaxBacklogs,                (* BOUND: times the queue fills          *)
          MaxFaults,                  (* BOUND: operator restarts and failed   *)
                                      (* API calls                             *)
          None

VARIABLES kind,       (* "task" or "tenant"; it never changes                  *)
          broker,     (* the task's spec.broker; no edit changes it            *)
          spec,       (* its metadata.generation and .spec                     *)
          status,     (* its .status                                           *)
          applied,    (* the generation whose rendering each object carries    *)
          handled,    (* kopf: the spec handled last                           *)
          resume,     (* kopf: the resume handler is due                       *)
          change,     (* the handler: None, or its spec and progress           *)
          replicas,   (* .spec.replicas of the dispatchers' Deployment         *)
          backlog,    (* there are messages in the queue                       *)
          edits, backlogs, faults

vars == <<kind, broker, spec, status, applied, handled, resume, change, replicas,
          backlog, edits, backlogs, faults>>

Kinds == {"task", "tenant"}
Guardrails == {"ResourceQuota", "LimitRange", "NetworkPolicy"}
Options(k) == IF k = "task" THEN {"CronJob"} ELSE Guardrails \cup {"Secret"}

(* spec.broker: address is the host and port clients connect to, or what   *)
(* KEDA asks, which over Redis is the same, over RabbitMQ a URI and over   *)
(* NATS the monitoring port; secured if auth or tls is set.                *)
Brokers == {b \in [type : {"nats", "redis", "rabbitmq"}, address : {"server", "monitor"},
                   secured : BOOLEAN] :
              b.type = "redis" => b.address = "server"}

(* The trigger has the address, but neither the credentials nor TLS.       *)
TriggerReads(b) ==
    \/ b.type = "redis" /\ ~b.secured
    \/ b.address = "monitor"

(* The brokers' clients take a host and a port.                            *)
Connects(b) == b.address = "server"

(* Of the spec, what else decides which objects there are.                 *)
Generations == 1..(MaxEdits + 1)
Specs == [gen : Generations, options : UNION {SUBSET Options(k) : k \in Kinds}]

Objects == {"Deployment", "ScaledObject", "CronJob", "Namespace",
            "ServiceAccount", "RoleBinding", "Secret"} \cup Guardrails

(* An object that the spec asks for, or nothing.                           *)
Optional(s, o) == IF o \in s.options THEN <<o>> ELSE << >>

(* Mutant of render_task: the task is not scaled.                          *)
render_task_unscaled(s) == <<"Deployment">> \o Optional(s, "CronJob")

(* The objects in the order they are applied.                              *)
render_task(s) == <<"Deployment", "ScaledObject">> \o Optional(s, "CronJob")

guardrails(s) ==
    Optional(s, "ResourceQuota") \o Optional(s, "LimitRange") \o Optional(s, "NetworkPolicy")

(* Mutant of render_tenant: access is granted first.                       *)
render_tenant_open(s) ==
    <<"Namespace", "ServiceAccount", "RoleBinding">> \o guardrails(s) \o Optional(s, "Secret")

render_tenant(s) ==
    <<"Namespace", "ServiceAccount">> \o guardrails(s)
        \o <<"RoleBinding">> \o Optional(s, "Secret")

Render(s) == IF kind = "task" THEN render_task(s) ELSE render_tenant(s)

Changes == [spec : Specs, next : 1..8]

ASSUME TaskTenantAssumption ==
    /\ MinReplicas \in Nat /\ MaxReplicas \in Nat \ {0} /\ MinReplicas <= MaxReplicas
    /\ MaxEdits \in Nat /\ MaxBacklogs \in Nat /\ MaxFaults \in Nat
    /\ None \notin Specs \cup Changes

TypeOK ==
    /\ kind \in Kinds
    /\ broker \in Brokers \cup {None}
    /\ kind = "task" => broker \in Brokers
    /\ spec \in Specs /\ spec.options \subseteq Options(kind)
    /\ status \in [ready : BOOLEAN, scheduled : BOOLEAN, observed : 0..(MaxEdits + 1)]
    /\ applied \in [Objects -> 0..(MaxEdits + 1)]
    /\ handled \in Specs \cup {None}
    /\ resume \in BOOLEAN
    /\ change \in Changes \cup {None}
    /\ replicas \in 0..MaxReplicas
    /\ backlog \in BOOLEAN
    /\ edits \in 0..MaxEdits /\ backlogs \in 0..MaxBacklogs /\ faults \in 0..MaxFaults

Init ==
    /\ kind \in Kinds
    /\ broker \in IF kind = "task" THEN Brokers ELSE {None}
    /\ spec \in [gen : {1}, options : SUBSET Options(kind)]
    /\ status = [ready |-> FALSE, scheduled |-> FALSE, observed |-> 0]
    /\ applied = [o \in Objects |-> 0]
    /\ handled = None /\ resume = FALSE /\ change = None
    /\ replicas = 0 /\ backlog = FALSE
    /\ edits = 0 /\ backlogs = 0 /\ faults = 0

Fault == faults < MaxFaults /\ faults' = faults + 1

-----------------------------------------------------------------------------
(* reconcile_task, reconcile_tenant                                        *)

ReconcileStart ==
    /\ change = None
    /\ handled # spec \/ resume
    /\ change' = [spec |-> spec, next |-> 1]
    /\ UNCHANGED <<kind, broker, spec, status, applied, handled, resume, replicas,
                   backlog, edits, backlogs, faults>>

(* Mutant of ReconcileApply: apply_all goes on after an object that failed.*)
ReconcileApplyForgiving ==
    /\ change # None
    /\ change.next <= Len(Render(change.spec))
    /\ \/ /\ applied' = [applied EXCEPT ![Render(change.spec)[change.next]] = change.spec.gen]
          /\ UNCHANGED faults
       \/ UNCHANGED applied /\ Fault
    /\ change' = [change EXCEPT !.next = @ + 1]
    /\ UNCHANGED <<kind, broker, spec, status, handled, resume, replicas, backlog,
                   edits, backlogs>>

(* apply_all, one object: a server-side apply with force.  The Deployment  *)
(* carries minReplicas, which takes the field from whoever has set it.     *)
ReconcileApply ==
    /\ change # None
    /\ change.next <= Len(Render(change.spec))
    /\ LET o == Render(change.spec)[change.next]
       IN  /\ applied' = [applied EXCEPT ![o] = change.spec.gen]
           /\ replicas' = IF o = "Deployment" THEN MinReplicas ELSE replicas
    /\ change' = [change EXCEPT !.next = @ + 1]
    /\ UNCHANGED <<kind, broker, spec, status, handled, resume, backlog,
                   edits, backlogs, faults>>

(* Mutants of Reported: the generation is taken to be the next one; it is  *)
(* written the first time only.                                            *)
ReportedNextGeneration(s) ==
    [ready |-> TRUE, scheduled |-> "CronJob" \in s.options, observed |-> s.gen + 1]
ReportedOnce(s) ==
    [ready |-> TRUE, scheduled |-> "CronJob" \in s.options,
     observed |-> IF status.observed = 0 THEN s.gen ELSE status.observed]

Reported(s) == [ready |-> TRUE, scheduled |-> "CronJob" \in s.options, observed |-> s.gen]

(* The handler returns, and its patch is merged into the status.           *)
ReconcilePatch ==
    /\ change # None
    /\ change.next = Len(Render(change.spec)) + 1
    /\ status' = Reported(change.spec)
    /\ handled' = change.spec
    /\ resume' = FALSE
    /\ change' = None
    /\ UNCHANGED <<kind, broker, spec, applied, replicas, backlog, edits, backlogs, faults>>

(* An API call raises: the handler is retried later, from the beginning.   *)
ReconcileFails ==
    /\ change # None
    /\ Fault
    /\ change' = None
    /\ UNCHANGED <<kind, broker, spec, status, applied, handled, resume, replicas,
                   backlog, edits, backlogs>>

-----------------------------------------------------------------------------
(* The operator's process ends and a new one starts.                       *)
Restart ==
    /\ Fault
    /\ change' = None
    /\ resume' = (handled # None)
    /\ UNCHANGED <<kind, broker, spec, status, applied, handled, replicas, backlog,
                   edits, backlogs>>

(* The user edits the ElpioTask or ElpioTenant.                            *)
Edit ==
    /\ edits < MaxEdits
    /\ edits' = edits + 1
    /\ spec' \in [gen : {spec.gen + 1}, options : SUBSET Options(kind)]
    /\ UNCHANGED <<kind, broker, status, applied, handled, resume, change, replicas,
                   backlog, backlogs, faults>>

(* Producers put messages into the empty queue.                            *)
Enqueue ==
    /\ kind = "task"
    /\ ~backlog
    /\ backlogs < MaxBacklogs
    /\ backlogs' = backlogs + 1
    /\ backlog' = TRUE
    /\ UNCHANGED <<kind, broker, spec, status, applied, handled, resume, change,
                   replicas, edits, faults>>

(* KEDA wakes the Deployment up, and scales it while it runs.  By a trigger*)
(* it cannot read it scales nothing.                                       *)
Scaled(n) ==
    /\ kind = "task"
    /\ TriggerReads(broker)
    /\ applied["ScaledObject"] > 0 /\ applied["Deployment"] > 0
    /\ replicas' = n
    /\ UNCHANGED <<kind, broker, spec, status, applied, handled, resume, change,
                   backlog, edits, backlogs, faults>>

ScaleUp == backlog /\ replicas = 0 /\ \E n \in 1..MaxReplicas : n >= MinReplicas /\ Scaled(n)
Rescale ==
    \/ backlog /\ \E n \in 1..MaxReplicas : n >= MinReplicas /\ n # replicas /\ Scaled(n)
    \/ ~backlog /\ replicas # MinReplicas /\ Scaled(MinReplicas)

(* The dispatchers empty the queue (module Dispatcher has the messages).   *)
Dispatch ==
    /\ backlog /\ replicas > 0
    /\ Connects(broker)
    /\ backlog' = FALSE
    /\ UNCHANGED <<kind, broker, spec, status, applied, handled, resume, change,
                   replicas, edits, backlogs, faults>>

Reconcile == ReconcileStart \/ ReconcileApply \/ ReconcilePatch

Next ==
    \/ Reconcile \/ ReconcileFails
    \/ Restart \/ Edit
    \/ Enqueue \/ ScaleUp \/ Rescale \/ Dispatch

Spec == Init /\ [][Next]_vars

(* kopf keeps calling a handler that is due; KEDA polls a trigger it can   *)
(* read every 30 s and the dispatchers their queue every second.           *)
FairSpec == Spec /\ WF_vars(Reconcile) /\ WF_vars(ScaleUp) /\ WF_vars(Dispatch)
-----------------------------------------------------------------------------
(* What the status says was observed has been applied in full, also when   *)
(* an earlier attempt failed after some of the objects.                    *)
ObservedApplied ==
    status.observed = spec.gen => \A o \in Range(Render(spec)) : applied[o] = spec.gen

(* When a tenant's members get access under a spec, the quota, the limits  *)
(* and the isolation that this spec asks for are in place already, also if *)
(* the spec was edited or a handler failed in the middle of its objects.   *)
GuardedBeforeGranted ==
    kind = "tenant" /\ applied["RoleBinding"] = spec.gen =>
        \A o \in spec.options \cap Guardrails : applied[o] = spec.gen

(* Once edits and faults are over, the status says so and stays.           *)
Settles == <>[](change = None /\ status.ready /\ status.observed = spec.gen)

(* Messages in the queue are dispatched, although every reconciliation     *)
(* scales the dispatchers back to minReplicas: those in a Redis without    *)
(* credentials, and with minReplicas those of any broker clients reach.    *)
Reached ==
    /\ kind = "task" /\ Connects(broker)
    /\ MinReplicas > 0 \/ (broker.type = "redis" /\ ~broker.secured)
TaskServed == Reached => (backlog ~> ~backlog)

(* models/task.py:13-14: a task is "a dispatcher Deployment scaled by KEDA *)
(* off the queue depth", whichever broker it names.                        *)
ServedOverAnyBroker == kind = "task" /\ Connects(broker) => (backlog ~> ~backlog)

(* k8s.py:13-14: "Objects are applied with server-side apply, so           *)
(* reconciliation is idempotent".  To handle a spec once more changes      *)
(* nothing.                                                                *)
Idempotent ==
    [][ReconcileApply /\ change.spec = handled => UNCHANGED <<applied, replicas>>]_vars
=============================================================================
