-------------------------- MODULE ServiceReconcile --------------------------
(***************************************************************************)
(* The two kopf handlers of one ElpioService (operator/handlers.py):       *)
(* reconcile renders the spec into engine objects, applies them one after  *)
(* the other and reports the readiness of the child it reads back;         *)
(* settle_service reads that child again on a timer.                       *)
(*                                                                         *)
(* kopf runs one change handler of an object at a time, until it succeeds, *)
(* for as long as the spec differs from the one it handled last, and once  *)
(* more (resume) after each start of the operator.  The timer runs         *)
(* concurrently with it.  Both work on the body they were started with,    *)
(* and what they put into patch.status is merged into the object when they *)
(* return.                                                                 *)
(***************************************************************************)
EXTENDS Integers, Sequences

CONSTANTS Engines,     (* values of ELPIO_ENGINE                               *)
          MaxEdits,    (* BOUND: edits of the spec                             *)
          MaxReports,  (* BOUND: changes of a child's Ready condition          *)
          MaxFaults,   (* BOUND: operator restarts and failed API calls        *)
          None

VARIABLES engine,    (* the operator's ELPIO_ENGINE; it never changes          *)
          spec,      (* the ElpioService's metadata.generation and .spec       *)
          status,    (* its .status                                            *)
          applied,   (* the generation whose rendering each object carries     *)
          report,    (* the Ready condition of each object, and the generation *)
                     (* it is about                                            *)
          handled,   (* kopf: the spec handled last                            *)
          resume,    (* kopf: the resume handler is due                        *)
          change,    (* the change handler: None, or its spec and progress     *)
          tick,      (* the timer: None, or the readiness it has read          *)
          edits, reports, faults

vars == <<engine, spec, status, applied, report, handled, resume, change, tick,
          edits, reports, faults>>

(* Of the spec, what decides which objects there are: "http" stands for    *)
(* the metrics concurrency and rps, host for an ingress with a host; and   *)
(* whether from_cr accepts it.  The CRD does not ask for percents that sum *)
(* to 100, for one source of an env entry, or for one target of a traffic  *)
(* entry: the API server stores a spec that breaks these rules.            *)
Generations == 1..(MaxEdits + 1)
Specs == [gen : Generations, metric : {"http", "cpu"}, host : BOOLEAN, valid : BOOLEAN]

(* ElpioServiceSpec.from_cr returns.                                       *)
from_cr(s) == s.valid

(* The Ready condition, and whether its lastTransitionTime is that of the  *)
(* last flip (to the second, as now_rfc3339 gives it).  A handler holds    *)
(* the conditions it was started with; a flip makes their time an old one. *)
Conditions == [ready : BOOLEAN \cup {None}, timed : BOOLEAN]

(* The kinds of objects whose Ready condition is read back.                *)
Gates == {"Service", "HTTPScaledObject", "ScaledObject"}
Objects == Gates \cup {"DomainMapping", "Deployment"}

(* _primary_child_ref                                                      *)
PrimaryChild(s) ==
    IF engine = "knative" THEN "Service"
    ELSE IF s.metric = "http" THEN "HTTPScaledObject" ELSE "ScaledObject"

(* The objects in the order they are applied.  Knative's Certificate and   *)
(* the ExternalSecrets behave as the DomainMapping does, KEDA's plain      *)
(* Service as the Deployment, and they are left out.                       *)
render_knative(s) == IF s.host THEN <<"Service", "DomainMapping">> ELSE <<"Service">>
render_keda(s) ==
    <<"Deployment", IF s.metric = "http" THEN "HTTPScaledObject" ELSE "ScaledObject">>
Render(s) == IF engine = "knative" THEN render_knative(s) ELSE render_keda(s)

Changes == [spec : Specs, existing : Conditions, next : 1..4, ready : BOOLEAN]
Ticks == [ready : BOOLEAN, existing : Conditions]

ASSUME ServiceAssumption ==
    /\ Engines \subseteq {"knative", "keda"}
    /\ MaxEdits \in Nat /\ MaxReports \in Nat /\ MaxFaults \in Nat
    /\ None \notin Specs \cup Changes \cup Ticks \cup BOOLEAN

TypeOK ==
    /\ engine \in Engines
    /\ spec \in Specs
    /\ status \in [ready : BOOLEAN \cup {None}, conditions : Conditions,
                   observed : 0..(MaxEdits + 1)]
    /\ applied \in [Objects -> 0..(MaxEdits + 1)]
    /\ report \in [Objects -> [ready : BOOLEAN, about : 0..(MaxEdits + 1)]]
    /\ handled \in Specs \cup {None}
    /\ resume \in BOOLEAN
    /\ change \in Changes \cup {None}
    /\ tick \in Ticks \cup {None}
    /\ edits \in 0..MaxEdits /\ reports \in 0..MaxReports /\ faults \in 0..MaxFaults

(* The status is empty: ready is neither true nor false yet.               *)
Init ==
    /\ engine \in Engines
    /\ spec \in {s \in Specs : s.gen = 1}
    /\ status = [ready |-> None, conditions |-> [ready |-> None, timed |-> TRUE],
                 observed |-> 0]
    /\ applied = [o \in Objects |-> 0]
    /\ report = [o \in Objects |-> [ready |-> FALSE, about |-> 0]]
    /\ handled = None /\ resume = FALSE
    /\ change = None /\ tick = None
    /\ edits = 0 /\ reports = 0 /\ faults = 0

Fault == faults < MaxFaults /\ faults' = faults + 1

(* get_object: an error is a missing child.                                *)
get_object(o, child) ==
    \/ child = report[o] /\ UNCHANGED faults
    \/ child = None /\ Fault

child_ready(child) == IF child = None THEN FALSE ELSE child.ready

ReadReady(s, ready) ==
    \E child \in {report[PrimaryChild(s)], None} :
        get_object(PrimaryChild(s), child) /\ ready = child_ready(child)

Flips(ready) == status.conditions.ready # ready

(* Mutant of merge_conditions: the condition always gets a new time.       *)
merge_conditions_now(existing, ready) == [ready |-> ready, timed |-> Flips(ready)]

(* merge_conditions: a condition that has the status it is given keeps its *)
(* time, another one gets the present.                                     *)
merge_conditions(existing, ready) ==
    [ready |-> ready,
     timed |-> IF existing.ready = ready THEN existing.timed /\ ~Flips(ready)
               ELSE Flips(ready)]

(* What the conditions that a handler holds are worth after a patch.       *)
Aged(existing, ready) == [existing EXCEPT !.timed = @ /\ ~Flips(ready)]

-----------------------------------------------------------------------------
(* reconcile                                                               *)

(* Mutant of ReconcileStart: a retry or a resume may work on the spec that *)
(* was handled last.                                                       *)
ReconcileStartStale ==
    /\ change = None
    /\ handled # spec \/ resume
    /\ \E s \in {spec, handled} \ {None} :
          from_cr(s) /\ change' = [spec |-> s, existing |-> status.conditions, next |-> 1, ready |-> FALSE]
    /\ UNCHANGED <<engine, spec, status, applied, report, handled, resume, tick, edits, reports, faults>>

(* A spec that from_cr refuses is retried for ever, and changes nothing.   *)
ReconcileStart ==
    /\ change = None
    /\ handled # spec \/ resume
    /\ from_cr(spec)
    /\ change' = [spec |-> spec, existing |-> status.conditions, next |-> 1, ready |-> FALSE]
    /\ UNCHANGED <<engine, spec, status, applied, report, handled, resume, tick, edits, reports, faults>>

(* Mutant of ReconcileApply: apply_all goes on after an object that failed.*)
ReconcileApplyForgiving ==
    /\ change # None
    /\ change.next <= Len(Render(change.spec))
    /\ \/ /\ applied' = [applied EXCEPT ![Render(change.spec)[change.next]] = change.spec.gen]
          /\ UNCHANGED faults
       \/ UNCHANGED applied /\ Fault
    /\ change' = [change EXCEPT !.next = @ + 1]
    /\ UNCHANGED <<engine, spec, status, report, handled, resume, tick, edits, reports>>

(* apply_all: one object.                                                  *)
ReconcileApply ==
    /\ change # None
    /\ change.next <= Len(Render(change.spec))
    /\ applied' = [applied EXCEPT ![Render(change.spec)[change.next]] = change.spec.gen]
    /\ change' = [change EXCEPT !.next = @ + 1]
    /\ UNCHANGED <<engine, spec, status, report, handled, resume, tick, edits, reports, faults>>

(* All are applied: read the child back.                                   *)
ReconcileRead ==
    /\ change # None
    /\ change.next = Len(Render(change.spec)) + 1
    /\ \E r \in BOOLEAN :
          /\ ReadReady(change.spec, r)
          /\ change' = [change EXCEPT !.next = @ + 1, !.ready = r]
    /\ UNCHANGED <<engine, spec, status, applied, report, handled, resume, tick, edits, reports>>

(* Mutant of ReconcilePatch: the generation is taken to be the next one.   *)
ReconcilePatchNextGeneration ==
    /\ change # None
    /\ change.next = Len(Render(change.spec)) + 2
    /\ status' = [ready |-> change.ready,
                  conditions |-> merge_conditions(change.existing, change.ready),
                  observed |-> change.spec.gen + 1]
    /\ handled' = change.spec
    /\ resume' = FALSE
    /\ change' = None
    /\ tick' = IF tick = None THEN None
               ELSE [tick EXCEPT !.existing = Aged(@, change.ready)]
    /\ UNCHANGED <<engine, spec, applied, report, edits, reports, faults>>

ReconcilePatch ==
    /\ change # None
    /\ change.next = Len(Render(change.spec)) + 2
    /\ status' = [ready |-> change.ready,
                  conditions |-> merge_conditions(change.existing, change.ready),
                  observed |-> change.spec.gen]
    /\ handled' = change.spec
    /\ resume' = FALSE
    /\ change' = None
    /\ tick' = IF tick = None THEN None
               ELSE [tick EXCEPT !.existing = Aged(@, change.ready)]
    /\ UNCHANGED <<engine, spec, applied, report, edits, reports, faults>>

(* An API call raises: the handler is retried later, from the beginning.   *)
ReconcileFails ==
    /\ change # None
    /\ Fault
    /\ change' = None
    /\ UNCHANGED <<engine, spec, status, applied, report, handled, resume, tick, edits, reports>>

-----------------------------------------------------------------------------
(* settle_service                                                          *)

(* Mutant of TickRead: the timer stops looking once the service is ready.  *)
TickReadUntilReady ==
    /\ tick = None
    /\ from_cr(spec)
    /\ status.ready # TRUE
    /\ ReadReady(spec, TRUE)
    /\ tick' = [ready |-> TRUE, existing |-> status.conditions]
    /\ UNCHANGED <<engine, spec, status, applied, report, handled, resume, change, edits, reports>>

(* Read the child; if the readiness is the one in the status, return.      *)
TickRead ==
    /\ tick = None
    /\ from_cr(spec)
    /\ \E r \in BOOLEAN :
          /\ ReadReady(spec, r)
          /\ r # status.ready
          /\ tick' = [ready |-> r, existing |-> status.conditions]
    /\ UNCHANGED <<engine, spec, status, applied, report, handled, resume, change, edits, reports>>

TickPatch ==
    /\ tick # None
    /\ status' = [ready |-> tick.ready,
                  conditions |-> merge_conditions(tick.existing, tick.ready),
                  observed |-> status.observed]
    /\ change' = IF change = None THEN None
                 ELSE [change EXCEPT !.existing = Aged(@, tick.ready)]
    /\ tick' = None
    /\ UNCHANGED <<engine, spec, applied, report, handled, resume, edits, reports, faults>>

TickFails ==
    /\ tick # None
    /\ Fault
    /\ tick' = None
    /\ UNCHANGED <<engine, spec, status, applied, report, handled, resume, change, edits, reports>>

-----------------------------------------------------------------------------
(* The operator's process ends and a new one starts.                       *)
Restart ==
    /\ Fault
    /\ change' = None
    /\ tick' = None
    /\ resume' = (handled # None)
    /\ UNCHANGED <<engine, spec, status, applied, report, handled, edits, reports>>

(* The user edits the ElpioService.                                        *)
Edit ==
    /\ edits < MaxEdits
    /\ edits' = edits + 1
    /\ spec' \in {s \in Specs : s.gen = spec.gen + 1}
    /\ UNCHANGED <<engine, status, applied, report, handled, resume, change, tick, reports, faults>>

(* Knative's or KEDA's controller has processed the object it finds, and   *)
(* writes its Ready condition.                                             *)
ChildReports(o) ==
    /\ applied[o] > 0
    /\ reports < MaxReports
    /\ reports' = reports + 1
    /\ \E r \in BOOLEAN : report' = [report EXCEPT ![o] = [ready |-> r, about |-> applied[o]]]
    /\ UNCHANGED <<engine, spec, status, applied, handled, resume, change, tick, edits, faults>>

Reconcile == ReconcileStart \/ ReconcileApply \/ ReconcileRead \/ ReconcilePatch
Tick == TickRead \/ TickPatch

Next ==
    \/ Reconcile \/ ReconcileFails
    \/ Tick \/ TickFails
    \/ Restart \/ Edit
    \/ \E o \in Gates : ChildReports(o)

Spec == Init /\ [][Next]_vars

(* kopf keeps calling a handler that is due, and the timer every 15 s.     *)
FairSpec == Spec /\ WF_vars(Reconcile) /\ WF_vars(Tick)
-----------------------------------------------------------------------------
(* What the status says was observed has been applied in full, also when   *)
(* an earlier attempt failed after some of the objects.                    *)
ObservedApplied ==
    \A i \in DOMAIN Render(spec) :
        status.observed = spec.gen => applied[Render(spec)[i]] = spec.gen

(* No object goes back to an older spec, through retries and restarts.     *)
AppliesForward == [][\A o \in Objects : applied'[o] >= applied[o]]_vars

(* The two handlers never leave ready and the Ready condition apart.       *)
ReadyAgrees == status.ready = status.conditions.ready

(* The conditions a handler holds are still the stored ones.               *)
Current(existing) == existing.ready = status.conditions.ready /\ existing.timed

(* The time of the Ready condition, once it is that of the last flip, is   *)
(* lost only to a handler that the other one has overtaken: through every  *)
(* other patch it moves exactly when the status flips (status.py:15).      *)
TimedUnlessOvertaken ==
    [][status.conditions.timed /\ ~status'.conditions.timed =>
          \/ change # None /\ change' = None /\ ~Current(change.existing)
          \/ tick # None /\ tick' = None /\ ~Current(tick.existing)]_vars

(* Once edits, faults and the children's conditions come to rest, so does  *)
(* the status, at the truth, if the last spec is one that can be read: a   *)
(* late patch of either handler, made from what it read before the other   *)
(* one's, is corrected.                                                    *)
Converged ==
    /\ status.observed = spec.gen
    /\ status.ready = report[PrimaryChild(spec)].ready
Converges == <>[](from_cr(spec) => Converged)

(* handlers.py:17-20: Ready mirrors the child "rather than being set       *)
(* optimistically: the apply only kicks the engine, so right after it the  *)
(* Knative Service / KEDA autoscaler is still progressing. reconcile       *)
(* reports Ready only once the child says so".                             *)
NotOptimistic ==
    status.ready = TRUE /\ status.observed = spec.gen =>
        report[PrimaryChild(spec)].about = spec.gen

(* keda.py:10: the engine renders "an autoscaler chosen by the scaling     *)
(* metric".                                                                *)
OneAutoscaler ==
    <>[](\A o \in {"HTTPScaledObject", "ScaledObject"} :
            applied[o] > 0 => o = PrimaryChild(spec))
=============================================================================
