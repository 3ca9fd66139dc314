-------------------------- MODULE FunctionReconcile --------------------------
(***************************************************************************)
(* The two kopf handlers of one ElpioFunction (operator/function_handlers, *)
(* function.py): reconcile_function starts the build, settle_function      *)
(* polls it on a timer and publishes the ElpioService, which the API       *)
(* server stores if the webhook's policy and the CRD's schema let it pass  *)
(* (module Admission).                                                     *)
(*                                                                         *)
(* kopf runs the change handler of an object at a time, until it succeeds, *)
(* for as long as the spec differs from the one it handled last, and once  *)
(* more (resume) after each start of the operator.  The timer runs         *)
(* concurrently with it.  Both work on the body they were started with,    *)
(* and what they put into patch.status is merged into the object when they *)
(* return.                                                                 *)
(***************************************************************************)
EXTENDS Integers, Admission

CONSTANTS Builds,      (* values of the fields that go into the PipelineRun,   *)
                       (* the image among them                                 *)
          Configs,     (* values of the other fields (port, env, scaling ...)  *)
          Policies,    (* settings of the webhook an administrator uses        *)
          Crds,        (* the CRDs of ElpioService that may be installed       *)
          MaxEdits,    (* BOUND: edits of the spec and changes of the policy   *)
          MaxFaults,   (* BOUND: operator restarts and failed API calls        *)
          None

VARIABLES spec,      (* the ElpioFunction's .spec                              *)
          status,    (* the ElpioFunction's .status                            *)
          run,       (* the Tekton PipelineRun "<name>-build"                  *)
          service,   (* the ElpioService                                       *)
          policy,    (* the webhook's settings                                 *)
          crd,       (* the CRD of ElpioService; it never changes              *)
          handled,   (* kopf: the spec handled last                            *)
          resume,    (* kopf: the resume handler is due                        *)
          change,    (* the change handler: None, or the spec it works on      *)
          tick,      (* the timer: None, or its action and the spec it has     *)
          edits, faults

admission == <<policy, crd>>
vars == <<spec, status, run, service, admission, handled, resume, change, tick, edits, faults>>

Specs == [build : Builds, config : Configs]
Phases == {"Running", "Succeeded", "Failed"}
Runs == [build : Builds, phase : Phases]
Statuses == [phase : {"unset", "Building", "Ready", "BuildFailed"},
             ready : BOOLEAN,             (* a missing field reads as false    *)
             condition : BOOLEAN,         (* the status of condition Ready     *)
             serviceApplied : BOOLEAN]
Ticks == [action : {"apply", "fail", "wait"}, published : BOOLEAN, spec : Specs]

ASSUME FunctionAssumption ==
    /\ MaxEdits \in Nat /\ MaxFaults \in Nat
    /\ \A b \in Builds : b.image \in Images /\ b.image.form = "string"
    /\ Policies \subseteq AllPolicies
    /\ Crds \subseteq {"shipped", "described"}
    /\ None \notin Specs \cup Runs \cup Ticks

TypeOK ==
    /\ spec \in Specs
    /\ status \in Statuses
    /\ run \in Runs \cup {None}
    /\ service \in Specs \cup {None}
    /\ policy \in Policies
    /\ crd \in Crds
    /\ handled \in Specs \cup {None}
    /\ resume \in BOOLEAN
    /\ change \in Specs \cup {None}
    /\ tick \in Ticks \cup {None}
    /\ edits \in 0..MaxEdits
    /\ faults \in 0..MaxFaults

Init ==
    /\ spec \in Specs
    /\ status = [phase |-> "unset", ready |-> FALSE, condition |-> FALSE, serviceApplied |-> FALSE]
    /\ run = None
    /\ service = None
    /\ policy \in Policies
    /\ crd \in Crds
    /\ handled = None
    /\ resume = FALSE
    /\ change = None
    /\ tick = None
    /\ edits = 0
    /\ faults = 0

Fault == faults < MaxFaults /\ faults' = faults + 1

-----------------------------------------------------------------------------
(* reconcile_function                                                      *)

(* The new PipelineRun has the name of the old one.                        *)
render_pipeline_run(s) == [build |-> s.build, phase |-> "Running"]

(* Apply the PipelineRun.  Tekton never runs an existing one again: a      *)
(* change of its spec has no effect, or is refused, depending on Tekton's  *)
(* version; a refused handler raises, changes nothing and is retried.      *)
ReconcileApply ==
    /\ change = None
    /\ handled # spec \/ resume
    /\ \/ run = None /\ run' = render_pipeline_run(spec)
       \/ run # None /\ UNCHANGED run
    /\ change' = spec
    /\ UNCHANGED <<spec, status, service, admission, handled, resume, tick, edits, faults>>

(* Mutant of ReconcilePatch: the phase is the one of the PipelineRun.      *)
ReconcilePatchRunPhase ==
    /\ change # None
    /\ status' = [status EXCEPT !.phase = "Running", !.ready = FALSE, !.condition = FALSE]
    /\ handled' = change
    /\ resume' = FALSE
    /\ change' = None
    /\ UNCHANGED <<spec, run, service, admission, tick, edits, faults>>

(* The handler returns; serviceApplied is left as it is.                   *)
ReconcilePatch ==
    /\ change # None
    /\ status' = [status EXCEPT !.phase = "Building", !.ready = FALSE, !.condition = FALSE]
    /\ handled' = change
    /\ resume' = FALSE
    /\ change' = None
    /\ UNCHANGED <<spec, run, service, admission, tick, edits, faults>>

(* An API call of the handler fails: it is retried later.                  *)
ReconcileFails ==
    /\ change # None
    /\ Fault
    /\ change' = None
    /\ UNCHANGED <<spec, status, run, service, admission, handled, resume, tick, edits>>

-----------------------------------------------------------------------------
(* settle_function                                                         *)

pipelinerun_phase(pr) == IF pr = None THEN "Pending" ELSE pr.phase

(* Mutants of next_action: a running build counts as done, a failed one is *)
(* waited for, a finished one is waited for.                               *)
next_action_eager(phase) ==
    CASE phase \in {"Succeeded", "Running"} -> "apply" [] phase = "Failed" -> "fail" [] OTHER -> "wait"
next_action_no_fail(phase) == IF phase = "Succeeded" THEN "apply" ELSE "wait"
next_action_no_apply(phase) == IF phase = "Failed" THEN "fail" ELSE "wait"

(* The "noop" of a Succeeded build is out of reach: the handler returns    *)
(* before, when serviceApplied is set.                                     *)
next_action(phase) ==
    CASE phase = "Succeeded" -> "apply" [] phase = "Failed" -> "fail" [] OTHER -> "wait"

(* Mutant of TickGet: a function that is recorded is looked at again.      *)
TickGetAgain ==
    /\ tick = None
    /\ \E pr \in {run, None} :
          /\ IF pr = run THEN UNCHANGED faults ELSE Fault
          /\ tick' = [action |-> next_action(pipelinerun_phase(pr)),
                      published |-> FALSE, spec |-> spec]
    /\ UNCHANGED <<spec, status, run, service, admission, handled, resume, change, edits>>

(* get_object turns every error into None, as if there were no build.      *)
TickGet ==
    /\ tick = None
    /\ ~status.serviceApplied
    /\ \E pr \in {run, None} :
          /\ IF pr = run THEN UNCHANGED faults ELSE Fault
          /\ tick' = [action |-> next_action(pipelinerun_phase(pr)),
                      published |-> FALSE, spec |-> spec]
    /\ UNCHANGED <<spec, status, run, service, admission, handled, resume, change, edits>>

(* The image comes from the fields of the build, the rest is the user's.   *)
render_service(s) == [build |-> s.build, config |-> s.config]

(* Of it, what admission looks at: the image is the string of the spec,    *)
(* there are no requests, and model_dump has filled in the scaling.        *)
manifest(service_spec) == [image |-> service_spec.build.image, requests |-> {}, minScale |-> 0]

Accepted(s) == Admits(manifest(render_service(s)), policy, crd)

(* Mutant of TickApply: the patch is filled in although the apply failed.  *)
TickApplyForgiving ==
    /\ tick # None
    /\ tick.action = "apply" /\ ~tick.published
    /\ \/ service' = render_service(tick.spec) /\ UNCHANGED faults
       \/ Fault /\ UNCHANGED service
    /\ tick' = [tick EXCEPT !.published = TRUE]
    /\ UNCHANGED <<spec, status, run, admission, handled, resume, change, edits>>

TickApply ==
    /\ tick # None
    /\ tick.action = "apply" /\ ~tick.published
    /\ Accepted(tick.spec)
    /\ service' = render_service(tick.spec)
    /\ tick' = [tick EXCEPT !.published = TRUE]
    /\ UNCHANGED <<spec, status, run, admission, handled, resume, change, edits, faults>>

(* The API server refuses the ElpioService: apply_object raises, and the   *)
(* next tick starts from the beginning.                                    *)
TickRefused ==
    /\ tick # None
    /\ tick.action = "apply" /\ ~tick.published
    /\ ~Accepted(tick.spec)
    /\ tick' = None
    /\ UNCHANGED <<spec, status, run, service, admission, handled, resume, change, edits, faults>>

(* Mutant of Outcome: everything but a publication is a failed build.      *)
OutcomeNoWait(action) ==
    IF action = "apply"
    THEN [status EXCEPT !.phase = "Ready", !.ready = TRUE, !.condition = TRUE,
                        !.serviceApplied = TRUE]
    ELSE [status EXCEPT !.phase = "BuildFailed", !.ready = FALSE, !.condition = FALSE]

(* The status with the handler's patch merged in.  A wait leaves ready.    *)
Outcome(action) ==
    CASE action = "apply" ->
            [status EXCEPT !.phase = "Ready", !.ready = TRUE, !.condition = TRUE,
                           !.serviceApplied = TRUE]
      [] action = "fail" ->
            [status EXCEPT !.phase = "BuildFailed", !.ready = FALSE, !.condition = FALSE]
      [] action = "wait" ->
            [status EXCEPT !.phase = "Building", !.condition = FALSE]

TickPatch ==
    /\ tick # None
    /\ tick.action = "apply" => tick.published
    /\ status' = Outcome(tick.action)
    /\ tick' = None
    /\ UNCHANGED <<spec, run, service, admission, handled, resume, change, edits, faults>>

(* An API call of the timer fails: the next tick starts from the beginning.*)
TickFails ==
    /\ tick # None
    /\ Fault
    /\ tick' = None
    /\ UNCHANGED <<spec, status, run, service, admission, handled, resume, change, edits>>

-----------------------------------------------------------------------------
(* The operator's process ends and a new one starts.                       *)
Restart ==
    /\ Fault
    /\ change' = None
    /\ tick' = None
    /\ resume' = (handled # None)
    /\ UNCHANGED <<spec, status, run, service, admission, handled, edits>>

(* The user edits the ElpioFunction.                                       *)
Edit ==
    /\ edits < MaxEdits
    /\ edits' = edits + 1
    /\ spec' \in Specs \ {spec}
    /\ UNCHANGED <<status, run, service, admission, handled, resume, change, tick, faults>>

(* An administrator starts the webhook with other settings.  What is       *)
(* stored stays.                                                           *)
Reconfigure ==
    /\ edits < MaxEdits
    /\ edits' = edits + 1
    /\ policy' \in Policies \ {policy}
    /\ UNCHANGED <<spec, status, run, service, crd, handled, resume, change, tick, faults>>

(* Tekton finishes the build.                                              *)
BuildEnds ==
    /\ run # None
    /\ run.phase = "Running"
    /\ \E p \in {"Succeeded", "Failed"} : run' = [run EXCEPT !.phase = p]
    /\ UNCHANGED <<spec, status, service, admission, handled, resume, change, tick, edits, faults>>

Reconcile == ReconcileApply \/ ReconcilePatch
Tick == TickGet \/ TickApply \/ TickRefused \/ TickPatch

Next ==
    \/ Reconcile \/ ReconcileFails
    \/ Tick \/ TickFails
    \/ Restart \/ Edit \/ Reconfigure \/ BuildEnds

Spec == Init /\ [][Next]_vars

(* kopf keeps calling handlers that are due, the timer every 15 s; builds  *)
(* end (Tekton has a timeout of one hour).  A change of the PipelineRun    *)
(* may be refused for ever.                                                *)
Fairness ==
    /\ WF_vars((run = None \/ run.build = spec.build) /\ ReconcileApply)
    /\ WF_vars(ReconcilePatch)
    /\ WF_vars(Tick)
    /\ WF_vars(BuildEnds)

FairSpec == Spec /\ Fairness
-----------------------------------------------------------------------------
BuildDone(phase) == run # None /\ run.phase = phase

(* The ElpioService is published only after the build has succeeded,       *)
(* whatever is edited, fails or restarts in between.                       *)
PublishedAfterBuild == service # None => BuildDone("Succeeded")

(* What is recorded has happened: the record of the publication and the    *)
(* verdicts of the status hold, also after a crash between the apply and   *)
(* the patch or a late patch of the other handler.                         *)
RecordSound ==
    /\ status.serviceApplied => service # None
    /\ status.ready => status.serviceApplied /\ status.phase = "Ready"

VerdictSound ==
    /\ status.phase = "BuildFailed" => BuildDone("Failed")
    /\ status.phase = "Ready" => BuildDone("Succeeded") /\ service # None
    /\ status.ready = status.condition

(* A failed build is reported, through edits, errors and restarts.         *)
FailureReported == BuildDone("Failed") ~> status.phase = "BuildFailed"

(* A build that succeeded leads to an ElpioService and to its record, if   *)
(* the API server accepts what the spec renders to from some time on,      *)
(* whatever it refused before.                                             *)
Published == service # None /\ status.serviceApplied
PublishedEventually ==
    <>[](BuildDone("Succeeded") /\ Accepted(spec)) => <>Published

(* function_handlers.py:68-69: the record of a publication is final.  No   *)
(* tick, however late its patch, and no edit, resume or restart takes it   *)
(* back, publishes again or moves the status, but to "Building".           *)
RecordFreezes ==
    [][status.serviceApplied =>
          /\ UNCHANGED service
          /\ status'.serviceApplied
          /\ status' = status \/ (status'.phase = "Building" /\ ~status'.ready)]_vars

(* README.md:44-46, deploy/crds/elpioservice.yaml:43, models/service.py:31 *)
(* say that a string is an image: with the CRD that is installed, too, the *)
(* ElpioService of a build that succeeded can be stored.                   *)
StringsAreImages == BuildDone("Succeeded") => schema_accepts(manifest(render_service(spec)), crd)

(* function_handlers.py:61: the status says "build in progress".  It does  *)
(* so only for a while, since every build ends.                            *)
BuildingEnds == status.phase = "Building" ~> status.phase # "Building"

(* models/function.py:11-13: "the operator then produces an ElpioService   *)
(* from the built image".                                                  *)
PublishedAsBuilt == service # None => service.build = run.build
=============================================================================
