--------------------------- MODULE FunctionProofs ---------------------------
(***************************************************************************)
(* Theorems about FunctionReconcile, for any builds, configurations and    *)
(* bounds: what the status of an ElpioFunction says is true of the build   *)
(* and of the ElpioService, and nothing is published before its build.     *)
(***************************************************************************)
EXTENDS FunctionReconcile, SequenceTheorems, TLAPS

(* What a tick in progress knows.  The facts are stable: a build that has  *)
(* ended does not change, a service is not taken back, and only the timer  *)
(* itself sets serviceApplied.                                             *)
TickInv ==
    tick # None =>
        /\ tick.action = "apply" => BuildDone("Succeeded")
        /\ tick.action = "fail" => BuildDone("Failed")
        /\ tick.published => service # None
        /\ ~status.serviceApplied

IInv == TypeOK /\ PublishedAfterBuild /\ RecordSound /\ VerdictSound /\ TickInv

(* The invariant holds initially.                                          *)
LEMMA InitIInv == Init => IInv
<1> SUFFICES ASSUME Init PROVE IInv
  OBVIOUS
<1> USE FunctionAssumption DEF Init, FunctionAssumption
<1>1. status \in Statuses
  BY DEF Statuses
<1>a. edits \in 0..MaxEdits /\ faults \in 0..MaxFaults
  OBVIOUS
<1>b. resume \in BOOLEAN
  BY Zenon
<1>2. TypeOK
  BY <1>1, <1>a, <1>b, Zenon DEF TypeOK
<1>3. PublishedAfterBuild /\ RecordSound /\ VerdictSound /\ TickInv
  BY DEF PublishedAfterBuild, RecordSound, VerdictSound, TickInv
<1>4. QED
  BY <1>2, <1>3 DEF IInv

(* Steps that touch neither the status nor the service nor the tick.  The  *)
(* CRD never changes.                                                      *)
LEMMA QuietInv ==
  ASSUME IInv, ReconcileApply \/ ReconcileFails \/ Edit \/ Reconfigure \/ BuildEnds
  PROVE  IInv'
<1> USE FunctionAssumption DEF IInv, TypeOK, FunctionAssumption
<1>1. UNCHANGED <<status, service, tick, crd>>
  BY DEF ReconcileApply, ReconcileFails, Edit, Reconfigure, BuildEnds, admission
<1>2. TypeOK'
  <2>1. CASE ReconcileApply
    BY <2>1 DEF ReconcileApply, admission, render_pipeline_run, Runs, Specs, Phases
  <2>2. CASE ReconcileFails
    BY <2>2 DEF ReconcileFails, admission, Fault
  <2>3. CASE Edit
    BY <2>3 DEF Edit, admission
  <2>4. CASE BuildEnds
    BY <2>4 DEF BuildEnds, admission, Runs, Phases
  <2>5. CASE Reconfigure
    BY <2>5 DEF Reconfigure
  <2>6. QED
    BY <2>1, <2>2, <2>3, <2>4, <2>5
<1>3. \A p \in {"Succeeded", "Failed"} : BuildDone(p) => BuildDone(p)'
  BY DEF ReconcileApply, ReconcileFails, Edit, Reconfigure, BuildEnds, BuildDone
<1>4. QED
  BY <1>1, <1>2, <1>3 DEF PublishedAfterBuild, RecordSound, VerdictSound, TickInv

(* The change handler returns.  The tick finds its facts unchanged.        *)
LEMMA ReconcilePatchInv ==
  ASSUME IInv, ReconcilePatch
  PROVE  IInv'
<1> USE FunctionAssumption DEF IInv, TypeOK, FunctionAssumption
<1>1. /\ status' = [status EXCEPT !.phase = "Building", !.ready = FALSE, !.condition = FALSE]
      /\ UNCHANGED <<spec, run, service, policy, crd, tick, edits, faults>>
      /\ handled' = change /\ change # None /\ resume' = FALSE /\ change' = None
  BY DEF ReconcilePatch, admission
<1>2. TypeOK'
  BY <1>1 DEF Statuses
<1>3. /\ status'.phase = "Building" /\ status'.ready = FALSE /\ status'.condition = FALSE
      /\ status'.serviceApplied = status.serviceApplied
  BY <1>1 DEF Statuses
<1>4. QED
  BY <1>1, <1>2, <1>3 DEF PublishedAfterBuild, RecordSound, VerdictSound, TickInv, BuildDone

(* The timer reads the build and decides.                                  *)
LEMMA TickGetInv ==
  ASSUME IInv, TickGet
  PROVE  IInv'
<1> USE FunctionAssumption DEF IInv, TypeOK, FunctionAssumption
<1>1. PICK pr \in {run, None} :
        /\ IF pr = run THEN UNCHANGED faults ELSE Fault
        /\ tick' = [action |-> next_action(pipelinerun_phase(pr)),
                    published |-> FALSE, spec |-> spec]
  BY DEF TickGet
<1>a. /\ UNCHANGED <<spec, status, run, service, policy, crd, handled, resume, change, edits>>
      /\ ~status.serviceApplied
  BY DEF TickGet, admission
<1>b. faults' \in 0..MaxFaults
  BY <1>1 DEF Fault
<1>2. /\ next_action(pipelinerun_phase(pr)) \in {"apply", "fail", "wait"}
      /\ next_action(pipelinerun_phase(pr)) = "apply" => BuildDone("Succeeded")
      /\ next_action(pipelinerun_phase(pr)) = "fail" => BuildDone("Failed")
  BY <1>1 DEF next_action, pipelinerun_phase, BuildDone, Runs, Phases
<1>3. tick' \in Ticks /\ tick'.published = FALSE
      /\ tick'.action = next_action(pipelinerun_phase(pr))
  BY <1>1, <1>2 DEF Ticks
<1>4. TypeOK'
  BY <1>3, <1>a, <1>b
<1>5. TickInv'
  BY <1>2, <1>3, <1>a DEF TickInv, BuildDone
<1>6. (PublishedAfterBuild /\ RecordSound /\ VerdictSound)'
  BY <1>a DEF PublishedAfterBuild, RecordSound, VerdictSound, BuildDone
<1>7. QED
  BY <1>4, <1>5, <1>6

(* The timer applies the ElpioService.                                     *)
LEMMA TickApplyInv ==
  ASSUME IInv, TickApply
  PROVE  IInv'
<1> USE FunctionAssumption DEF IInv, TypeOK, FunctionAssumption
<1>1. /\ tick \in Ticks /\ tick.action = "apply" /\ service' = render_service(tick.spec)
      /\ tick' = [tick EXCEPT !.published = TRUE]
      /\ UNCHANGED <<spec, status, run, policy, crd, handled, resume, change, edits, faults>>
  BY DEF TickApply, admission
<1>2. service' \in Specs /\ service' # None /\ tick' \in Ticks /\ tick'.action = "apply"
  BY <1>1 DEF Ticks, Specs, render_service
<1>3. BuildDone("Succeeded")
  BY <1>1 DEF TickInv
<1>4. QED
  BY <1>1, <1>2, <1>3 DEF PublishedAfterBuild, RecordSound, VerdictSound, TickInv, BuildDone

(* The timer's patch records what it knows.                                *)
LEMMA TickPatchInv ==
  ASSUME IInv, TickPatch
  PROVE  IInv'
<1> USE DEF IInv, TypeOK
<1>1. /\ tick \in Ticks /\ tick # None /\ (tick.action = "apply" => tick.published)
      /\ status' = Outcome(tick.action) /\ tick' = None
      /\ UNCHANGED <<spec, run, service, policy, crd, handled, resume, change, edits, faults>>
  BY DEF TickPatch, admission
<1>2. CASE tick.action = "apply"
  <2>1. status' = [status EXCEPT !.phase = "Ready", !.ready = TRUE, !.condition = TRUE,
                                 !.serviceApplied = TRUE]
    BY <1>1, <1>2 DEF Outcome
  <2>2. BuildDone("Succeeded") /\ service # None
    BY <1>1, <1>2 DEF TickInv
  <2>3. QED
    BY <1>1, <2>1, <2>2 DEF Statuses, PublishedAfterBuild, RecordSound, VerdictSound, TickInv, BuildDone
<1>3. CASE tick.action = "fail"
  <2>1. status' = [status EXCEPT !.phase = "BuildFailed", !.ready = FALSE, !.condition = FALSE]
    BY <1>1, <1>3 DEF Outcome
  <2>2. BuildDone("Failed")
    BY <1>1, <1>3 DEF TickInv
  <2>3. QED
    BY <1>1, <2>1, <2>2 DEF Statuses, PublishedAfterBuild, RecordSound, VerdictSound, TickInv, BuildDone
<1>4. CASE tick.action = "wait"
  <2>1. status' = [status EXCEPT !.phase = "Building", !.condition = FALSE]
    BY <1>1, <1>4 DEF Outcome
  <2>2. ~status.ready
    BY <1>1 DEF TickInv, RecordSound
  <2>3. QED
    BY <1>1, <2>1, <2>2 DEF Statuses, PublishedAfterBuild, RecordSound, VerdictSound, TickInv, BuildDone
<1>5. QED
  BY <1>1, <1>2, <1>3, <1>4 DEF Ticks

(* A failed or refused tick and a restart of the operator lose only  *)
(* what was in memory.                                                     *)
LEMMA LostWorkInv ==
  ASSUME IInv, TickFails \/ TickRefused \/ Restart
  PROVE  IInv'
<1> USE FunctionAssumption DEF IInv, TypeOK, FunctionAssumption
<1>1. /\ tick' = None /\ change' \in Specs \cup {None} /\ faults' \in 0..MaxFaults
      /\ UNCHANGED <<spec, status, run, service, policy, crd, handled, edits>>
  BY DEF TickFails, TickRefused, Restart, Fault, admission
<1>2. resume' \in BOOLEAN
  BY Zenon DEF TickFails, TickRefused, Restart
<1>3. QED
  BY <1>1, <1>2 DEF PublishedAfterBuild, RecordSound, VerdictSound, TickInv, BuildDone

(* IInv is an invariant.                                                   *)
THEOREM Inductive == Spec => []IInv
<1>1. IInv /\ [Next]_vars => IInv'
  <2>1. SUFFICES ASSUME IInv, [Next]_vars PROVE IInv'
    OBVIOUS
  <2>2. CASE UNCHANGED vars
    BY <2>1, <2>2 DEF vars, admission, IInv, TypeOK, PublishedAfterBuild, RecordSound,
       VerdictSound, TickInv, BuildDone
  <2>3. CASE Next
    BY <2>1, <2>3, QuietInv, ReconcilePatchInv, TickGetInv, TickApplyInv, TickPatchInv,
       LostWorkInv DEF Next, Reconcile, Tick
  <2>4. QED
    BY <2>1, <2>2, <2>3
<1>2. QED
  BY InitIInv, <1>1, PTL DEF Spec

(* The types of the state.                                                 *)
THEOREM TypeCorrect == Spec => []TypeOK
  BY Inductive, PTL DEF IInv

(* The ElpioService is never published before its build has succeeded.     *)
THEOREM NothingPublishedEarly == Spec => []PublishedAfterBuild
  BY Inductive, PTL DEF IInv

(* serviceApplied and ready are never set without an ElpioService.         *)
THEOREM RecordIsSound == Spec => []RecordSound
  BY Inductive, PTL DEF IInv

(* The phases Ready and BuildFailed and the Ready condition are true of    *)
(* the build.                                                              *)
THEOREM VerdictIsSound == Spec => []VerdictSound
  BY Inductive, PTL DEF IInv

-----------------------------------------------------------------------------
(* What the ban of latest is worth at the container: the image that is run *)
(* has a tag that pins it, or was a string with a port in its name.        *)
THEOREM PinnedWhenRun ==
  ASSUME NEW m \in Manifests, NEW p \in AllPolicies, NEW c \in {"shipped", "described"},
         Admits(m, p, c), p.ban_latest
  PROVE  /\ from_cr(patched(m)).image.tag = "pinned" \/ Cuts(m.image)
         /\ c = "shipped" => from_cr(patched(m)).image.tag = "pinned"
<1>1. m.image \in Images
  BY DEF Manifests, Admits, evaluate
<1>2. patched(m).image = m.image
  BY DEF patched, Manifests, NoScale
<1>3. from_cr(patched(m)).image.tag = m.image.tag
  BY <1>1, <1>2 DEF from_cr, ImageRun, Images
<1>4. c = "shipped" => ~Cuts(m.image)
  BY <1>2 DEF Admits, schema_accepts, Cuts
<1>5. ~Cuts(m.image) => m.image.tag = "pinned"
  BY <1>1 DEF Admits, evaluate, image_tag, Images
<1>6. QED
  BY <1>3, <1>4, <1>5

(* A text that starts another starts every longer one.                     *)
LEMMA PrefixOfConcat ==
  ASSUME NEW e \in Texts, NEW a \in Texts, NEW b \in Texts, IsPrefix(e, a)
  PROVE  IsPrefix(e, a \o b)
<1>1. /\ Len(e) \in Nat /\ Len(a) \in Nat /\ Len(b) \in Nat /\ Len(e) <= Len(a)
      /\ SubSeq(e, 1, Len(e)) = SubSeq(a, 1, Len(e))
  BY DEF IsPrefix, Texts
<1>2. a \o b \in Texts /\ Len(a \o b) = Len(a) + Len(b)
  BY ConcatProperties DEF Texts
<1>3. Len(e) <= Len(a \o b)
  BY <1>1, <1>2
<1>4. SubSeq(a, 1, Len(e)) = SubSeq(a \o b, 1, Len(e))
  BY <1>1, <1>2, <1>3, ConcatProperties, SubSeqProperties DEF Texts
<1>5. QED
  BY <1>1, <1>3, <1>4 DEF IsPrefix

(* What the list of allowed registries is worth: the name of the image     *)
(* that is run starts with an entry, also when a port was cut off before   *)
(* the comparison.                                                         *)
THEOREM AllowedWhenRun ==
  ASSUME NEW m \in Manifests, NEW p \in AllPolicies, NEW c \in {"shipped", "described"},
         Admits(m, p, c), p.registries # {}
  PROVE  \E e \in p.registries : IsPrefix(e, FullName(from_cr(patched(m)).image))
<1> DEFINE name == m.image.name
<1>1. m.image \in Images
  BY DEF Manifests, Admits, evaluate
<1>2. patched(m).image = m.image
  BY DEF patched, Manifests, NoScale
<1>3. FullName(from_cr(patched(m)).image) = name.head \o name.tail
  BY <1>1, <1>2 DEF from_cr, ImageRun, Images, FullName
<1>4. PICK e \in p.registries : IsPrefix(e, image_repository(m.image))
  BY DEF Admits, evaluate, Listed
<1>5. e \in Texts /\ name.head \in Texts /\ name.tail \in Texts
  BY <1>1, AdmissionAssumption DEF AdmissionAssumption, AllPolicies, Images
<1>6. CASE m.image.form = "string"
  BY <1>3, <1>4, <1>5, <1>6, PrefixOfConcat DEF image_repository
<1>7. CASE m.image.form # "string"
  BY <1>3, <1>4, <1>7 DEF image_repository, FullName
<1>8. QED
  BY <1>6, <1>7

(* The patch of the webhook says what the models would fill in anyway, and *)
(* a manifest that was admitted once is admitted as it was stored: the     *)
(* update of an object finds the policy satisfied that its creation did.   *)
THEOREM PatchIsNeutral ==
  ASSUME NEW m \in Manifests, NEW p \in AllPolicies, NEW c \in {"shipped", "described"}
  PROVE  /\ from_cr(patched(m)) = from_cr(m)
         /\ patched(patched(m)) = patched(m)
         /\ Admits(m, p, c) => Admits(patched(m), p, c)
<1>1. /\ patched(m).image = m.image /\ patched(m).requests = m.requests
      /\ patched(m).minScale = IF m.minScale = NoScale THEN 0 ELSE m.minScale
  BY DEF patched, Manifests, NoScale
<1>2. from_cr(patched(m)) = from_cr(m)
  BY <1>1 DEF from_cr, NoScale
<1>3. patched(patched(m)) = patched(m)
  BY <1>1 DEF patched, NoScale
<1>4. Admits(m, p, c) => Admits(patched(m), p, c)
  BY <1>1, <1>3 DEF Admits, evaluate, schema_accepts
<1>5. QED
  BY <1>2, <1>3, <1>4

-----------------------------------------------------------------------------
(* A tick in progress is one that found the record unset, and finds it so  *)
(* to its end; reconcile_function leaves the record alone.                 *)
LEMMA FrozenStep ==
  ASSUME IInv, [Next]_vars, status.serviceApplied
  PROVE  /\ UNCHANGED service
         /\ status'.serviceApplied
         /\ status' = status \/ (status'.phase = "Building" /\ ~status'.ready)
<1>1. tick = None
  BY DEF IInv, TickInv
<1>2. CASE ReconcilePatch
  <2>1. status \in Statuses /\ UNCHANGED service
    BY <1>2 DEF IInv, TypeOK, ReconcilePatch
  <2>2. status' = [status EXCEPT !.phase = "Building", !.ready = FALSE, !.condition = FALSE]
    BY <1>2 DEF ReconcilePatch
  <2>3. status'.phase = "Building"
    BY <2>1, <2>2 DEF Statuses
  <2>4. status'.serviceApplied /\ ~status'.ready
    BY <2>1, <2>2, Zenon DEF Statuses
  <2>5. QED
    BY <2>1, <2>3, <2>4
<1>3. CASE ~ReconcilePatch
  <2>1. service' = service /\ status' = status
    BY <1>1, <1>3 DEF Next, Reconcile, Tick, ReconcileApply, ReconcileFails, TickGet,
       TickApply, TickRefused, TickPatch, TickFails, Restart, Edit, Reconfigure, BuildEnds, vars
  <2>2. status'.serviceApplied = status.serviceApplied
    BY <2>1
  <2>3. status'.serviceApplied
    BY <2>2, Zenon
  <2>4. QED
    BY <2>1, <2>3
<1>4. QED
  BY <1>2, <1>3

(* The general form of the finding about "build in progress": nothing      *)
(* moves a function on once its publication is recorded.                   *)
THEOREM FrozenOnceRecorded == Spec => RecordFreezes
<1>1. IInv /\ [Next]_vars =>
        [status.serviceApplied =>
            /\ UNCHANGED service
            /\ status'.serviceApplied
            /\ status' = status \/ (status'.phase = "Building" /\ ~status'.ready)]_vars
  BY FrozenStep
<1>2. QED
  BY Inductive, <1>1, PTL DEF Spec, RecordFreezes
=============================================================================
