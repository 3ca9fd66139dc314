---------------------------- MODULE ServiceProofs -----------------------------
(***************************************************************************)
(* Theorems about ServiceReconcile, for any number of edits, reports and   *)
(* faults: a generation the status calls observed is applied in full, no   *)
(* object goes back to an older one, the two handlers never leave ready    *)
(* and the Ready condition apart, only an overtaken handler takes the      *)
(* condition's time from it, and Ready is never made up.                   *)
(***************************************************************************)
EXTENDS ServiceReconcile, TLAPS

(* Generations only grow, and nothing is ahead of the spec.                *)
GenerationsInv ==
    /\ spec.gen = edits + 1
    /\ status.observed <= spec.gen
    /\ \A o \in Objects : applied[o] <= spec.gen

(* What the change handler knows: its spec is the newest anything but the  *)
(* spec itself has seen, and the objects it has been through carry it.     *)
ChangeInv ==
    change # None =>
        /\ change.spec.gen <= spec.gen
        /\ change.spec.gen = spec.gen => change.spec = spec
        /\ status.observed <= change.spec.gen
        /\ \A o \in Objects : applied[o] <= change.spec.gen
        /\ \A i \in DOMAIN Render(change.spec) :
              i < change.next => applied[Render(change.spec)[i]] = change.spec.gen

IInv == TypeOK /\ GenerationsInv /\ ChangeInv /\ ObservedApplied /\ ReadyAgrees

-----------------------------------------------------------------------------
(* The rendered objects: one or two, and the engine never changes.         *)
LEMMA RenderFacts ==
  ASSUME NEW s
  PROVE  /\ Len(Render(s)) \in 1..2
         /\ DOMAIN Render(s) = 1..Len(Render(s))
         /\ \A i \in DOMAIN Render(s) : Render(s)[i] \in Objects
<1>1. ASSUME NEW a \in Objects, NEW b \in Objects, Render(s) = <<a, b>> \/ Render(s) = <<a>>
      PROVE  /\ Len(Render(s)) \in 1..2
             /\ DOMAIN Render(s) = 1..Len(Render(s))
             /\ \A i \in DOMAIN Render(s) : Render(s)[i] \in Objects
  BY <1>1
<1>2. \E a, b \in Objects : Render(s) = <<a, b>> \/ Render(s) = <<a>>
  <2>1. CASE engine = "knative"
    BY <2>1 DEF Render, render_knative, Objects, Gates
  <2>2. CASE engine # "knative"
    BY <2>2 DEF Render, render_keda, Objects, Gates
  <2>3. QED
    BY <2>1, <2>2
<1>3. QED
  BY <1>1, <1>2

(* The engine never changes, so the rendering of a spec does not.          *)
LEMMA RenderSame ==
  ASSUME UNCHANGED engine
  PROVE  /\ \A s : Render(s)' = Render(s)
         /\ \A s : change'.spec = s => Render(change.spec)' = Render(s)
  BY DEF Render, render_knative, render_keda

(* The invariant holds initially.                                          *)
LEMMA InitIInv == Init => IInv
<1> SUFFICES ASSUME Init PROVE IInv
  OBVIOUS
<1> USE ServiceAssumption DEF Init, ServiceAssumption
<1>1. TypeOK
  <2>a. [ready |-> None, timed |-> TRUE] \in Conditions
    BY DEF Conditions
  <2>1. /\ status \in [ready : BOOLEAN \cup {None}, conditions : Conditions,
                       observed : 0..(MaxEdits + 1)]
        /\ applied \in [Objects -> 0..(MaxEdits + 1)]
        /\ report \in [Objects -> [ready : BOOLEAN, about : 0..(MaxEdits + 1)]]
        /\ spec \in Specs
    BY <2>a
  <2>2. edits \in 0..MaxEdits /\ reports \in 0..MaxReports /\ faults \in 0..MaxFaults
    OBVIOUS
  <2>3. resume \in BOOLEAN
    BY Zenon
  <2>4. QED
    BY <2>1, <2>2, <2>3, Zenon DEF TypeOK
<1>2. GenerationsInv /\ ChangeInv /\ ReadyAgrees
  BY DEF GenerationsInv, ChangeInv, ReadyAgrees, Specs
<1>3. ObservedApplied
  BY DEF ObservedApplied, Specs
<1>4. QED
  BY <1>1, <1>2, <1>3 DEF IInv

(* The change handler starts on the current spec.                          *)
LEMMA ReconcileStartInv == IInv /\ ReconcileStart => IInv'
<1> SUFFICES ASSUME IInv, ReconcileStart PROVE IInv'
  OBVIOUS
<1> USE ServiceAssumption DEF ServiceAssumption, IInv
<1>1. /\ change' = [spec |-> spec, existing |-> status.conditions, next |-> 1, ready |-> FALSE]
      /\ UNCHANGED <<engine, spec, status, applied, report, handled, resume, tick,
                     edits, reports, faults>>
  BY Zenon DEF ReconcileStart
<1>a. [spec |-> spec, existing |-> status.conditions, next |-> 1, ready |-> FALSE] \in Changes
  BY DEF TypeOK, Changes
<1>2. TypeOK'
  BY <1>1, <1>a DEF TypeOK
<1>3. ChangeInv'
  <2>1. change'.spec = spec /\ change'.next = 1
    BY <1>1
  <2>2. Render(change.spec)' = Render(spec)
    BY <1>1, <2>1, RenderSame
  <2>3. \A i \in DOMAIN Render(spec) : ~(i < 1)
    BY RenderFacts
  <2>4. spec.gen \in Nat /\ spec.gen <= spec.gen
    BY DEF TypeOK, Specs, Generations
  <2>5. QED
    BY <1>1, <2>1, <2>2, <2>3, <2>4 DEF ChangeInv, GenerationsInv
<1>4. GenerationsInv' /\ ReadyAgrees'
  BY <1>1 DEF GenerationsInv, ReadyAgrees
<1>5. ObservedApplied'
  BY <1>1 DEF ObservedApplied, Render
<1>6. QED
  BY <1>2, <1>3, <1>4, <1>5

(* One object is applied: it was not ahead of the handler's spec.          *)
LEMMA ReconcileApplyInv == IInv /\ ReconcileApply => IInv'
<1> SUFFICES ASSUME IInv, ReconcileApply PROVE IInv'
  OBVIOUS
<1> USE ServiceAssumption DEF ServiceAssumption, IInv
<1> DEFINE g == change.spec.gen
           o == Render(change.spec)[change.next]
<1>1. /\ change \in Changes /\ change # None
      /\ change.spec \in Specs /\ g \in 1..(MaxEdits + 1) /\ change.next \in 1..4
  BY DEF ReconcileApply, TypeOK, Changes, Specs, Generations
<1>2. /\ change.next \in DOMAIN Render(change.spec) /\ change.next \in 1..2
      /\ o \in Objects
  BY <1>1, RenderFacts DEF ReconcileApply
<1>3. /\ applied' = [applied EXCEPT ![o] = g]
      /\ change' = [change EXCEPT !.next = @ + 1]
      /\ UNCHANGED <<engine, spec, status, report, handled, resume, tick, edits, reports, faults>>
  BY DEF ReconcileApply
<1>4. /\ change'.spec = change.spec /\ change'.next = change.next + 1
      /\ change' \in Changes
  BY <1>1, <1>2, <1>3 DEF Changes
<1>5. /\ applied' \in [Objects -> 0..(MaxEdits + 1)]
      /\ applied'[o] = g /\ \A p \in Objects \ {o} : applied'[p] = applied[p]
  BY <1>1, <1>2, <1>3 DEF TypeOK
<1>6. TypeOK'
  BY <1>3, <1>4, <1>5 DEF TypeOK
<1>7. GenerationsInv'
  BY <1>1, <1>3, <1>5 DEF GenerationsInv, ChangeInv
<1>8. ChangeInv'
  <2>1. Render(change.spec)' = Render(change.spec)
    BY <1>3, <1>4, RenderSame
  <2>2. \A i \in DOMAIN Render(change.spec) :
            i < change.next + 1 => applied'[Render(change.spec)[i]] = g
    <3> SUFFICES ASSUME NEW i \in DOMAIN Render(change.spec), i < change.next + 1
                 PROVE  applied'[Render(change.spec)[i]] = g
      OBVIOUS
    <3>1. Render(change.spec)[i] \in Objects /\ i \in 1..2
      BY RenderFacts
    <3>2. CASE i = change.next
      BY <3>2, <1>5
    <3>3. CASE i < change.next
      BY <3>1, <3>3, <1>1, <1>5 DEF ChangeInv
    <3>4. QED
      BY <3>1, <3>2, <3>3, <1>2
  <2>3. \A p \in Objects : applied'[p] <= g
    BY <1>1, <1>5 DEF ChangeInv, TypeOK
  <2>4. QED
    BY <1>1, <1>3, <1>4, <2>1, <2>2, <2>3 DEF ChangeInv
<1>9. ObservedApplied'
  <2> SUFFICES ASSUME NEW i \in DOMAIN Render(spec), status.observed = spec.gen
               PROVE  applied'[Render(spec)[i]] = spec.gen
    BY <1>3 DEF ObservedApplied, Render
  <2>1. g = spec.gen
    <3>1. spec.gen \in Nat
      BY DEF TypeOK, Specs, Generations
    <3>2. g <= spec.gen /\ status.observed <= g
      BY <1>1 DEF ChangeInv
    <3>3. QED
      BY <1>1, <3>1, <3>2
  <2>2. Render(spec)[i] \in Objects
    BY RenderFacts
  <2>3. applied[Render(spec)[i]] = spec.gen
    BY Zenon DEF ObservedApplied
  <2>4. QED
    BY <2>1, <2>2, <2>3, <1>5
<1>10. ReadyAgrees'
  BY <1>3 DEF ReadyAgrees
<1>11. QED
  BY <1>6, <1>7, <1>8, <1>9, <1>10

(* What a patch makes of the conditions, and of those the other handler    *)
(* holds, are conditions.                                                  *)
LEMMA MergeType ==
  ASSUME NEW existing \in Conditions, NEW ready \in BOOLEAN
  PROVE  /\ merge_conditions(existing, ready) \in Conditions
         /\ merge_conditions(existing, ready).ready = ready
         /\ Aged(existing, ready) \in Conditions
<1>1. /\ Flips(ready) \in BOOLEAN
      /\ existing.timed \in BOOLEAN
  BY DEF Flips, Conditions
<1>2. (IF existing.ready = ready THEN existing.timed /\ ~Flips(ready) ELSE Flips(ready)) \in BOOLEAN
  BY <1>1, Zenon
<1>3. (existing.timed /\ ~Flips(ready)) \in BOOLEAN
  BY <1>1, Zenon
<1>4. Aged(existing, ready) = [ready |-> existing.ready, timed |-> existing.timed /\ ~Flips(ready)]
  BY DEF Aged, Conditions
<1>5. QED
  BY <1>2, <1>3, <1>4 DEF merge_conditions, Conditions

(* The child is read back: only the handler's own progress changes.        *)
LEMMA ReconcileReadInv == IInv /\ ReconcileRead => IInv'
<1> SUFFICES ASSUME IInv, ReconcileRead PROVE IInv'
  OBVIOUS
<1> USE ServiceAssumption DEF ServiceAssumption, IInv
<1>1. PICK r \in BOOLEAN :
          /\ ReadReady(change.spec, r)
          /\ change' = [change EXCEPT !.next = @ + 1, !.ready = r]
  BY DEF ReconcileRead
<1>2. /\ change \in Changes /\ change # None
      /\ change.next = Len(Render(change.spec)) + 1
      /\ UNCHANGED <<engine, spec, status, applied, report, handled, resume, tick, edits, reports>>
  BY DEF ReconcileRead, TypeOK
<1>a. change' = [change EXCEPT !.next = @ + 1, !.ready = r]
  BY <1>1
<1>3. faults' \in 0..MaxFaults
  BY <1>1 DEF ReadReady, get_object, Fault, TypeOK
<1>4. change.next \in 2..3
  <2>1. Len(Render(change.spec)) \in 1..2
    BY RenderFacts
  <2>2. \A n \in 1..2 : n + 1 \in 2..3
    OBVIOUS
  <2>3. change.next = Len(Render(change.spec)) + 1
    BY <1>2
  <2>4. QED
    BY <2>1, <2>2, <2>3, Zenon
<1>5. /\ change' \in Changes /\ change'.spec = change.spec
      /\ change'.next = change.next + 1
  <2>1. change \in [spec : Specs, existing : Conditions, next : 1..4, ready : BOOLEAN]
    BY <1>2 DEF Changes
  <2>2. change' = [spec |-> change.spec, existing |-> change.existing,
                   next |-> change.next + 1, ready |-> r]
    BY <1>a, <2>1
  <2>3. change.next + 1 \in 1..4 /\ change.spec \in Specs /\ change.existing \in Conditions
    BY <1>4, <2>1
  <2>4. QED
    BY <2>2, <2>3 DEF Changes
<1>6. TypeOK'
  BY <1>2, <1>3, <1>5 DEF TypeOK
<1>7. ChangeInv'
  <2>1. Render(change.spec)' = Render(change.spec)
    BY <1>2, <1>5, RenderSame
  <2>2. \A i \in DOMAIN Render(change.spec) : i < change.next
    BY <1>2, RenderFacts
  <2>3. QED
    BY <1>2, <1>5, <2>1, <2>2 DEF ChangeInv
<1>8. GenerationsInv' /\ ReadyAgrees'
  BY <1>2 DEF GenerationsInv, ReadyAgrees
<1>9. ObservedApplied'
  BY <1>2 DEF ObservedApplied, Render
<1>10. QED
  BY <1>6, <1>7, <1>8, <1>9

(* The handler's patch: all its objects are applied by now.                *)
LEMMA ReconcilePatchInv == IInv /\ ReconcilePatch => IInv'
<1> SUFFICES ASSUME IInv, ReconcilePatch PROVE IInv'
  OBVIOUS
<1> USE ServiceAssumption DEF ServiceAssumption, IInv
<1> DEFINE merged == merge_conditions(change.existing, change.ready)
<1>1. /\ change \in Changes /\ change # None
      /\ change.spec \in Specs /\ change.ready \in BOOLEAN /\ change.existing \in Conditions
      /\ change.spec.gen \in 1..(MaxEdits + 1)
      /\ change.next = Len(Render(change.spec)) + 2
      /\ status' = [ready |-> change.ready, conditions |-> merged, observed |-> change.spec.gen]
      /\ handled' = change.spec /\ resume' = FALSE /\ change' = None
      /\ UNCHANGED <<engine, spec, applied, report, edits, reports, faults>>
  BY DEF ReconcilePatch, TypeOK, Changes, Specs, Generations
<1>a. merged \in Conditions /\ merged.ready = change.ready
  BY <1>1, MergeType
<1>2. TypeOK'
  <2>1. status' \in [ready : BOOLEAN \cup {None}, conditions : Conditions,
                     observed : 0..(MaxEdits + 1)]
    BY <1>1, <1>a
  <2>2. handled' \in Specs /\ resume' \in BOOLEAN
    BY <1>1, Zenon
  <2>3. tick' \in Ticks \cup {None}
    <3>1. CASE tick = None
      BY <3>1 DEF ReconcilePatch
    <3>2. CASE tick # None
      <4>1. tick \in Ticks /\ Aged(tick.existing, change.ready) \in Conditions
        BY <1>1, <3>2, MergeType DEF TypeOK, Ticks
      <4>2. tick' = [tick EXCEPT !.existing = Aged(@, change.ready)]
        BY <3>2 DEF ReconcilePatch
      <4>3. QED
        BY <4>1, <4>2 DEF Ticks
    <3>3. QED
      BY <3>1, <3>2
  <2>4. QED
    BY <1>1, <2>1, <2>2, <2>3 DEF TypeOK
<1>3. GenerationsInv' /\ ChangeInv' /\ ReadyAgrees'
  BY <1>1, <1>a DEF GenerationsInv, ChangeInv, ReadyAgrees
<1>4. ObservedApplied'
  <2> SUFFICES ASSUME NEW i \in DOMAIN Render(spec), change.spec.gen = spec.gen
               PROVE  applied[Render(spec)[i]] = spec.gen
    BY <1>1 DEF ObservedApplied, Render
  <2>1. change.spec = spec
    BY <1>1 DEF ChangeInv
  <2>2. i < change.next
    BY <1>1, <2>1, RenderFacts
  <2>3. QED
    BY <1>1, <2>1, <2>2 DEF ChangeInv
<1>5. QED
  BY <1>2, <1>3, <1>4

(* A failed handler, a restart, the children's controllers.                *)
LEMMA QuietInv ==
  ASSUME IInv,
         \/ ReconcileFails \/ Restart \/ TickRead \/ TickFails
         \/ \E o \in Gates : ChildReports(o)
  PROVE  IInv'
<1> USE ServiceAssumption DEF ServiceAssumption, IInv
<1>1. /\ UNCHANGED <<engine, spec, status, applied, handled, edits>>
      /\ change' = change \/ change' = None
  BY DEF ReconcileFails, Restart, TickRead, TickFails, ChildReports
<1>2. TypeOK'
  <2>1. CASE ReconcileFails
    BY <2>1 DEF TypeOK, ReconcileFails, Fault
  <2>2. CASE Restart
    BY <2>2 DEF TypeOK, Restart, Fault
  <2>3. CASE TickRead
    <3>1. PICK r \in BOOLEAN : /\ ReadReady(spec, r)
                               /\ tick' = [ready |-> r, existing |-> status.conditions]
      BY <2>3 DEF TickRead
    <3>2. tick' \in Ticks
      BY <3>1 DEF Ticks, TypeOK
    <3>3. faults' \in 0..MaxFaults
      BY <3>1 DEF TypeOK, ReadReady, get_object, Fault
    <3>4. QED
      BY <2>3, <3>2, <3>3 DEF TypeOK, TickRead
  <2>4. CASE TickFails
    BY <2>4 DEF TypeOK, TickFails, Fault
  <2>5. CASE \E o \in Gates : ChildReports(o)
    <3>1. PICK o \in Gates, r \in BOOLEAN :
              /\ reports < MaxReports /\ reports' = reports + 1
              /\ report' = [report EXCEPT ![o] = [ready |-> r, about |-> applied[o]]]
              /\ UNCHANGED <<engine, spec, status, applied, handled, resume, change, tick, edits, faults>>
      BY <2>5 DEF ChildReports
    <3>2. o \in Objects
      BY DEF Objects
    <3>3. report' \in [Objects -> [ready : BOOLEAN, about : 0..(MaxEdits + 1)]]
      BY <3>1, <3>2 DEF TypeOK
    <3>4. QED
      BY <3>1, <3>3 DEF TypeOK
  <2>6. QED
    BY <2>1, <2>2, <2>3, <2>4, <2>5
<1>3. GenerationsInv' /\ ReadyAgrees' /\ ObservedApplied'
  BY <1>1 DEF GenerationsInv, ReadyAgrees, ObservedApplied, Render
<1>4. ChangeInv'
  BY <1>1 DEF ChangeInv, Render
<1>5. QED
  BY <1>2, <1>3, <1>4

(* The timer's patch leaves the generation alone.                          *)
LEMMA TickPatchInv == IInv /\ TickPatch => IInv'
<1> SUFFICES ASSUME IInv, TickPatch PROVE IInv'
  OBVIOUS
<1> USE ServiceAssumption DEF ServiceAssumption, IInv
<1> DEFINE merged == merge_conditions(tick.existing, tick.ready)
<1>1. /\ tick \in Ticks /\ tick.ready \in BOOLEAN /\ tick.existing \in Conditions
      /\ status' = [ready |-> tick.ready, conditions |-> merged, observed |-> status.observed]
      /\ tick' = None
      /\ UNCHANGED <<engine, spec, applied, report, handled, resume, edits, reports, faults>>
  BY DEF TickPatch, TypeOK, Ticks
<1>2. /\ status' \in [ready : BOOLEAN \cup {None}, conditions : Conditions,
                      observed : 0..(MaxEdits + 1)]
      /\ status'.observed = status.observed /\ status'.ready = status'.conditions.ready
  BY <1>1, MergeType DEF TypeOK
<1>3. \/ change = None /\ change' = None
      \/ /\ change # None /\ change' \in Changes
         /\ change'.spec = change.spec /\ change'.next = change.next
  <2>1. CASE change = None
    BY <2>1 DEF TickPatch
  <2>2. CASE change # None
    <3>1. change \in Changes /\ Aged(change.existing, tick.ready) \in Conditions
      BY <1>1, <2>2, MergeType DEF TypeOK, Changes
    <3>2. change' = [change EXCEPT !.existing = Aged(@, tick.ready)]
      BY <2>2 DEF TickPatch
    <3>3. /\ change' \in Changes
          /\ change'.spec = change.spec /\ change'.next = change.next
      BY <3>1, <3>2 DEF Changes
    <3>4. QED
      BY <2>2, <3>3
  <2>3. QED
    BY <2>1, <2>2
<1>4. TypeOK'
  BY <1>1, <1>2, <1>3 DEF TypeOK
<1>5. GenerationsInv' /\ ReadyAgrees' /\ ObservedApplied'
  BY <1>1, <1>2 DEF GenerationsInv, ReadyAgrees, ObservedApplied, Render
<1>6. ChangeInv'
  <2>1. CASE change' = None
    BY <2>1 DEF ChangeInv
  <2>2. CASE change' # None
    <3>1. change # None /\ change'.spec = change.spec /\ change'.next = change.next
      BY <1>3, <2>2
    <3>2. Render(change.spec)' = Render(change.spec)
      BY <1>1, <3>1, RenderSame
    <3>3. QED
      BY <1>1, <1>2, <3>1, <3>2 DEF ChangeInv
  <2>3. QED
    BY <2>1, <2>2
<1>7. QED
  BY <1>4, <1>5, <1>6

(* An edit: what was observed or applied is of an older generation now.    *)
LEMMA EditInv == IInv /\ Edit => IInv'
<1> SUFFICES ASSUME IInv, Edit PROVE IInv'
  OBVIOUS
<1> USE ServiceAssumption DEF ServiceAssumption, IInv
<1>1. /\ spec' \in Specs /\ spec'.gen = spec.gen + 1 /\ edits' = edits + 1
      /\ edits < MaxEdits
      /\ UNCHANGED <<engine, status, applied, report, handled, resume, change, tick, reports, faults>>
  BY DEF Edit, GenerationsInv, TypeOK, Specs, Generations
<1>2. spec.gen \in Nat /\ status.observed \in Nat /\ \A o \in Objects : applied[o] \in Nat
  BY DEF TypeOK, Specs, Generations
<1>3. TypeOK'
  BY <1>1 DEF TypeOK
<1>4. GenerationsInv'
  BY <1>1, <1>2 DEF GenerationsInv, TypeOK
<1>5. ChangeInv'
  BY <1>1, <1>2 DEF ChangeInv, TypeOK, Changes, Specs, Generations, Render
<1>6. ObservedApplied' /\ ReadyAgrees'
  BY <1>1, <1>2 DEF ObservedApplied, ReadyAgrees, GenerationsInv
<1>7. QED
  BY <1>3, <1>4, <1>5, <1>6

(* Every step preserves the invariant.                                     *)
LEMMA InductiveStep == IInv /\ [Next]_vars => IInv'
<1> SUFFICES ASSUME IInv, [Next]_vars PROVE IInv'
  OBVIOUS
<1>1. CASE Reconcile
  BY <1>1, ReconcileStartInv, ReconcileApplyInv, ReconcileReadInv, ReconcilePatchInv
     DEF Reconcile
<1>2. CASE ReconcileFails \/ Restart \/ TickRead \/ TickFails \/ \E o \in Gates : ChildReports(o)
  BY <1>2, QuietInv
<1>3. CASE TickPatch
  BY <1>3, TickPatchInv
<1>4. CASE Edit
  BY <1>4, EditInv
<1>5. CASE UNCHANGED vars
  BY <1>5 DEF vars, IInv, TypeOK, GenerationsInv, ChangeInv, ObservedApplied, ReadyAgrees, Render
<1>6. QED
  BY <1>1, <1>2, <1>3, <1>4, <1>5 DEF Next, Tick

(* The invariant holds in every reachable state.                           *)
THEOREM Inductive == Spec => []IInv
  BY InitIInv, InductiveStep, PTL DEF Spec

(* The types of the state, and with them the bounds of the generations.    *)
THEOREM TypeCorrect == Spec => []TypeOK
<1>1. IInv => TypeOK
  BY DEF IInv
<1>2. QED
  BY Inductive, <1>1, PTL

(* common.py:37-49, handlers.py:93: observedGeneration names a generation  *)
(* whose objects are all applied, whatever failed before.                  *)
THEOREM ObservedIsApplied == Spec => []ObservedApplied
<1>1. IInv => ObservedApplied
  BY DEF IInv
<1>2. QED
  BY Inductive, <1>1, PTL

(* handlers.py:94-95, 123-124: ready and the Ready condition agree.        *)
THEOREM HandlersAgree == Spec => []ReadyAgrees
<1>1. IInv => ReadyAgrees
  BY DEF IInv
<1>2. QED
  BY Inductive, <1>1, PTL

(* A patch made from the stored conditions leaves the right time.          *)
LEMMA MergeTimed ==
  ASSUME NEW existing, NEW ready, Current(existing)
  PROVE  merge_conditions(existing, ready).timed
<1> DEFINE t == IF existing.ready = ready THEN existing.timed /\ ~Flips(ready) ELSE Flips(ready)
<1>1. t
  <2>1. CASE existing.ready = ready
    BY <2>1, Zenon DEF Current, Flips
  <2>2. CASE existing.ready # ready
    BY <2>2, Zenon DEF Current, Flips
  <2>3. QED
    BY <2>1, <2>2, Zenon
<1>2. merge_conditions(existing, ready) = [ready |-> ready, timed |-> t]
  BY Zenon DEF merge_conditions
<1> HIDE DEF t
<1>3. [ready |-> ready, timed |-> t].timed = t
  BY Zenon
<1>4. QED
  BY <1>1, <1>2, <1>3, Zenon

(* One patch keeps the time of the condition, unless its handler has been  *)
(* overtaken.                                                              *)
LEMMA TimedStep ==
  ASSUME IInv, [Next]_vars, status.conditions.timed, ~status'.conditions.timed
  PROVE  \/ change # None /\ change' = None /\ ~Current(change.existing)
         \/ tick # None /\ tick' = None /\ ~Current(tick.existing)
<1>1. CASE ReconcilePatch
  <2>1. /\ change # None /\ change' = None
        /\ status'.conditions = merge_conditions(change.existing, change.ready)
    BY <1>1 DEF ReconcilePatch
  <2>2. ~Current(change.existing)
    BY <2>1, MergeTimed, Zenon
  <2>3. QED
    BY <2>1, <2>2
<1>2. CASE TickPatch
  <2>1. /\ tick # None /\ tick' = None
        /\ status'.conditions = merge_conditions(tick.existing, tick.ready)
    BY <1>2 DEF TickPatch
  <2>2. ~Current(tick.existing)
    BY <2>1, MergeTimed, Zenon
  <2>3. QED
    BY <2>1, <2>2
<1>3. CASE ~ReconcilePatch /\ ~TickPatch
  <2>1. UNCHANGED status
    BY <1>3 DEF Next, Reconcile, Tick, ReconcileStart, ReconcileRead, ReconcileApply,
       ReconcileFails, TickRead, TickFails, Restart, Edit, ChildReports, vars
  <2>2. QED
    BY <2>1
<1>4. QED
  BY <1>1, <1>2, <1>3

(* status.py:15, 46-48: the time of the Ready condition moves exactly when *)
(* the status flips, unless the handler that patches it has been overtaken *)
(* by the other one.                                                       *)
THEOREM TransitionTimes == Spec => TimedUnlessOvertaken
<1>1. IInv /\ [Next]_vars =>
        [status.conditions.timed /\ ~status'.conditions.timed =>
            \/ change # None /\ change' = None /\ ~Current(change.existing)
            \/ tick # None /\ tick' = None /\ ~Current(tick.existing)]_vars
  BY TimedStep
<1>2. QED
  BY Inductive, <1>1, PTL DEF Spec, TimedUnlessOvertaken

(* One step of an apply does not take an object back.                      *)
LEMMA ForwardStep ==
  IInv /\ [Next]_vars => [\A o \in Objects : applied'[o] >= applied[o]]_vars
<1> SUFFICES ASSUME IInv, [Next]_vars, NEW o \in Objects PROVE applied'[o] >= applied[o]
  OBVIOUS
<1> USE ServiceAssumption DEF ServiceAssumption, IInv
<1>1. applied[o] \in Nat
  BY DEF TypeOK
<1>2. CASE ReconcileApply
  BY <1>2, <1>1 DEF ReconcileApply, TypeOK, ChangeInv, Changes, Specs, Generations
<1>3. CASE ~ReconcileApply
  <2>1. UNCHANGED applied
    BY <1>3 DEF Next, Reconcile, Tick, ReconcileStart, ReconcileRead, ReconcilePatch,
       ReconcileFails, TickRead, TickPatch, TickFails, Restart, Edit, ChildReports, vars
  <2>2. QED
    BY <1>1, <2>1
<1>4. QED
  BY <1>2, <1>3

(* No object goes back to the rendering of an older spec, through retries, *)
(* restarts and edits.                                                     *)
THEOREM NeverBackwards == Spec => AppliesForward
  BY Inductive, ForwardStep, PTL DEF Spec, AppliesForward

-----------------------------------------------------------------------------
(* A controller of the engine has processed an object that was applied.    *)
Reported == \E o \in Gates : report[o].about > 0

(* Ready is not made up: some controller has reported on what the operator *)
(* applied before the status first says ready.                             *)
ReadyIsReported == status.ready = TRUE => Reported

(* A readiness that a handler has read, or the status shows, was reported. *)
ReportInv ==
    /\ \A o \in Gates : report[o].ready => report[o].about > 0
    /\ change # None /\ change.ready => Reported
    /\ tick # None /\ tick.ready => Reported
    /\ ReadyIsReported

(* What is read as ready was reported.                                     *)
LEMMA ReadReported ==
  ASSUME ReportInv, NEW s, NEW r \in BOOLEAN, ReadReady(s, r), r
  PROVE  Reported
<1>1. PICK child \in {report[PrimaryChild(s)], None} :
        get_object(PrimaryChild(s), child) /\ r = child_ready(child)
  BY DEF ReadReady
<1>2. child # None /\ child = report[PrimaryChild(s)] /\ child.ready
  BY <1>1, Zenon DEF child_ready
<1>3. PrimaryChild(s) \in Gates
  BY DEF PrimaryChild, Gates
<1>4. report[PrimaryChild(s)].ready
  BY <1>2, Zenon
<1>5. report[PrimaryChild(s)].about > 0
  BY <1>3, <1>4, Zenon DEF ReportInv
<1>6. QED
  BY <1>3, <1>5 DEF Reported

(* A report is about an object that exists.                                *)
LEMMA ReportStep ==
  ASSUME TypeOK, ReportInv, NEW o \in Gates, ChildReports(o)
  PROVE  ReportInv'
<1>1. PICK r \in BOOLEAN : report' = [report EXCEPT ![o] = [ready |-> r, about |-> applied[o]]]
  BY DEF ChildReports
<1>2. applied[o] > 0 /\ UNCHANGED <<status, change, tick>>
  BY DEF ChildReports
<1>3. Gates \subseteq Objects
  BY DEF Objects
<1>4. report'[o].about > 0 /\ \A p \in Gates \ {o} : report'[p] = report[p]
  BY <1>1, <1>2, <1>3 DEF TypeOK
<1>5. Reported'
  BY <1>4 DEF Reported
<1>6. \A p \in Gates : report'[p].ready => report'[p].about > 0
  <2> SUFFICES ASSUME NEW p \in Gates, report'[p].ready PROVE report'[p].about > 0
    OBVIOUS
  <2>1. CASE p = o
    BY <1>4, <2>1
  <2>2. CASE p # o
    <3>1. report'[p] = report[p]
      BY <1>4, <2>2
    <3>2. report[p].ready
      BY <3>1, Zenon
    <3>3. report[p].about > 0
      BY <3>2, Zenon DEF ReportInv
    <3>4. QED
      BY <3>1, <3>3
  <2>3. QED
    BY <2>1, <2>2
<1>7. QED
  BY <1>5, <1>6, Zenon DEF ReportInv, ReadyIsReported

(* The handlers carry what was read to the status and make nothing of      *)
(* their own.                                                              *)
LEMMA ReportNext == TypeOK /\ ReportInv /\ [Next]_vars => ReportInv'
<1> SUFFICES ASSUME TypeOK, ReportInv, [Next]_vars PROVE ReportInv'
  OBVIOUS
<1>1. CASE \E o \in Gates : ChildReports(o)
  BY <1>1, ReportStep
<1>2. CASE ~(\E o \in Gates : ChildReports(o))
  <2>1. report' = report
    BY <1>2 DEF Next, Reconcile, Tick, ReconcileStart, ReconcileRead, ReconcileApply,
       ReconcilePatch, ReconcileFails, TickRead, TickPatch, TickFails, Restart, Edit, vars
  <2>2. Reported' <=> Reported
    BY <2>1 DEF Reported
  <2>3. change' # None /\ change'.ready => Reported
    <3> SUFFICES ASSUME change' # None, change'.ready PROVE Reported
      OBVIOUS
    <3>1. CASE ReconcileStart
      <4>1. change'.ready = FALSE
        BY <3>1 DEF ReconcileStart
      <4>2. QED
        BY <4>1, Zenon
    <3>2. CASE ReconcileRead
      <4>1. change \in Changes
        BY <3>2 DEF ReconcileRead, TypeOK
      <4>2. PICK r \in BOOLEAN :
              ReadReady(change.spec, r) /\ change' = [change EXCEPT !.next = @ + 1, !.ready = r]
        BY <3>2 DEF ReconcileRead
      <4>3. change'.ready = r
        BY <4>1, <4>2 DEF Changes
      <4>4. r
        BY <4>3, Zenon
      <4>5. QED
        BY <4>2, <4>4, ReadReported
    <3>3. CASE ~ReconcileStart /\ ~ReconcileRead
      <4>1. change # None /\ (change' = change \/ ReconcileApply \/ TickPatch)
        BY <1>2, <3>3 DEF Next, Reconcile, Tick, ReconcileApply, ReconcilePatch, ReconcileFails,
           TickRead, TickPatch, TickFails, Restart, Edit, vars
      <4>2. change \in Changes
        BY <4>1 DEF TypeOK
      <4>3. change'.ready = change.ready
        BY <4>1, <4>2 DEF ReconcileApply, TickPatch, Changes
      <4>4. change.ready
        BY <4>3, Zenon
      <4>5. QED
        BY <4>1, <4>4, Zenon DEF ReportInv
    <3>4. QED
      BY <3>1, <3>2, <3>3
  <2>4. tick' # None /\ tick'.ready => Reported
    <3> SUFFICES ASSUME tick' # None, tick'.ready PROVE Reported
      OBVIOUS
    <3>1. CASE TickRead
      <4>1. PICK r \in BOOLEAN :
              ReadReady(spec, r) /\ tick' = [ready |-> r, existing |-> status.conditions]
        BY <3>1 DEF TickRead
      <4>2. tick'.ready = r
        BY <4>1
      <4>3. r
        BY <4>2, Zenon
      <4>4. QED
        BY <4>1, <4>3, ReadReported
    <3>2. CASE ~TickRead
      <4>1. tick # None /\ (tick' = tick \/ ReconcilePatch)
        BY <1>2, <3>2 DEF Next, Reconcile, Tick, ReconcileStart, ReconcileRead, ReconcileApply,
           ReconcilePatch, ReconcileFails, TickPatch, TickFails, Restart, Edit, vars
      <4>2. tick \in Ticks
        BY <4>1 DEF TypeOK
      <4>3. tick'.ready = tick.ready
        BY <4>1, <4>2 DEF ReconcilePatch, Ticks
      <4>4. tick.ready
        BY <4>3, Zenon
      <4>5. QED
        BY <4>1, <4>4, Zenon DEF ReportInv
    <3>3. QED
      BY <3>1, <3>2
  <2>5. status'.ready = TRUE => Reported
    <3> SUFFICES ASSUME status'.ready = TRUE PROVE Reported
      OBVIOUS
    <3>1. CASE ReconcilePatch
      <4>1. change # None /\ status'.ready = change.ready
        BY <3>1 DEF ReconcilePatch
      <4>2. QED
        BY <4>1, Zenon DEF ReportInv
    <3>2. CASE TickPatch
      <4>1. tick # None /\ status'.ready = tick.ready
        BY <3>2 DEF TickPatch
      <4>2. QED
        BY <4>1, Zenon DEF ReportInv
    <3>3. CASE ~ReconcilePatch /\ ~TickPatch
      <4>1. status' = status
        BY <1>2, <3>3 DEF Next, Reconcile, Tick, ReconcileStart, ReconcileRead, ReconcileApply,
           ReconcileFails, TickRead, TickFails, Restart, Edit, vars
      <4>2. status.ready = TRUE
        BY <4>1
      <4>3. QED
        BY <4>2 DEF ReportInv, ReadyIsReported
    <3>4. QED
      BY <3>1, <3>2, <3>3
  <2>6. \A o \in Gates : report'[o].ready => report'[o].about > 0
    BY <2>1, Zenon DEF ReportInv
  <2>7. QED
    BY <2>2, <2>3, <2>4, <2>5, <2>6, Zenon DEF ReportInv, ReadyIsReported
<1>3. QED
  BY <1>1, <1>2

(* handlers.py:17-20: Ready mirrors the child.  What is true of that with  *)
(* any edits, overtaken handlers and restarts: it is never reported before *)
(* a controller has reported.                                              *)
THEOREM ReadyNotMadeUp == Spec => []ReadyIsReported
<1>1. Init => ReportInv
  <2> SUFFICES ASSUME Init PROVE ReportInv
    OBVIOUS
  <2>1. \A o \in Gates : report[o].ready = FALSE
    BY DEF Init, Objects
  <2>2. change = None /\ tick = None /\ status.ready = None
    BY DEF Init
  <2>3. None # TRUE
    BY ServiceAssumption DEF ServiceAssumption
  <2>4. QED
    BY <2>1, <2>2, <2>3, Zenon DEF ReportInv, ReadyIsReported
<1>2. ReportInv => ReadyIsReported
  BY DEF ReportInv
<1>3. QED
  BY <1>1, <1>2, ReportNext, TypeCorrect, PTL DEF Spec
=============================================================================
