-------------------------- MODULE TaskTenantProofs ---------------------------
(***************************************************************************)
(* Theorems about TaskTenantReconcile, for any numbers of edits, fillings  *)
(* of the queue and faults, and any choice of optional objects: what the   *)
(* status says was observed is applied in full, and a tenant's members get *)
(* access under a spec only when the guardrails of that spec are in place. *)
(***************************************************************************)
EXTENDS TaskTenantReconcile, SequenceTheorems, TLAPS

(* Generations only grow, and nothing is ahead of the spec.                *)
GenerationsInv ==
    /\ spec.gen = edits + 1
    /\ status.observed <= spec.gen
    /\ \A o \in Objects : applied[o] <= spec.gen

(* What the handler knows: its spec is the newest that anything but the    *)
(* spec itself has seen, and the objects it has been through carry it.     *)
ChangeInv ==
    change # None =>
        /\ change.spec.gen <= spec.gen
        /\ change.spec.gen = spec.gen => change.spec = spec
        /\ status.observed <= change.spec.gen
        /\ \A o \in Objects : applied[o] <= change.spec.gen
        /\ \A i \in DOMAIN Render(change.spec) :
              i < change.next => applied[Render(change.spec)[i]] = change.spec.gen

IInv == TypeOK /\ GenerationsInv /\ ChangeInv /\ ObservedApplied /\ GuardedBeforeGranted

-----------------------------------------------------------------------------
(* Two lists of objects, one after the other.                              *)
LEMMA ConcatFacts ==
  ASSUME NEW a \in Seq(Objects), NEW b \in Seq(Objects)
  PROVE  /\ a \o b \in Seq(Objects)
         /\ Len(a \o b) = Len(a) + Len(b)
         /\ \A i \in 1..Len(a) : (a \o b)[i] = a[i]
         /\ Range(a \o b) = Range(a) \cup Range(b)
<1>1. Len(a) \in Nat /\ Len(b) \in Nat
  OBVIOUS
<1>2. \A i \in 1..Len(a) : i \in 1..(Len(a) + Len(b)) /\ i <= Len(a)
  BY <1>1
<1>3. QED
  BY <1>2, ConcatProperties, RangeConcatenation

(* An optional object is there when the spec asks for it.                  *)
LEMMA OptionalFacts ==
  ASSUME NEW s, NEW o \in Objects
  PROVE  /\ Optional(s, o) \in Seq(Objects)
         /\ Len(Optional(s, o)) <= 1
         /\ Range(Optional(s, o)) = {o} \cap s.options
<1>1. CASE o \in s.options
  <2>1. Optional(s, o) = <<o>> /\ DOMAIN <<o>> = {1} /\ <<o>>[1] = o
    BY <1>1 DEF Optional
  <2>2. Range(<<o>>) = {o}
    BY <2>1 DEF Range
  <2>3. QED
    BY <1>1, <2>1, <2>2
<1>2. CASE o \notin s.options
  BY <1>2 DEF Optional, Range
<1>3. QED
  BY <1>1, <1>2

(* The guardrails are those the spec asks for.                             *)
LEMMA GuardrailsFacts ==
  ASSUME NEW s
  PROVE  /\ guardrails(s) \in Seq(Objects)
         /\ Len(guardrails(s)) <= 3
         /\ Range(guardrails(s)) = s.options \cap Guardrails
<1> DEFINE q == Optional(s, "ResourceQuota")
           l == Optional(s, "LimitRange")
           n == Optional(s, "NetworkPolicy")
<1>1. /\ q \in Seq(Objects) /\ Len(q) <= 1 /\ Range(q) = {"ResourceQuota"} \cap s.options
      /\ l \in Seq(Objects) /\ Len(l) <= 1 /\ Range(l) = {"LimitRange"} \cap s.options
      /\ n \in Seq(Objects) /\ Len(n) <= 1 /\ Range(n) = {"NetworkPolicy"} \cap s.options
  BY OptionalFacts DEF Objects, Guardrails
<1> HIDE DEF q, l, n
<1>2. /\ q \o l \in Seq(Objects) /\ Len(q \o l) = Len(q) + Len(l)
      /\ Range(q \o l) = Range(q) \cup Range(l)
  BY <1>1, ConcatFacts
<1>3. /\ (q \o l) \o n \in Seq(Objects) /\ Len((q \o l) \o n) = Len(q \o l) + Len(n)
      /\ Range((q \o l) \o n) = Range(q \o l) \cup Range(n)
  BY <1>1, <1>2, ConcatFacts
<1>4. guardrails(s) = (q \o l) \o n
  BY DEF guardrails, q, l, n
<1>5. Len((q \o l) \o n) <= 3
  BY <1>1, <1>2, <1>3
<1>6. Range((q \o l) \o n) = s.options \cap Guardrails
  BY <1>1, <1>2, <1>3 DEF Guardrails
<1>7. QED
  BY <1>3, <1>4, <1>5, <1>6

(* What a tenant's RoleBinding comes after.                                *)
LEMMA TenantFacts ==
  ASSUME NEW s
  PROVE  /\ render_tenant(s) \in Seq(Objects)
         /\ 1 <= Len(render_tenant(s)) /\ Len(render_tenant(s)) <= 7
         /\ \A o \in s.options \cap Guardrails :
            \A i \in DOMAIN render_tenant(s) :
               render_tenant(s)[i] = "RoleBinding" =>
                  \E j \in DOMAIN render_tenant(s) : j < i /\ render_tenant(s)[j] = o
<1> DEFINE first == <<"Namespace", "ServiceAccount">>
           g     == guardrails(s)
           pre   == first \o g
           rb    == <<"RoleBinding">>
           last  == Optional(s, "Secret")
           all   == (pre \o rb) \o last
<1>1. first \in Seq(Objects) /\ Len(first) = 2 /\ rb \in Seq(Objects) /\ Len(rb) = 1
  BY DEF Objects
<1>2. Range(first) = {"Namespace", "ServiceAccount"}
  BY DEF Range
<1>3. last \in Seq(Objects) /\ Len(last) <= 1
  BY OptionalFacts DEF Objects
<1>4. render_tenant(s) = all
  BY DEF render_tenant
<1>5. g \in Seq(Objects) /\ Len(g) <= 3 /\ Range(g) = s.options \cap Guardrails
  BY GuardrailsFacts
<1> HIDE DEF first, g, rb, last
<1>6. /\ pre \in Seq(Objects) /\ Len(pre) = Len(first) + Len(g)
      /\ Range(pre) = Range(first) \cup Range(g)
  BY <1>1, <1>5, ConcatFacts
<1> HIDE DEF pre
<1>7. /\ pre \o rb \in Seq(Objects) /\ Len(pre \o rb) = Len(pre) + Len(rb)
      /\ \A i \in 1..Len(pre) : (pre \o rb)[i] = pre[i]
  BY <1>1, <1>6, ConcatFacts
<1>8. /\ all \in Seq(Objects) /\ Len(all) = Len(pre \o rb) + Len(last)
      /\ \A i \in 1..Len(pre \o rb) : all[i] = (pre \o rb)[i]
  BY <1>3, <1>7, ConcatFacts
<1>9. 2 <= Len(pre) /\ Len(pre) < Len(all) /\ Len(all) <= 7 /\ DOMAIN all = 1..Len(all)
  <2>1. 2 <= Len(pre) /\ Len(pre) <= 5
    BY <1>1, <1>5, <1>6
  <2>2. Len(pre \o rb) = Len(pre) + 1
    BY <1>1, <1>7
  <2>3. Len(pre) < Len(all) /\ Len(all) <= 7
    BY <1>3, <1>6, <1>7, <1>8, <2>1, <2>2
  <2>4. DOMAIN all = 1..Len(all)
    BY <1>8
  <2>5. QED
    BY <2>1, <2>3, <2>4
<1>10. \A i \in 1..Len(pre) : i \in DOMAIN all /\ all[i] = pre[i]
  <2> SUFFICES ASSUME NEW i \in 1..Len(pre) PROVE i \in DOMAIN all /\ all[i] = pre[i]
    OBVIOUS
  <2>1. i \in 1..Len(pre \o rb) /\ i \in 1..Len(all)
    BY <1>1, <1>3, <1>7, <1>8, <1>9
  <2>2. QED
    BY <1>7, <1>8, <1>9, <2>1
<1>11. DOMAIN pre = 1..Len(pre)
  BY <1>6
<1>12. ASSUME NEW o \in s.options \cap Guardrails, NEW i \in DOMAIN all, all[i] = "RoleBinding"
       PROVE  \E j \in DOMAIN all : j < i /\ all[j] = o
  <2>1. "RoleBinding" \notin Range(pre)
    BY <1>2, <1>5, <1>6 DEF Guardrails
  <2>2. i \notin 1..Len(pre)
    BY <1>10, <1>11, <1>12, <2>1 DEF Range
  <2>3. PICK j \in 1..Len(pre) : pre[j] = o
    BY <1>5, <1>6, <1>11 DEF Range
  <2>4. j < i
    BY <1>9, <1>12, <2>2
  <2>5. QED
    BY <1>10, <2>3, <2>4
<1>13. QED
  BY <1>4, <1>8, <1>9, <1>12

(* A spec is rendered into one to seven objects.                           *)
LEMMA RenderFacts ==
  ASSUME NEW s
  PROVE  /\ 1 <= Len(Render(s)) /\ Len(Render(s)) <= 7
         /\ DOMAIN Render(s) = 1..Len(Render(s))
         /\ \A i \in DOMAIN Render(s) : Render(s)[i] \in Objects
<1>1. render_task(s) \in Seq(Objects) /\ 1 <= Len(render_task(s)) /\ Len(render_task(s)) <= 7
  <2> DEFINE first == <<"Deployment", "ScaledObject">>
             last  == Optional(s, "CronJob")
  <2>1. first \in Seq(Objects) /\ Len(first) = 2
    BY DEF Objects
  <2>2. last \in Seq(Objects) /\ Len(last) <= 1
    BY OptionalFacts DEF Objects
  <2>3. render_task(s) = first \o last
    BY DEF render_task
  <2> HIDE DEF first, last
  <2>4. first \o last \in Seq(Objects) /\ Len(first \o last) = Len(first) + Len(last)
    BY <2>1, <2>2, ConcatFacts
  <2>5. 1 <= Len(first) + Len(last) /\ Len(first) + Len(last) <= 7
    BY <2>1, <2>2
  <2>6. QED
    BY <2>3, <2>4, <2>5
<1>2. Render(s) \in Seq(Objects) /\ 1 <= Len(Render(s)) /\ Len(Render(s)) <= 7
  BY <1>1, TenantFacts DEF Render
<1>3. QED
  BY <1>2

(* The kind never changes, so the rendering of a spec does not.            *)
LEMMA RenderSame ==
  ASSUME UNCHANGED kind
  PROVE  /\ \A s : Render(s)' = Render(s)
         /\ \A s : change'.spec = s => Render(change.spec)' = Render(s)
  BY DEF Render, render_task, render_tenant, guardrails, Optional

(* The invariant holds initially: nothing is applied.                      *)
LEMMA InitIInv == Init => IInv
<1> SUFFICES ASSUME Init PROVE IInv
  OBVIOUS
<1> USE TaskTenantAssumption DEF Init, TaskTenantAssumption
<1>1. TypeOK
  <2>1. spec.gen = 1 /\ spec.options \in SUBSET Options(kind) /\ spec \in Specs
    BY DEF Specs, Generations
  <2>2. status \in [ready : BOOLEAN, scheduled : BOOLEAN, observed : 0..(MaxEdits + 1)]
    OBVIOUS
  <2>3. resume \in BOOLEAN /\ backlog \in BOOLEAN
    BY Zenon
  <2>4. /\ applied \in [Objects -> 0..(MaxEdits + 1)]
        /\ edits \in 0..MaxEdits /\ backlogs \in 0..MaxBacklogs /\ faults \in 0..MaxFaults
        /\ replicas \in 0..MaxReplicas
    OBVIOUS
  <2>5. handled \in Specs \cup {None} /\ change \in Changes \cup {None} /\ kind \in Kinds
    OBVIOUS
  <2>6. QED
    BY <2>1, <2>2, <2>3, <2>4, <2>5, Zenon DEF TypeOK
<1>2. GenerationsInv /\ ChangeInv
  BY DEF GenerationsInv, ChangeInv
<1>3. ObservedApplied /\ GuardedBeforeGranted
  BY DEF ObservedApplied, GuardedBeforeGranted, Objects
<1>4. QED
  BY <1>1, <1>2, <1>3 DEF IInv

(* A step that leaves spec, status and objects alone, and ends a handler   *)
(* or lets it be.                                                          *)
LEMMA QuietStep ==
  ASSUME IInv, TypeOK', UNCHANGED <<kind, broker, spec, status, applied, edits>>,
         change' \in {change, None}
  PROVE  IInv'
<1> USE DEF IInv
<1>1. GenerationsInv'
  BY DEF GenerationsInv
<1>2. ChangeInv'
  <2>1. CASE change' = None
    BY <2>1 DEF ChangeInv
  <2>2. CASE change' = change
    <3>1. Render(change.spec)' = Render(change.spec)
      BY <2>2, RenderSame
    <3>2. QED
      BY <2>2, <3>1 DEF ChangeInv
  <2>3. QED
    BY <2>1, <2>2
<1>3. ObservedApplied'
  <2>1. Render(spec)' = Render(spec)
    BY DEF Render
  <2>2. QED
    BY <2>1 DEF ObservedApplied
<1>4. GuardedBeforeGranted'
  BY DEF GuardedBeforeGranted
<1>5. QED
  BY <1>1, <1>2, <1>3, <1>4

(* The handler starts on the current spec.                                 *)
LEMMA ReconcileStartInv == IInv /\ ReconcileStart => IInv'
<1> SUFFICES ASSUME IInv, ReconcileStart PROVE IInv'
  OBVIOUS
<1> USE TaskTenantAssumption DEF TaskTenantAssumption, IInv
<1>1. /\ change' = [spec |-> spec, next |-> 1]
      /\ UNCHANGED <<kind, broker, spec, status, applied, handled, resume, replicas,
                     backlog, edits, backlogs, faults>>
  BY DEF ReconcileStart
<1>a. [spec |-> spec, next |-> 1] \in Changes
  BY DEF TypeOK, Changes
<1>2. TypeOK'
  BY <1>1, <1>a DEF TypeOK
<1>3. ChangeInv'
  <2>1. change'.spec = spec /\ change'.next = 1
    BY <1>1
  <2>2. Render(change.spec)' = Render(spec)
    BY <1>1, <2>1, RenderSame
  <2>3. \A i \in DOMAIN Render(spec) : ~(i < 1)
    BY RenderFacts
  <2>4. spec.gen \in Nat /\ spec.gen <= spec.gen
    BY DEF TypeOK, Specs, Generations
  <2>5. QED
    BY <1>1, <2>1, <2>2, <2>3, <2>4 DEF ChangeInv, GenerationsInv
<1>4. GenerationsInv' /\ GuardedBeforeGranted'
  BY <1>1 DEF GenerationsInv, GuardedBeforeGranted
<1>5. ObservedApplied'
  BY <1>1 DEF ObservedApplied, Render
<1>6. QED
  BY <1>2, <1>3, <1>4, <1>5

(* What the application of one object does to the objects.                 *)
LEMMA ApplyFacts ==
  ASSUME IInv, ReconcileApply
  PROVE  /\ change # None /\ change \in Changes
         /\ change.spec.gen \in 1..(MaxEdits + 1) /\ spec.gen \in 1..(MaxEdits + 1)
         /\ change.next \in DOMAIN Render(change.spec) /\ change.next \in 1..7
         /\ Render(change.spec)[change.next] \in Objects
         /\ applied' \in [Objects -> 0..(MaxEdits + 1)]
         /\ applied'[Render(change.spec)[change.next]] = change.spec.gen
         /\ \A p \in Objects \ {Render(change.spec)[change.next]} : applied'[p] = applied[p]
<1> USE DEF IInv
<1> DEFINE g == change.spec.gen
           o == Render(change.spec)[change.next]
<1>1. /\ change \in Changes /\ change # None
      /\ g \in 1..(MaxEdits + 1) /\ spec.gen \in 1..(MaxEdits + 1) /\ change.next \in 1..8
  BY DEF ReconcileApply, TypeOK, Changes, Specs, Generations
<1>2. /\ change.next \in DOMAIN Render(change.spec) /\ change.next \in 1..7
      /\ o \in Objects
  BY <1>1, RenderFacts DEF ReconcileApply
<1>3. applied' = [applied EXCEPT ![o] = g]
  BY DEF ReconcileApply
<1>4. /\ applied' \in [Objects -> 0..(MaxEdits + 1)]
      /\ applied'[o] = g /\ \A p \in Objects \ {o} : applied'[p] = applied[p]
  BY <1>1, <1>2, <1>3, TaskTenantAssumption DEF TypeOK, TaskTenantAssumption
<1>5. QED
  BY <1>1, <1>2, <1>4

(* One object is applied: it was not ahead of the handler's spec, and the  *)
(* RoleBinding's turn comes after the guardrails'.                         *)
LEMMA ReconcileApplyInv == IInv /\ ReconcileApply => IInv'
<1> SUFFICES ASSUME IInv, ReconcileApply PROVE IInv'
  OBVIOUS
<1> USE TaskTenantAssumption DEF TaskTenantAssumption, IInv
<1> DEFINE g == change.spec.gen
           o == Render(change.spec)[change.next]
<1>1. /\ change # None /\ change \in Changes
      /\ g \in 1..(MaxEdits + 1) /\ spec.gen \in 1..(MaxEdits + 1)
      /\ change.next \in DOMAIN Render(change.spec) /\ change.next \in 1..7 /\ o \in Objects
  BY ApplyFacts
<1>2. /\ applied' \in [Objects -> 0..(MaxEdits + 1)] /\ applied'[o] = g
      /\ \A p \in Objects \ {o} : applied'[p] = applied[p]
  BY ApplyFacts
<1> HIDE DEF o
<1>3. /\ UNCHANGED <<kind, broker, spec, status, handled, resume, backlog, edits, backlogs, faults>>
      /\ change' = [change EXCEPT !.next = @ + 1]
      /\ replicas' \in {MinReplicas, replicas}
  BY DEF ReconcileApply
<1>4. /\ change'.spec = change.spec /\ change'.next = change.next + 1
      /\ change' \in Changes
  BY <1>1, <1>3 DEF Changes
<1>5. replicas' \in 0..MaxReplicas
  BY <1>3 DEF TypeOK
<1>6. TypeOK'
  BY <1>2, <1>3, <1>4, <1>5 DEF TypeOK
<1>7. GenerationsInv'
  BY <1>1, <1>2, <1>3 DEF GenerationsInv, ChangeInv
<1>8. ChangeInv'
  <2>1. Render(change.spec)' = Render(change.spec)
    BY <1>3, <1>4, RenderSame
  <2>2. \A i \in DOMAIN Render(change.spec) :
            i < change.next + 1 => applied'[Render(change.spec)[i]] = g
    <3> SUFFICES ASSUME NEW i \in DOMAIN Render(change.spec), i < change.next + 1
                 PROVE  applied'[Render(change.spec)[i]] = g
      OBVIOUS
    <3>1. Render(change.spec)[i] \in Objects /\ i \in Int
      BY RenderFacts
    <3>2. CASE i = change.next
      BY <3>2, <1>2 DEF o
    <3>3. CASE i < change.next
      <4>1. applied[Render(change.spec)[i]] = g
        BY <1>1, <3>3 DEF ChangeInv
      <4>2. QED
        BY <1>2, <3>1, <4>1
    <3>4. QED
      BY <3>1, <3>2, <3>3, <1>1
  <2>3. \A p \in Objects : applied'[p] <= g
    BY <1>1, <1>2 DEF ChangeInv, TypeOK
  <2>4. QED
    BY <1>1, <1>3, <1>4, <2>1, <2>2, <2>3 DEF ChangeInv
<1>9. ObservedApplied'
  <2> SUFFICES ASSUME NEW p \in Range(Render(spec)), status.observed = spec.gen
               PROVE  applied'[p] = spec.gen
    BY <1>3, RenderSame DEF ObservedApplied
  <2>1. g = spec.gen
    <3>1. g <= spec.gen /\ status.observed <= g
      BY <1>1 DEF ChangeInv
    <3>2. QED
      BY <1>1, <3>1
  <2>2. p \in Objects
    BY RenderFacts DEF Range
  <2>3. applied[p] = spec.gen
    BY DEF ObservedApplied
  <2>4. QED
    BY <2>1, <2>2, <2>3, <1>2
<1>10. GuardedBeforeGranted'
  <2> SUFFICES ASSUME kind = "tenant", applied'["RoleBinding"] = spec.gen,
                      NEW p \in spec.options \cap Guardrails
               PROVE  applied'[p] = spec.gen
    BY <1>3 DEF GuardedBeforeGranted
  <2>1. p \in Objects /\ "RoleBinding" \in Objects /\ p # "RoleBinding"
    BY DEF Objects, Guardrails
  <2>2. CASE o = "RoleBinding"
    <3>1. change.spec = spec /\ g = spec.gen
      BY <1>1, <1>2, <2>2 DEF ChangeInv
    <3>2. PICK j \in DOMAIN Render(change.spec) : j < change.next /\ Render(change.spec)[j] = p
      BY <1>1, <2>2, <3>1, TenantFacts DEF Render, o
    <3>3. applied[p] = g
      BY <1>1, <3>2 DEF ChangeInv
    <3>4. QED
      BY <1>2, <2>1, <2>2, <3>1, <3>3
  <2>3. CASE o # "RoleBinding"
    <3>1. applied["RoleBinding"] = spec.gen
      BY <1>2, <2>1, <2>3
    <3>2. applied[p] = spec.gen
      BY <3>1 DEF GuardedBeforeGranted
    <3>3. g = spec.gen
      <4>1. applied["RoleBinding"] <= g /\ g <= spec.gen
        BY <1>1, <2>1 DEF ChangeInv
      <4>2. QED
        BY <1>1, <3>1, <4>1
    <3>4. QED
      BY <1>2, <2>1, <3>2, <3>3
  <2>4. QED
    BY <2>2, <2>3
<1>11. QED
  BY <1>6, <1>7, <1>8, <1>9, <1>10

(* The handler's patch: all its objects are applied by now.                *)
LEMMA ReconcilePatchInv == IInv /\ ReconcilePatch => IInv'
<1> SUFFICES ASSUME IInv, ReconcilePatch PROVE IInv'
  OBVIOUS
<1> USE TaskTenantAssumption DEF TaskTenantAssumption, IInv
<1> DEFINE g == change.spec.gen
<1>1. /\ change # None /\ change \in Changes /\ change.spec \in Specs
      /\ g \in 1..(MaxEdits + 1) /\ spec.gen \in 1..(MaxEdits + 1)
      /\ change.next = Len(Render(change.spec)) + 1
  BY DEF ReconcilePatch, TypeOK, Changes, Specs, Generations
<1>2. /\ status' = Reported(change.spec) /\ handled' = change.spec
      /\ resume' = FALSE /\ change' = None
      /\ UNCHANGED <<kind, broker, spec, applied, replicas, backlog, edits, backlogs, faults>>
  BY DEF ReconcilePatch
<1>3. /\ Reported(change.spec).observed = g
      /\ Reported(change.spec) \in
            [ready : BOOLEAN, scheduled : BOOLEAN, observed : 0..(MaxEdits + 1)]
  BY <1>1 DEF Reported
<1>4. TypeOK'
  BY <1>1, <1>2, <1>3 DEF TypeOK
<1>5. GenerationsInv' /\ ChangeInv'
  BY <1>1, <1>2, <1>3 DEF GenerationsInv, ChangeInv
<1>6. ObservedApplied'
  <2> SUFFICES ASSUME NEW i \in DOMAIN Render(spec), g = spec.gen
               PROVE  applied[Render(spec)[i]] = spec.gen
    BY <1>2, <1>3, RenderSame DEF ObservedApplied, Range
  <2>1. change.spec = spec
    BY <1>1 DEF ChangeInv
  <2>2. i < change.next
    BY <1>1, <2>1, RenderFacts
  <2>3. QED
    BY <1>1, <2>1, <2>2 DEF ChangeInv
<1>7. GuardedBeforeGranted'
  BY <1>2 DEF GuardedBeforeGranted
<1>8. QED
  BY <1>4, <1>5, <1>6, <1>7

(* A handler is broken off: what it applied stays, its spec is forgotten.  *)
LEMMA BrokenOffInv == IInv /\ (ReconcileFails \/ Restart) => IInv'
<1> SUFFICES ASSUME IInv, ReconcileFails \/ Restart PROVE IInv'
  OBVIOUS
<1>1. /\ UNCHANGED <<kind, broker, spec, status, applied, handled, replicas, backlog,
                     edits, backlogs>>
      /\ change' = None /\ faults' \in 0..MaxFaults
  BY TaskTenantAssumption
  DEF IInv, TypeOK, ReconcileFails, Restart, Fault, TaskTenantAssumption
<1>2. resume' \in BOOLEAN
  <2>1. resume \in BOOLEAN
    BY DEF IInv, TypeOK
  <2>2. resume' = resume \/ resume' = (handled # None)
    BY Zenon DEF ReconcileFails, Restart
  <2>3. (handled # None) \in BOOLEAN
    BY Zenon
  <2>4. QED
    BY <2>1, <2>2, <2>3, Zenon
<1>3. TypeOK'
  BY <1>1, <1>2 DEF IInv, TypeOK
<1>4. QED
  BY <1>1, <1>3, QuietStep

(* An edit: no object carries the new generation yet.                      *)
LEMMA EditInv == IInv /\ Edit => IInv'
<1> SUFFICES ASSUME IInv, Edit PROVE IInv'
  OBVIOUS
<1> USE TaskTenantAssumption DEF TaskTenantAssumption, IInv
<1>1. /\ edits < MaxEdits /\ edits' = edits + 1
      /\ spec' \in [gen : {spec.gen + 1}, options : SUBSET Options(kind)]
      /\ UNCHANGED <<kind, broker, status, applied, handled, resume, change, replicas,
                     backlog, backlogs, faults>>
  BY DEF Edit
<1>2. /\ spec.gen = edits + 1 /\ edits \in 0..MaxEdits /\ kind \in Kinds
      /\ spec.gen \in Nat
  BY DEF TypeOK, GenerationsInv
<1>3. spec'.gen = spec.gen + 1 /\ spec'.options \subseteq Options(kind) /\ spec' \in Specs
  BY <1>1, <1>2 DEF Specs, Generations
<1>4. TypeOK'
  <2>1. edits' \in 0..MaxEdits
    BY <1>1, <1>2
  <2>2. Options(kind)' = Options(kind)
    BY <1>1
  <2>3. QED
    BY <1>1, <1>3, <2>1, <2>2 DEF TypeOK
<1>5. status.observed \in Int /\ \A p \in Objects : applied[p] \in Int
  BY DEF TypeOK
<1>6. GenerationsInv'
  BY <1>1, <1>2, <1>3, <1>5 DEF GenerationsInv
<1>7. ChangeInv'
  <2> SUFFICES ASSUME change # None PROVE ChangeInv'
    BY <1>1 DEF ChangeInv
  <2>1. change.spec.gen \in Nat
    BY DEF TypeOK, Changes, Specs, Generations
  <2>2. change'.spec.gen <= spec'.gen /\ change'.spec.gen # spec'.gen
    BY <1>1, <1>2, <1>3, <2>1 DEF ChangeInv
  <2>3. Render(change.spec)' = Render(change.spec)
    BY <1>1, RenderSame
  <2>4. QED
    BY <1>1, <2>2, <2>3 DEF ChangeInv
<1>8. ObservedApplied'
  <2>1. status'.observed # spec'.gen
    BY <1>1, <1>2, <1>3, <1>5 DEF GenerationsInv
  <2>2. QED
    BY <2>1 DEF ObservedApplied
<1>9. GuardedBeforeGranted'
  <2>1. "RoleBinding" \in Objects
    BY DEF Objects
  <2>2. applied'["RoleBinding"] # spec'.gen
    BY <1>1, <1>2, <1>3, <1>5, <2>1 DEF GenerationsInv
  <2>3. QED
    BY <2>2 DEF GuardedBeforeGranted
<1>10. QED
  BY <1>4, <1>6, <1>7, <1>8, <1>9

(* The queue, KEDA and the dispatchers touch none of it.                   *)
LEMMA QueueInv == IInv /\ (Enqueue \/ ScaleUp \/ Rescale \/ Dispatch) => IInv'
<1> SUFFICES ASSUME IInv, Enqueue \/ ScaleUp \/ Rescale \/ Dispatch PROVE IInv'
  OBVIOUS
<1>1. /\ UNCHANGED <<kind, broker, spec, status, applied, handled, resume, change, edits, faults>>
      /\ replicas' \in {replicas, MinReplicas} \cup 1..MaxReplicas
      /\ backlogs' = backlogs \/ (backlogs < MaxBacklogs /\ backlogs' = backlogs + 1)
  BY DEF Enqueue, ScaleUp, Rescale, Dispatch, Scaled
<1>2. replicas' \in 0..MaxReplicas /\ backlogs' \in 0..MaxBacklogs
  BY <1>1, TaskTenantAssumption DEF IInv, TypeOK, TaskTenantAssumption
<1>3. backlog' \in BOOLEAN
  BY DEF IInv, TypeOK, Enqueue, ScaleUp, Rescale, Dispatch, Scaled
<1>4. TypeOK'
  BY <1>1, <1>2, <1>3 DEF IInv, TypeOK
<1>5. QED
  BY <1>1, <1>4, QuietStep

(* The invariant is inductive.                                             *)
LEMMA InductiveStep == IInv /\ [Next]_vars => IInv'
<1>1. IInv /\ UNCHANGED vars => IInv'
  <2> SUFFICES ASSUME IInv, UNCHANGED vars PROVE IInv'
    OBVIOUS
  <2>1. TypeOK'
    BY DEF IInv, TypeOK, vars
  <2>2. QED
    BY <2>1, QuietStep DEF vars
<1>2. QED
  BY <1>1, ReconcileStartInv, ReconcileApplyInv, ReconcilePatchInv, BrokenOffInv, EditInv,
     QueueInv
  DEF Next, Reconcile

-----------------------------------------------------------------------------
(* The inductive invariant holds of every behaviour of a task or tenant.   *)
THEOREM Inductive == Spec => []IInv
  BY InitIInv, InductiveStep, PTL DEF Spec

(* Whatever fails, restarts or is edited, the variables keep their types.  *)
THEOREM TypeCorrect == Spec => []TypeOK
  BY Inductive, PTL DEF IInv

(* A generation the status calls observed is applied in full, also when    *)
(* attempts failed half way or an edit overtook the handler.               *)
THEOREM ObservedIsApplied == Spec => []ObservedApplied
  BY Inductive, PTL DEF IInv

(* A tenant's RoleBinding of a generation is applied only after the quota, *)
(* the limits and the isolation of that generation.                        *)
THEOREM GuardedFirst == Spec => []GuardedBeforeGranted
  BY Inductive, PTL DEF IInv

-----------------------------------------------------------------------------
(* apply_all never takes an object back to the rendering of an older spec, *)
(* although a handler keeps the body it was started with.                  *)
AppliesForward == [][\A o \in Objects : applied'[o] >= applied[o]]_vars

(* It holds of every behaviour: a handler knows no object to be newer than *)
(* its own spec.                                                           *)
THEOREM NeverBackwards == Spec => AppliesForward
<1>1. IInv /\ [Next]_vars => [\A o \in Objects : applied'[o] >= applied[o]]_vars
  <2> SUFFICES ASSUME IInv, Next, NEW p \in Objects PROVE applied'[p] >= applied[p]
    OBVIOUS
  <2>1. applied[p] \in Int
    BY DEF IInv, TypeOK
  <2>2. CASE ReconcileApply
    <3>1. applied'[p] \in {applied[p], change.spec.gen}
      BY <2>2, ApplyFacts
    <3>2. applied[p] <= change.spec.gen /\ change.spec.gen \in Int
      BY <2>2, ApplyFacts DEF IInv, ChangeInv
    <3>3. QED
      BY <2>1, <3>1, <3>2
  <2>3. CASE ~ReconcileApply
    <3>1. applied' = applied
      BY <2>3 DEF Next, Reconcile, ReconcileStart, ReconcilePatch, ReconcileFails, Restart,
         Edit, Enqueue, ScaleUp, Rescale, Dispatch, Scaled
    <3>2. QED
      BY <2>1, <3>1
  <2>4. QED
    BY <2>2, <2>3
<1>2. QED
  BY <1>1, Inductive, PTL DEF Spec, AppliesForward
=============================================================================
