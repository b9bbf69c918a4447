------------------------ MODULE AgentLifecycleProofs ------------------------
(***************************************************************************)
(* WhatapReconciler implements AgentLifecycle, for every value of the      *)
(* constants: each step of the detailed system is a step of the abstract   *)
(* one, or changes nothing of it.                                          *)
(***************************************************************************)
EXTENDS WhatapReconcilerProofs

\* What the mapping needs beyond GuardInv: the resource has the latest uid,
\* and only a deleted resource is held.
LifeInv == cr # NoCR => cr.uid = uids /\ (cr.hold => cr.del)

Owners == {objs[o].owner : o \in Installed}

\* The steps that leave the WhatapAgent alone and only remove objects.
Removes ==
    UNCHANGED objs \/ \E o \in Objs \cup {Target} : objs' = [objs EXCEPT ![o] = None]

LEMMA QuietSteps ==
    ASSUME \/ Operator \/ StartPass \/ MarkReconciling \/ MarkFailed
           \/ RemoveObject \/ DropObject \/ DeleteFails
           \/ ReportInstalled \/ ReportFails
           \/ MonitorsChange \/ (\E o \in Objs : CollectGarbage(o) \/ ForeignDelete(o))
    PROVE  Removes /\ UNCHANGED <<cr, uids>>
BY DEF Removes, Operator, StartPass, MarkReconciling, MarkFailed, RemoveObject,
       DropObject, DeleteFails, ReportInstalled, ReportFails, SyncCR,
       SyncMonitors, TimerFires, Restart, SyncObjects, CollectGarbage,
       ForeignDelete, MonitorsChange, WriteObj, apiVars

\* Reconcile's own writes of the WhatapAgent.
LEMMA AddFinalizerStep ==
    ASSUME TypeOK, GuardInv, AddFinalizer
    PROVE  /\ UNCHANGED <<uids, objs>>
           /\ \/ UNCHANGED cr
              \/ /\ cr # NoCR /\ cr \in CRType /\ ~cr.del
                 /\ cr' = [cr EXCEPT !.fin = TRUE]
<1>1. UNCHANGED <<uids, objs>> /\ (UNCHANGED cr \/ workFresh)
  BY DEF AddFinalizer
<1>2. work # NoCR /\ ~work.del /\ work \in CRType
  BY DEF AddFinalizer, GuardInv, GuardedCopies, TypeOK
<1>3. workFresh => work = cr
  BY DEF GuardInv, FreshCopies
<1>4. UNCHANGED cr \/ cr' = [work EXCEPT !.fin = TRUE]
  BY DEF AddFinalizer, WriteCR
<1>5. QED
  BY <1>1, <1>2, <1>3, <1>4

LEMMA ReleaseStep ==
    ASSUME TypeOK, GuardInv, ReleaseCR
    PROVE  /\ UNCHANGED <<uids, objs>>
           /\ \/ UNCHANGED cr
              \/ /\ cr # NoCR /\ cr \in CRType /\ cr.del /\ cr.fin
                 /\ cr' = NoCR \/ cr' = [cr EXCEPT !.fin = FALSE]
<1>1. work # NoCR /\ work.del /\ work \in CRType
  BY DEF ReleaseCR, GuardInv, GuardedCopies, TypeOK
<1>2. workFresh => work = cr
  BY DEF GuardInv, FreshCopies
<1>3. UNCHANGED cr \/ (workFresh /\ work.fin /\ cr' = Released)
  BY DEF ReleaseCR, WriteCR
<1>4. QED
  BY <1>1, <1>2, <1>3 DEF Released, ReleaseCR

LEMMA HoldStep ==
    ASSUME TypeOK, ReleaseHold
    PROVE  /\ UNCHANGED <<uids, objs>>
           /\ cr # NoCR /\ cr.hold /\ cr \in CRType
           /\ \A o \in Objs : objs[o] # None => objs[o].owner # cr.uid
           /\ IF cr.fin THEN cr' = [cr EXCEPT !.hold = FALSE] ELSE cr' = NoCR
BY DEF ReleaseHold, TypeOK

LEMMA DeleteStep ==
    ASSUME TypeOK, NEW foreground \in Foreground, UserDeletes(foreground)
    PROVE  /\ UNCHANGED <<uids, objs>>
           /\ cr # NoCR /\ cr \in CRType /\ ~cr.del
           /\ \/ ~cr.fin /\ cr' = NoCR
              \/ cr' = [cr EXCEPT !.del = TRUE, !.hold = foreground, !.gen = @ + 1]
BY DEF UserDeletes, TypeOK

LEMMA EditStep ==
    ASSUME TypeOK, NEW spec \in Specs, UserEdits(spec)
    PROVE  /\ UNCHANGED <<uids, objs>>
           /\ cr # NoCR /\ cr \in CRType
           /\ cr' = [cr EXCEPT !.spec = spec, !.gen = @ + 1]
BY DEF UserEdits, TypeOK

LEMMA EnsureStep ==
    ASSUME TypeOK, GuardInv, EnsureObject \/ EnsureFails
    PROVE  /\ UNCHANGED <<cr, uids>>
           /\ cr # NoCR /\ cr.fin /\ Target \in Objs
           /\ Desired(Target).owner = cr.uid /\ Desired(Target) # None
           /\ UNCHANGED objs \/ objs' = [objs EXCEPT ![Target] = Desired(Target)]
<1>1. UNCHANGED <<cr, uids>> /\ pc = "install" /\ calls # <<>>
  BY DEF EnsureObject, EnsureFails, Current
<1>2. cr # NoCR /\ cr.fin /\ work # NoCR /\ work.uid = cr.uid
  BY <1>1 DEF GuardInv, GuardedCopies
<1>3. Target \in Objs
  BY <1>1, TargetType
<1>4. Desired(Target) # None
  BY <1>2, <1>3, DesiredType, NoneAssumption
<1>5. UNCHANGED objs \/ objs' = [objs EXCEPT ![Target] = Desired(Target)]
  BY DEF EnsureObject, EnsureFails, WriteObj
<1>6. QED
  BY <1>1, <1>2, <1>3, <1>4, <1>5 DEF Desired

-----------------------------------------------------------------------------
LEMMA LifeInvariance == Spec => []LifeInv
<1>1. Init => LifeInv
  BY DEF Init, LifeInv
<1>2. TypeOK /\ GuardInv /\ LifeInv /\ [Next]_vars => LifeInv'
  <2> SUFFICES ASSUME TypeOK, GuardInv, LifeInv, [Next]_vars
               PROVE  LifeInv'
    OBVIOUS
  <2> USE DEF LifeInv
  <2>1. ASSUME NEW spec \in Specs, UserCreates(spec)
        PROVE  LifeInv'
    BY <2>1 DEF UserCreates
  <2>2. ASSUME NEW spec \in Specs, UserEdits(spec)
        PROVE  LifeInv'
    BY <2>2, EditStep DEF CRType
  <2>3. ASSUME NEW foreground \in Foreground, UserDeletes(foreground)
        PROVE  LifeInv'
    BY <2>3, DeleteStep DEF CRType
  <2>4. CASE ReleaseHold
    BY <2>4, HoldStep DEF CRType
  <2>5. CASE AddFinalizer
    BY <2>5, AddFinalizerStep DEF CRType
  <2>6. CASE ReleaseCR
    BY <2>6, ReleaseStep DEF CRType
  <2>7. CASE EnsureObject \/ EnsureFails
    BY <2>7, EnsureStep
  <2>8. CASE \/ Operator \/ StartPass \/ MarkReconciling \/ MarkFailed
             \/ RemoveObject \/ DropObject \/ DeleteFails
             \/ ReportInstalled \/ ReportFails
             \/ MonitorsChange \/ (\E o \in Objs : CollectGarbage(o) \/ ForeignDelete(o))
    BY <2>8, QuietSteps
  <2>9. CASE UNCHANGED vars
    BY <2>9 DEF vars
  <2>10. QED
    BY <2>1, <2>2, <2>3, <2>4, <2>5, <2>6, <2>7, <2>8, <2>9
    DEF Next, Reconcile, Cluster
<1>3. QED
  BY <1>1, <1>2, Invariance, PTL DEF Spec

\* The finalizer comes before the first object, objects belong to the resource
\* of the moment, and nothing is installed after the release: Reconcile, from
\* stale caches and across failures and restarts, implements the lifecycle.
THEOREM RefinesLifecycle == Spec => ImplementsLifecycle
<1>1. Init => Lifecycle!Init
  <2> SUFFICES ASSUME Init PROVE Lifecycle!Init
    OBVIOUS
  <2>1. Installed = {}
    BY DEF Init, Installed
  <2>2. QED
    BY <2>1 DEF Init, Lifecycle!Init, Phase
<1>2. TypeOK /\ GuardInv /\ LifeInv /\ [Next]_vars => [Lifecycle!Next]_(Lifecycle!vars)
  <2> SUFFICES ASSUME TypeOK, GuardInv, LifeInv, [Next]_vars
               PROVE  Lifecycle!Next \/ UNCHANGED <<uids, Phase, Owners>>
    BY DEF Lifecycle!vars, Owners
  <2>0. UNCHANGED objs => UNCHANGED Owners
    BY DEF Owners, Installed
  <2>1. ASSUME NEW spec \in Specs, UserCreates(spec)
        PROVE  Lifecycle!Create
    <3>1. cr = NoCR /\ uids' = uids + 1 /\ UNCHANGED objs /\ cr' \in CRType
          /\ ~cr'.del /\ ~cr'.fin
      BY <2>1 DEF UserCreates, CRType, TypeOK
    <3>2. Phase = "absent" /\ Phase' = "new"
      BY <3>1, NoCRAssumption DEF Phase
    <3>3. QED
      BY <2>0, <3>1, <3>2 DEF Lifecycle!Create, Owners
  <2>2. ASSUME NEW spec \in Specs, UserEdits(spec)
        PROVE  UNCHANGED <<uids, Phase, Owners>>
    <3>1. cr'.del = cr.del /\ cr'.fin = cr.fin /\ cr # NoCR /\ cr' # NoCR
      BY <2>2, EditedType
    <3>2. QED
      BY <2>0, <2>2, <3>1, EditStep DEF Phase
  <2>3. ASSUME NEW foreground \in Foreground, UserDeletes(foreground)
        PROVE  Lifecycle!Delete
    <3>1. /\ cr # NoCR /\ ~cr.del
          /\ \/ ~cr.fin /\ cr' = NoCR
             \/ cr' # NoCR /\ cr'.fin = cr.fin /\ cr'.del
      BY <2>3, DeleteStep, DeletedType
    <3>2. \/ Phase = "new" /\ Phase' \in {"absent", "released"}
          \/ Phase = "guarded" /\ Phase' = "deleting"
      BY <3>1 DEF Phase
    <3>3. QED
      BY <2>0, <2>3, <3>2, DeleteStep DEF Lifecycle!Delete, Owners
  <2>4. CASE ReleaseHold
    <3>1. CASE cr.fin
      <4>1. cr' # NoCR /\ cr'.fin = cr.fin /\ cr'.del = cr.del
        BY <2>4, <3>1, HoldStep, NoCRAssumption DEF CRType
      <4>2. QED
        BY <2>0, <2>4, <4>1, HoldStep DEF Phase
    <3>2. CASE ~cr.fin
      <4>1. Phase = "released" /\ Phase' = "absent"
        BY <2>4, <3>2, HoldStep DEF Phase, LifeInv
      <4>2. uids \notin Owners
        BY <2>4, HoldStep DEF Owners, Installed, LifeInv
      <4>3. QED
        BY <2>0, <2>4, <4>1, <4>2, HoldStep
        DEF Lifecycle!Next, Lifecycle!Vanish, Owners
    <3>3. QED
      BY <3>1, <3>2
  <2>5. CASE AddFinalizer
    <3>1. CASE UNCHANGED cr
      BY <2>0, <2>5, <3>1, AddFinalizerStep DEF Phase
    <3>2. CASE cr' # cr
      <4>1. cr # NoCR /\ ~cr.del /\ cr' # NoCR /\ cr'.fin /\ ~cr'.del
        BY <2>5, <3>2, AddFinalizerStep, NoCRAssumption DEF CRType
      <4>2. Phase' = "guarded" /\ Phase \in {"new", "guarded"}
        BY <4>1 DEF Phase
      <4>3. QED
        BY <2>0, <2>5, <4>2, AddFinalizerStep
        DEF Lifecycle!Next, Lifecycle!Guard, Owners
    <3>3. QED
      BY <3>1, <3>2
  <2>6. CASE ReleaseCR
    <3>1. CASE UNCHANGED cr
      BY <2>0, <2>6, <3>1, ReleaseStep DEF Phase
    <3>2. CASE cr' # cr
      <4>1. /\ cr # NoCR /\ cr.del /\ cr.fin
            /\ cr' = NoCR \/ (cr' # NoCR /\ ~cr'.fin /\ cr'.del)
        BY <2>6, <3>2, ReleaseStep, NoCRAssumption DEF CRType
      <4>2. Phase = "deleting" /\ Phase' \in {"absent", "released"}
        BY <4>1 DEF Phase
      <4>3. QED
        BY <2>0, <2>6, <4>2, ReleaseStep
        DEF Lifecycle!Next, Lifecycle!Release, Owners
    <3>3. QED
      BY <3>1, <3>2
  <2>7. CASE EnsureObject \/ EnsureFails
    <3>1. Phase \in {"guarded", "deleting"} /\ UNCHANGED <<uids, Phase>>
      BY <2>7, EnsureStep DEF Phase
    <3>2. CASE UNCHANGED objs
      BY <2>0, <3>1, <3>2
    <3>3. CASE objs' = [objs EXCEPT ![Target] = Desired(Target)]
      <4>1. /\ objs'[Target] = Desired(Target) /\ Target \in Objs
            /\ \A o \in Objs \ {Target} : objs'[o] = objs[o]
        BY <2>7, <3>3, EnsureStep DEF TypeOK
      <4>2. Desired(Target).owner = uids /\ Desired(Target) # None
        BY <2>7, EnsureStep DEF LifeInv
      <4>3. uids \in Owners' /\ Owners' \subseteq Owners \cup {uids}
        BY <4>1, <4>2 DEF Owners, Installed
      <4>4. QED
        BY <3>1, <4>3 DEF Lifecycle!Next, Lifecycle!Install, Owners
    <3>4. QED
      BY <2>7, <3>2, <3>3, EnsureStep
  <2>8. CASE \/ Operator \/ StartPass \/ MarkReconciling \/ MarkFailed
             \/ RemoveObject \/ DropObject \/ DeleteFails
             \/ ReportInstalled \/ ReportFails
             \/ MonitorsChange \/ (\E o \in Objs : CollectGarbage(o) \/ ForeignDelete(o))
    <3>1. Owners' \subseteq Owners
      <4>1. \A o \in Objs : objs'[o] = None \/ objs'[o] = objs[o]
        BY <2>8, QuietSteps DEF Removes, TypeOK
      <4>2. QED
        BY <4>1 DEF Owners, Installed
    <3>2. QED
      BY <2>8, <3>1, QuietSteps
      DEF Lifecycle!Next, Lifecycle!Uninstall, Phase, Owners
  <2>9. CASE UNCHANGED vars
    BY <2>0, <2>9 DEF vars, Phase
  <2>10. QED
    BY <2>1, <2>2, <2>3, <2>4, <2>5, <2>6, <2>7, <2>8, <2>9
    DEF Next, Reconcile, Cluster, Lifecycle!Next
<1>3. QED
  BY <1>1, <1>2, Invariance, LifeInvariance, PTL
  DEF Spec, ImplementsLifecycle, Lifecycle!Spec
=============================================================================
