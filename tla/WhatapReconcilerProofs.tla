----------------------- MODULE WhatapReconcilerProofs -----------------------
(***************************************************************************)
(* Theorems about WhatapReconciler, for any set of specs, any bounds and   *)
(* any grouping of the informers' events.                                  *)
(***************************************************************************)
EXTENDS WhatapReconciler, SequenceTheorems, TLAPS

\* Every helper call Reconcile plans is made of managed objects.
LEMMA CallTypes ==
    ASSUME NEW os \in Seq(Objs), os # <<>>
    PROVE  /\ Ensure(os) \in Seq(CallType)
           /\ Remove(os) \in Seq(CallType)
           /\ Drop(os) \in Seq(CallType)
BY DEF Ensure, Remove, Drop, CallType

\* Calls planned by two helpers one after the other are calls.
LEMMA ConcatCalls ==
    ASSUME NEW s \in Seq(CallType), NEW t \in Seq(CallType)
    PROVE  s \o t \in Seq(CallType)
BY ConcatProperties

\* cleanupOpenAgent plans calls on managed objects only.
LEMMA RemoveOpenAgentType == RemoveOpenAgent \in Seq(CallType)
<1>1. <<"open", "config", "sa", "role", "binding">> \in Seq(Objs)
  BY DEF Objs, OpenObjs
<1>2. QED
  BY <1>1, CallTypes DEF RemoveOpenAgent

\* So does the installation, for every spec Reconcile may read.
LEMMA InstallCallsType ==
    ASSUME NEW spec \in SpecType
    PROVE  InstallCalls(spec) \in Seq(CallType)
<1> DEFINE a == Ensure(<<"svc", "secret", "mwc">>)
           b == IF spec.master THEN Ensure(<<"master">>) ELSE Remove(<<"master">>)
           c == NodeCalls(spec)
           d == DcgmCalls(spec)
           e == IF spec.open THEN Ensure(<<"sa", "role", "binding", "config", "open">>)
                             ELSE RemoveOpenAgent
<1>1. a \in Seq(CallType)
  <2>1. <<"svc", "secret", "mwc">> \in Seq(Objs)
    BY DEF Objs, Webhook
  <2>2. QED  BY <2>1, CallTypes
<1>2. b \in Seq(CallType)
  <2>1. <<"master">> \in Seq(Objs)
    BY DEF Objs, Agents
  <2>2. QED  BY <2>1, CallTypes
<1>3. c \in Seq(CallType)
  <2>1. <<"node">> \in Seq(Objs) /\ <<"nodeGpu">> \in Seq(Objs)
    BY DEF Objs, Agents
  <2>2. <<"nodeGpu", "node">> \in Seq(Objs)
    BY DEF Objs, Agents
  <2>3. Remove(<<"node">>) \in Seq(CallType) /\ Ensure(<<"node">>) \in Seq(CallType)
    BY <2>1, CallTypes
  <2>4. Ensure(<<"nodeGpu", "node">>) \in Seq(CallType)
    BY <2>2, CallTypes
  <2>5. Drop(<<"nodeGpu">>) \in Seq(CallType)
    BY <2>1, CallTypes
  <2>6. Drop(<<"nodeGpu">>) \o Ensure(<<"node">>) \in Seq(CallType)
    BY <2>3, <2>5, ConcatCalls
  <2>7. CASE ~spec.node
    BY <2>7, <2>3 DEF NodeCalls, SpecType
  <2>8. CASE spec.node /\ spec.gpu = "split"
    BY <2>8, <2>4 DEF NodeCalls, SpecType
  <2>9. CASE spec.node /\ spec.gpu # "split"
    BY <2>9, <2>6 DEF NodeCalls, SpecType
  <2>10. QED
    BY <2>7, <2>8, <2>9 DEF SpecType
<1>4. d \in Seq(CallType)
  <2>1. <<"dcgmSvc">> \in Seq(Objs)
    BY DEF Objs, Agents
  <2>2. Ensure(<<"dcgmSvc">>) \in Seq(CallType)
    BY <2>1, CallTypes
  <2>3. QED
    BY <2>2, EmptySeq DEF DcgmCalls
<1>5. e \in Seq(CallType)
  <2>1. <<"sa", "role", "binding", "config", "open">> \in Seq(Objs)
    BY DEF Objs, OpenObjs
  <2>2. Ensure(<<"sa", "role", "binding", "config", "open">>) \in Seq(CallType)
    BY <2>1, CallTypes
  <2>3. QED
    BY <2>2, RemoveOpenAgentType
<1>6. a \o b \in Seq(CallType)
  BY <1>1, <1>2, ConcatCalls
<1>7. (a \o b) \o c \in Seq(CallType)
  BY <1>6, <1>3, ConcatCalls
<1>8. ((a \o b) \o c) \o d \in Seq(CallType)
  BY <1>7, <1>4, ConcatCalls
<1>9. (((a \o b) \o c) \o d) \o e \in Seq(CallType)
  BY <1>8, <1>5, ConcatCalls
<1>10. QED
  BY <1>9 DEF InstallCalls

\* And so does cleanupAgents.
LEMMA CleanupCallsType == CleanupCalls \in Seq(CallType)
<1>1. /\ <<"master">> \in Seq(Objs) /\ <<"node">> \in Seq(Objs)
      /\ <<"mwc">> \in Seq(Objs) /\ <<"svc">> \in Seq(Objs)
      /\ <<"secret">> \in Seq(Objs)
  BY DEF Objs, Agents, Webhook
<1>2. /\ Remove(<<"master">>) \in Seq(CallType) /\ Remove(<<"node">>) \in Seq(CallType)
      /\ Drop(<<"mwc">>) \in Seq(CallType) /\ Drop(<<"svc">>) \in Seq(CallType)
      /\ Drop(<<"secret">>) \in Seq(CallType)
  BY <1>1, CallTypes
<1>3. Remove(<<"master">>) \o Remove(<<"node">>) \in Seq(CallType)
  BY <1>2, ConcatCalls
<1>4. Remove(<<"master">>) \o Remove(<<"node">>) \o RemoveOpenAgent \in Seq(CallType)
  BY <1>3, RemoveOpenAgentType, ConcatCalls
<1>5. Remove(<<"master">>) \o Remove(<<"node">>) \o RemoveOpenAgent
      \o Drop(<<"mwc">>) \in Seq(CallType)
  BY <1>2, <1>4, ConcatCalls
<1>6. Remove(<<"master">>) \o Remove(<<"node">>) \o RemoveOpenAgent
      \o Drop(<<"mwc">>) \o Drop(<<"svc">>) \in Seq(CallType)
  BY <1>2, <1>5, ConcatCalls
<1>7. QED
  BY <1>2, <1>6, ConcatCalls DEF CleanupCalls

\* Advancing in a call, or leaving it, leaves well-formed calls.
LEMMA NextCallType ==
    ASSUME calls \in Seq(CallType), calls # <<>>, NextCall
    PROVE  calls' \in Seq(CallType)
<1>1. Head(calls) \in CallType /\ Tail(calls) \in Seq(CallType)
  BY HeadTailProperties
<1> DEFINE rest == Tail(Head(calls).objs)
<1>2. CASE rest = <<>>
  BY <1>1, <1>2 DEF NextCall
<1>3. CASE rest # <<>>
  <2>1. rest \in Seq(Objs)
    BY <1>1, <1>3 DEF CallType
  <2>2. [Head(calls) EXCEPT !.objs = rest] \in CallType
    <3> HIDE DEF rest
    <3> QED  BY <1>1, <2>1, <1>3 DEF CallType
  <2>3. <<[Head(calls) EXCEPT !.objs = rest]>> \in Seq(CallType)
    BY <2>2
  <2>4. QED
    BY <2>3, <1>1, <1>3, ConcatCalls DEF NextCall
<1>4. QED
  BY <1>2, <1>3

-----------------------------------------------------------------------------
\* What Reconcile wants of an object is an object.
LEMMA DesiredType ==
    ASSUME TypeOK, work # NoCR, NEW o \in Objs
    PROVE  Desired(o) \in ObjType
<1>1. work \in CRType /\ work.spec \in SpecType
  BY SpecsAssumption DEF TypeOK, CRType
<1>2. Render(o, work.spec, epoch, listed) \in BodyType
  BY <1>1 DEF TypeOK, Render, BodyType, SpecType, Blank, CertBody, MasterBody,
     NodeBody, DcgmBody, ConfigBody, OpenBody, Objs, Webhook, Agents, OpenObjs
<1>3. QED
  BY <1>1, <1>2 DEF Desired, ObjType, CRType

\* The object the next call is about is a managed object.
LEMMA TargetType ==
    ASSUME TypeOK, calls # <<>>
    PROVE  Target \in Objs
<1>1. Head(calls) \in CallType
  BY HeadTailProperties DEF TypeOK
<1>2. Head(calls).objs \in Seq(Objs) \ {<<>>}
  BY <1>1 DEF CallType
<1>3. QED
  BY <1>2, HeadTailProperties DEF Target

\* A write of an object keeps the objects and the events well-formed.
LEMMA WriteObjType ==
    ASSUME TypeOK, NEW o \in Objs, NEW new \in ObjType \cup {None}, WriteObj(o, new)
    PROVE  objs' \in [Objs -> ObjType \cup {None}] /\ unseen' \subseteq Objs
BY DEF TypeOK, WriteObj

\* The state before the operator has seen anything is well-formed.
LEMMA InitTypeOK == Init => TypeOK
<1> SUFFICES ASSUME Init PROVE TypeOK
  OBVIOUS
<1>1. calls \in Seq(CallType)
  BY EmptySeq DEF Init
<1>2. status \in StatusType
  BY DEF Init, NewStatus, StatusType
<1>3. tries < DeployTries
  BY BoundsAssumption DEF Init
<1>4. QED
  BY <1>1, <1>2, <1>3 DEF Init, TypeOK, PCs

\* So does the end of a pass keep the controller's memory.
LEMMA EndPassType ==
    ASSUME EndPass
    PROVE  /\ pc' \in PCs
           /\ work' \in CRType \cup {NoCR}
           /\ workFresh' \in BOOLEAN
           /\ calls' \in Seq(CallType)
           /\ listed' \in Nat
           /\ tries' \in Nat /\ (tries' < DeployTries \/ tries' < StatusTries)
<1>1. calls' \in Seq(CallType)
  BY EmptySeq DEF EndPass
<1>2. tries' \in Nat /\ tries' < DeployTries
  BY BoundsAssumption DEF EndPass
<1>3. QED
  BY <1>1, <1>2 DEF EndPass, PCs

\* Counting a fault, or not, keeps the counter a number.
LEMMA FaultType ==
    ASSUME TypeOK, Fault \/ UNCHANGED faults
    PROVE  faults' \in Nat
BY DEF TypeOK, Fault

\* And so does a status write, whether it lands or not.
LEMMA WriteStatusType ==
    ASSUME TypeOK, NEW new \in StatusType, WriteStatus(new)
    PROVE  status' \in StatusType /\ cacheFresh' \in BOOLEAN /\ faults' \in Nat
<1>1. faults' \in Nat
  BY FaultType DEF WriteStatus
<1>2. QED
  BY <1>1 DEF WriteStatus, TypeOK

\* The steps of Reconcile keep the state well-formed.
LEMMA ReconcileTypeOK ==
    ASSUME TypeOK, Reconcile, GuardedCopies
    PROVE  TypeOK'
<1> USE BoundsAssumption DEF PCs
<1>0. calls = <<>> => calls \in Seq(CallType)
  BY EmptySeq
<1>1. CASE StartPass
  <2>1. calls' \in Seq(CallType)
    BY <1>1, CleanupCallsType, EmptySeq DEF StartPass, TypeOK
  <2>2. /\ pc' \in PCs /\ work' \in CRType \cup {NoCR} /\ workFresh' \in BOOLEAN
        /\ queued' \in BOOLEAN
    BY <1>1 DEF StartPass, TypeOK
  <2>3. tries' \in Nat /\ tries' < DeployTries
    BY <1>1 DEF StartPass
  <2>4. QED
    BY <1>1, <2>1, <2>2, <2>3 DEF StartPass, TypeOK, apiVars, cacheVars
<1>2. CASE AddFinalizer
  <2>1. work # NoCR
    BY <1>2 DEF AddFinalizer, GuardedCopies
  <2>2. [work EXCEPT !.fin = TRUE] \in CRType
    BY <2>1 DEF TypeOK, CRType
  <2>3. /\ cr' \in CRType \cup {NoCR} /\ cacheFresh' \in BOOLEAN
        /\ queued' \in BOOLEAN
    BY <1>2, <2>2 DEF AddFinalizer, TypeOK, WriteCR, ReturnError
  <2>4. faults' \in Nat
    BY <1>2, FaultType DEF AddFinalizer
  <2>5. /\ pc' \in PCs /\ work' \in CRType \cup {NoCR} /\ workFresh' \in BOOLEAN
        /\ calls' \in Seq(CallType)
        /\ listed' \in Nat
        /\ tries' \in Nat /\ (tries' < DeployTries \/ tries' < StatusTries)
    <3>1. CASE EndPass
      BY <3>1, EndPassType
    <3>2. CASE ~EndPass
      BY <1>2, <2>2, <3>2 DEF AddFinalizer, TypeOK, ReturnError
    <3>3. QED
      BY <3>1, <3>2
  <2>6. QED
    BY <1>2, <2>3, <2>4, <2>5 DEF AddFinalizer, TypeOK
<1>3. CASE MarkReconciling
  <2>1. work.spec \in SpecType
    BY <1>3, SpecsAssumption DEF MarkReconciling, GuardedCopies, TypeOK, CRType
  <2>2. calls' \in Seq(CallType)
    BY <1>3, <2>1, InstallCallsType DEF MarkReconciling
  <2>3. [status EXCEPT !.avail = "Reconciling"] \in StatusType
    BY DEF TypeOK, StatusType
  <2>4. status' \in StatusType /\ cacheFresh' \in BOOLEAN /\ faults' \in Nat
    BY <1>3, <2>3, FaultType, WriteStatusType DEF MarkReconciling
  <2>5. workFresh' \in BOOLEAN
    BY <1>3 DEF MarkReconciling
  <2>6. QED
    BY <1>3, <2>2, <2>4, <2>5 DEF MarkReconciling, TypeOK
<1>4. CASE MarkFailed
  <2>1. [status EXCEPT !.avail = "InstallFailed"] \in StatusType
    BY DEF TypeOK, StatusType
  <2>2. status' \in StatusType /\ cacheFresh' \in BOOLEAN /\ faults' \in Nat
    BY <1>4, <2>1, WriteStatusType DEF MarkFailed
  <2>3. QED
    BY <1>4, <2>2, EndPassType DEF MarkFailed, TypeOK, ReturnError
<1>5. CASE EnsureObject
  <2>1. calls # <<>> /\ work # NoCR
    BY <1>5 DEF EnsureObject, Current, GuardedCopies
  <2>2. Target \in Objs /\ Desired(Target) \in ObjType
    BY <2>1, TargetType, DesiredType
  <2>3. calls' \in Seq(CallType)
    BY <1>5, <2>1, NextCallType DEF EnsureObject, TypeOK
  <2>4. objs' \in [Objs -> ObjType \cup {None}] /\ unseen' \subseteq Objs
    BY <1>5, <2>2, WriteObjType DEF EnsureObject, TypeOK
  <2>5. QED
    BY <1>5, <2>3, <2>4 DEF EnsureObject, TypeOK
<1>6. CASE EnsureFails
  <2>1. calls # <<>> /\ work # NoCR
    BY <1>6 DEF EnsureFails, Current, GuardedCopies
  <2>2. Target \in Objs /\ Desired(Target) \in ObjType
    BY <2>1, TargetType, DesiredType
  <2>3. objs' \in [Objs -> ObjType \cup {None}] /\ unseen' \subseteq Objs
    BY <1>6, <2>2, WriteObjType DEF EnsureFails, TypeOK
  <2>4. QED
    BY <1>6, <2>3 DEF EnsureFails, TypeOK, Fault
<1>7. CASE RemoveObject
  <2>1. calls # <<>>
    BY <1>7 DEF RemoveObject, Deleting, Current
  <2>2. calls' \in Seq(CallType)
    BY <1>7, <2>1, NextCallType DEF RemoveObject, TypeOK
  <2>3. objs' \in [Objs -> ObjType \cup {None}] /\ unseen' \subseteq Objs
    BY <1>7, <2>1, TargetType, WriteObjType DEF RemoveObject, TypeOK
  <2>4. QED
    BY <1>7, <2>2, <2>3 DEF RemoveObject, TypeOK
<1>8. CASE DropObject
  <2>1. calls # <<>>
    BY <1>8 DEF DropObject, Deleting, Current
  <2>2. calls' \in Seq(CallType)
    BY <1>8, <2>1, NextCallType DEF DropObject, TypeOK
  <2>3. objs' \in [Objs -> ObjType \cup {None}] /\ unseen' \subseteq Objs
    BY <1>8, <2>1, TargetType, WriteObjType DEF DropObject, TypeOK
  <2>4. QED
    BY <1>8, <2>2, <2>3 DEF DropObject, TypeOK
<1>9. CASE DeleteFails
  <2>1. calls # <<>>
    BY <1>9 DEF DeleteFails, Deleting, Current
  <2>2. calls' \in Seq(CallType)
    BY <1>9, <2>1, HeadTailProperties DEF DeleteFails, LeaveCall, TypeOK
  <2>3. objs' \in [Objs -> ObjType \cup {None}] /\ unseen' \subseteq Objs
    BY <1>9, <2>1, TargetType, WriteObjType DEF DeleteFails, TypeOK
  <2>4. QED
    BY <1>9, <2>2, <2>3 DEF DeleteFails, TypeOK, Fault
<1>10. CASE ReportInstalled
  <2>1. cache \in CRType
    BY <1>10 DEF ReportInstalled, TypeOK
  <2>2. status' \in StatusType
    BY <1>10, <2>1 DEF ReportInstalled, StatusType, CRType
  <2>3. EndPass /\ faults' \in Nat
    BY <1>10, FaultType DEF ReportInstalled, ReturnError
  <2>4. queued' \in BOOLEAN /\ timer' \in BOOLEAN /\ cacheFresh' \in BOOLEAN
    BY <1>10 DEF ReportInstalled, TypeOK, ReturnError
  <2>5. QED
    BY <1>10, <2>2, <2>3, <2>4, EndPassType DEF ReportInstalled, TypeOK
<1>11. CASE ReportFails
  <2>1. faults' \in Nat
    BY <1>11, FaultType DEF ReportFails
  <2>2. queued' \in BOOLEAN
    BY <1>11 DEF ReportFails, TypeOK, ReturnError
  <2>3. CASE EndPass
    BY <1>11, <2>1, <2>2, <2>3, EndPassType DEF ReportFails, TypeOK, apiVars, cacheVars
  <2>4. CASE ~EndPass
    <3>1. /\ tries' = tries + 1 /\ tries + 1 < StatusTries
          /\ UNCHANGED <<pc, work, workFresh, calls, listed>>
      BY <1>11, <2>4 DEF ReportFails, ReturnError
    <3>2. tries' \in Nat /\ tries' < StatusTries
      BY <3>1 DEF TypeOK
    <3>3. QED
      BY <1>11, <2>1, <2>2, <3>1, <3>2 DEF ReportFails, TypeOK, apiVars, cacheVars
  <2>5. QED
    BY <2>3, <2>4
<1>12. CASE ReleaseCR
  <2>1. work \in CRType
    BY <1>12 DEF ReleaseCR, GuardedCopies, TypeOK
  <2>2. Released \in CRType \cup {NoCR}
    BY <2>1 DEF Released, CRType
  <2>3. EndPass /\ faults' \in Nat
    BY <1>12, FaultType DEF ReleaseCR, ReturnError
  <2>4. cr' \in CRType \cup {NoCR} /\ cacheFresh' \in BOOLEAN /\ queued' \in BOOLEAN
    BY <1>12, <2>2 DEF ReleaseCR, TypeOK, ReturnError, WriteCR
  <2>5. QED
    BY <1>12, <2>3, <2>4, EndPassType DEF ReleaseCR, TypeOK
<1>13. QED
  BY <1>1, <1>2, <1>3, <1>4, <1>5, <1>6, <1>7, <1>8, <1>9, <1>10, <1>11, <1>12
  DEF Reconcile

\* The informers, the timer and a restart keep the state well-formed.
LEMMA OperatorTypeOK ==
    ASSUME TypeOK, Operator
    PROVE  TypeOK'
<1>1. CASE SyncCR
  BY <1>1 DEF SyncCR, TypeOK, apiVars, passVars, Notable
<1>2. CASE SyncMonitors
  BY <1>2 DEF SyncMonitors, TypeOK, apiVars, passVars
<1>3. CASE TimerFires
  BY <1>3 DEF TimerFires, TypeOK, apiVars, cacheVars, passVars
<1>4. CASE Restart
  <2>1. queued' \in BOOLEAN /\ epoch' \in Nat
    BY <1>4 DEF Restart, TypeOK
  <2>2. QED
    BY <1>4, <2>1, EndPassType DEF Restart, TypeOK, apiVars
<1>5. ASSUME NEW kind \in Informers, SyncObjects(kind)
      PROVE  TypeOK'
  BY <1>5 DEF SyncObjects, TypeOK, apiVars, passVars
<1>6. QED
  BY <1>1, <1>2, <1>3, <1>4, <1>5 DEF Operator

\* An edit, and a deletion of a resource that has finalizers, keep its
\* identity and its finalizer.
LEMMA EditedType ==
    ASSUME TypeOK, NEW spec \in Specs, UserEdits(spec)
    PROVE  /\ cr # NoCR /\ cr' # NoCR /\ cr' \in CRType
           /\ cr'.uid = cr.uid /\ cr'.fin = cr.fin /\ cr'.del = cr.del
<1>1. cr \in CRType
  BY DEF UserEdits, TypeOK
<1>2. cr.gen + 1 \in Nat
  BY <1>1 DEF CRType
<1>3. cr' \in CRType
  BY <1>1, <1>2 DEF UserEdits, CRType
<1>4. QED
  BY <1>1, <1>3, NoCRAssumption DEF UserEdits, CRType

\* UserDeletes: a deletion sets the timestamp and keeps everything else.
LEMMA DeletedType ==
    ASSUME TypeOK, NEW foreground \in Foreground, UserDeletes(foreground)
    PROVE  \/ ~cr.fin /\ cr' = NoCR
           \/ /\ cr # NoCR /\ cr' # NoCR /\ cr' \in CRType
              /\ cr'.uid = cr.uid /\ cr'.fin = cr.fin /\ cr'.del
<1>1. cr \in CRType /\ foreground \in BOOLEAN
  BY ForegroundAssumption DEF UserDeletes, TypeOK
<1>2. cr.gen + 1 \in Nat
  BY <1>1 DEF CRType
<1>3. CASE cr.fin \/ foreground
  <2>1. cr' \in CRType
    BY <1>1, <1>2, <1>3 DEF UserDeletes, CRType
  <2>2. QED
    BY <1>1, <1>3, <2>1, NoCRAssumption DEF UserDeletes, CRType
<1>4. CASE ~(cr.fin \/ foreground)
  BY <1>4 DEF UserDeletes
<1>5. QED
  BY <1>3, <1>4

\* So do the users, the garbage collector and everybody else.
LEMMA ClusterTypeOK ==
    ASSUME TypeOK, Cluster
    PROVE  TypeOK'
<1>1. ASSUME NEW spec \in Specs, UserCreates(spec)
      PROVE  TypeOK'
  <2>1. cr' \in CRType /\ uids' \in Nat
    BY <1>1 DEF UserCreates, TypeOK, CRType
  <2>2. status' \in StatusType
    BY <1>1 DEF UserCreates, NewStatus, StatusType
  <2>3. QED
    BY <1>1, <2>1, <2>2 DEF UserCreates, TypeOK, Stale
<1>2. ASSUME NEW spec \in Specs, UserEdits(spec)
      PROVE  TypeOK'
  <2>1. cr' \in CRType
    BY <1>2, EditedType
  <2>2. QED
    BY <1>2, <2>1 DEF UserEdits, TypeOK, Stale
<1>3. ASSUME NEW foreground \in Foreground, UserDeletes(foreground)
      PROVE  TypeOK'
  <2>1. cr' \in CRType \cup {NoCR}
    BY <1>3, DeletedType
  <2>2. QED
    BY <1>3, <2>1 DEF UserDeletes, TypeOK, Stale
<1>4. ASSUME NEW o \in Objs, CollectGarbage(o) \/ ForeignDelete(o)
      PROVE  TypeOK'
  <2>1. objs' \in [Objs -> ObjType \cup {None}] /\ unseen' \subseteq Objs
    BY <1>4, WriteObjType DEF CollectGarbage, ForeignDelete
  <2>2. faults' \in Nat
    BY <1>4, FaultType DEF CollectGarbage, ForeignDelete
  <2>3. QED
    BY <1>4, <2>1, <2>2 DEF CollectGarbage, ForeignDelete, TypeOK, passVars
<1>5. CASE ReleaseHold
  <2>1. cr' \in CRType \cup {NoCR}
    BY <1>5 DEF ReleaseHold, TypeOK, CRType
  <2>2. QED
    BY <1>5, <2>1 DEF ReleaseHold, TypeOK, Stale
<1>6. CASE MonitorsChange
  BY <1>6 DEF MonitorsChange, TypeOK, cacheVars, passVars
<1>7. QED
  BY <1>1, <1>2, <1>3, <1>4, <1>5, <1>6 DEF Cluster

-----------------------------------------------------------------------------
(***************************************************************************)
(* The inductive invariant.                                                *)
(***************************************************************************)

\* There is no copy of a WhatapAgent before there is a WhatapAgent.
LEMMA InitGuardInv == Init => GuardInv
BY DEF Init, GuardInv, FreshCopies, GuardedCopies, KnownOwners

\* A step that touches neither the WhatapAgent nor a copy of it, and leaves
\* the phase of the pass alone or gives the pass up, keeps what copies say.
LEMMA SameCopies ==
    ASSUME FreshCopies, GuardedCopies,
           UNCHANGED <<cr, cache, cacheFresh>>,
           EndPass \/ (/\ UNCHANGED <<work, workFresh>>
                       /\ pc' = pc \/ (pc \in {"progress", "install"}
                                        /\ pc' \in {"install", "failed"}))
    PROVE  FreshCopies' /\ GuardedCopies'
BY DEF FreshCopies, GuardedCopies, EndPass

\* No object is owned by a WhatapAgent yet to come: a step that leaves the
\* objects, the uids and the WhatapAgent alone keeps that so.
LEMMA SameOwners ==
    ASSUME KnownOwners, UNCHANGED <<cr, uids, objs>>
    PROVE  KnownOwners'
BY DEF KnownOwners

\* The steps of Reconcile keep what copies of the WhatapAgent say: only a copy
\* that is current is written back, and only then does the pass go on.
LEMMA ReconcileGuardInv ==
    ASSUME TypeOK, GuardInv, Reconcile
    PROVE  GuardInv'
<1> USE DEF GuardInv
<1>1. CASE StartPass
  <2>1. FreshCopies' /\ GuardedCopies'
    BY <1>1 DEF StartPass, FreshCopies, GuardedCopies, apiVars, cacheVars
  <2>2. QED
    BY <1>1, <2>1, SameOwners DEF StartPass, apiVars
<1>2. CASE AddFinalizer
  <2>1. CASE EndPass /\ UNCHANGED <<cr, cacheFresh>>
    BY <1>2, <2>1, SameCopies, SameOwners DEF AddFinalizer
  <2>2. CASE ~(EndPass /\ UNCHANGED <<cr, cacheFresh>>)
    <3>1. work = cr /\ work # NoCR /\ ~work.del /\ work \in CRType
      BY <1>2, <2>2 DEF AddFinalizer, ReturnError, FreshCopies, GuardedCopies, TypeOK
    <3>2. /\ cr' = [work EXCEPT !.fin = TRUE] /\ ~cacheFresh' /\ cache' = cache
          /\ UNCHANGED <<uids, objs>>
          /\ \/ EndPass
             \/ pc' = "progress" /\ work' = cr' /\ workFresh'
      BY <1>2, <2>2 DEF AddFinalizer, WriteCR, ReturnError, FreshCopies
    <3>3. cr' # NoCR /\ cr'.uid = cr.uid /\ cr'.fin /\ ~cr'.del
      BY <3>1, <3>2, NoCRAssumption DEF CRType
    <3>4. FreshCopies' /\ GuardedCopies'
      BY <3>1, <3>2, <3>3 DEF FreshCopies, GuardedCopies, EndPass
    <3>5. QED
      BY <3>1, <3>2, <3>3, <3>4 DEF KnownOwners
  <2>3. QED
    BY <2>1, <2>2
<1>3. CASE MarkReconciling
  <2>1. cacheFresh' => cacheFresh
    BY <1>3 DEF MarkReconciling, WriteStatus
  <2>2. FreshCopies' /\ GuardedCopies'
    BY <1>3, <2>1 DEF MarkReconciling, FreshCopies, GuardedCopies
  <2>3. QED
    BY <1>3, <2>2, SameOwners DEF MarkReconciling
<1>4. CASE MarkFailed
  <2>1. cacheFresh' => cacheFresh
    BY <1>4 DEF MarkFailed, WriteStatus
  <2>2. FreshCopies' /\ GuardedCopies'
    BY <1>4, <2>1 DEF MarkFailed, ReturnError, EndPass, FreshCopies, GuardedCopies
  <2>3. QED
    BY <1>4, <2>2, SameOwners DEF MarkFailed
<1>5. ASSUME EnsureObject \/ EnsureFails
      PROVE  GuardInv'
  <2>1. FreshCopies' /\ GuardedCopies'
    BY <1>5, SameCopies DEF EnsureObject, EnsureFails
  <2>2. work.uid = cr.uid /\ cr # NoCR /\ work # NoCR
    BY <1>5 DEF EnsureObject, EnsureFails, GuardedCopies
  <2>3. Desired(Target).owner <= uids
    BY <2>2 DEF Desired, KnownOwners
  <2>4. \/ UNCHANGED objs
        \/ objs' = [objs EXCEPT ![Target] = Desired(Target)]
    BY <1>5 DEF EnsureObject, EnsureFails, WriteObj
  <2>5. UNCHANGED <<cr, uids>>
    BY <1>5 DEF EnsureObject, EnsureFails
  <2>6. KnownOwners'
    BY <2>3, <2>4, <2>5 DEF KnownOwners, TypeOK
  <2>7. QED
    BY <2>1, <2>6
<1>6. ASSUME RemoveObject \/ DropObject \/ DeleteFails
      PROVE  GuardInv'
  <2>1. FreshCopies' /\ GuardedCopies'
    BY <1>6, SameCopies DEF RemoveObject, DropObject, DeleteFails
  <2>2. objs' = objs \/ objs' = [objs EXCEPT ![Target] = None]
    BY <1>6 DEF RemoveObject, DropObject, DeleteFails, WriteObj
  <2>3. UNCHANGED <<cr, uids>>
    BY <1>6 DEF RemoveObject, DropObject, DeleteFails
  <2>4. KnownOwners'
    BY <2>2, <2>3 DEF KnownOwners, TypeOK
  <2>5. QED
    BY <2>1, <2>4
<1>7. CASE ReportInstalled
  <2>1. EndPass /\ UNCHANGED <<cr, cache, uids, objs>> /\ cacheFresh
    BY <1>7 DEF ReportInstalled, ReturnError
  <2>2. FreshCopies' /\ GuardedCopies'
    BY <2>1 DEF EndPass, FreshCopies, GuardedCopies
  <2>3. QED
    BY <2>1, <2>2, SameOwners
<1>8. CASE ReportFails
  <2>1. EndPass \/ UNCHANGED <<pc, work, workFresh>>
    BY <1>8 DEF ReportFails, ReturnError
  <2>2. UNCHANGED <<cr, cache, cacheFresh, uids, objs>>
    BY <1>8 DEF ReportFails, apiVars, cacheVars
  <2>3. QED
    BY <2>1, <2>2, SameCopies, SameOwners
<1>9. CASE ReleaseCR
  <2>1. EndPass /\ UNCHANGED <<cache, uids, objs>>
    BY <1>9 DEF ReleaseCR, ReturnError
  <2>2. CASE UNCHANGED <<cr, cacheFresh>>
    BY <2>1, <2>2, SameCopies, SameOwners
  <2>3. CASE ~UNCHANGED <<cr, cacheFresh>>
    <3>1. /\ work = cr /\ work # NoCR /\ work.del /\ work \in CRType
          /\ cache = NoCR \/ cache.del
          /\ cr' = Released /\ ~cacheFresh'
      BY <1>9, <2>3 DEF ReleaseCR, ReturnError, WriteCR, FreshCopies, GuardedCopies, TypeOK
    <3>2. FreshCopies' /\ GuardedCopies'
      BY <2>1, <3>1 DEF EndPass, FreshCopies, GuardedCopies
    <3>3. KnownOwners'
      BY <2>1, <3>1 DEF KnownOwners, Released, CRType
    <3>4. QED
      BY <3>2, <3>3
  <2>4. QED
    BY <2>2, <2>3
<1>10. QED
  BY <1>1, <1>2, <1>3, <1>4, <1>5, <1>6, <1>7, <1>8, <1>9 DEF Reconcile

\* The informer of the WhatapAgent hands over what is there, and a restart
\* forgets the pass.
LEMMA OperatorGuardInv ==
    ASSUME TypeOK, GuardInv, Operator
    PROVE  GuardInv'
<1> USE DEF GuardInv
<1>1. CASE SyncCR
  <2>1. FreshCopies' /\ GuardedCopies'
    BY <1>1 DEF SyncCR, FreshCopies, GuardedCopies, apiVars, passVars
  <2>2. QED
    BY <1>1, <2>1, SameOwners DEF SyncCR, apiVars
<1>2. ASSUME SyncMonitors \/ TimerFires \/ \E kind \in Informers : SyncObjects(kind)
      PROVE  GuardInv'
  <2>1. UNCHANGED <<cr, uids, objs, cache, cacheFresh, pc, work, workFresh>>
    BY <1>2 DEF SyncMonitors, TimerFires, SyncObjects, apiVars, cacheVars, passVars
  <2>2. QED
    BY <2>1, SameCopies, SameOwners
<1>3. CASE Restart
  <2>1. FreshCopies' /\ GuardedCopies'
    BY <1>3 DEF Restart, EndPass, FreshCopies, GuardedCopies, apiVars
  <2>2. QED
    BY <1>3, <2>1, SameOwners DEF Restart, apiVars
<1>4. QED
  BY <1>1, <1>2, <1>3 DEF Operator

\* Users and the garbage collector make copies old, never current; a resource
\* that holds the finalizer does not go away.
LEMMA ClusterGuardInv ==
    ASSUME TypeOK, GuardInv, Cluster
    PROVE  GuardInv'
<1> USE DEF GuardInv
<1>1. ASSUME NEW spec \in Specs, UserCreates(spec)
      PROVE  GuardInv'
  <2>1. FreshCopies' /\ GuardedCopies'
    BY <1>1 DEF UserCreates, Stale, FreshCopies, GuardedCopies
  <2>2. KnownOwners'
    BY <1>1 DEF UserCreates, KnownOwners, TypeOK, ObjType
  <2>3. QED
    BY <2>1, <2>2
<1>2. ASSUME NEW spec \in Specs, UserEdits(spec)
      PROVE  GuardInv'
  <2>1. /\ cr # NoCR /\ cr' # NoCR
        /\ cr'.uid = cr.uid /\ cr'.fin = cr.fin
    BY <1>2, EditedType
  <2>2. QED
    BY <1>2, <2>1 DEF UserEdits, Stale, FreshCopies, GuardedCopies, KnownOwners
<1>3. ASSUME NEW foreground \in Foreground, UserDeletes(foreground)
      PROVE  GuardInv'
  <2>1. \/ ~cr.fin /\ cr' = NoCR
        \/ cr' # NoCR /\ cr'.uid = cr.uid /\ cr'.fin = cr.fin
    BY <1>3, DeletedType
  <2>2. QED
    BY <1>3, <2>1 DEF UserDeletes, Stale, FreshCopies, GuardedCopies, KnownOwners
<1>4. ASSUME NEW o \in Objs, CollectGarbage(o) \/ ForeignDelete(o)
      PROVE  GuardInv'
  <2>1. /\ UNCHANGED <<cr, uids, cache, cacheFresh, pc, work, workFresh>>
        /\ objs' = [objs EXCEPT ![o] = None]
    BY <1>4 DEF CollectGarbage, ForeignDelete, WriteObj, passVars
  <2>2. KnownOwners'
    BY <2>1 DEF KnownOwners, TypeOK
  <2>3. QED
    BY <2>1, <2>2, SameCopies
<1>5. CASE ReleaseHold
  <2>1. \/ ~cr.fin /\ cr' = NoCR
        \/ cr' # NoCR /\ cr'.uid = cr.uid /\ cr'.fin = cr.fin
    BY <1>5, NoCRAssumption DEF ReleaseHold, TypeOK, CRType
  <2>2. QED
    BY <1>5, <2>1 DEF ReleaseHold, Stale, FreshCopies, GuardedCopies, KnownOwners
<1>6. CASE MonitorsChange
  BY <1>6, SameCopies, SameOwners DEF MonitorsChange, cacheVars, passVars
<1>7. QED
  BY <1>1, <1>2, <1>3, <1>4, <1>5, <1>6 DEF Cluster

-----------------------------------------------------------------------------
(***************************************************************************)
(* The theorems.                                                           *)
(***************************************************************************)

\* Type correctness and the guard invariant hold together.
LEMMA Invariance == Spec => [](TypeOK /\ GuardInv)
<1>1. Init => TypeOK /\ GuardInv
  BY InitTypeOK, InitGuardInv
<1>2. TypeOK /\ GuardInv /\ [Next]_vars => TypeOK' /\ GuardInv'
  <2> SUFFICES ASSUME TypeOK, GuardInv, [Next]_vars
               PROVE  TypeOK' /\ GuardInv'
    OBVIOUS
  <2>1. CASE Reconcile
    BY <2>1, ReconcileTypeOK, ReconcileGuardInv DEF GuardInv
  <2>2. CASE Operator
    BY <2>2, OperatorTypeOK, OperatorGuardInv
  <2>3. CASE Cluster
    BY <2>3, ClusterTypeOK, ClusterGuardInv
  <2>4. CASE UNCHANGED vars
    BY <2>4 DEF vars, TypeOK, GuardInv, FreshCopies, GuardedCopies, KnownOwners
  <2>5. QED
    BY <2>1, <2>2, <2>3, <2>4 DEF Next
<1>3. QED
  BY <1>1, <1>2, PTL DEF Spec

\* Every reachable state is well-formed: in particular the retry loops of the
\* open agent's Deployment and of the final status stay within their limits,
\* and Reconcile only ever plans calls on managed objects.
THEOREM TypeCorrect == Spec => []TypeOK
BY Invariance, PTL

\* In every reachable state a copy with the current resourceVersion is the
\* resource, and an installing pass works for the WhatapAgent that exists,
\* which still holds the finalizer.
THEOREM GuardInvCorrect == Spec => []GuardInv
BY Invariance, PTL

\* Reconcile creates or takes over an object only for the WhatapAgent that
\* exists at that moment and holds the finalizer (AddFinalizer comes before
\* the first CreateOrUpdate, and cleanup before its removal).
THEOREM InstallsOnlyForLiveOwner == Spec => InstallsForLiveOwner
<1> DEFINE Step == \A o \in Objs :
               objs'[o] # objs[o] /\ objs'[o] # None
               => cr # NoCR /\ cr.fin /\ objs'[o].owner = cr.uid
<1>1. TypeOK /\ GuardInv /\ [Next]_vars => [Step]_vars
  <2> SUFFICES ASSUME TypeOK, GuardInv, Next
               PROVE  Step
    BY DEF vars
  <2>1. CASE EnsureObject \/ EnsureFails
    <3>1. cr # NoCR /\ cr.fin /\ work.uid = cr.uid
      BY <2>1 DEF EnsureObject, EnsureFails, GuardInv, GuardedCopies
    <3>2. UNCHANGED objs \/ objs' = [objs EXCEPT ![Target] = Desired(Target)]
      BY <2>1 DEF EnsureObject, EnsureFails, WriteObj
    <3>3. QED
      BY <3>1, <3>2 DEF TypeOK, Desired
  <2>2. CASE ~(EnsureObject \/ EnsureFails)
    <3>1. UNCHANGED objs \/ \E o \in Objs \cup {Target} : objs' = [objs EXCEPT ![o] = None]
      BY <2>2 DEF Next, Reconcile, Operator, Cluster, StartPass, AddFinalizer,
         MarkReconciling, MarkFailed, RemoveObject, DropObject, DeleteFails,
         ReportInstalled, ReportFails, ReleaseCR, SyncCR, SyncMonitors, TimerFires,
         Restart, SyncObjects, UserCreates, UserEdits, UserDeletes, CollectGarbage,
         ForeignDelete, ReleaseHold, MonitorsChange, WriteObj, apiVars
    <3>2. QED
      BY <3>1 DEF TypeOK
  <2>3. QED
    BY <2>1, <2>2
<1>2. QED
  BY <1>1, Invariance, PTL DEF Spec, InstallsForLiveOwner

\* Reconcile's updates of the WhatapAgent, sent from copies that may be stale,
\* undo no edit: they change the finalizer only, and release the resource
\* only if it is being deleted.
THEOREM EditsAreKept == Spec => NoLostEdit
<1> DEFINE Step == pc # "idle" /\ pc' # pc /\ cr' # cr
                   => /\ cr # NoCR
                      /\ IF cr' = NoCR THEN cr.del
                         ELSE cr' = [cr EXCEPT !.fin = cr'.fin]
<1>1. TypeOK /\ GuardInv /\ [Next]_vars => [Step]_vars
  <2> SUFFICES ASSUME TypeOK, GuardInv, Next,
                      pc # "idle", pc' # pc, cr' # cr
               PROVE  /\ cr # NoCR
                      /\ IF cr' = NoCR THEN cr.del
                         ELSE cr' = [cr EXCEPT !.fin = cr'.fin]
    BY DEF vars
  <2>1. AddFinalizer \/ ReleaseCR
    BY DEF Next, Reconcile, Operator, Cluster, StartPass,
       MarkReconciling, MarkFailed, EnsureObject, EnsureFails, RemoveObject,
       DropObject, DeleteFails, ReportInstalled, ReportFails, SyncCR,
       SyncMonitors, TimerFires, Restart, SyncObjects, UserCreates, UserEdits,
       UserDeletes, CollectGarbage, ForeignDelete, ReleaseHold, MonitorsChange,
       apiVars, passVars
  <2>2. CASE AddFinalizer
    <3>1. work = cr /\ work # NoCR /\ work \in CRType
      BY <2>2 DEF AddFinalizer, GuardInv, FreshCopies, GuardedCopies, TypeOK
    <3>2. cr' = [cr EXCEPT !.fin = TRUE]
      BY <2>2, <3>1 DEF AddFinalizer, WriteCR
    <3>3. cr' # NoCR /\ cr'.fin = TRUE
      BY <3>1, <3>2, NoCRAssumption DEF CRType
    <3>4. QED
      BY <3>1, <3>2, <3>3
  <2>3. CASE ReleaseCR
    <3>1. work = cr /\ work # NoCR /\ work.del /\ work \in CRType
      BY <2>3 DEF ReleaseCR, GuardInv, FreshCopies, GuardedCopies, TypeOK
    <3>2. cr' = NoCR \/ cr' = [cr EXCEPT !.fin = FALSE]
      BY <2>3, <3>1 DEF ReleaseCR, WriteCR, Released
    <3>3. cr' # NoCR => cr'.fin = FALSE
      BY <3>1, <3>2 DEF CRType
    <3>4. QED
      BY <3>1, <3>2, <3>3
  <2>4. QED
    BY <2>1, <2>2, <2>3
<1>2. QED
  BY <1>1, Invariance, PTL DEF Spec, NoLostEdit

\* A live WhatapAgent that does not hold the finalizer owns no object: a
\* deletion that needs no cleanup pass has nothing to clean up.
THEOREM FinalizerGuards == Spec => []FinalizerGuardsObjects
<1> USE DEF FinalizerGuardsObjects, Alive
<1>1. Init => FinalizerGuardsObjects
  BY DEF Init
<1>2. TypeOK /\ GuardInv /\ FinalizerGuardsObjects /\ [Next]_vars
      => FinalizerGuardsObjects'
  <2> SUFFICES ASSUME TypeOK, GuardInv, FinalizerGuardsObjects, [Next]_vars
               PROVE  FinalizerGuardsObjects'
    OBVIOUS
  <2> DEFINE Deletes == UNCHANGED objs \/ \E o \in Objs \cup {Target} :
                            objs' = [objs EXCEPT ![o] = None]
  <2>1. Deletes /\ UNCHANGED cr => FinalizerGuardsObjects'
    BY DEF TypeOK
  <2>2. ASSUME NEW spec \in Specs, UserCreates(spec)
        PROVE  FinalizerGuardsObjects'
    <3>1. cr'.uid = uids + 1 /\ UNCHANGED objs
      BY <2>2 DEF UserCreates
    <3>2. \A o \in Objs : objs[o] # None => objs[o].owner # uids + 1
      BY DEF GuardInv, KnownOwners, TypeOK, ObjType
    <3>3. QED
      BY <3>1, <3>2
  <2>3. ASSUME NEW spec \in Specs, UserEdits(spec)
        PROVE  FinalizerGuardsObjects'
    BY <2>3, EditedType DEF UserEdits
  <2>4. ASSUME NEW foreground \in Foreground, UserDeletes(foreground)
        PROVE  FinalizerGuardsObjects'
    BY <2>4, DeletedType DEF UserDeletes
  <2>5. CASE ReleaseHold
    <3>1. cr' = NoCR \/ (cr.fin /\ cr' = [cr EXCEPT !.hold = FALSE] /\ cr \in CRType)
      BY <2>5 DEF ReleaseHold, TypeOK
    <3>2. cr' # NoCR => cr'.fin
      BY <3>1 DEF CRType
    <3>3. QED
      BY <3>2
  <2>6. CASE AddFinalizer
    <3>1. UNCHANGED objs /\ (UNCHANGED cr \/ cr' = [work EXCEPT !.fin = TRUE])
      BY <2>6 DEF AddFinalizer, WriteCR
    <3>2. work \in CRType
      BY <2>6 DEF AddFinalizer, GuardInv, GuardedCopies, TypeOK
    <3>3. QED
      BY <3>1, <3>2 DEF CRType
  <2>7. CASE ReleaseCR
    <3>1. work \in CRType /\ work.del
      BY <2>7 DEF ReleaseCR, GuardInv, GuardedCopies, TypeOK
    <3>2. UNCHANGED objs /\ (UNCHANGED cr \/ cr' = Released)
      BY <2>7 DEF ReleaseCR, WriteCR
    <3>3. QED
      BY <3>1, <3>2 DEF Released, CRType
  <2>8. CASE EnsureObject \/ EnsureFails
    <3>1. cr # NoCR /\ cr.fin /\ UNCHANGED cr
      BY <2>8 DEF EnsureObject, EnsureFails, GuardInv, GuardedCopies
    <3>2. QED
      BY <3>1
  <2>9. CASE Operator \/ StartPass \/ MarkReconciling \/ MarkFailed
             \/ RemoveObject \/ DropObject \/ DeleteFails
             \/ ReportInstalled \/ ReportFails
             \/ MonitorsChange \/ (\E o \in Objs : CollectGarbage(o) \/ ForeignDelete(o))
    <3>1. Deletes /\ UNCHANGED cr
      BY <2>9 DEF Operator, StartPass, MarkReconciling, MarkFailed, RemoveObject,
         DropObject, DeleteFails, ReportInstalled, ReportFails, SyncCR,
         SyncMonitors, TimerFires, Restart, SyncObjects, CollectGarbage,
         ForeignDelete, MonitorsChange, WriteObj, apiVars
    <3>2. QED
      BY <2>1, <3>1
  <2>10. CASE UNCHANGED vars
    BY <2>10 DEF vars
  <2>11. QED
    BY <2>2, <2>3, <2>4, <2>5, <2>6, <2>7, <2>8, <2>9, <2>10
    DEF Next, Reconcile, Cluster
<1>3. QED
  BY <1>1, <1>2, Invariance, PTL DEF Spec
=============================================================================
