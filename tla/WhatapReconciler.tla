-------------------------- MODULE WhatapReconciler --------------------------
(***************************************************************************)
(* The controller of the cluster-scoped WhatapAgent resource "whatap"      *)
(* (internal/controller/whatapagent_controller.go): its work queue, its    *)
(* informer caches, and Reconcile, which installs or removes the twelve    *)
(* objects the operator manages, one API call per step.                    *)
(*                                                                         *)
(* Around it: the users of the resource, whoever deletes a managed object, *)
(* the garbage collector of the cluster, and restarts of the operator.     *)
(***************************************************************************)
EXTENDS Integers, Sequences, FiniteSets

CONSTANTS
    NoCR,          \* there is no WhatapAgent "whatap"
    None,          \* there is no object of that name
    Specs,         \* the specs a user may write (see SpecType)
    Informers,     \* sets of objects whose events arrive together
    MaxUid,        \* bound: how often the CR is created
    MaxGen,        \* bound: the generation up to which a user edits or deletes
    MaxFaults,     \* bound: failed API calls and foreign deletions
    MaxEpoch,      \* bound: restarts of the operator
    MaxMon,        \* bound: changes to the monitor resources
    Foreground,    \* whether users delete in the foreground: a subset of BOOLEAN
    DeployTries,   \* tries of the open agent Deployment: 3 in the code
    StatusTries    \* steps of retry.DefaultRetry: 5 in client-go

(***************************************************************************)
(* The managed objects, in the order of the code's first mention of them.  *)
(***************************************************************************)
Webhook  == {"svc", "secret", "mwc"}
Agents   == {"master", "node", "nodeGpu", "dcgmSvc"}
OpenObjs == {"sa", "role", "binding", "config", "open"}
Objs     == Webhook \cup Agents \cup OpenObjs

\* What Reconcile reads of a WhatapAgent: the agents' switches, how GPU
\* monitoring places the node agent ("split" with a node selector or a node
\* affinity, "sidecar" without), and rev for every field only copied into
\* the objects.
SpecType == [master : BOOLEAN, node : BOOLEAN, open : BOOLEAN,
             gpu : {"off", "sidecar", "split"}, dcgm : BOOLEAN, rev : Nat]

CRType   == [uid : Nat, gen : Nat, spec : Specs,
             del : BOOLEAN, fin : BOOLEAN, hold : BOOLEAN]
BodyType == [rev : Nat, gpu : {"off", "sidecar", "split"}, cert : Nat, mon : Nat]
ObjType  == [owner : Nat, body : BodyType]
StatusType == [avail : {"Unknown", "Reconciling", "InstallFailed", "Installed"},
               obs : Nat]
CallType == [op : {"ensure", "remove", "drop"}, objs : Seq(Objs) \ {<<>>}]
PCs      == {"idle", "finalize", "progress", "install", "failed", "cleanup"}

\* uids start at 1; an object without an owner reference has none of them.
NoOwner == 0

ASSUME SpecsAssumption == Specs \subseteq SpecType
ASSUME InformersAssumption == Informers \subseteq SUBSET Objs
ASSUME ForegroundAssumption == Foreground \subseteq BOOLEAN
ASSUME BoundsAssumption ==
    /\ MaxUid \in Nat /\ MaxGen \in Nat /\ MaxFaults \in Nat
    /\ MaxEpoch \in Nat /\ MaxMon \in Nat
    /\ DeployTries \in Nat \ {0} /\ StatusTries \in Nat \ {0}
ASSUME NoCRAssumption == NoCR \notin CRType
ASSUME NoneAssumption == None \notin ObjType

VARIABLES
    \* the API server
    cr,         \* the WhatapAgent, or NoCR
    uids,       \* the last uid given to a WhatapAgent
    status,     \* the status of the WhatapAgent
    objs,       \* the managed objects
    mon,        \* version of the monitor resources
    \* the informer caches of the operator
    cache,      \* the WhatapAgent as the cache holds it
    cacheFresh, \* the cache holds the current resourceVersion
    view,       \* the managed objects as the caches hold them
    unseen,     \* objects with events that have not reached the caches
    monView,    \* the monitor resources as the caches hold them
    \* the controller
    queued,     \* the request is in the work queue
    timer,      \* a RequeueAfter is pending
    pc,         \* where Reconcile stands
    work,       \* the WhatapAgent Reconcile works on
    workFresh,  \* work has the current resourceVersion
    calls,      \* the helper calls Reconcile has still to make
    listed,     \* the monitors this pass has listed
    tries,      \* failed tries of the current retry loop
    epoch,      \* the operator process, which serves a certificate of its own
    faults      \* failures and foreign deletions so far

apiVars   == <<cr, uids, status, objs, mon>>
cacheVars == <<cache, cacheFresh, view, unseen, monView>>
passVars  == <<pc, work, workFresh, calls, listed, tries>>
vars == <<cr, uids, status, objs, mon, cache, cacheFresh, view, unseen, monView,
          queued, timer, pc, work, workFresh, calls, listed, tries, epoch, faults>>

TypeOK ==
    /\ cr \in CRType \cup {NoCR}
    /\ uids \in Nat
    /\ status \in StatusType
    /\ objs \in [Objs -> ObjType \cup {None}]
    /\ mon \in Nat
    /\ cache \in CRType \cup {NoCR}
    /\ cacheFresh \in BOOLEAN
    /\ view \in [Objs -> ObjType \cup {None}]
    /\ unseen \subseteq Objs
    /\ monView \in Nat
    /\ queued \in BOOLEAN
    /\ timer \in BOOLEAN
    /\ pc \in PCs
    /\ work \in CRType \cup {NoCR}
    /\ workFresh \in BOOLEAN
    /\ calls \in Seq(CallType)
    /\ listed \in Nat
    /\ tries \in Nat /\ (tries < DeployTries \/ tries < StatusTries)
    /\ epoch \in Nat
    /\ faults \in Nat

NewStatus == [avail |-> "Unknown", obs |-> 0]

Init ==
    /\ cr = NoCR /\ uids = 0 /\ status = NewStatus
    /\ objs = [o \in Objs |-> None]
    /\ mon = 0 /\ monView = 0
    /\ cache = NoCR /\ cacheFresh = TRUE
    /\ view = objs /\ unseen = {}
    /\ queued = FALSE /\ timer = FALSE
    /\ pc = "idle" /\ work = NoCR /\ workFresh = FALSE
    /\ calls = <<>> /\ listed = 0 /\ tries = 0
    /\ epoch = 0 /\ faults = 0

-----------------------------------------------------------------------------
(***************************************************************************)
(* What Reconcile wants.                                                   *)
(***************************************************************************)

\* What the content of each object is built from; the rest of it is constant.
Blank == [rev |-> 0, gpu |-> "off", cert |-> 0, mon |-> 0]

CertBody(ep)        == [Blank EXCEPT !.cert = ep]
MasterBody(spec)    == [Blank EXCEPT !.rev = spec.rev]
NodeBody(spec)      == [Blank EXCEPT !.rev = spec.rev, !.gpu = spec.gpu]
DcgmBody(spec)      == [Blank EXCEPT !.rev = spec.rev]
ConfigBody(spec, m) == [Blank EXCEPT !.rev = spec.rev, !.gpu = spec.gpu, !.mon = m]
OpenBody(spec, m)   == [Blank EXCEPT !.rev = spec.rev, !.mon = m]

Render(o, spec, ep, m) ==
    CASE o \in {"secret", "mwc"}   -> CertBody(ep)
      [] o = "master"              -> MasterBody(spec)
      [] o \in {"node", "nodeGpu"} -> NodeBody(spec)
      [] o = "dcgmSvc"             -> DcgmBody(spec)
      [] o = "config"              -> ConfigBody(spec, m)
      [] o = "open"                -> OpenBody(spec, m)
      [] o \in {"svc", "sa", "role", "binding"} -> Blank

Ensure(os) == <<[op |-> "ensure", objs |-> os]>>  \* CreateOrUpdate, errors returned
Remove(os) == <<[op |-> "remove", objs |-> os]>>  \* cached Get, then Delete
Drop(os)   == <<[op |-> "drop",   objs |-> os]>>  \* Delete unconditionally

RemoveOpenAgent == Remove(<<"open", "config", "sa", "role", "binding">>)

NodeCalls(spec) ==
    IF ~spec.node             THEN Remove(<<"node">>)
    ELSE IF spec.gpu = "split" THEN Ensure(<<"nodeGpu", "node">>)
    ELSE Drop(<<"nodeGpu">>) \o Ensure(<<"node">>)

DcgmCalls(spec) ==
    IF spec.node /\ spec.gpu # "off" /\ spec.dcgm
    THEN Ensure(<<"dcgmSvc">>) ELSE <<>>

\* The calls of an installing pass, in order.
InstallCalls(spec) ==
    Ensure(<<"svc", "secret", "mwc">>)
    \o (IF spec.master THEN Ensure(<<"master">>) ELSE Remove(<<"master">>))
    \o NodeCalls(spec)
    \o DcgmCalls(spec)
    \o (IF spec.open THEN Ensure(<<"sa", "role", "binding", "config", "open">>)
                     ELSE RemoveOpenAgent)

\* The calls of cleanupAgents.
CleanupCalls ==
    Remove(<<"master">>) \o Remove(<<"node">>) \o RemoveOpenAgent
    \o Drop(<<"mwc">>) \o Drop(<<"svc">>) \o Drop(<<"secret">>)

-----------------------------------------------------------------------------
(***************************************************************************)
(* Reconcile.                                                              *)
(***************************************************************************)

\* A write of an object that changes it is an event for the caches.
WriteObj(o, new) ==
    /\ objs' = [objs EXCEPT ![o] = new]
    /\ unseen' = IF objs[o] = new THEN unseen ELSE unseen \cup {o}

\* Every write of the WhatapAgent gives it a new resourceVersion; the copy
\* the controller wrote it from is given the new version, others are stale.
WriteCR(new) == cr' = new /\ cacheFresh' = FALSE

\* Reconcile returns; nothing it holds in memory outlives the pass.
EndPass ==
    /\ pc' = "idle" /\ work' = NoCR /\ workFresh' = FALSE
    /\ calls' = <<>> /\ listed' = 0 /\ tries' = 0

\* A pass that returns an error is queued again by the rate limiter.
ReturnError == EndPass /\ queued' = TRUE

\* An API call that fails, or whose answer is lost.
Fault == faults < MaxFaults /\ faults' = faults + 1

\* Faulty variant: the deletion timestamp is not looked at.
StartPassUndeleted ==
    /\ pc = "idle" /\ queued /\ queued' = FALSE
    /\ IF cache = NoCR
       THEN UNCHANGED <<pc, work, workFresh>>
       ELSE /\ work' = cache /\ workFresh' = cacheFresh
            /\ pc' = IF cache.fin THEN "progress" ELSE "finalize"
    /\ UNCHANGED <<apiVars, cacheVars, calls, listed, tries, timer, epoch, faults>>

\* A pass begins with the WhatapAgent of the cache; a request for a resource
\* that is gone is dropped.
StartPass ==
    /\ pc = "idle" /\ queued
    /\ queued' = FALSE
    /\ IF cache = NoCR
       THEN UNCHANGED <<pc, work, workFresh, calls>>
       ELSE /\ work' = cache /\ workFresh' = cacheFresh
            /\ pc' = IF cache.del THEN "cleanup"
                     ELSE IF cache.fin THEN "progress" ELSE "finalize"
            /\ calls' = IF cache.del /\ cache.fin THEN CleanupCalls ELSE <<>>
    /\ listed' = 0 /\ tries' = 0
    /\ UNCHANGED <<apiVars, cacheVars, timer, epoch, faults>>

\* Faulty variants: the error of the update is ignored; the update is sent
\* without the resourceVersion, so that nothing refuses it.
AddFinalizerAnyway ==
    /\ pc = "finalize" /\ pc' = "progress"
    /\ IF workFresh THEN WriteCR([work EXCEPT !.fin = TRUE])
                    ELSE UNCHANGED <<cr, cacheFresh>>
    /\ work' = [work EXCEPT !.fin = TRUE]
    /\ UNCHANGED <<queued, workFresh, calls, listed, tries, faults, uids, status, objs,
                   mon, cache, view, unseen, monView, timer, epoch>>

AddFinalizerForced ==
    /\ pc = "finalize" /\ pc' = "progress"
    /\ WriteCR([work EXCEPT !.fin = TRUE])
    /\ work' = [work EXCEPT !.fin = TRUE] /\ workFresh' = TRUE
    /\ UNCHANGED <<queued, calls, listed, tries, faults, uids, status, objs,
                   mon, cache, view, unseen, monView, timer, epoch>>

\* The update sends the whole copy back; the API server refuses a stale one.
AddFinalizer ==
    /\ pc = "finalize"
    /\ \/ /\ workFresh
          /\ WriteCR([work EXCEPT !.fin = TRUE])
          /\ \/ /\ work' = [work EXCEPT !.fin = TRUE] /\ pc' = "progress"
                /\ UNCHANGED <<queued, workFresh, calls, listed, tries, faults>>
             \/ Fault /\ ReturnError
       \/ /\ \/ ~workFresh /\ UNCHANGED faults
             \/ Fault
          /\ ReturnError /\ UNCHANGED <<cr, cacheFresh>>
    /\ UNCHANGED <<uids, status, objs, mon, cache, view, unseen, monView, timer, epoch>>

\* A status write whose error is ignored: it lands only from a fresh copy,
\* and a write that changes nothing leaves the resourceVersion alone. When the
\* answer is lost, work keeps the resourceVersion from before the write.
WriteStatus(new) ==
    \/ /\ workFresh
       /\ status' = new
       /\ cacheFresh' = (cacheFresh /\ status = new)
       /\ UNCHANGED faults \/ Fault
    \/ /\ \/ ~workFresh /\ UNCHANGED faults
          \/ Fault
       /\ UNCHANGED <<status, cacheFresh>>

MarkReconciling ==
    /\ pc = "progress"
    /\ WriteStatus([status EXCEPT !.avail = "Reconciling"])
    /\ workFresh' = (workFresh /\ (faults' = faults \/ status' = status))
    /\ pc' = "install" /\ calls' = InstallCalls(work.spec)
    /\ UNCHANGED <<cr, uids, objs, mon, cache, view, unseen, monView, queued, timer,
                   work, listed, tries, epoch>>

\* Faulty variant: a failed installation is reported but not returned.
MarkFailedDone ==
    /\ pc = "failed"
    /\ WriteStatus([status EXCEPT !.avail = "InstallFailed"])
    /\ EndPass
    /\ UNCHANGED <<cr, uids, objs, mon, cache, view, unseen, monView, queued,
                   timer, epoch>>

MarkFailed ==
    /\ pc = "failed"
    /\ WriteStatus([status EXCEPT !.avail = "InstallFailed"])
    /\ ReturnError
    /\ UNCHANGED <<cr, uids, objs, mon, cache, view, unseen, monView, timer, epoch>>

Current(op) == calls # <<>> /\ Head(calls).op = op
Target  == Head(Head(calls).objs)
LeaveCall == calls' = Tail(calls)
NextCall ==
    LET rest == Tail(Head(calls).objs) IN
    calls' = IF rest = <<>> THEN Tail(calls)
             ELSE <<[Head(calls) EXCEPT !.objs = rest]>> \o Tail(calls)

\* Faulty variant: SetControllerReference is forgotten.
DesiredUnowned(o) ==
    [owner |-> NoOwner, body |-> Render(o, work.spec, epoch, listed)]

Desired(o) == [owner |-> work.uid, body |-> Render(o, work.spec, epoch, listed)]

\* The monitors are listed once, after the ClusterRoleBinding: ConfigMap and
\* Deployment are built from that list, whatever arrives in between.
\*
\* controllerutil.CreateOrUpdate reads the cache and then writes, creating
\* the object or updating the version it read.
CreateApplies(o) == view[o] = None /\ objs[o] = None
UpdateApplies(o) == view[o] # None /\ o \notin unseen /\ view[o] # Desired(o)
EnsureApplies(o) == CreateApplies(o) \/ UpdateApplies(o)
\* A cached copy that already has the content is left alone (server-side
\* defaults make some kinds send the update all the same).
EnsureSkips(o)   == view[o] = Desired(o)
\* AlreadyExists, NotFound or Conflict: the cache was behind.
EnsureRefused(o) == o \in unseen /\ (view[o] # None \/ objs[o] # None)

EnsureObject ==
    /\ pc = "install" /\ Current("ensure")
    /\ LET o == Target IN
       \/ EnsureApplies(o) /\ WriteObj(o, Desired(o))
       \/ EnsureSkips(o) /\ UNCHANGED <<objs, unseen>>
    /\ listed' = IF Target = "binding" THEN monView ELSE listed
    /\ NextCall /\ tries' = 0
    /\ UNCHANGED <<cr, uids, status, mon, cache, cacheFresh, view, monView,
                   queued, timer, pc, work, workFresh, epoch, faults>>

\* An error ends the pass, except that the open agent's Deployment is tried
\* DeployTries times. A lost answer is an error of a write that was applied.
EnsureFails ==
    /\ pc = "install" /\ Current("ensure")
    /\ LET o == Target IN
       /\ \/ EnsureRefused(o) /\ UNCHANGED <<objs, unseen, faults>>
          \/ Fault /\ UNCHANGED <<objs, unseen>>
          \/ Fault /\ EnsureApplies(o) /\ WriteObj(o, Desired(o))
       /\ IF o = "open" /\ tries + 1 < DeployTries
          THEN tries' = tries + 1 /\ UNCHANGED pc
          ELSE tries' = 0 /\ pc' = "failed"
    /\ UNCHANGED <<cr, uids, status, mon, cache, cacheFresh, view, monView,
                   queued, timer, work, workFresh, calls, listed, epoch>>

Deleting(op) == pc \in {"install", "cleanup"} /\ Current(op)

\* A cleanup helper deletes what the cache shows and ignores NotFound.
RemoveObject ==
    /\ Deleting("remove")
    /\ IF view[Target] = None THEN UNCHANGED <<objs, unseen>>
                              ELSE WriteObj(Target, None)
    /\ NextCall
    /\ UNCHANGED <<cr, uids, status, mon, cache, cacheFresh, view, monView,
                   queued, timer, pc, work, workFresh, listed, tries, epoch, faults>>

DropObject ==
    /\ Deleting("drop")
    /\ WriteObj(Target, None)
    /\ NextCall
    /\ UNCHANGED <<cr, uids, status, mon, cache, cacheFresh, view, monView,
                   queued, timer, pc, work, workFresh, listed, tries, epoch, faults>>

\* A failing deletion leaves its helper at once, and Reconcile goes on.
DeleteFails ==
    /\ Deleting("drop") \/ (Deleting("remove") /\ view[Target] # None)
    /\ Fault
    /\ UNCHANGED <<objs, unseen>> \/ WriteObj(Target, None)
    /\ LeaveCall
    /\ UNCHANGED <<cr, uids, status, mon, cache, cacheFresh, view, monView,
                   queued, timer, pc, work, workFresh, listed, tries, epoch>>

\* Faulty variant: no RequeueAfter.
ReportInstalledOnce ==
    /\ pc = "install" /\ calls = <<>> /\ cache # NoCR /\ cacheFresh
    /\ status' = [avail |-> "Installed", obs |-> cache.gen]
    /\ cacheFresh' = (status = status')
    /\ EndPass
    /\ UNCHANGED <<cr, uids, objs, mon, cache, view, unseen, monView, queued,
                   timer, epoch, faults>>

\* The last step of an installing pass reads the WhatapAgent again, reports
\* it installed at the generation it now reads, and asks to be called again.
ReportInstalled ==
    /\ pc = "install" /\ calls = <<>>
    /\ cache # NoCR /\ cacheFresh
    /\ status' = [avail |-> "Installed", obs |-> cache.gen]
    /\ cacheFresh' = (status = status')
    /\ \/ EndPass /\ timer' = TRUE /\ UNCHANGED <<queued, faults>>
       \/ Fault /\ ReturnError /\ UNCHANGED timer
    /\ UNCHANGED <<cr, uids, objs, mon, cache, view, unseen, monView, epoch>>

\* Faulty variants: the status is given up silently; one try too many.
ReportFailsSilently ==
    /\ pc = "install" /\ calls = <<>> /\ ~cacheFresh
    /\ EndPass /\ timer' = TRUE
    /\ UNCHANGED <<apiVars, cacheVars, queued, epoch, faults>>

ReportFailsLate ==
    /\ pc = "install" /\ calls = <<>> /\ ~cacheFresh
    /\ \/ /\ tries <= StatusTries /\ tries' = tries + 1
          /\ UNCHANGED <<pc, work, workFresh, calls, listed, queued>>
       \/ tries > StatusTries /\ ReturnError
    /\ UNCHANGED <<apiVars, cacheVars, timer, epoch, faults>>

\* The write is refused while the cache is behind: retried on a conflict,
\* given up after StatusTries, or at once on any other error.
ReportFails ==
    /\ pc = "install" /\ calls = <<>>
    /\ \/ /\ cache # NoCR /\ ~cacheFresh /\ tries + 1 < StatusTries
          /\ tries' = tries + 1
          /\ UNCHANGED <<pc, work, workFresh, calls, listed, queued, faults>>
       \/ /\ \/ cache = NoCR /\ UNCHANGED faults
             \/ ~cacheFresh /\ tries + 1 >= StatusTries /\ UNCHANGED faults
             \/ Fault
          /\ ReturnError
    /\ UNCHANGED <<apiVars, cacheVars, timer, epoch>>

\* The end of a deleting pass: the update without the finalizer, which lets
\* the WhatapAgent go unless another finalizer holds it.
Released == IF work.hold THEN [work EXCEPT !.fin = FALSE] ELSE NoCR

\* Faulty variant: a refused update is the end of the matter.
ReleaseCROnce ==
    /\ pc = "cleanup" /\ calls = <<>>
    /\ IF workFresh /\ work.fin THEN WriteCR(Released)
                                ELSE UNCHANGED <<cr, cacheFresh>>
    /\ EndPass
    /\ UNCHANGED <<uids, status, objs, mon, cache, view, unseen, monView, queued,
                   timer, epoch, faults>>

\* Faulty variant: no return after the finalizer is removed.
ReleaseCRGoesOn ==
    /\ pc = "cleanup" /\ calls = <<>> /\ workFresh /\ work.fin
    /\ WriteCR(Released)
    /\ pc' = "install" /\ calls' = InstallCalls(work.spec)
    /\ UNCHANGED <<uids, status, objs, mon, cache, view, unseen, monView, queued, timer,
                   work, workFresh, listed, tries, epoch, faults>>

ReleaseCR ==
    /\ pc = "cleanup" /\ calls = <<>>
    /\ \/ /\ workFresh /\ work.fin
          /\ WriteCR(Released)
          /\ \/ EndPass /\ UNCHANGED <<queued, faults>>
             \/ Fault /\ ReturnError
       \/ /\ workFresh /\ ~work.fin
          /\ EndPass /\ UNCHANGED <<cr, cacheFresh, queued, faults>>
       \/ /\ \/ ~workFresh /\ UNCHANGED faults
             \/ Fault
          /\ ReturnError /\ UNCHANGED <<cr, cacheFresh>>
    /\ UNCHANGED <<uids, status, objs, mon, cache, view, unseen, monView, timer, epoch>>

-----------------------------------------------------------------------------
(***************************************************************************)
(* Informers, timer and restarts.                                          *)
(***************************************************************************)

\* GenerationChangedPredicate drops an update that keeps the generation.
Notable(old, new) ==
    \/ (old = NoCR) # (new = NoCR)
    \/ old # NoCR /\ new # NoCR /\ (old.uid # new.uid \/ old.gen # new.gen)

SyncCR ==
    /\ ~cacheFresh
    /\ cache' = cr /\ cacheFresh' = TRUE
    /\ queued' = (queued \/ Notable(cache, cr))
    /\ UNCHANGED <<apiVars, view, unseen, monView, timer, passVars, epoch, faults>>

\* Owns(...): an event on an owned object queues its owner, by name.
SyncObjects(kind) ==
    /\ kind \cap unseen # {}
    /\ view' = [o \in Objs |-> IF o \in kind THEN objs[o] ELSE view[o]]
    /\ unseen' = unseen \ kind
    /\ queued' = TRUE
    /\ UNCHANGED <<apiVars, cache, cacheFresh, monView, timer, passVars, epoch, faults>>

\* Faulty variant: the monitors are not watched.
SyncMonitorsUnwatched ==
    /\ monView # mon
    /\ monView' = mon
    /\ UNCHANGED <<apiVars, cache, cacheFresh, view, unseen, queued, timer,
                   passVars, epoch, faults>>

\* Watches(...): an event on a monitor queues the WhatapAgents of the cache.
SyncMonitors ==
    /\ monView # mon
    /\ monView' = mon
    /\ queued' = (queued \/ cache # NoCR)
    /\ UNCHANGED <<apiVars, cache, cacheFresh, view, unseen, timer, passVars, epoch, faults>>

TimerFires ==
    /\ timer
    /\ timer' = FALSE /\ queued' = TRUE
    /\ UNCHANGED <<apiVars, cacheVars, passVars, epoch, faults>>

\* Faulty variant: only events after the start of a process queue requests.
RestartUnqueued ==
    /\ epoch < MaxEpoch
    /\ epoch' = epoch + 1
    /\ cache' = cr /\ cacheFresh' = TRUE
    /\ view' = objs /\ unseen' = {} /\ monView' = mon
    /\ queued' = FALSE /\ timer' = FALSE
    /\ EndPass
    /\ UNCHANGED <<apiVars, faults>>

\* A new process lists everything again, makes new certificates, and has
\* forgotten its pass, its queue and its timer.
Restart ==
    /\ epoch < MaxEpoch
    /\ epoch' = epoch + 1
    /\ cache' = cr /\ cacheFresh' = TRUE
    /\ view' = objs /\ unseen' = {} /\ monView' = mon
    /\ queued' = (cr # NoCR \/ \E o \in Objs : objs[o] # None)
    /\ timer' = FALSE
    /\ EndPass
    /\ UNCHANGED <<apiVars, faults>>

-----------------------------------------------------------------------------
(***************************************************************************)
(* The cluster around the operator.                                        *)
(***************************************************************************)
Stale == cacheFresh' = FALSE /\ workFresh' = FALSE

UserCreates(spec) ==
    /\ cr = NoCR /\ uids < MaxUid
    /\ uids' = uids + 1
    /\ cr' = [uid |-> uids + 1, gen |-> 1, spec |-> spec,
              del |-> FALSE, fin |-> FALSE, hold |-> FALSE]
    /\ status' = NewStatus
    /\ Stale
    /\ UNCHANGED <<objs, mon, cache, view, unseen, monView, queued, timer,
                   pc, work, calls, listed, tries, epoch, faults>>

UserEdits(spec) ==
    /\ cr # NoCR /\ cr.gen < MaxGen /\ spec # cr.spec
    /\ cr' = [cr EXCEPT !.spec = spec, !.gen = @ + 1]
    /\ Stale
    /\ UNCHANGED <<uids, status, objs, mon, cache, view, unseen, monView, queued, timer,
                   pc, work, calls, listed, tries, epoch, faults>>

\* A deletion marks a resource that has finalizers; a foreground deletion
\* adds one of its own.
UserDeletes(foreground) ==
    /\ cr # NoCR /\ ~cr.del /\ cr.gen < MaxGen
    /\ cr' = IF cr.fin \/ foreground
             THEN [cr EXCEPT !.del = TRUE, !.hold = foreground, !.gen = @ + 1]
             ELSE NoCR
    /\ Stale
    /\ UNCHANGED <<uids, status, objs, mon, cache, view, unseen, monView, queued, timer,
                   pc, work, calls, listed, tries, epoch, faults>>

\* The garbage collector removes the dependents of a deleted owner, in the
\* foreground case before the owner.
Doomed(o) ==
    /\ objs[o] # None /\ objs[o].owner # NoOwner
    /\ \/ cr = NoCR
       \/ cr # NoCR /\ (cr.uid # objs[o].owner \/ (cr.del /\ cr.hold))

CollectGarbage(o) ==
    /\ Doomed(o)
    /\ WriteObj(o, None)
    /\ UNCHANGED <<cr, uids, status, mon, cache, cacheFresh, view, monView,
                   queued, timer, passVars, epoch, faults>>

ReleaseHold ==
    /\ cr # NoCR /\ cr.hold
    /\ \A o \in Objs : objs[o] # None => objs[o].owner # cr.uid
    /\ cr' = IF cr.fin THEN [cr EXCEPT !.hold = FALSE] ELSE NoCR
    /\ Stale
    /\ UNCHANGED <<uids, status, objs, mon, cache, view, unseen, monView, queued, timer,
                   pc, work, calls, listed, tries, epoch, faults>>

ForeignDelete(o) ==
    /\ objs[o] # None /\ Fault
    /\ WriteObj(o, None)
    /\ UNCHANGED <<cr, uids, status, mon, cache, cacheFresh, view, monView,
                   queued, timer, passVars, epoch>>

MonitorsChange ==
    /\ mon < MaxMon
    /\ mon' = mon + 1
    /\ UNCHANGED <<cr, uids, status, objs, cacheVars, queued, timer, passVars,
                   epoch, faults>>

-----------------------------------------------------------------------------
Reconcile ==
    \/ StartPass \/ AddFinalizer \/ MarkReconciling \/ MarkFailed
    \/ EnsureObject \/ EnsureFails
    \/ RemoveObject \/ DropObject \/ DeleteFails
    \/ ReportInstalled \/ ReportFails \/ ReleaseCR

Operator ==
    \/ SyncCR \/ SyncMonitors \/ TimerFires \/ Restart
    \/ \E kind \in Informers : SyncObjects(kind)

Cluster ==
    \/ \E spec \in Specs : UserCreates(spec) \/ UserEdits(spec)
    \/ \E foreground \in Foreground : UserDeletes(foreground)
    \/ \E o \in Objs : CollectGarbage(o) \/ ForeignDelete(o)
    \/ ReleaseHold \/ MonitorsChange

Next == Reconcile \/ Operator \/ Cluster

\* The worker, the informers, the timer and the garbage collector keep
\* running; users, failures and restarts need not happen.
Fairness ==
    /\ WF_vars(Reconcile)
    /\ WF_vars(SyncCR) /\ WF_vars(SyncMonitors) /\ WF_vars(TimerFires)
    /\ \A kind \in Informers : WF_vars(SyncObjects(kind))
    /\ WF_vars(ReleaseHold)
    /\ \A o \in Objs : WF_vars(CollectGarbage(o))

Spec == Init /\ [][Next]_vars /\ Fairness

-----------------------------------------------------------------------------
(***************************************************************************)
(* The inductive invariant behind InstallsForLiveOwner, NoLostEdit and     *)
(* FinalizerGuardsObjects: what a copy of the WhatapAgent, possibly stale, *)
(* still says about the resource.                                          *)
(***************************************************************************)

\* A copy with the current resourceVersion is the resource.
FreshCopies ==
    /\ cacheFresh => cache = cr
    /\ workFresh  => work = cr

\* Live and guarded copies stay true: only a pass that saw the deletion takes
\* the finalizer away, and the cache has seen the deletion by then.
GuardedCopies ==
    /\ cache # NoCR /\ cache.fin /\ ~cache.del
       => cr # NoCR /\ cr.uid = cache.uid /\ cr.fin
    /\ pc = "cleanup" => work # NoCR /\ work.del
    /\ pc = "cleanup" /\ workFresh => cache = NoCR \/ cache.del
    /\ pc = "finalize" => work # NoCR /\ ~work.del
    /\ pc \in {"progress", "install", "failed"}
       => cr # NoCR /\ work # NoCR /\ cr.uid = work.uid /\ cr.fin

KnownOwners ==
    /\ cr # NoCR => cr.uid <= uids
    /\ \A o \in Objs : objs[o] # None => objs[o].owner <= uids

\* Every action of Reconcile, interleaved with edits, deletions and restarts,
\* preserves the conjunction (see WhatapReconcilerProofs).
GuardInv == FreshCopies /\ GuardedCopies /\ KnownOwners

-----------------------------------------------------------------------------
(***************************************************************************)
(* Properties.                                                             *)
(***************************************************************************)
Alive == cr # NoCR /\ ~cr.del

\* The objects a spec asks for.
Wanted(spec) ==
    Webhook
    \cup (IF spec.master THEN {"master"} ELSE {})
    \cup (IF spec.node THEN {"node"} ELSE {})
    \cup (IF spec.node /\ spec.gpu = "split" THEN {"nodeGpu"} ELSE {})
    \cup (IF spec.node /\ spec.gpu # "off" /\ spec.dcgm THEN {"dcgmSvc"} ELSE {})
    \cup (IF spec.open THEN OpenObjs ELSE {})

Conforms ==
    \A o \in Wanted(cr.spec) :
        objs[o] = [owner |-> cr.uid, body |-> Render(o, cr.spec, epoch, mon)]

\* The operator knows everything and has nothing to do but wait.
AtRest ==
    /\ pc = "idle" /\ ~queued
    /\ cacheFresh /\ unseen = {} /\ monView = mon

(***************************************************************************)
(* The inductive invariant behind RestConforms and RestReported: as long   *)
(* as no request is queued, nothing has happened that the pass, or the     *)
(* last one, does not know of.                                             *)
(***************************************************************************)

\* Two copies tell Reconcile to do the same.
Same(a, b) ==
    /\ a # NoCR /\ b # NoCR
    /\ a.uid = b.uid /\ a.gen = b.gen /\ a.spec = b.spec /\ a.del = b.del

\* The generation tells whether a cached copy is behind in what matters.
CopiesDated ==
    /\ cache # NoCR => cache.uid <= uids
    /\ cr # NoCR /\ cache # NoCR /\ cr.uid = cache.uid
       => cache.gen <= cr.gen /\ (cache.gen = cr.gen => Same(cache, cr))

\* The caches are only behind where an event is on its way.
ViewKnown == \A o \in Objs : o \notin unseen => view[o] = objs[o]

\* What a sequence of helper calls has still to install.
Pending(cs) ==
    {o \in Objs : \E i \in DOMAIN cs :
        cs[i].op = "ensure" /\ \E j \in DOMAIN cs[i].objs : cs[i].objs[j] = o}

\* The list of monitors is taken before anything is made from it.
ListsFirst(cs) ==
    \A i \in DOMAIN cs : cs[i].op = "ensure" =>
        \A j \in DOMAIN cs[i].objs : cs[i].objs[j] \in {"config", "open"}
            => \E k \in 1..j-1 : cs[i].objs[k] = "binding"

\* An object is as w wants it, or an event about it will start another pass.
InPlace(o, w) ==
    \/ o \in unseen
    \/ objs[o] = [owner |-> w.uid, body |-> Render(o, w.spec, epoch, monView)]

Undisturbed ==
    ~queued =>
      /\ pc # "idle" => Same(work, cache)
      /\ pc = "install" =>
           /\ listed = monView \/ ListsFirst(calls)
           /\ \A o \in Wanted(work.spec) \ Pending(calls) : InPlace(o, work)
      /\ pc = "idle" /\ cache # NoCR /\ ~cache.del =>
           /\ \A o \in Wanted(cache.spec) : InPlace(o, cache)
           /\ cr # NoCR /\ cr.uid = cache.uid
              => status = [avail |-> "Installed", obs |-> cache.gen]

\* Whatever comes between two steps of a pass, an event, an edit, a failure
\* or a restart, either leaves this true or queues another pass.
RestInv == CopiesDated /\ ViewKnown /\ Undisturbed

\* Whenever the operator rests, every object the WhatapAgent asks for is
\* installed for the current spec, monitors and certificate: whatever edit,
\* deletion, failure or restart came in the middle of a pass of Reconcile,
\* some event or error queued another pass.
RestConforms == AtRest /\ Alive => Conforms

\* Whenever the operator rests, the status says Installed at the current
\* generation: a status write refused for a stale copy is never the last word.
RestReported == AtRest /\ Alive => status = [avail |-> "Installed", obs |-> cr.gen]

\* A live WhatapAgent without the operator's finalizer owns nothing, so that
\* deleting it at once leaves nothing for cleanupAgents to do.
FinalizerGuardsObjects ==
    Alive /\ ~cr.fin => \A o \in Objs : objs[o] # None => objs[o].owner # cr.uid

\* An object is created or taken over only for the WhatapAgent that exists at
\* that moment, and only while it holds the finalizer: Reconcile works from
\* cached copies, and never installs for a resource that is gone.
InstallsForLiveOwner ==
    [][\A o \in Objs :
          objs'[o] # objs[o] /\ objs'[o] # None
          => cr # NoCR /\ cr.fin /\ objs'[o].owner = cr.uid]_vars

\* No write of Reconcile undoes what a user did meanwhile: its updates of the
\* WhatapAgent change the finalizer and nothing else, and the one that lets the
\* resource go does so only to a resource that is being deleted.
NoLostEdit ==
    [][pc # "idle" /\ pc' # pc /\ cr' # cr
       => /\ cr # NoCR
          /\ IF cr' = NoCR THEN cr.del ELSE cr' = [cr EXCEPT !.fin = cr'.fin]]_vars

\* The detailed system seen as the abstract one.
Phase ==
    IF cr = NoCR THEN "absent"
    ELSE IF cr.del THEN (IF cr.fin THEN "deleting" ELSE "released")
    ELSE IF cr.fin THEN "guarded" ELSE "new"

Installed == {o \in Objs : objs[o] # None}

Lifecycle == INSTANCE AgentLifecycle WITH
    last   <- uids,
    phase  <- Phase,
    owners <- {objs[o].owner : o \in Installed}

\* Every step of queue, caches, Reconcile, cluster and restarts is a step of
\* the abstract lifecycle or changes nothing of it: the finalizer comes before
\* the first object, objects belong to the resource of the moment, and nothing
\* is installed for a resource the operator has released.
ImplementsLifecycle == Lifecycle!Spec

\* What may stay although the spec does not ask for it: no call deletes the
\* service of the exporter, and none the GPU DaemonSet while nodeAgent is off.
Leftovers(spec) == {"dcgmSvc"} \cup (IF spec.node THEN {} ELSE {"nodeGpu"})

\* When the users leave the resource alone, the operator ends up with everything
\* the spec asks for installed and, those leftovers apart, with nothing else:
\* what the last edits switched off is removed (cleanupMasterAgent,
\* cleanupNodeAgent, cleanupOpenAgent, createOrUpdateNodeAgent) although errors
\* of the removal are only logged, and caches may not show the object yet.
Settles ==
    <>[](Alive => /\ Conforms
                  /\ \A o \in Objs \ (Wanted(cr.spec) \cup Leftovers(cr.spec)) :
                        objs[o] = None)

\* After the last disturbance the status reaches Installed again and again.
ReportsInstalled == []<>(Alive => status = [avail |-> "Installed", obs |-> cr.gen])

\* A deletion completes: cleanup errors and stale copies delay the removal of
\* the finalizer but never block it.
DeletionCompletes == (cr # NoCR /\ cr.del) ~> (cr = NoCR \/ ~cr.del)

\* Once the WhatapAgent is gone for good, so is every object of it.
LeavesNothing == <>[](cr = NoCR => \A o \in Objs : objs[o] = None)

\* whatapagent_controller.go:517 "Cleanup Node Agent if disabled": no node
\* agent is left when nodeAgent is disabled.
NoNodeAgentsWhenDisabled ==
    <>[](Alive /\ ~cr.spec.node => objs["node"] = None /\ objs["nodeGpu"] = None)
=============================================================================
