--------------------- MODULE WhatapReconcilerRestProofs ---------------------
(***************************************************************************)
(* What the operator leaves behind when it rests: RestInv is an invariant  *)
(* of WhatapReconciler, and with it RestConforms and RestReported, for any *)
(* set of specs, any bounds and any grouping of the informers' events.     *)
(***************************************************************************)
EXTENDS WhatapReconcilerProofs

(***************************************************************************)
(* The planned calls.                                                      *)
(***************************************************************************)

\* Calls planned one after the other install what each of them installs.
LEMMA PendingConcat ==
    ASSUME NEW s \in Seq(CallType), NEW t \in Seq(CallType)
    PROVE  Pending(s) \cup Pending(t) \subseteq Pending(s \o t)
<1>1. ASSUME NEW i \in DOMAIN s
      PROVE  i \in DOMAIN (s \o t) /\ (s \o t)[i] = s[i]
  BY <1>1, ConcatProperties
<1>2. ASSUME NEW i \in DOMAIN t
      PROVE  Len(s) + i \in DOMAIN (s \o t) /\ (s \o t)[Len(s) + i] = t[i]
  BY <1>2, ConcatProperties
<1>3. ASSUME NEW o \in Pending(s)
      PROVE  o \in Pending(s \o t)
  <2>1. PICK i \in DOMAIN s : s[i].op = "ensure" /\ \E j \in DOMAIN s[i].objs : s[i].objs[j] = o
    BY DEF Pending
  <2>2. QED
    BY <2>1, <1>1 DEF Pending
<1>4. ASSUME NEW o \in Pending(t)
      PROVE  o \in Pending(s \o t)
  <2>1. PICK i \in DOMAIN t : t[i].op = "ensure" /\ \E j \in DOMAIN t[i].objs : t[i].objs[j] = o
    BY DEF Pending
  <2>2. QED
    BY <2>1, <1>2 DEF Pending
<1>5. QED
  BY <1>3, <1>4

\* A CreateOrUpdate helper installs the objects it is given.
LEMMA PendingEnsure ==
    ASSUME NEW os \in Seq(Objs), os # <<>>
    PROVE  \A j \in DOMAIN os : os[j] \in Pending(Ensure(os))
BY DEF Pending, Ensure

\* Two lists that take the monitors first do so one after the other.
LEMMA ListsFirstConcat ==
    ASSUME NEW s \in Seq(CallType), NEW t \in Seq(CallType),
           ListsFirst(s), ListsFirst(t)
    PROVE  ListsFirst(s \o t)
<1>1. ASSUME NEW i \in DOMAIN (s \o t)
      PROVE  \/ i \in DOMAIN s /\ (s \o t)[i] = s[i]
             \/ \E k \in DOMAIN t : (s \o t)[i] = t[k]
  <2>1. CASE i <= Len(s)
    BY <1>1, <2>1, ConcatProperties
  <2>2. CASE i > Len(s)
    <3>1. i - Len(s) \in DOMAIN t /\ (s \o t)[i] = t[i - Len(s)]
      BY <1>1, <2>2, ConcatProperties
    <3>2. QED
      BY <3>1
  <2>3. QED
    BY <1>1, <2>1, <2>2, ConcatProperties
<1>2. QED
  BY <1>1 DEF ListsFirst

\* A call that does not write what the monitors are in.
LEMMA ListsFirstOther ==
    ASSUME NEW os \in Seq(Objs), os # <<>>,
           \A j \in DOMAIN os : os[j] \notin {"config", "open"}
    PROVE  ListsFirst(Ensure(os))
BY DEF ListsFirst, Ensure

\* A deletion lists nothing.
LEMMA ListsFirstDelete ==
    ASSUME NEW os \in Seq(Objs), os # <<>>
    PROVE  ListsFirst(Remove(os)) /\ ListsFirst(Drop(os))
BY DEF ListsFirst, Remove, Drop

\* An installing pass plans to install all the resource asks for, and lists
\* the monitors before it makes anything from them.
LEMMA InstallCallsCover ==
    ASSUME NEW spec \in SpecType
    PROVE  /\ Wanted(spec) \subseteq Pending(InstallCalls(spec))
           /\ ListsFirst(InstallCalls(spec))
<1> DEFINE web  == <<"svc", "secret", "mwc">>
           mst  == <<"master">>
           both == <<"nodeGpu", "node">>
           nod  == <<"node">>
           gpu  == <<"nodeGpu">>
           dcg  == <<"dcgmSvc">>
           opn  == <<"sa", "role", "binding", "config", "open">>
           gone == <<"open", "config", "sa", "role", "binding">>
           a == Ensure(web)
           b == IF spec.master THEN Ensure(mst) ELSE Remove(mst)
           c == NodeCalls(spec)
           d == DcgmCalls(spec)
           e == IF spec.open THEN Ensure(opn) ELSE RemoveOpenAgent
<1>typed.
     /\ web \in Seq(Objs) /\ mst \in Seq(Objs) /\ both \in Seq(Objs) /\ nod \in Seq(Objs)
     /\ gpu \in Seq(Objs) /\ dcg \in Seq(Objs) /\ opn \in Seq(Objs) /\ gone \in Seq(Objs)
  BY DEF Objs, Webhook, Agents, OpenObjs
<1>elems.
     /\ DOMAIN web = 1..3 /\ web[1] = "svc" /\ web[2] = "secret" /\ web[3] = "mwc"
     /\ DOMAIN mst = 1..1 /\ mst[1] = "master"
     /\ DOMAIN both = 1..2 /\ both[1] = "nodeGpu" /\ both[2] = "node"
     /\ DOMAIN nod = 1..1 /\ nod[1] = "node"
     /\ DOMAIN dcg = 1..1 /\ dcg[1] = "dcgmSvc"
     /\ DOMAIN opn = 1..5 /\ opn[1] = "sa" /\ opn[2] = "role" /\ opn[3] = "binding"
     /\ opn[4] = "config" /\ opn[5] = "open"
     /\ web # <<>> /\ mst # <<>> /\ both # <<>> /\ nod # <<>> /\ gpu # <<>>
     /\ dcg # <<>> /\ opn # <<>> /\ gone # <<>>
  OBVIOUS
<1>plain.
     /\ \A j \in DOMAIN web : web[j] \notin {"config", "open"}
     /\ \A j \in DOMAIN mst : mst[j] \notin {"config", "open"}
     /\ \A j \in DOMAIN both : both[j] \notin {"config", "open"}
     /\ \A j \in DOMAIN nod : nod[j] \notin {"config", "open"}
     /\ \A j \in DOMAIN dcg : dcg[j] \notin {"config", "open"}
  OBVIOUS
<1>planned.
     /\ NodeCalls(spec) = IF ~spec.node THEN Remove(nod)
                                  ELSE IF spec.gpu = "split" THEN Ensure(both)
                                  ELSE Drop(gpu) \o Ensure(nod)
     /\ DcgmCalls(spec) = IF spec.node /\ spec.gpu # "off" /\ spec.dcgm
                          THEN Ensure(dcg) ELSE <<>>
     /\ RemoveOpenAgent = Remove(gone)
     /\ InstallCalls(spec) = a \o b \o c \o d \o e
  BY DEF NodeCalls, DcgmCalls, RemoveOpenAgent, InstallCalls
<1> HIDE DEF web, mst, both, nod, gpu, dcg, opn, gone
<1>1. a \in Seq(CallType) /\ Webhook \subseteq Pending(a) /\ ListsFirst(a)
  <2>1. Webhook \subseteq Pending(a)
    BY <1>typed, <1>elems, PendingEnsure DEF Webhook
  <2>2. ListsFirst(a)
    BY <1>typed, <1>elems, <1>plain, ListsFirstOther
  <2>3. QED
    BY <1>typed, <1>elems, <2>1, <2>2, CallTypes
<1>2. /\ b \in Seq(CallType) /\ ListsFirst(b)
      /\ spec.master => "master" \in Pending(b)
  <2>1. "master" \in Pending(Ensure(mst)) /\ ListsFirst(Ensure(mst)) /\ ListsFirst(Remove(mst))
    BY <1>typed, <1>elems, <1>plain, PendingEnsure, ListsFirstOther, ListsFirstDelete
  <2>2. QED
    BY <1>typed, <1>elems, <2>1, CallTypes
<1>3. /\ c \in Seq(CallType) /\ ListsFirst(c)
      /\ spec.node => "node" \in Pending(c)
      /\ spec.node /\ spec.gpu = "split" => "nodeGpu" \in Pending(c)
  <2>1. /\ Ensure(both) \in Seq(CallType) /\ ListsFirst(Ensure(both))
        /\ {"nodeGpu", "node"} \subseteq Pending(Ensure(both))
    <3>1. both[1] \in Pending(Ensure(both)) /\ both[2] \in Pending(Ensure(both))
      BY <1>typed, <1>elems, PendingEnsure
    <3>2. QED
      BY <1>typed, <1>elems, <1>plain, <3>1, ListsFirstOther, CallTypes
  <2>2. /\ Ensure(nod) \in Seq(CallType) /\ ListsFirst(Ensure(nod))
        /\ "node" \in Pending(Ensure(nod))
    <3>1. nod[1] \in Pending(Ensure(nod))
      BY <1>typed, <1>elems, PendingEnsure
    <3>2. QED
      BY <1>typed, <1>elems, <1>plain, <3>1, ListsFirstOther, CallTypes
  <2>3. /\ Remove(nod) \in Seq(CallType) /\ ListsFirst(Remove(nod))
        /\ Drop(gpu) \in Seq(CallType) /\ ListsFirst(Drop(gpu))
    BY <1>typed, <1>elems, CallTypes, ListsFirstDelete
  <2>4. /\ Drop(gpu) \o Ensure(nod) \in Seq(CallType) /\ ListsFirst(Drop(gpu) \o Ensure(nod))
        /\ "node" \in Pending(Drop(gpu) \o Ensure(nod))
    BY <2>2, <2>3, ConcatCalls, ListsFirstConcat, PendingConcat
  <2>5. CASE ~spec.node
    BY <1>planned, <2>3, <2>5 DEF SpecType
  <2>6. CASE spec.node /\ spec.gpu = "split"
    BY <1>planned, <2>1, <2>6 DEF SpecType
  <2>7. CASE spec.node /\ spec.gpu # "split"
    BY <1>planned, <2>4, <2>7 DEF SpecType
  <2>8. QED
    BY <2>5, <2>6, <2>7 DEF SpecType
<1>4. /\ d \in Seq(CallType) /\ ListsFirst(d)
      /\ spec.node /\ spec.gpu # "off" /\ spec.dcgm => "dcgmSvc" \in Pending(d)
  <2>1. /\ Ensure(dcg) \in Seq(CallType) /\ ListsFirst(Ensure(dcg))
        /\ "dcgmSvc" \in Pending(Ensure(dcg))
    <3>1. dcg[1] \in Pending(Ensure(dcg))
      BY <1>typed, <1>elems, PendingEnsure
    <3>2. QED
      BY <1>typed, <1>elems, <1>plain, <3>1, ListsFirstOther, CallTypes
  <2>2. <<>> \in Seq(CallType) /\ ListsFirst(<<>>)
    BY EmptySeq DEF ListsFirst
  <2>3. QED
    BY <1>planned, <2>1, <2>2
<1>5. /\ e \in Seq(CallType) /\ ListsFirst(e)
      /\ spec.open => OpenObjs \subseteq Pending(e)
  <2>1. \A j \in 1..5 : opn[j] \in Pending(Ensure(opn))
    BY <1>typed, <1>elems, PendingEnsure
  <2>2. OpenObjs \subseteq Pending(Ensure(opn))
    BY <1>elems, <2>1 DEF OpenObjs
  <2>3. ListsFirst(Ensure(opn))
    <3>1. ASSUME NEW j \in DOMAIN opn, opn[j] \in {"config", "open"}
          PROVE  3 \in 1..j-1 /\ opn[3] = "binding"
      BY <1>elems, <3>1
    <3>2. QED
      BY <3>1 DEF ListsFirst, Ensure
  <2>4. RemoveOpenAgent \in Seq(CallType) /\ ListsFirst(RemoveOpenAgent)
    BY <1>typed, <1>elems, <1>planned, RemoveOpenAgentType, ListsFirstDelete
  <2>5. QED
    BY <1>typed, <1>elems, <2>2, <2>3, <2>4, CallTypes
<1> HIDE DEF a, b, c, d, e
<1>6. /\ a \o b \in Seq(CallType) /\ ListsFirst(a \o b)
      /\ Pending(a) \cup Pending(b) \subseteq Pending(a \o b)
  BY <1>1, <1>2, ConcatCalls, ListsFirstConcat, PendingConcat
<1>7. /\ a \o b \o c \in Seq(CallType) /\ ListsFirst(a \o b \o c)
      /\ Pending(a \o b) \cup Pending(c) \subseteq Pending(a \o b \o c)
  BY <1>3, <1>6, ConcatCalls, ListsFirstConcat, PendingConcat
<1>8. /\ a \o b \o c \o d \in Seq(CallType) /\ ListsFirst(a \o b \o c \o d)
      /\ Pending(a \o b \o c) \cup Pending(d) \subseteq Pending(a \o b \o c \o d)
  BY <1>4, <1>7, ConcatCalls, ListsFirstConcat, PendingConcat
<1>9. /\ ListsFirst(a \o b \o c \o d \o e)
      /\ Pending(a \o b \o c \o d) \cup Pending(e) \subseteq Pending(a \o b \o c \o d \o e)
  BY <1>5, <1>8, ListsFirstConcat, PendingConcat
<1>10. InstallCalls(spec) = a \o b \o c \o d \o e
  BY <1>planned DEF a, b, c, d, e
<1>11. Wanted(spec) \subseteq Pending(a) \cup Pending(b) \cup Pending(c) \cup Pending(d) \cup Pending(e)
  BY <1>1, <1>2, <1>3, <1>4, <1>5 DEF Wanted, SpecType
<1>12. QED
  BY <1>6, <1>7, <1>8, <1>9, <1>10, <1>11

\* Advancing in a call, or leaving a deletion, skips nothing that is to be
\* installed but the object just dealt with, and keeps the list of monitors
\* ahead of what is made from it.
LEMMA NextCallPending ==
    ASSUME TypeOK, calls # <<>>, NextCall \/ (LeaveCall /\ Head(calls).op # "ensure")
    PROVE  /\ \A o \in Pending(calls) :
                o \in Pending(calls)' \/ (Head(calls).op = "ensure" /\ o = Target)
           /\ ListsFirst(calls) /\ (Head(calls).op = "ensure" => Target # "binding")
              => ListsFirst(calls)'
<1> DEFINE c    == Head(calls)
           os   == c.objs
           rest == Tail(os)
<1>1. /\ c = calls[1] /\ c \in CallType /\ Tail(calls) \in Seq(CallType)
      /\ calls \in Seq(CallType) /\ Len(calls) >= 1
      /\ Len(Tail(calls)) = Len(calls) - 1
      /\ \A i \in 1..Len(calls)-1 : Tail(calls)[i] = calls[i+1]
  BY HeadTailProperties DEF TypeOK
<1>2. /\ os \in Seq(Objs) /\ os # <<>> /\ Target = os[1] /\ Len(os) >= 1
      /\ rest \in Seq(Objs) /\ Len(rest) = Len(os) - 1
      /\ \A j \in 1..Len(os)-1 : rest[j] = os[j+1]
  BY <1>1, HeadTailProperties DEF Target, CallType
<1> DEFINE In(o, x) == x.op = "ensure" /\ \E j \in DOMAIN x.objs : x.objs[j] = o
<1>pend. /\ \A o \in Objs : o \in Pending(calls) <=> \E i \in DOMAIN calls : In(o, calls[i])
         /\ \A o \in Objs : o \in Pending(calls)' <=> \E i \in DOMAIN calls' : In(o, calls'[i])
         /\ Pending(calls) \subseteq Objs
  BY DEF Pending
<1>3. CASE calls' = Tail(calls) /\ (c.op # "ensure" \/ rest = <<>>)
  <2>1. DOMAIN calls' = 1..Len(calls)-1 /\ \A i \in DOMAIN calls' : calls'[i] = calls[i+1]
    BY <1>1, <1>3
  <2>2. ASSUME NEW o \in Pending(calls)
        PROVE  o \in Pending(calls)' \/ (c.op = "ensure" /\ o = Target)
    <3>1. PICK i \in DOMAIN calls : In(o, calls[i])
      BY <2>2, <1>pend
    <3>2. CASE i = 1
      <4>1. PICK j \in DOMAIN os : os[j] = o
        BY <3>1, <3>2, <1>1
      <4>2. rest = <<>> /\ c.op = "ensure"
        BY <3>1, <3>2, <1>1, <1>3
      <4>3. j = 1
        <5>1. Len(os) - 1 = 0
          BY <4>2, <1>2
        <5>2. QED
          BY <4>1, <5>1, <1>2
      <4>4. QED
        BY <4>1, <4>2, <4>3, <1>2
    <3>3. CASE i # 1
      <4>1. i - 1 \in DOMAIN calls' /\ calls'[i-1] = calls[i]
        BY <3>3, <2>1, <1>1
      <4>2. In(o, calls'[i-1])
        BY <4>1, <3>1
      <4> HIDE DEF In
      <4>3. QED
        BY <4>1, <4>2, <2>2, <1>pend
    <3>4. QED
      BY <3>2, <3>3
  <2>3. ListsFirst(calls) => ListsFirst(calls)'
    <3>1. \A i \in DOMAIN calls' : i + 1 \in DOMAIN calls
      BY <2>1, <1>1
    <3>2. QED
      BY <2>1, <3>1 DEF ListsFirst
  <2>4. QED
    BY <2>2, <2>3
<1>4. CASE calls' = <<[c EXCEPT !.objs = rest]>> \o Tail(calls) /\ rest # <<>>
  <2> DEFINE d == [c EXCEPT !.objs = rest]
  <2>1. d.op = c.op /\ d.objs = rest
    BY <1>1 DEF CallType
  <2>2. /\ DOMAIN calls' = DOMAIN calls /\ calls'[1] = d
        /\ \A i \in DOMAIN calls : i # 1 => calls'[i] = calls[i]
    <3>1. d \in CallType
      BY <1>1, <1>2, <1>4 DEF CallType
    <3>2. <<d>> \in Seq(CallType) /\ Len(<<d>>) = 1 /\ <<d>>[1] = d
      BY <3>1
    <3> HIDE DEF d
    <3>3. QED
      BY <1>1, <1>4, <3>2, ConcatProperties DEF d
  <2> HIDE DEF d
  <2>3. ASSUME NEW o \in Pending(calls)
        PROVE  o \in Pending(calls)' \/ (c.op = "ensure" /\ o = Target)
    <3>1. PICK i \in DOMAIN calls : In(o, calls[i])
      BY <2>3, <1>pend
    <3>2. CASE i = 1
      <4>1. PICK j \in DOMAIN os : os[j] = o
        BY <3>1, <3>2, <1>1
      <4>2. CASE j = 1
        BY <4>1, <4>2, <3>1, <3>2, <1>1, <1>2
      <4>3. CASE j # 1
        <5>1. j - 1 \in DOMAIN d.objs /\ d.objs[j-1] = o
          BY <4>1, <4>3, <1>2, <2>1
        <5>2. QED
          <6>1. 1 \in DOMAIN calls' /\ In(o, calls'[1])
            BY <5>1, <3>1, <3>2, <1>1, <2>1, <2>2
          <6> HIDE DEF In
          <6>2. QED
            BY <6>1, <2>3, <1>pend
      <4>4. QED
        BY <4>2, <4>3
    <3>3. CASE i # 1
      <4>1. i \in DOMAIN calls' /\ In(o, calls'[i])
        BY <3>1, <3>3, <2>2
      <4> HIDE DEF In
      <4>2. QED
        BY <4>1, <2>3, <1>pend
    <3>4. QED
      BY <3>2, <3>3
  <2>4. ASSUME ListsFirst(calls), c.op = "ensure" => Target # "binding"
        PROVE  ListsFirst(calls)'
    <3>1. ASSUME NEW i \in DOMAIN calls', calls'[i].op = "ensure",
                 NEW j \in DOMAIN calls'[i].objs, calls'[i].objs[j] \in {"config", "open"}
          PROVE  \E k \in 1..j-1 : calls'[i].objs[k] = "binding"
      <4>1. CASE i # 1
        BY <4>1, <3>1, <2>2, <2>4 DEF ListsFirst
      <4>2. CASE i = 1
        <5>0. calls'[i].op = c.op /\ calls'[i].objs = rest
          BY <4>2, <2>1, <2>2
        <5>1. /\ c.op = "ensure" /\ j \in 1..Len(os)-1 /\ j + 1 \in DOMAIN os
              /\ os[j+1] \in {"config", "open"}
          BY <5>0, <3>1, <1>2
        <5>2. PICK k \in 1..j : os[k] = "binding"
          <6>1. 1 \in DOMAIN calls /\ calls[1].op = "ensure" /\ calls[1].objs = os
            BY <5>1, <1>1
          <6>2. \E k \in 1..(j+1)-1 : os[k] = "binding"
            BY <5>1, <6>1, <2>4 DEF ListsFirst
          <6>3. QED
            BY <5>1, <6>2
        <5>3. k # 1
          BY <5>1, <5>2, <2>4, <1>2
        <5>4. k - 1 \in 1..j-1 /\ rest[k-1] = "binding"
          BY <5>1, <5>2, <5>3, <1>2
        <5>5. QED
          BY <5>4, <4>2, <2>1, <2>2
      <4>3. QED
        BY <4>1, <4>2
    <3>2. QED
      BY <3>1 DEF ListsFirst
  <2>5. QED
    BY <2>3, <2>4
<1>5. QED
  BY <1>3, <1>4 DEF NextCall, LeaveCall

-----------------------------------------------------------------------------
(***************************************************************************)
(* Objects.                                                                *)
(***************************************************************************)

\* A step after which the caches know of no change, or have an event coming.
Announced ==
    /\ unseen \subseteq unseen'
    /\ \A o \in Objs : o \notin unseen' => objs'[o] = objs[o]

\* A write that changes an object is announced.
LEMMA WriteAnnounced ==
    ASSUME TypeOK, NEW o \in Objs, NEW new, WriteObj(o, new)
    PROVE  Announced /\ (objs[o] # new => o \in unseen')
BY DEF TypeOK, WriteObj, Announced

\* Then objects in place stay there, and the caches are known where they lag.
LEMMA AnnouncedViews ==
    ASSUME ViewKnown, Announced, UNCHANGED view
    PROVE  ViewKnown'
BY DEF ViewKnown, Announced

LEMMA StaysInPlace ==
    ASSUME Announced, UNCHANGED <<epoch, monView>>, NEW o \in Objs
    PROVE  /\ InPlace(o, work) /\ UNCHANGED work => InPlace(o, work)'
           /\ InPlace(o, cache) /\ UNCHANGED cache => InPlace(o, cache)'
           /\ InPlace(o, work) /\ Same(work, cache) /\ UNCHANGED cache => InPlace(o, cache)'
BY DEF Announced, InPlace, Same

-----------------------------------------------------------------------------
(***************************************************************************)
(* The inductive invariant.                                                *)
(***************************************************************************)

\* Nothing is out of date before there is anything.
LEMMA InitRestInv == Init => RestInv
BY DEF Init, RestInv, CopiesDated, ViewKnown, Undisturbed

\* Reconcile changes the WhatapAgent's finalizers or lets it go.
LEMMA ReconcileKeepsSpec ==
    ASSUME TypeOK, GuardInv, Reconcile
    PROVE  /\ UNCHANGED <<uids, cache, view, epoch, monView>>
           /\ \/ cr' = NoCR
              \/ cr # NoCR /\ Same(cr', cr)
              \/ cr' = cr
<1> USE DEF Reconcile
<1>1. CASE AddFinalizer \/ ReleaseCR
  <2>1. work # NoCR /\ work \in CRType /\ (workFresh => work = cr)
    BY <1>1 DEF AddFinalizer, ReleaseCR, GuardInv, GuardedCopies, FreshCopies, TypeOK
  <2>2. /\ [work EXCEPT !.fin = TRUE] \in CRType /\ [work EXCEPT !.fin = FALSE] \in CRType
        /\ Same([work EXCEPT !.fin = TRUE], work) /\ Same([work EXCEPT !.fin = FALSE], work)
    BY <2>1, NoCRAssumption DEF CRType, Same
  <2>3. \/ cr' = cr \/ cr' = NoCR
        \/ workFresh /\ cr' = [work EXCEPT !.fin = TRUE]
        \/ workFresh /\ cr' = [work EXCEPT !.fin = FALSE]
    BY <1>1 DEF AddFinalizer, ReleaseCR, WriteCR, Released
  <2>4. cr' = NoCR \/ (cr # NoCR /\ Same(cr', cr)) \/ cr' = cr
    BY <2>1, <2>2, <2>3
  <2>5. QED
    BY <1>1, <2>4 DEF AddFinalizer, ReleaseCR
<1>2. CASE ~(AddFinalizer \/ ReleaseCR)
  BY <1>2 DEF StartPass, MarkReconciling, MarkFailed, EnsureObject, EnsureFails,
     RemoveObject, DropObject, DeleteFails, ReportInstalled, ReportFails, apiVars, cacheVars
<1>3. QED
  BY <1>1, <1>2

\* And what it does to objects is announced by an event.
LEMMA ReconcileAnnounced ==
    ASSUME TypeOK, GuardInv, Reconcile
    PROVE  Announced
<1>1. CASE EnsureObject \/ EnsureFails \/ RemoveObject \/ DropObject \/ DeleteFails
  <2>1. calls # <<>> /\ Target \in Objs
    BY <1>1, TargetType DEF EnsureObject, EnsureFails, RemoveObject, DropObject, DeleteFails,
       Deleting, Current
  <2>2. \/ UNCHANGED <<objs, unseen>>
        \/ WriteObj(Target, Desired(Target))
        \/ WriteObj(Target, None)
    BY <1>1 DEF EnsureObject, EnsureFails, RemoveObject, DropObject, DeleteFails
  <2>3. QED
    BY <2>1, <2>2, WriteAnnounced DEF Announced
<1>2. CASE ~(EnsureObject \/ EnsureFails \/ RemoveObject \/ DropObject \/ DeleteFails)
  <2>1. UNCHANGED <<objs, unseen>>
    BY <1>2 DEF Reconcile, StartPass, AddFinalizer, MarkReconciling, MarkFailed,
       ReportInstalled, ReportFails, ReleaseCR, apiVars, cacheVars
  <2>2. QED
    BY <2>1 DEF Announced
<1>3. QED
  BY <1>1, <1>2

\* One step of the installation: the object dealt with is in place.
LEMMA EnsuredInPlace ==
    ASSUME TypeOK, RestInv, ~queued, pc = "install", EnsureObject,
           NEW o \in Wanted(work.spec) \ Pending(calls)'
    PROVE  InPlace(o, work)'
<1>1. calls # <<>> /\ Target \in Objs /\ Head(calls).op = "ensure" /\ NextCall
  BY TargetType DEF EnsureObject, Current
<1>2. o \in Objs
  BY DEF Wanted, Objs, Webhook, Agents, OpenObjs
<1>3. Announced /\ UNCHANGED <<epoch, monView, work>>
  <2>1. UNCHANGED <<objs, unseen>> \/ WriteObj(Target, Desired(Target))
    BY DEF EnsureObject
  <2>2. QED
    BY <1>1, <2>1, WriteAnnounced DEF Announced, EnsureObject
<1>4. CASE o # Target
  <2>1. o \notin Pending(calls)
    BY <1>1, <1>4, NextCallPending
  <2>2. InPlace(o, work)
    BY <2>1 DEF RestInv, Undisturbed
  <2>3. QED
    BY <1>2, <1>3, <2>2, StaysInPlace
<1>5. CASE o = Target
  <2>1. Render(o, work.spec, epoch, listed) = Render(o, work.spec, epoch, monView)
    <3>1. CASE o \in {"config", "open"}
      <4>1. /\ calls[1] = Head(calls) /\ 1 \in DOMAIN calls
            /\ Head(calls).objs \in Seq(Objs) \ {<<>>}
        <5>1. calls \in Seq(CallType) /\ Head(calls) \in CallType
          BY <1>1, HeadTailProperties DEF TypeOK
        <5>2. QED
          BY <1>1, <5>1 DEF CallType
      <4>2. Head(calls).objs[1] = o /\ 1 \in DOMAIN Head(calls).objs
        BY <4>1, <1>5 DEF Target
      <4>3. ~ListsFirst(calls)
        BY <1>1, <3>1, <4>1, <4>2 DEF ListsFirst
      <4>4. listed = monView
        BY <4>3 DEF RestInv, Undisturbed
      <4>5. QED
        BY <4>4
    <3>2. CASE o \notin {"config", "open"}
      BY <1>2, <3>2 DEF Render, Objs, Webhook, Agents, OpenObjs
    <3>3. QED
      BY <3>1, <3>2
  <2>2. CASE EnsureApplies(o) /\ WriteObj(o, Desired(o))
    <3>1. objs[o] # Desired(o)
      <4>1. CASE CreateApplies(o)
        <5>1. work # NoCR
          BY DEF RestInv, Undisturbed, Same
        <5>2. Desired(o) # None
          BY <1>2, <5>1, DesiredType, NoneAssumption
        <5>3. QED
          BY <4>1, <5>2 DEF CreateApplies
      <4>2. CASE UpdateApplies(o)
        BY <1>2, <4>2 DEF UpdateApplies, RestInv, ViewKnown
      <4>3. QED
        BY <2>2, <4>1, <4>2 DEF EnsureApplies
    <3>2. o \in unseen'
      BY <1>2, <2>2, <3>1, WriteAnnounced
    <3>3. QED
      BY <3>2 DEF InPlace
  <2>3. CASE EnsureSkips(o) /\ UNCHANGED <<objs, unseen>>
    <3>1. o \in unseen \/ objs[o] = Desired(o)
      BY <1>2, <2>3 DEF EnsureSkips, RestInv, ViewKnown
    <3>2. InPlace(o, work)
      BY <2>1, <3>1 DEF InPlace, Desired
    <3>3. QED
      BY <1>2, <1>3, <3>2, StaysInPlace
  <2>4. QED
    BY <1>5, <2>2, <2>3 DEF EnsureObject
<1>6. QED
  BY <1>4, <1>5

\* The steps of Reconcile: a pass starts with nothing to make up for and what
\* the cache says; each call puts an object in place; a pass that ends without
\* an error has put everything in place and reported it.
LEMMA ReconcileUndisturbed ==
    ASSUME TypeOK, GuardInv, RestInv, Reconcile
    PROVE  Undisturbed'
<1> SUFFICES ASSUME ~queued'
             PROVE  /\ pc' # "idle" => Same(work, cache)'
                    /\ pc' = "install" =>
                         /\ listed' = monView' \/ ListsFirst(calls)'
                         /\ \A o \in Wanted(work'.spec) \ Pending(calls)' : InPlace(o, work)'
                    /\ pc' = "idle" /\ cache' # NoCR /\ ~cache'.del =>
                         /\ \A o \in Wanted(cache'.spec) : InPlace(o, cache)'
                         /\ cr' # NoCR /\ cr'.uid = cache'.uid
                            => status' = [avail |-> "Installed", obs |-> cache'.gen]
  BY DEF Undisturbed
<1>same. ~queued /\ pc # "idle" => Same(work, cache)
  BY DEF RestInv, Undisturbed
<1>ann. Announced /\ UNCHANGED <<cache, epoch, monView>>
  BY ReconcileAnnounced, ReconcileKeepsSpec
<1>obj. \A spec : Wanted(spec) \subseteq Objs
  BY DEF Wanted, Objs, Webhook, Agents, OpenObjs
<1>1. CASE StartPass
  BY <1>1 DEF StartPass, Same, cacheVars
<1>2. CASE AddFinalizer
  <2>1. work \in CRType /\ work # NoCR
    BY <1>2 DEF AddFinalizer, GuardInv, GuardedCopies, TypeOK
  <2>2. ~queued /\ pc' = "progress" /\ work' = [work EXCEPT !.fin = TRUE]
    BY <1>2 DEF AddFinalizer, ReturnError
  <2>3. [work EXCEPT !.fin = TRUE] # NoCR
    BY <2>1, NoCRAssumption DEF CRType
  <2>4. Same(work', cache')
    BY <1>2, <1>same, <1>ann, <2>1, <2>2, <2>3 DEF AddFinalizer, Same, CRType
  <2>5. QED
    BY <2>2, <2>4
<1>3. CASE MarkReconciling
  <2>1. ~queued /\ pc' = "install" /\ UNCHANGED <<work, cache>> /\ calls' = InstallCalls(work.spec)
    BY <1>3 DEF MarkReconciling
  <2>2. Same(work, cache)
    BY <1>3, <1>same DEF MarkReconciling
  <2>3. work.spec \in SpecType
    BY <2>2, SpecsAssumption DEF Same, TypeOK, CRType
  <2>4. Wanted(work.spec) \subseteq Pending(InstallCalls(work.spec)) /\ ListsFirst(InstallCalls(work.spec))
    BY <2>3, InstallCallsCover
  <2>5. Pending(calls)' = Pending(InstallCalls(work.spec)) /\ ListsFirst(calls)'
    BY <2>1, <2>4
  <2>6. QED
    BY <2>1, <2>2, <2>4, <2>5
<1>4. CASE MarkFailed
  BY <1>4 DEF MarkFailed, ReturnError
<1>5. CASE EnsureObject
  <2>1. ~queued /\ pc = "install" /\ pc' = "install" /\ UNCHANGED <<work, cache>>
    BY <1>5 DEF EnsureObject
  <2>2. \A o \in Wanted(work.spec) \ Pending(calls)' : InPlace(o, work)'
    BY <1>5, <2>1, EnsuredInPlace
  <2>3. listed' = monView' \/ ListsFirst(calls)'
    <3>1. CASE Target = "binding"
      BY <1>5, <3>1 DEF EnsureObject
    <3>2. CASE Target # "binding"
      <4>1. listed' = listed /\ monView' = monView
        BY <1>5, <3>2 DEF EnsureObject
      <4>2. ListsFirst(calls) => ListsFirst(calls)'
        BY <1>5, <3>2, NextCallPending DEF EnsureObject, Current
      <4>3. QED
        BY <2>1, <4>1, <4>2 DEF RestInv, Undisturbed
    <3>3. QED
      BY <3>1, <3>2
  <2>4. QED
    BY <2>1, <2>2, <2>3, <1>same
<1>6. CASE EnsureFails
  <2>1. /\ ~queued /\ pc = "install" /\ pc' \in {"install", "failed"}
        /\ UNCHANGED <<work, cache, listed, calls, monView>>
    BY <1>6 DEF EnsureFails
  <2>2. \A o \in Wanted(work.spec) \ Pending(calls) : InPlace(o, work)'
    BY <2>1, <1>ann, <1>obj, StaysInPlace DEF RestInv, Undisturbed
  <2>3. QED
    BY <2>1, <2>2, <1>same DEF RestInv, Undisturbed
<1>7. CASE RemoveObject \/ DropObject \/ DeleteFails
  <2>1. /\ ~queued /\ pc \in {"install", "cleanup"} /\ pc' = pc
        /\ UNCHANGED <<work, cache, listed, monView>>
        /\ calls # <<>> /\ Head(calls).op # "ensure"
        /\ NextCall \/ LeaveCall
    BY <1>7 DEF RemoveObject, DropObject, DeleteFails, Deleting, Current
  <2>2. Pending(calls) \subseteq Pending(calls)' /\ (ListsFirst(calls) => ListsFirst(calls)')
    BY <2>1, NextCallPending
  <2>3. pc = "install" => \A o \in Wanted(work.spec) \ Pending(calls)' : InPlace(o, work)'
    BY <2>1, <2>2, <1>ann, <1>obj, StaysInPlace DEF RestInv, Undisturbed
  <2>4. QED
    BY <2>1, <2>2, <2>3, <1>same DEF RestInv, Undisturbed
<1>8. CASE ReportInstalled
  <2>1. /\ ~queued /\ pc = "install" /\ calls = <<>> /\ pc' = "idle" /\ UNCHANGED cache
        /\ status' = [avail |-> "Installed", obs |-> cache.gen]
    BY <1>8 DEF ReportInstalled, ReturnError, EndPass
  <2>2. Pending(calls) = {}
    BY <2>1 DEF Pending
  <2>3. Same(work, cache) /\ \A o \in Wanted(work.spec) : InPlace(o, work)
    BY <2>1, <2>2, <1>same DEF RestInv, Undisturbed
  <2>4. \A o \in Wanted(cache.spec) : InPlace(o, cache)'
    BY <2>1, <2>3, <1>ann, <1>obj, StaysInPlace DEF Same
  <2>5. QED
    BY <2>1, <2>4
<1>9. CASE ReportFails
  <2>1. ~queued /\ pc = "install" /\ UNCHANGED <<pc, work, calls, listed, cache, monView>>
    BY <1>9 DEF ReportFails, ReturnError, cacheVars
  <2>2. \A o \in Wanted(work.spec) \ Pending(calls) : InPlace(o, work)'
    BY <2>1, <1>ann, <1>obj, StaysInPlace DEF RestInv, Undisturbed
  <2>3. QED
    BY <2>1, <2>2, <1>same DEF RestInv, Undisturbed
<1>10. CASE ReleaseCR
  <2>1. ~queued /\ pc = "cleanup" /\ pc' = "idle" /\ UNCHANGED cache
    BY <1>10 DEF ReleaseCR, ReturnError, EndPass
  <2>2. work.del /\ Same(work, cache)
    BY <2>1, <1>same DEF GuardInv, GuardedCopies
  <2>3. QED
    BY <2>1, <2>2 DEF Same
<1>11. QED
  BY <1>1, <1>2, <1>3, <1>4, <1>5, <1>6, <1>7, <1>8, <1>9, <1>10 DEF Reconcile

\* Together with what copies say: Reconcile never makes the cached copy look
\* newer than the resource.
LEMMA ReconcileRestInv ==
    ASSUME TypeOK, GuardInv, RestInv, Reconcile
    PROVE  RestInv'
<1>1. /\ UNCHANGED <<uids, cache, view>>
      /\ cr' = NoCR \/ (cr # NoCR /\ Same(cr', cr)) \/ cr' = cr
  BY ReconcileKeepsSpec
<1>2. CopiesDated'
  BY <1>1 DEF RestInv, CopiesDated, Same
<1>3. ViewKnown'
  BY <1>1, ReconcileAnnounced, AnnouncedViews DEF RestInv
<1>4. QED
  BY <1>2, <1>3, ReconcileUndisturbed DEF RestInv

\* Informers, timer and restarts: what they bring into the caches queues a
\* request, unless it makes no difference to Reconcile.
LEMMA OperatorRestInv ==
    ASSUME TypeOK, GuardInv, RestInv, Operator
    PROVE  RestInv'
<1>cr. /\ cr # NoCR => Same(cr, cr) /\ cr.gen <= cr.gen /\ cr.uid <= uids
  BY DEF TypeOK, CRType, Same, GuardInv, KnownOwners
<1>1. CASE SyncCR
  <2>1. /\ cache' = cr
        /\ UNCHANGED <<cr, uids, status, objs, view, unseen, monView, epoch, pc, work, listed, calls>>
    BY <1>1 DEF SyncCR, apiVars, passVars
  <2>2. CopiesDated' /\ ViewKnown'
    BY <2>1, <1>cr DEF CopiesDated, RestInv, ViewKnown
  <2>3. ASSUME ~queued'
        PROVE  ~queued /\ ((cache = NoCR /\ cr = NoCR) \/ Same(cache, cr))
    BY <1>1, <2>3 DEF SyncCR, Notable, RestInv, CopiesDated
  <2>4. Undisturbed'
    BY <2>1, <2>3 DEF RestInv, Undisturbed, Same, InPlace
  <2>5. QED
    BY <2>2, <2>4 DEF RestInv
<1>2. CASE SyncMonitors
  <2>1. UNCHANGED <<cr, uids, cache, view, unseen, objs, pc, work>>
    BY <1>2 DEF SyncMonitors, apiVars, passVars
  <2>2. ~queued' => ~queued /\ cache = NoCR
    BY <1>2 DEF SyncMonitors
  <2>3. Undisturbed'
    BY <2>1, <2>2 DEF RestInv, Undisturbed, Same
  <2>4. QED
    BY <2>1, <2>3 DEF RestInv, CopiesDated, ViewKnown
<1>3. CASE TimerFires
  BY <1>3 DEF TimerFires, apiVars, cacheVars, RestInv, CopiesDated, ViewKnown, Undisturbed
<1>4. CASE Restart
  <2>1. /\ cache' = cr /\ view' = objs /\ unseen' = {} /\ pc' = "idle"
        /\ UNCHANGED <<cr, uids, objs>>
        /\ ~queued' => cr = NoCR
    BY <1>4 DEF Restart, EndPass, apiVars
  <2>2. QED
    BY <2>1, <1>cr DEF RestInv, CopiesDated, ViewKnown, Undisturbed
<1>5. ASSUME NEW kind \in Informers, SyncObjects(kind)
      PROVE  RestInv'
  <2>1. /\ queued' /\ UNCHANGED <<cr, uids, cache, objs>>
        /\ unseen' = unseen \ kind
        /\ \A o \in Objs : view'[o] = IF o \in kind THEN objs[o] ELSE view[o]
    BY <1>5 DEF SyncObjects, apiVars
  <2>2. QED
    BY <2>1 DEF RestInv, CopiesDated, ViewKnown, Undisturbed
<1>6. QED
  BY <1>1, <1>2, <1>3, <1>4, <1>5 DEF Operator

\* Users, foreign deletions and the garbage collector: an edit, and a new
\* resource under the old name, are told from the cached copy by generation
\* and uid, and what happens to objects is announced.
LEMMA ClusterRestInv ==
    ASSUME TypeOK, GuardInv, RestInv, Cluster
    PROVE  RestInv'
<1>0. ASSUME UNCHANGED <<cache, objs, view, unseen, monView, queued, pc, work, calls, listed, epoch>>,
             uids <= uids', CopiesDated',
             \/ status' = status /\ (cr' # NoCR => cr # NoCR /\ cr'.uid = cr.uid)
             \/ cr' # NoCR /\ (cache # NoCR => cr'.uid # cache.uid)
      PROVE  RestInv'
  <2>1. ViewKnown'
    BY <1>0 DEF RestInv, ViewKnown
  <2>2. Undisturbed'
    BY <1>0 DEF RestInv, Undisturbed, InPlace, Same
  <2>3. QED
    BY <1>0, <2>1, <2>2 DEF RestInv
<1>1. ASSUME NEW spec \in Specs, UserCreates(spec)
      PROVE  RestInv'
  <2>1. cache # NoCR => cache \in CRType /\ cache.uid <= uids
    BY DEF TypeOK, RestInv, CopiesDated
  <2>2. cr' # NoCR /\ cr'.uid = uids + 1 /\ uids' = uids + 1 /\ UNCHANGED cache /\ uids \in Nat
    <3>1. uids \in Nat /\ uids + 1 \in Nat
      BY DEF TypeOK
    <3>2. cr' \in CRType /\ cr'.uid = uids + 1 /\ uids' = uids + 1 /\ UNCHANGED cache
      BY <1>1, <3>1 DEF UserCreates, CRType
    <3>3. QED
      BY <3>1, <3>2, NoCRAssumption
  <2>3. cache # NoCR => cr'.uid # cache.uid /\ cache.uid <= uids'
    BY <2>1, <2>2 DEF CRType
  <2>4. QED
    BY <1>0, <1>1, <2>2, <2>3 DEF UserCreates, CopiesDated
<1>2. ASSUME NEW spec \in Specs, UserEdits(spec)
      PROVE  RestInv'
  <2>1. cr \in CRType /\ cr # NoCR /\ cr' # NoCR /\ cr'.uid = cr.uid /\ cr'.gen = cr.gen + 1
    BY <1>2, EditedType DEF UserEdits, TypeOK, CRType
  <2>2. cache # NoCR => cache \in CRType
    BY DEF TypeOK
  <2>3. CopiesDated'
    BY <1>2, <2>1, <2>2 DEF UserEdits, RestInv, CopiesDated, CRType
  <2>4. QED
    BY <1>0, <1>2, <2>1, <2>3 DEF UserEdits, TypeOK
<1>3. ASSUME NEW foreground \in Foreground, UserDeletes(foreground)
      PROVE  RestInv'
  <2>1. cr \in CRType /\ cr # NoCR /\ (cr' = NoCR \/ (cr'.uid = cr.uid /\ cr'.gen = cr.gen + 1))
    BY <1>3 DEF UserDeletes, TypeOK, CRType
  <2>2. cache # NoCR => cache \in CRType
    BY DEF TypeOK
  <2>3. CopiesDated'
    BY <1>3, <2>1, <2>2 DEF UserDeletes, RestInv, CopiesDated, CRType
  <2>4. QED
    BY <1>0, <1>3, <2>1, <2>3 DEF UserDeletes, TypeOK
<1>4. ASSUME NEW o \in Objs, CollectGarbage(o) \/ ForeignDelete(o)
      PROVE  RestInv'
  <2>1. Announced /\ UNCHANGED <<cr, uids, status, cache, view, monView, queued, pc, work, calls, listed, epoch>>
    BY <1>4, WriteAnnounced DEF CollectGarbage, ForeignDelete, passVars
  <2>2. ViewKnown' /\ CopiesDated'
    BY <2>1, AnnouncedViews DEF RestInv, CopiesDated
  <2>3. \A p \in Objs : /\ InPlace(p, work) => InPlace(p, work)'
                        /\ InPlace(p, cache) => InPlace(p, cache)'
    BY <2>1, StaysInPlace
  <2>4. \A spec : Wanted(spec) \subseteq Objs
    BY DEF Wanted, Objs, Webhook, Agents, OpenObjs
  <2>5. Undisturbed'
    BY <2>1, <2>3, <2>4 DEF RestInv, Undisturbed, Same
  <2>6. QED
    BY <2>2, <2>5 DEF RestInv
<1>5. CASE ReleaseHold
  <2>1. cr \in CRType /\ cr # NoCR /\ (cr' = NoCR \/ (Same(cr', cr)))
    BY <1>5, NoCRAssumption DEF ReleaseHold, TypeOK, CRType, Same
  <2>2. CopiesDated'
    BY <1>5, <2>1 DEF ReleaseHold, RestInv, CopiesDated, Same
  <2>3. QED
    BY <1>0, <1>5, <2>1, <2>2 DEF ReleaseHold, TypeOK, Same
<1>6. CASE MonitorsChange
  BY <1>0, <1>6 DEF MonitorsChange, cacheVars, passVars, TypeOK, RestInv, CopiesDated
<1>7. QED
  BY <1>1, <1>2, <1>3, <1>4, <1>5, <1>6 DEF Cluster

-----------------------------------------------------------------------------
(***************************************************************************)
(* The theorems.                                                           *)
(***************************************************************************)

\* In every reachable state, unless a request is queued, a pass works with
\* what the caches hold and what it has installed is in place, and after a
\* pass everything is, and is reported (Reconcile, Notable, SyncObjects).
THEOREM RestInvCorrect == Spec => []RestInv
<1>1. Init => RestInv
  BY InitRestInv
<1>2. TypeOK /\ GuardInv /\ RestInv /\ [Next]_vars => RestInv'
  <2> SUFFICES ASSUME TypeOK, GuardInv, RestInv, [Next]_vars
               PROVE  RestInv'
    OBVIOUS
  <2>1. CASE Reconcile
    BY <2>1, ReconcileRestInv
  <2>2. CASE Operator
    BY <2>2, OperatorRestInv
  <2>3. CASE Cluster
    BY <2>3, ClusterRestInv
  <2>4. CASE UNCHANGED vars
    BY <2>4 DEF vars, RestInv, CopiesDated, ViewKnown, Undisturbed, InPlace, Same
  <2>5. QED
    BY <2>1, <2>2, <2>3, <2>4 DEF Next
<1>3. QED
  BY <1>1, <1>2, Invariance, PTL DEF Spec

\* At rest, a live WhatapAgent has every object it asks for, made from its
\* current spec, the current monitors and the certificate of the process.
THEOREM RestIsConforming == Spec => []RestConforms
<1>1. TypeOK /\ GuardInv /\ RestInv => RestConforms
  BY DEF GuardInv, FreshCopies, RestInv, Undisturbed, InPlace, RestConforms, AtRest,
     Alive, Conforms
<1>2. QED
  BY <1>1, Invariance, RestInvCorrect, PTL

\* At rest, the status of a live WhatapAgent is Installed at its generation.
THEOREM RestIsReported == Spec => []RestReported
<1>1. TypeOK /\ GuardInv /\ RestInv => RestReported
  BY DEF GuardInv, FreshCopies, RestInv, Undisturbed, RestReported, AtRest, Alive
<1>2. QED
  BY <1>1, Invariance, RestInvCorrect, PTL
=============================================================================
