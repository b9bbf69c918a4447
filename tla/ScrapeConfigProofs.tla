------------------------- MODULE ScrapeConfigProofs -------------------------
(***************************************************************************)
(* The scrape configuration is what was asked for whenever the operator    *)
(* rests, and names no secret that is not mounted: the proofs, for all     *)
(* agents, monitors, edits and faults.                                     *)
(***************************************************************************)
EXTENDS ScrapeConfig, TLAPS

-----------------------------------------------------------------------------
(***************************************************************************)
(* The secrets a configuration names.                                      *)
(***************************************************************************)

\* The paths of an endpoint come from its own secrets (convertEndpoints).
LEMMA EndsSecrets ==
    ASSUME NEW endpoints, NEW e \in Ends(endpoints), NEW f \in e.files, f.from = "secret"
    PROVE  f.of \in SecretsOf(endpoints)
<1>1. PICK p \in endpoints : e = [port |-> p.port, files |-> UNION {Paths(part) : part \in p.tls}]
  BY DEF Ends
<1>2. PICK part \in p.tls : f \in Paths(part)
  BY <1>1
<1>3. part.secret # Unset /\ f.of = part.secret
  BY <1>2 DEF Paths
<1> QED
  BY <1>1, <1>2, <1>3 DEF SecretsOf

\* Every secret of the configuration is collected for the Deployment.
LEMMA GeneratedSecrets ==
    ASSUME NEW spec, NEW lists, NEW t \in Generate(spec, lists), t.type # "StaticEndpoints",
           NEW e \in t.ends, NEW f \in e.files, f.from = "secret"
    PROVE  f.of \in Secrets(spec, lists)
<1>1. CASE t \in InlineTargets(spec)
  <2>1. PICK u \in spec.targets : t = InlineTarget(u)
    BY <1>1 DEF InlineTargets
  <2>2. t.ends = Ends(u.endpoints)
    BY <2>1 DEF InlineTarget
  <2>3. f.of \in SecretsOf(u.endpoints)
    BY <2>2, EndsSecrets
  <2> QED
    BY <2>3 DEF Secrets
<1>2. CASE t \in MonitorTargets(lists)
  <2>1. PICK kind \in Kinds : \E m \in lists[kind] : t = MonitorTarget(kind, m)
    BY <1>2 DEF MonitorTargets
  <2>2. PICK m \in lists[kind] : t = MonitorTarget(kind, m)
    BY <2>1
  <2>3. t.ends = Ends(m.endpoints) /\ t.type = kind
    BY <2>2 DEF MonitorTarget
  <2>4. f.of \in SecretsOf(m.endpoints)
    BY <2>3, EndsSecrets
  <2>5. kind = "PodMonitor" \/ kind = "ServiceMonitor"
    BY <2>3 DEF Kinds
  <2> QED
    BY <2>4, <2>5 DEF Secrets
<1>3. CASE t = AutoTarget(spec)
  <2>1. t.ends = {[port |-> "9400", files |-> {}]}
    BY <1>3 DEF AutoTarget
  <2> QED
    BY <2>1
<1> QED
  BY <1>1, <1>2, <1>3 DEF Generate, Given

-----------------------------------------------------------------------------
(***************************************************************************)
(* Type correctness.                                                       *)
(***************************************************************************)

\* A listing that has not begun is empty.
LEMMA NoListsType ==
    /\ NoLists \in [Kinds -> {{}} \cup UNION {Monitors[kind] : kind \in Kinds}]
    /\ \A kind \in Kinds : NoLists[kind] \in {{}} \cup Monitors[kind]
  BY DEF NoLists

\* Faults are counted within their bound.
LEMMA FaultType ==
    ASSUME faults \in 0 .. MaxFaults, Fault
    PROVE  faults' \in 0 .. MaxFaults
  BY BoundsAssumption DEF Fault

\* A template has the labels the resource asks for, and others it may have had.
LEMMA KeptLabels ==
    ASSUME NEW old \in {Unset} \cup SUBSET Labels, NEW new \in SUBSET Labels
    PROVE  /\ Kept(old, new) \in SUBSET Labels /\ Kept(old, new) # Unset
           /\ new \subseteq Kept(old, new)
<1>1. Kept(old, new) \in SUBSET Labels /\ new \subseteq Kept(old, new)
  BY DEF Kept, Overlay
<1> QED
  BY <1>1, UnsetAssumption

LEMMA TemplateType ==
    ASSUME NEW spec \in Agents, NEW name \in AgentNames
    PROVE  TemplateLabels(spec, name) \in SUBSET Labels
BY DEF Labels

\* What a write of one of the DaemonSets leaves.
LEMMA AgentWritten ==
    ASSUME TypeOK, work \in Agents, WriteGpuAgent \/ WriteNodeAgent
    PROVE  podLabels' \in [AgentNames -> {Unset} \cup SUBSET Labels]
<1>1. \A name \in AgentNames :
         Kept(podLabels[name], TemplateLabels(work, name)) \in SUBSET Labels
  BY KeptLabels, TemplateType DEF TypeOK
<1> QED
  BY <1>1 DEF TypeOK, WriteGpuAgent, WriteNodeAgent, SetLabels, AgentNames

\* What the other calls write is not a label.
LEMMA AppliedType ==
    ASSUME TypeOK, work \in Agents, Applied \/ UNCHANGED objects
    PROVE  podLabels' \in [AgentNames -> {Unset} \cup SUBSET Labels]
<1>1. CASE WriteGpuAgent \/ WriteNodeAgent
  BY <1>1, AgentWritten
<1>2. CASE podLabels' = podLabels
  BY <1>2 DEF TypeOK
<1> QED
  BY <1>1, <1>2 DEF Applied, SetConfig, SetMounts, objects

LEMMA TypeInit == Init => TypeOK
<1> SUFFICES ASSUME Init PROVE TypeOK
  OBVIOUS
<1>1. /\ listed \in [Kinds -> {{}} \cup UNION {Monitors[kind] : kind \in Kinds}]
      /\ \A kind \in Kinds : listed[kind] \in {{}} \cup Monitors[kind]
  BY NoListsType DEF Init
<1>2. edits \in 0 .. MaxEdits /\ faults \in 0 .. MaxFaults
  BY BoundsAssumption DEF Init
<1>3. MayBe(mons) /\ MayBe(monsSeen)
  BY DEF Init
<1> QED
  BY <1>1, <1>2, <1>3 DEF Init, TypeOK

\* A step of the worker keeps the types.
LEMMA TypePass ==
    ASSUME TypeOK, Pass \/ StepFails \/ Tick
    PROVE  TypeOK'
<1> USE DEF TypeOK, world, caches, objects, MayBe, Queue, SetConfig, SetMounts
<1>1. ASSUME StartPass PROVE TypeOK'
  BY <1>1 DEF StartPass, Kinds
<1>9. ASSUME UpdateGpuAgent PROVE TypeOK'
  <2>1. podLabels' \in [AgentNames -> {Unset} \cup SUBSET Labels]
    BY <1>9, AgentWritten DEF UpdateGpuAgent
  <2>2. UNCHANGED <<config, mounts>>
    BY <1>9 DEF UpdateGpuAgent, WriteGpuAgent, SetLabels
  <2> QED
    BY <1>9, <2>1, <2>2 DEF UpdateGpuAgent
<1>10. ASSUME UpdateNodeAgent PROVE TypeOK'
  <2>1. podLabels' \in [AgentNames -> {Unset} \cup SUBSET Labels]
    BY <1>10, AgentWritten DEF UpdateNodeAgent
  <2>2. pc' \in {"PodMonitor", "removeDeployment"} /\ pc = "nodeAgent"
    BY <1>10 DEF UpdateNodeAgent
  <2> QED
    BY <1>10, <2>1, <2>2 DEF UpdateNodeAgent, Kinds
<1>2. ASSUME ListMonitors PROVE TypeOK'
  <2>1. pc' \in {"ServiceMonitor", "StaticEndpoints", "config"}
    BY <1>2 DEF ListMonitors, Kinds
  <2>2. \A kind \in Kinds : listed'[kind] \in {{}} \cup Monitors[kind]
    BY <1>2 DEF ListMonitors
  <2>3. tries' = 0 /\ work' \in Agents
    BY <1>2 DEF ListMonitors, Kinds
  <2> QED
    BY <1>2, <2>1, <2>2, <2>3 DEF ListMonitors, Kinds
<1>3. ASSUME WriteConfig PROVE TypeOK'
  BY <1>3 DEF WriteConfig, DeployTries
<1>4. ASSUME WriteDeployment PROVE TypeOK'
  BY <1>4, NoListsType DEF WriteDeployment, Done, EndPass
<1>5. ASSUME RemoveDeployment PROVE TypeOK'
  BY <1>5 DEF RemoveDeployment
<1>6. ASSUME RemoveConfig PROVE TypeOK'
  BY <1>6, NoListsType DEF RemoveConfig, Done, EndPass
<1>7. ASSUME StepFails PROVE TypeOK'
  <2>1. faults' \in 0 .. MaxFaults
    BY <1>7, FaultType DEF StepFails
  <2>2. podLabels' \in [AgentNames -> {Unset} \cup SUBSET Labels]
    BY <1>7, AppliedType DEF StepFails
  <2>3. CASE pc = "deploy" /\ tries + 1 < DeployTries /\ tries' = tries + 1 /\ Queue
             /\ UNCHANGED <<pc, work, listed, timer>>
    BY <1>7, <2>1, <2>2, <2>3 DEF StepFails, DeployTries
  <2>4. CASE EndPass /\ queued' \in BOOLEAN /\ timer' \in BOOLEAN
    BY <1>7, <2>1, <2>2, <2>4, NoListsType DEF StepFails, EndPass
  <2>5. CASE pc = "gpuAgent" /\ pc' = "nodeAgent" /\ UNCHANGED <<work, listed, tries, timer>>
             /\ Queue
    BY <1>7, <2>1, <2>2, <2>5 DEF StepFails
  <2> QED
    BY <1>7, <2>3, <2>4, <2>5 DEF StepFails, Logged, Done
<1>8. ASSUME Tick PROVE TypeOK'
  BY <1>8 DEF Tick, pass
<1> QED
  BY <1>1, <1>2, <1>3, <1>4, <1>5, <1>6, <1>7, <1>8, <1>9, <1>10 DEF Pass

\* So does a step of the informers, of users and of others.
LEMMA TypeOthers ==
    ASSUME TypeOK,
           \/ SeeAgent \/ Restart \/ ForeignDelete \/ EditAgent
           \/ \E kind \in Kinds : SeeMonitors(kind) \/ EditMonitors(kind)
    PROVE  TypeOK'
<1> USE DEF TypeOK, world, caches, objects, pass, MayBe
<1>1. ASSUME SeeAgent PROVE TypeOK'
  BY <1>1 DEF SeeAgent
<1>2. ASSUME Restart PROVE TypeOK'
  BY <1>2, FaultType, NoListsType DEF Restart, EndPass
<1>3. ASSUME ForeignDelete PROVE TypeOK'
  BY <1>3, FaultType DEF ForeignDelete, SetConfig, SetMounts, SetLabels
<1>4. ASSUME EditAgent PROVE TypeOK'
  BY <1>4, BoundsAssumption DEF EditAgent
<1>5. ASSUME NEW kind \in Kinds, SeeMonitors(kind) PROVE TypeOK'
  BY <1>5 DEF SeeMonitors, Listings
<1>6. ASSUME NEW kind \in Kinds, EditMonitors(kind) PROVE TypeOK'
  <2>1. PICK list \in Monitors[kind] : mons' = [mons EXCEPT ![kind] = list]
    BY <1>6 DEF EditMonitors
  <2>2. MayBe(mons')
    BY <2>1 DEF Listings
  <2> QED
    BY <1>6, <2>2, BoundsAssumption DEF EditMonitors
<1> QED
  BY <1>1, <1>2, <1>3, <1>4, <1>5, <1>6

LEMMA TypeStep == TypeOK /\ [Next]_vars => TypeOK'
<1> SUFFICES ASSUME TypeOK, [Next]_vars PROVE TypeOK'
  OBVIOUS
<1>1. CASE Next
  BY <1>1, TypePass, TypeOthers DEF Next
<1>2. CASE UNCHANGED vars
  BY <1>2 DEF TypeOK, vars, world, caches, pass, objects, MayBe
<1> QED
  BY <1>1, <1>2

\* The types of the worker, its caches and what it writes (installOpenAgent).
THEOREM ScrapeTypes == Spec => []TypeOK
<1> QED
  BY TypeInit, TypeStep, PTL DEF Spec

-----------------------------------------------------------------------------
(***************************************************************************)
(* What a pass has read is what the caches hold, unless the WhatapAgent is *)
(* in the queue; and what it has written is what it has made of it.        *)
(***************************************************************************)

\* The kinds a pass has listed.
KindsListed ==
    CASE pc = "ServiceMonitor"  -> {"PodMonitor"}
      [] pc = "StaticEndpoints" -> {"PodMonitor", "ServiceMonitor"}
      [] pc \in {"config", "deploy"} -> Kinds
      [] OTHER -> {}

ReadsCurrent ==
    ~queued /\ pc # "idle" =>
        /\ work = agentSeen
        /\ \A kind \in KindsListed : listed[kind] = monsSeen[kind]

WritesCurrent ==
    /\ pc = "deploy" => config \in {Unset, Generate(work, listed)}
    /\ pc = "deploy" /\ ~queued => config = Generate(work, listed)
    /\ pc \in Kinds \cup {"config", "deploy"} => work.open
    /\ pc \in {"removeDeployment", "removeConfig"} => ~work.open

RestCurrent ==
    pc = "idle" /\ ~queued /\ agentSeen.open =>
        config = Generate(agentSeen, monsSeen) /\ mounts = Secrets(agentSeen, monsSeen)

\* The pods with the exporter have the labels expected of them.
LabelsCurrent(s) ==
    s.gpu # "off" => /\ podLabels[AgentName(s)] # Unset
                     /\ AgentLabels(s) \subseteq podLabels[AgentName(s)]

Installing == Kinds \cup {"config", "deploy", "removeDeployment", "removeConfig"}

AgentsCurrent ==
    ~queued =>
        /\ pc = "nodeAgent" /\ work.gpu = "split" => LabelsCurrent(work)
        /\ pc \in Installing => LabelsCurrent(work)
        /\ pc = "idle" => LabelsCurrent(agentSeen)

CurrentInv == TypeOK /\ ReadsCurrent /\ WritesCurrent /\ RestCurrent /\ AgentsCurrent

LEMMA CurrentInit == Init => CurrentInv
  BY TypeInit DEF Init, CurrentInv, ReadsCurrent, WritesCurrent, RestCurrent, AgentsCurrent,
                  Installing, Kinds

\* A listing of every kind is the one the cache holds.
LEMMA ListedAll ==
    ASSUME TypeOK, \A kind \in Kinds : listed[kind] = monsSeen[kind]
    PROVE  listed = monsSeen
<1>1. monsSeen = [kind \in Kinds |-> monsSeen[kind]] /\ listed = [kind \in Kinds |-> listed[kind]]
  BY DEF TypeOK, MayBe, Listings
<1> QED
  BY <1>1

LEMMA CurrentPass ==
    ASSUME CurrentInv, Pass
    PROVE  ReadsCurrent' /\ WritesCurrent' /\ RestCurrent'
<1> USE DEF CurrentInv, caches, objects, SetConfig, SetMounts
<1>1. ASSUME StartPass PROVE ReadsCurrent' /\ WritesCurrent' /\ RestCurrent'
  <2>1. pc' = "gpuAgent" /\ work' = agentSeen'
    BY <1>1 DEF StartPass
  <2>2. KindsListed' = {}
    BY <2>1 DEF KindsListed
  <2> QED
    BY <2>1, <2>2, <1>1 DEF StartPass, ReadsCurrent, WritesCurrent, RestCurrent, Kinds
<1>7. ASSUME UpdateGpuAgent \/ UpdateNodeAgent
      PROVE  ReadsCurrent' /\ WritesCurrent' /\ RestCurrent'
  <2>1. /\ pc' \in {"nodeAgent", "PodMonitor", "removeDeployment"} /\ pc # "idle"
        /\ (pc' = "PodMonitor" => work.open) /\ (pc' = "removeDeployment" => ~work.open)
        /\ UNCHANGED <<work, listed, agentSeen, monsSeen>> /\ (~queued' => ~queued)
    BY <1>7 DEF UpdateGpuAgent, UpdateNodeAgent, Queue
  <2>2. KindsListed' = {}
    BY <2>1 DEF KindsListed
  <2> QED
    BY <2>1, <2>2 DEF ReadsCurrent, WritesCurrent, RestCurrent, Kinds
<1>2. ASSUME ListMonitors PROVE ReadsCurrent' /\ WritesCurrent' /\ RestCurrent'
  <2>1. KindsListed' = KindsListed \cup {pc}
    BY <1>2 DEF ListMonitors, KindsListed, Kinds
  <2>2. \A kind \in Kinds : listed'[kind] = IF kind = pc THEN monsSeen[kind] ELSE listed[kind]
    BY <1>2 DEF ListMonitors, TypeOK
  <2>3. KindsListed \subseteq Kinds /\ pc \in Kinds
    BY <1>2 DEF ListMonitors, KindsListed, Kinds
  <2>4. pc' \in {"ServiceMonitor", "StaticEndpoints", "config"} /\ pc # "idle"
    BY <1>2 DEF ListMonitors, Kinds
  <2>5. ReadsCurrent'
    BY <1>2, <2>1, <2>2, <2>3, <2>4 DEF ListMonitors, ReadsCurrent
  <2>6. WritesCurrent' /\ RestCurrent'
    BY <1>2, <2>3, <2>4 DEF ListMonitors, WritesCurrent, RestCurrent
  <2> QED
    BY <2>5, <2>6
<1>3. ASSUME WriteConfig PROVE ReadsCurrent' /\ WritesCurrent' /\ RestCurrent'
  <2>1. KindsListed = Kinds /\ KindsListed' = Kinds
    BY <1>3 DEF WriteConfig, KindsListed, Kinds
  <2>2. ReadsCurrent'
    BY <1>3, <2>1 DEF WriteConfig, Queue, ReadsCurrent
  <2>3. config' = Generate(work', listed')
    BY <1>3 DEF WriteConfig
  <2> QED
    BY <1>3, <2>2, <2>3 DEF WriteConfig, WritesCurrent, RestCurrent
<1>4. ASSUME WriteDeployment PROVE ReadsCurrent' /\ WritesCurrent' /\ RestCurrent'
  <2>1. pc = "deploy" /\ pc' = "idle" /\ mounts' = Secrets(work, listed)
    BY <1>4 DEF WriteDeployment, Done, EndPass
  <2>2. ReadsCurrent' /\ WritesCurrent'
    BY <2>1 DEF ReadsCurrent, WritesCurrent, Kinds
  <2>3. ASSUME ~queued' PROVE config' = Generate(agentSeen', monsSeen')
                              /\ mounts' = Secrets(agentSeen', monsSeen')
    <3>1. ~queued
      BY <1>4, <2>3 DEF WriteDeployment, Queue
    <3>2. work = agentSeen /\ listed = monsSeen
      BY <2>1, <3>1, ListedAll DEF ReadsCurrent, KindsListed, Kinds
    <3>3. config = Generate(work, listed)
      BY <2>1, <3>1 DEF WritesCurrent
    <3> QED
      BY <1>4, <2>1, <3>2, <3>3 DEF WriteDeployment
  <2> QED
    BY <2>2, <2>3 DEF RestCurrent
<1>5. ASSUME RemoveDeployment PROVE ReadsCurrent' /\ WritesCurrent' /\ RestCurrent'
  <2>1. pc = "removeDeployment" /\ pc' = "removeConfig" /\ KindsListed' = {}
    BY <1>5 DEF RemoveDeployment, KindsListed
  <2> QED
    BY <1>5, <2>1 DEF RemoveDeployment, Queue, ReadsCurrent, WritesCurrent, RestCurrent, Kinds
<1>6. ASSUME RemoveConfig PROVE ReadsCurrent' /\ WritesCurrent' /\ RestCurrent'
  <2>1. pc = "removeConfig" /\ pc' = "idle" /\ ~work.open
    BY <1>6 DEF RemoveConfig, Done, EndPass, WritesCurrent
  <2>2. ~queued' => ~agentSeen'.open
    BY <1>6, <2>1 DEF RemoveConfig, Queue, ReadsCurrent
  <2> QED
    BY <2>1, <2>2 DEF ReadsCurrent, WritesCurrent, RestCurrent, Kinds
<1> QED
  BY <1>1, <1>2, <1>3, <1>4, <1>5, <1>6, <1>7 DEF Pass

LEMMA CurrentOthers ==
    ASSUME CurrentInv, Next, ~Pass
    PROVE  ReadsCurrent' /\ WritesCurrent' /\ RestCurrent'
<1> USE DEF CurrentInv, world, caches, objects, pass
<1>1. ASSUME StepFails PROVE ReadsCurrent' /\ WritesCurrent' /\ RestCurrent'
  <2>1. UNCHANGED <<agentSeen, monsSeen>>
    BY <1>1 DEF StepFails
  <2>2. CASE pc = "deploy" /\ Queue /\ UNCHANGED <<pc, work, listed, timer>>
    <3>1. UNCHANGED config /\ (~queued' => ~queued)
      BY <1>1, <2>2 DEF StepFails, Applied, SetMounts, Queue
    <3> QED
      BY <2>1, <2>2, <3>1 DEF ReadsCurrent, WritesCurrent, RestCurrent, KindsListed
  <2>3. CASE EndPass /\ queued'
    BY <2>3 DEF EndPass, ReadsCurrent, WritesCurrent, RestCurrent, Kinds
  <2>4. CASE pc = "gpuAgent" /\ pc' = "nodeAgent" /\ UNCHANGED <<work, listed>> /\ Queue
    <3>1. ~queued' => ~queued
      BY <2>4 DEF Queue
    <3> QED
      BY <2>1, <2>4, <3>1 DEF ReadsCurrent, WritesCurrent, RestCurrent, KindsListed, Kinds
  <2>5. CASE pc \in {"removeDeployment", "removeConfig"} /\ EndPass /\ Queue
    <3>1. pc' = "idle" /\ (~queued' => ~queued)
      BY <2>5 DEF EndPass, Queue
    <3>2. ~queued' => ~agentSeen'.open
      BY <2>1, <2>5, <3>1 DEF ReadsCurrent, WritesCurrent
    <3> QED
      BY <3>1, <3>2 DEF ReadsCurrent, WritesCurrent, RestCurrent, Kinds
  <2> QED
    BY <1>1, <2>2, <2>3, <2>4, <2>5 DEF StepFails, Logged, Done
<1>2. ASSUME ForeignDelete PROVE ReadsCurrent' /\ WritesCurrent' /\ RestCurrent'
  BY <1>2 DEF ForeignDelete, SetConfig, SetMounts, SetLabels, ReadsCurrent, WritesCurrent,
              RestCurrent
<1>3. ASSUME EditAgent \/ \E kind \in Kinds : EditMonitors(kind)
      PROVE  ReadsCurrent' /\ WritesCurrent' /\ RestCurrent'
  <2>1. UNCHANGED <<caches, queued, pass, objects>>
    BY <1>3 DEF EditAgent, EditMonitors
  <2> QED
    BY <2>1 DEF ReadsCurrent, WritesCurrent, RestCurrent, KindsListed
<1>4. ASSUME Tick \/ SeeAgent \/ \E kind \in Kinds : SeeMonitors(kind)
      PROVE  ReadsCurrent' /\ WritesCurrent' /\ RestCurrent'
  <2>1. queued' /\ UNCHANGED <<pass, objects>>
    BY <1>4 DEF Tick, SeeAgent, SeeMonitors
  <2> QED
    BY <2>1 DEF ReadsCurrent, WritesCurrent, RestCurrent
<1>5. ASSUME Restart PROVE ReadsCurrent' /\ WritesCurrent' /\ RestCurrent'
  BY <1>5 DEF Restart, EndPass, ReadsCurrent, WritesCurrent, RestCurrent, Kinds
<1> QED
  BY <1>1, <1>2, <1>3, <1>4, <1>5 DEF Next

\* The labels written for the copy of the resource are those of the cached one.
LEMMA AgentsPass ==
    ASSUME CurrentInv, Pass
    PROVE  AgentsCurrent'
<1> SUFFICES ASSUME ~queued' PROVE AgentsCurrent'
  BY DEF AgentsCurrent
<1>1. ASSUME NEW s \in Agents, s.gpu = "split"
      PROVE  AgentName(s) = "whatap-node-agent-gpu"
  BY <1>1 DEF AgentName
<1>2. ASSUME NEW s \in Agents, s.gpu # "split"
      PROVE  AgentName(s) = "whatap-node-agent"
  BY <1>2 DEF AgentName
<1>3. ASSUME NEW s \in Agents, s.gpu # "off"
      PROVE  AgentLabels(s) = TemplateLabels(s, AgentName(s))
  BY <1>3 DEF AgentLabels, TemplateLabels
<1>4. pc # "idle" => work \in Agents
  BY DEF CurrentInv, TypeOK
<1>5. ASSUME NEW name \in AgentNames, work \in Agents
      PROVE  /\ Kept(podLabels[name], TemplateLabels(work, name)) # Unset
             /\ TemplateLabels(work, name)
                    \subseteq Kept(podLabels[name], TemplateLabels(work, name))
  BY <1>5, KeptLabels, TemplateType DEF CurrentInv, TypeOK
<1>6. podLabels \in [AgentNames -> {Unset} \cup SUBSET Labels]
  BY DEF CurrentInv, TypeOK
<1>7. Queue => ~queued /\ UNCHANGED <<config, mounts, podLabels>>
  BY DEF Queue, objects
<1>8. CASE StartPass
  BY <1>8 DEF StartPass, AgentsCurrent, Installing, Kinds
<1>9. CASE UpdateGpuAgent
  <2>1. pc = "gpuAgent" /\ pc' = "nodeAgent" /\ UNCHANGED work /\ WriteGpuAgent
    BY <1>9 DEF UpdateGpuAgent
  <2>2. ASSUME work.gpu = "split" PROVE LabelsCurrent(work)'
    <3>1. work \in Agents /\ AgentName(work) = "whatap-node-agent-gpu"
      BY <1>1, <1>4, <2>1, <2>2
    <3>2. podLabels'["whatap-node-agent-gpu"]
            = Kept(podLabels["whatap-node-agent-gpu"], TemplateLabels(work, "whatap-node-agent-gpu"))
      BY <1>6, <2>1, <2>2 DEF WriteGpuAgent, SetLabels, AgentNames
    <3>3. AgentLabels(work) = TemplateLabels(work, "whatap-node-agent-gpu")
      BY <1>3, <2>2, <3>1
    <3>4. /\ podLabels'[AgentName(work)] # Unset
          /\ AgentLabels(work) \subseteq podLabels'[AgentName(work)]
      BY <1>5, <3>1, <3>2, <3>3 DEF AgentNames
    <3> QED
      BY <2>1, <3>4 DEF LabelsCurrent
  <2> QED
    BY <2>1, <2>2 DEF AgentsCurrent, Installing, Kinds
<1>10. CASE UpdateNodeAgent
  <2>1. pc = "nodeAgent" /\ UNCHANGED work /\ WriteNodeAgent /\ Queue
        /\ pc' \in {"PodMonitor", "removeDeployment"}
    BY <1>10 DEF UpdateNodeAgent
  <2>2. CASE work.gpu = "split"
    <3>1. LabelsCurrent(work)
      BY <1>7, <2>1, <2>2 DEF CurrentInv, AgentsCurrent
    <3>2. LabelsCurrent(work)'
      BY <1>7, <2>1, <3>1 DEF LabelsCurrent
    <3> QED
      BY <2>1, <3>2 DEF AgentsCurrent
  <2>3. CASE work.gpu # "split"
    <3>1. work \in Agents /\ AgentName(work) = "whatap-node-agent"
      BY <1>2, <1>4, <2>1, <2>3
    <3>2. podLabels'["whatap-node-agent"]
            = Kept(podLabels["whatap-node-agent"], TemplateLabels(work, "whatap-node-agent"))
      BY <1>6, <2>1 DEF WriteNodeAgent, SetLabels, AgentNames
    <3>3. work.gpu # "off" => AgentLabels(work) = TemplateLabels(work, "whatap-node-agent")
      BY <1>3, <3>1
    <3>4. work.gpu # "off" => /\ podLabels'[AgentName(work)] # Unset
                              /\ AgentLabels(work) \subseteq podLabels'[AgentName(work)]
      BY <1>5, <3>1, <3>2, <3>3 DEF AgentNames
    <3>5. LabelsCurrent(work)'
      BY <2>1, <3>4 DEF LabelsCurrent
    <3> QED
      BY <2>1, <3>5 DEF AgentsCurrent
  <2> QED
    BY <2>2, <2>3
<1>11. CASE ListMonitors \/ WriteConfig \/ RemoveDeployment
  <2>1. /\ pc \in Installing /\ pc' # "idle" /\ pc' # "nodeAgent"
        /\ ~queued /\ UNCHANGED <<work, podLabels>>
    BY <1>7, <1>11 DEF ListMonitors, WriteConfig, RemoveDeployment, Installing, Kinds, objects
  <2> QED
    BY <2>1 DEF CurrentInv, AgentsCurrent, LabelsCurrent
<1>12. CASE WriteDeployment \/ RemoveConfig
  <2>1. /\ pc \in {"deploy", "removeConfig"} /\ pc' = "idle"
        /\ ~queued /\ UNCHANGED <<agentSeen, podLabels>>
    BY <1>7, <1>12 DEF WriteDeployment, RemoveConfig, Done, EndPass, caches
  <2>2. work = agentSeen
    BY <2>1 DEF CurrentInv, ReadsCurrent
  <2> QED
    BY <2>1, <2>2 DEF CurrentInv, AgentsCurrent, LabelsCurrent, Installing, Kinds
<1> QED
  BY <1>8, <1>9, <1>10, <1>11, <1>12 DEF Pass

LEMMA AgentsOthers ==
    ASSUME CurrentInv, Next, ~Pass
    PROVE  AgentsCurrent'
<1> SUFFICES ASSUME ~queued' PROVE AgentsCurrent'
  BY DEF AgentsCurrent
<1>1. Queue => ~queued /\ UNCHANGED <<config, mounts, podLabels>>
  BY DEF Queue, objects
<1>2. ASSUME StepFails PROVE AgentsCurrent'
  <2>1. Queue /\ UNCHANGED agentSeen
    BY <1>2 DEF StepFails, caches
  <2>2. CASE pc = "deploy" /\ UNCHANGED <<pc, work>>
    BY <1>1, <2>1, <2>2 DEF CurrentInv, AgentsCurrent, LabelsCurrent
  <2>3. CASE Logged
    <3>1. CASE work.gpu # "split" /\ pc' = "nodeAgent" /\ UNCHANGED work
      BY <3>1 DEF AgentsCurrent, Installing, Kinds
    <3>2. CASE pc \in {"removeDeployment", "removeConfig"} /\ pc' = "idle"
      <4>1. work = agentSeen
        BY <1>1, <2>1, <3>2 DEF CurrentInv, ReadsCurrent
      <4> QED
        BY <1>1, <2>1, <3>2, <4>1 DEF CurrentInv, AgentsCurrent, LabelsCurrent, Installing, Kinds
    <3> QED
      BY <2>3, <3>1, <3>2 DEF Logged, Done, EndPass
  <2> QED
    BY <1>2, <2>2, <2>3 DEF StepFails
<1>3. ASSUME EditAgent \/ \E kind \in Kinds : EditMonitors(kind) PROVE AgentsCurrent'
  BY <1>3 DEF EditAgent, EditMonitors, caches, pass, objects, CurrentInv, AgentsCurrent,
              LabelsCurrent
<1>4. ~(Tick \/ SeeAgent \/ Restart \/ ForeignDelete \/ \E kind \in Kinds : SeeMonitors(kind))
  BY DEF Tick, SeeAgent, Restart, ForeignDelete, SeeMonitors
<1> QED
  BY <1>2, <1>3, <1>4 DEF Next

LEMMA CurrentStep == CurrentInv /\ [Next]_vars => CurrentInv'
<1> SUFFICES ASSUME CurrentInv, [Next]_vars PROVE CurrentInv'
  OBVIOUS
<1>1. TypeOK'
  BY TypeStep DEF CurrentInv
<1>2. CASE Next
  BY <1>1, <1>2, CurrentPass, CurrentOthers, AgentsPass, AgentsOthers DEF CurrentInv
<1>3. CASE UNCHANGED vars
  BY <1>1, <1>3 DEF CurrentInv, vars, caches, pass, objects, ReadsCurrent, WritesCurrent,
                    RestCurrent, KindsListed, AgentsCurrent, LabelsCurrent
<1> QED
  BY <1>2, <1>3

LEMMA CurrentAlways == Spec => []CurrentInv
  BY CurrentInit, CurrentStep, PTL DEF Spec

\* A pass that ends well mounts every secret the configuration names
\* (collectAllTLSSecrets), static endpoints apart.
THEOREM SecretsMounted == Spec => FilesMounted
<1>1. ASSUME CurrentInv, [Next]_vars, pc = "deploy", pc' = "idle", faults' = faults,
             config # Unset
      PROVE  Mounted(config)
  <2>1. config = Generate(work, listed)
    BY <1>1 DEF CurrentInv, WritesCurrent
  <2>2. WriteDeployment
    <3>1. faults \in Nat
      BY <1>1, BoundsAssumption DEF CurrentInv, TypeOK
    <3>2. ~StepFails /\ ~Restart /\ ~ForeignDelete
      BY <1>1, <3>1 DEF StepFails, Restart, ForeignDelete, Fault
    <3>3. pc' # pc
      BY <1>1
    <3> QED
      BY <1>1, <3>2, <3>3 DEF Next, Pass, StartPass, UpdateGpuAgent, UpdateNodeAgent,
         ListMonitors, WriteConfig, RemoveDeployment, RemoveConfig, Tick, SeeAgent, EditAgent,
         SeeMonitors, EditMonitors, vars, pass, Kinds
  <2>3. mounts' = Secrets(work, listed)
    BY <2>2 DEF WriteDeployment, SetMounts
  <2> QED
    BY <2>1, <2>3, GeneratedSecrets DEF Mounted
<1> QED
  BY <1>1, CurrentAlways, PTL DEF Spec, FilesMounted

-----------------------------------------------------------------------------
(***************************************************************************)
(* What the configuration made of the current objects scrapes.             *)
(***************************************************************************)

LEMMA PortsKept ==
    ASSUME NEW endpoints PROVE Ports(Ends(endpoints)) = Ports(endpoints)
<1> DEFINE end(e) == [port |-> e.port, files |-> UNION {Paths(part) : part \in e.tls}]
<1>1. Ends(endpoints) = {end(e) : e \in endpoints}
  BY DEF Ends
<1>2. \A e : end(e).port = e.port
  OBVIOUS
<1> HIDE DEF end
<1>3. {x.port : x \in {end(e) : e \in endpoints}} = {e.port : e \in endpoints}
  BY <1>2
<1> QED
  BY <1>1, <1>3 DEF Ports

\* A selector that is left out selects what an empty one does.
LEMMA InlineCovers ==
    ASSUME NEW u, NEW thing
    PROVE  Covers(InlineTarget(u), thing) <=>
               /\ u.type = thing.type
               /\ SelectsNamespace(u.ns, thing.ns) /\ Selects(u.sel, thing.labels)
<1>1. /\ InlineTarget(u).type = u.type
      /\ InlineTarget(u).ns  = IF IsEmpty(u.ns) /\ u.ns.names = {} THEN Unset ELSE u.ns
      /\ InlineTarget(u).sel = IF IsEmpty(u.sel) THEN Unset ELSE u.sel
  BY DEF InlineTarget
<1>2. IsEmpty(u.sel) => Selects(u.sel, thing.labels)
  BY DEF IsEmpty, Selects
<1>3. IsEmpty(u.ns) /\ u.ns.names = {} => SelectsNamespace(u.ns, thing.ns)
  BY DEF IsEmpty, Selects, SelectsNamespace
<1>4. Selects(Unset, thing.labels) /\ SelectsNamespace(Unset, thing.ns)
  BY DEF Selects, SelectsNamespace
<1> QED
  BY <1>1, <1>2, <1>3, <1>4 DEF Covers

\* A monitor without a namespace selector covers its own namespace.
LEMMA MonitorCovers ==
    ASSUME NEW kind \in {"PodMonitor", "ServiceMonitor"}, NEW m, NEW thing,
           Unset # InNamespace(m.ns)
    PROVE  Covers(MonitorTarget(kind, m), thing) <=> kind = thing.type /\ Asks(m, thing)
<1>1. /\ MonitorTarget(kind, m).type = kind
      /\ MonitorTarget(kind, m).sel = m.sel
      /\ MonitorTarget(kind, m).ns = IF m.nsSel # Unset THEN m.nsSel ELSE InNamespace(m.ns)
  BY DEF MonitorTarget
<1> DEFINE own == InNamespace(m.ns)
<1>2. own.names = {m.ns} /\ own.labels = {} /\ own.exprs = {}
  BY DEF InNamespace
<1>3. Selects(own, thing.ns.labels)
  BY <1>2 DEF Selects
<1>4. SelectsNamespace(own, thing.ns) <=> thing.ns.name = m.ns
  BY <1>2, <1>3 DEF SelectsNamespace
<1> HIDE DEF own
<1> QED
  BY <1>1, <1>4 DEF Covers, Asks, own

\* The target the operator adds covers none of the other pods and services.
LEMMA AutoCoversNone ==
    ASSUME NEW spec, NEW thing \in Things
    PROVE  ~Covers(AutoTarget(spec), thing)
<1>1. AgentName(spec) \in AgentNames
  BY DEF AgentName, AgentNames
<1>2. AutoTarget(spec).sel = ByName(AgentName(spec)) /\ ByName(AgentName(spec)) # Unset
  BY <1>1, UnsetAssumption DEF AutoTarget
<1>3. <<"name", AgentName(spec)>> \notin thing.labels
  BY <1>1, ThingsAssumption
<1>4. ~Selects(ByName(AgentName(spec)), thing.labels)
  BY <1>2, <1>3 DEF Selects, ByName
<1> QED
  BY <1>2, <1>4 DEF Covers

\* The targets of the configuration that cover a thing are those that ask for it.
LEMMA GeneratedAsks ==
    ASSUME NEW thing \in Things, MayBe(mons), config = Generate(agent, mons)
    PROVE  Scraped(thing) = Asked(thing)
<1>0. thing.type \in {"PodMonitor", "ServiceMonitor"} /\ thing.type \in Kinds
  BY ThingsAssumption DEF Kinds
<1>1. ASSUME NEW kind \in {"PodMonitor", "ServiceMonitor"}, NEW m \in mons[kind]
      PROVE  Unset # InNamespace(m.ns)
  <2>1. mons[kind] \in Monitors[kind]
    BY DEF MayBe, Kinds
  <2> QED
    BY <2>1, UnsetAssumption
<1>2. ASSUME NEW x \in Scraped(thing) PROVE x \in Asked(thing)
  <2>1. PICK t \in config : Covers(t, thing) /\ x = <<t.name, Ports(t.ends)>>
    BY <1>2 DEF Scraped
  <2>2. CASE t \in InlineTargets(agent)
    <3>1. PICK u \in agent.targets : u.enabled /\ t = InlineTarget(u)
      BY <2>2 DEF InlineTargets
    <3>2. t.name = <<u.name>> /\ Ports(t.ends) = Ports(u.endpoints)
      BY <3>1, PortsKept DEF InlineTarget
    <3> QED
      BY <2>1, <3>1, <3>2, InlineCovers DEF Asked
  <2>3. CASE t \in MonitorTargets(mons)
    <3>1. PICK kind \in Kinds : \E m \in mons[kind] : t = MonitorTarget(kind, m)
      BY <2>3 DEF MonitorTargets
    <3>2. PICK m \in mons[kind] : t = MonitorTarget(kind, m)
      BY <3>1
    <3>3. t.type = kind /\ t.name = <<m.ns, m.name>> /\ Ports(t.ends) = Ports(m.endpoints)
      BY <3>2, PortsKept DEF MonitorTarget
    <3>4. kind = thing.type /\ kind \in {"PodMonitor", "ServiceMonitor"}
      BY <2>1, <3>3, <1>0 DEF Covers
    <3>5. Asks(m, thing)
      BY <1>1, <2>1, <3>2, <3>4, MonitorCovers
    <3> QED
      BY <2>1, <3>3, <3>4, <3>5 DEF Asked
  <2>4. CASE t = AutoTarget(agent)
    BY <2>1, <2>4, AutoCoversNone
  <2> QED
    BY <2>2, <2>3, <2>4 DEF Generate, Given
<1>3. ASSUME NEW x \in Asked(thing) PROVE x \in Scraped(thing)
  <2>1. CASE \E u \in agent.targets :
               /\ u.enabled /\ u.type = thing.type
               /\ SelectsNamespace(u.ns, thing.ns) /\ Selects(u.sel, thing.labels)
               /\ x = <<<<u.name>>, Ports(u.endpoints)>>
    <3>1. PICK u \in agent.targets :
               /\ u.enabled /\ u.type = thing.type
               /\ SelectsNamespace(u.ns, thing.ns) /\ Selects(u.sel, thing.labels)
               /\ x = <<<<u.name>>, Ports(u.endpoints)>>
      BY <2>1
    <3>2. InlineTarget(u) \in config
      BY <3>1 DEF Generate, Given, InlineTargets
    <3>3. Covers(InlineTarget(u), thing)
      BY <3>1, InlineCovers
    <3>4. x = <<InlineTarget(u).name, Ports(InlineTarget(u).ends)>>
      BY <3>1, PortsKept DEF InlineTarget
    <3> QED
      BY <3>2, <3>3, <3>4 DEF Scraped
  <2>2. CASE \E m \in mons[thing.type] :
               Asks(m, thing) /\ x = <<<<m.ns, m.name>>, Ports(m.endpoints)>>
    <3>1. PICK m \in mons[thing.type] :
               Asks(m, thing) /\ x = <<<<m.ns, m.name>>, Ports(m.endpoints)>>
      BY <2>2
    <3> DEFINE t == MonitorTarget(thing.type, m)
    <3>2. t \in config
      BY <1>0, <3>1 DEF Generate, Given, MonitorTargets
    <3>3. Covers(t, thing)
      BY <1>0, <1>1, <3>1, MonitorCovers
    <3>4. x = <<t.name, Ports(t.ends)>>
      BY <3>1, PortsKept DEF MonitorTarget
    <3> HIDE DEF t
    <3> QED
      BY <3>2, <3>3, <3>4 DEF Scraped
  <2> QED
    BY <1>3, <2>1, <2>2 DEF Asked
<1> QED
  BY <1>2, <1>3

\* The static endpoints are all there, under their names.
LEMMA GeneratedStatic ==
    ASSUME config = Generate(agent, mons)
    PROVE  {t.name : t \in {c \in config : c.type = "StaticEndpoints"}}
               = {<<m.ns, m.name>> : m \in mons["StaticEndpoints"]}
                 \cup {<<t.name>> : t \in {u \in agent.targets :
                                             u.enabled /\ u.type = "StaticEndpoints"}}
<1>1. \A u : InlineTarget(u).name = <<u.name>> /\ InlineTarget(u).type = u.type
  BY DEF InlineTarget
<1>2. \A kind, m : MonitorTarget(kind, m).name = <<m.ns, m.name>>
                   /\ MonitorTarget(kind, m).type = kind
  BY DEF MonitorTarget
<1>3. AutoTarget(agent).type # "StaticEndpoints"
  BY DEF AutoTarget
<1>4. "StaticEndpoints" \in Kinds
  BY DEF Kinds
<1> DEFINE L == {t.name : t \in {c \in config : c.type = "StaticEndpoints"}}
           Sm == {<<m.ns, m.name>> : m \in mons["StaticEndpoints"]}
           Si == {<<t.name>> : t \in {u \in agent.targets :
                                             u.enabled /\ u.type = "StaticEndpoints"}}
<1>5. ASSUME NEW x \in L PROVE x \in Sm \cup Si
  <2>1. PICK t \in config : t.type = "StaticEndpoints" /\ x = t.name
    OBVIOUS
  <2>2. CASE t \in InlineTargets(agent)
    <3>1. PICK u \in agent.targets : u.enabled /\ t = InlineTarget(u)
      BY <2>2 DEF InlineTargets
    <3>2. x = <<u.name>> /\ u.type = "StaticEndpoints"
      BY <1>1, <2>1, <3>1
    <3>3. x \in Si
      BY <3>1, <3>2
    <3> QED
      BY <3>3
  <2>3. CASE t \in MonitorTargets(mons)
    <3>1. PICK kind \in Kinds : \E m \in mons[kind] : t = MonitorTarget(kind, m)
      BY <2>3 DEF MonitorTargets
    <3>2. PICK m \in mons[kind] : t = MonitorTarget(kind, m)
      BY <3>1
    <3>3. x = <<m.ns, m.name>> /\ kind = "StaticEndpoints"
      BY <1>2, <2>1, <3>2
    <3>4. x \in Sm
      BY <3>2, <3>3
    <3> QED
      BY <3>4
  <2> QED
    BY <1>3, <2>1, <2>2, <2>3 DEF Generate, Given
<1>6. ASSUME NEW u \in agent.targets, u.enabled, u.type = "StaticEndpoints"
      PROVE  <<u.name>> \in L
  <2>1. InlineTarget(u) \in config
    BY <1>6 DEF Generate, Given, InlineTargets
  <2> QED
    BY <1>1, <1>6, <2>1
<1>7. ASSUME NEW m \in mons["StaticEndpoints"] PROVE <<m.ns, m.name>> \in L
  <2>1. MonitorTarget("StaticEndpoints", m) \in config
    BY <1>4 DEF Generate, Given, MonitorTargets
  <2> QED
    BY <1>2, <2>1
<1> QED
  BY <1>5, <1>6, <1>7

\* At rest the open agent scrapes what is asked for, whatever was edited, failed
\* or cut off before (installOpenAgent, generateScrapeConfig).
THEOREM RestScrapesAsAsked == Spec => []ScrapesAsAsked
<1>1. ASSUME CurrentInv, AtRest, agent.open
      PROVE  config = Generate(agent, mons) /\ MayBe(mons)
  BY <1>1 DEF CurrentInv, RestCurrent, AtRest, TypeOK
<1>2. CurrentInv => ScrapesAsAsked
  BY <1>1, GeneratedAsks, GeneratedStatic DEF ScrapesAsAsked
<1> QED
  BY <1>2, CurrentAlways, PTL

\* At rest the exporter is scraped, and the operator's own target is not a second
\* one (the duplicate check of generateScrapeConfig, and the labels that
\* reconcileNodeAgentDaemonSet gives to the pods and keeps on them).
THEOREM RestExporterScraped == Spec => []ExporterScrapedOnce
<1>1. ASSUME CurrentInv, AtRest, agent.open, agent.gpu # "off"
      PROVE  /\ config = Generate(agent, mons) /\ agent \in Agents
             /\ ExporterLabels # Unset /\ AgentLabels(agent) \subseteq ExporterLabels
  BY <1>1 DEF CurrentInv, RestCurrent, AgentsCurrent, LabelsCurrent, AtRest, TypeOK, ExporterLabels
<1>2. ASSUME agent \in Agents, AgentNamespace(agent) = Home.name,
             ExporterLabels # Unset, AgentLabels(agent) \subseteq ExporterLabels
      PROVE  ScrapesExporter(AutoTarget(agent))
  <2> DEFINE auto == AutoTarget(agent)
  <2>1. /\ auto.type = "PodMonitor" /\ auto.ns = InNamespace(Home.name)
        /\ auto.sel = ByName(AgentName(agent)) /\ Ports(auto.ends) = {"9400"}
    BY <1>2 DEF AutoTarget, Ports
  <2>2. <<"name", AgentName(agent)>> \in AgentLabels(agent)
    BY <1>2, LabelsAssumption DEF AgentLabels, Overlay
  <2>3. Selects(auto.sel, ExporterLabels)
    BY <1>2, <2>1, <2>2 DEF Selects, ByName
  <2>4. SelectsNamespace(auto.ns, Home)
    BY <2>1 DEF SelectsNamespace, Selects, InNamespace
  <2> HIDE DEF auto
  <2> QED
    BY <1>2, <2>1, <2>3, <2>4 DEF ScrapesExporter, Covers, auto
<1>3. ASSUME NEW t PROVE IsDuplicate(t, agent) <=> NamesExporter(t)
  BY DEF IsDuplicate, NamesExporter, ByIdentity
<1>4. CurrentInv => ExporterScrapedOnce
  <2> DEFINE given == Given(agent, mons)
  <2> SUFFICES ASSUME CurrentInv, AtRest, agent.open, agent.gpu # "off"
               PROVE  /\ /\ \A t \in given : NamesExporter(t) => ScrapesExporter(t)
                         /\ AgentNamespace(agent) = Home.name \/ \E t \in given : NamesExporter(t)
                         => \E t \in config : ScrapesExporter(t)
                      /\ config # given /\ ExporterLabels = AgentLabels(agent)
                         => \A t \in given : ByIdentity(t) => ~ScrapesExporter(t)
    BY DEF ExporterScrapedOnce
  <2>1. config = Generate(agent, mons) /\ agent \in Agents
    BY <1>1
  <2>2. given \subseteq config
    BY <2>1 DEF Generate
  <2>3. CASE \E t \in given : NamesExporter(t)
    <3>1. config = given
      BY <1>3, <2>1, <2>3 DEF Generate
    <3> QED
      BY <2>2, <2>3, <3>1
  <2>4. CASE ~\E t \in given : NamesExporter(t)
    <3>1. AutoTarget(agent) \in config
      BY <1>3, <2>1, <2>4 DEF Generate
    <3>2. AgentNamespace(agent) = Home.name => ScrapesExporter(AutoTarget(agent))
      BY <1>1, <1>2
    <3>3. \A t \in given : ByIdentity(t) => ~(t.sel.labels \subseteq AgentLabels(agent))
      BY <2>4 DEF NamesExporter
    <3>4. \A t : ByIdentity(t) /\ ScrapesExporter(t) => t.sel.labels \subseteq ExporterLabels
      BY DEF ByIdentity, ScrapesExporter, Covers, Selects
    <3> QED
      BY <2>4, <3>1, <3>2, <3>3, <3>4
  <2> QED
    BY <2>3, <2>4
<1> QED
  BY <1>4, CurrentAlways, PTL
=============================================================================
