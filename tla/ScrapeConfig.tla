---------------------------- MODULE ScrapeConfig ----------------------------
(***************************************************************************)
(* What the open agent scrapes: generateScrapeConfig, collectAllTLSSecrets *)
(* and the end of installOpenAgent (internal/controller/install_agents.go).*)
(*                                                                         *)
(* A pass first brings the labels of the node agents up to date, by which  *)
(* the exporter of the GPU nodes is found.  It then lists the three kinds  *)
(* of monitors from three informer caches, writes the scrape configuration *)
(* into a ConfigMap and, with up to three tries, the secrets it refers to  *)
(* into the Deployment.  The WhatapAgent and the monitors are edited in    *)
(* the meantime.                                                           *)
(***************************************************************************)
EXTENDS Naturals, FiniteSets

CONSTANTS
    Agents,      \* the WhatapAgents users write, with the node agent enabled
    Monitors,    \* for every kind, the lists of monitors there may be
    Things,      \* the pods and services there are, apart from the node agents
    Home,        \* the operator's namespace and the agents', with its labels
    MaxEdits,    \* bound: edits by users
    MaxFaults,   \* bound: failed steps, restarts and deletions by others
    Unset        \* no object, or a field without a value

ASSUME BoundsAssumption == MaxEdits \in Nat /\ MaxFaults \in Nat

Kinds == {"PodMonitor", "ServiceMonitor", "StaticEndpoints"}
DeployTries == 3

VARIABLES
    agent, mons,          \* the WhatapAgent, and the monitors of each kind
    agentSeen, monsSeen,  \* the same as the caches hold them
    queued,  \* the WhatapAgent is in the work queue
    timer,   \* it will be there five minutes after a pass
    pc,      \* where the pass stands
    work,    \* the copy of the WhatapAgent it works with
    listed,  \* the monitors it has listed
    tries,   \* how often it has tried to write the Deployment
    config,  \* the targets in the ConfigMap
    mounts,  \* the secrets mounted by the Deployment
    podLabels,  \* the labels in the template of each node agent DaemonSet
    edits, faults

world   == <<agent, mons, edits>>
caches  == <<agentSeen, monsSeen>>
pass    == <<pc, work, listed, tries>>
objects == <<config, mounts, podLabels>>
vars == <<world, caches, queued, timer, pass, objects, faults>>

-----------------------------------------------------------------------------
(***************************************************************************)
(* Labels are sets of pairs of a key and a value.                          *)
(***************************************************************************)
KeysOf(labels) == {l[1] : l \in labels}

\* Labels of the user replace those of the operator.
Overlay(labels, own) == {l \in labels : l[1] \notin KeysOf(own)} \cup own

Satisfies(labels, req) ==
    CASE req.op = "In"           -> \E v \in req.vals : <<req.key, v>> \in labels
      [] req.op = "NotIn"        -> \A v \in req.vals : <<req.key, v>> \notin labels
      [] req.op = "Exists"       -> req.key \in KeysOf(labels)
      [] req.op = "DoesNotExist" -> req.key \notin KeysOf(labels)

Selects(sel, labels) ==
    \/ sel = Unset
    \/ sel.labels \subseteq labels /\ \A r \in sel.exprs : Satisfies(labels, r)

SelectsNamespace(sel, ns) ==
    \/ sel = Unset
    \/ /\ sel.names = {} \/ ns.name \in sel.names
       /\ Selects(sel, ns.labels)

AgentNames == {"whatap-node-agent", "whatap-node-agent-gpu"}

AgentName(spec) ==
    IF spec.gpu = "split" THEN "whatap-node-agent-gpu" ELSE "whatap-node-agent"

\* The labels generateScrapeConfig expects of the node agent with the exporter.
AgentLabels(spec) ==
    Overlay({<<"name", AgentName(spec)>>, <<"whatap-gpu", "true">>}, spec.podLabels)

\* The labels getNodeAgentDaemonSetSpec gives to a DaemonSet.
TemplateLabels(spec, name) ==
    Overlay({<<"name", name>>}
            \cup (IF spec.gpu # "off" /\ name = AgentName(spec)
                  THEN {<<"whatap-gpu", "true">>} ELSE {}), spec.podLabels)

\* Every label of an existing template is kept, unless it has a new value.
Kept(old, new) == IF old = Unset THEN new ELSE Overlay(old, new)

\* The labels a template may have.
Labels == UNION {TemplateLabels(spec, name) : spec \in Agents, name \in AgentNames}

-----------------------------------------------------------------------------
(***************************************************************************)
(* generateScrapeConfig.  A target is [name, type, ns, sel, ends]; an end  *)
(* is [port, files].                                                       *)
(***************************************************************************)

\* The selector of a namespace and of a name.
InNamespace(ns) == [names |-> {ns}, labels |-> {}, exprs |-> {}]
ByName(name) == [labels |-> {<<"name", name>>}, exprs |-> {}]

\* A file wins over a secret, which becomes the path it will be mounted at.
Paths(part) ==
    IF part.file # Unset THEN {[from |-> "image", of |-> part.file]}
    ELSE IF part.secret # Unset THEN {[from |-> "secret", of |-> part.secret]} ELSE {}

Ends(endpoints) ==
    {[port |-> e.port, files |-> UNION {Paths(part) : part \in e.tls}] : e \in endpoints}

IsEmpty(sel) == sel.labels = {} /\ sel.exprs = {}

InlineTarget(t) ==
    [name |-> <<t.name>>, type |-> t.type, ends |-> Ends(t.endpoints),
     ns  |-> IF IsEmpty(t.ns) /\ t.ns.names = {} THEN Unset ELSE t.ns,
     sel |-> IF IsEmpty(t.sel) THEN Unset ELSE t.sel]

\* Faulty variant: a monitor without a namespace selector covers every namespace.
MonitorTargetAnywhere(kind, m) ==
    [name |-> <<m.ns, m.name>>, type |-> kind, ends |-> Ends(m.endpoints),
     ns  |-> IF kind = "StaticEndpoints" THEN Unset ELSE m.nsSel,
     sel |-> IF kind = "StaticEndpoints" THEN Unset ELSE m.sel]

MonitorTarget(kind, m) ==
    [name |-> <<m.ns, m.name>>, type |-> kind, ends |-> Ends(m.endpoints),
     ns  |-> IF kind = "StaticEndpoints" THEN Unset
             ELSE IF m.nsSel # Unset THEN m.nsSel
             ELSE InNamespace(m.ns),
     sel |-> IF kind = "StaticEndpoints" THEN Unset ELSE m.sel]

InlineTargets(spec) == {InlineTarget(t) : t \in {u \in spec.targets : u.enabled}}

MonitorTargets(lists) ==
    UNION {{MonitorTarget(kind, m) : m \in lists[kind]} : kind \in Kinds}

AutoName == <<"dcgm-exporter-auto">>

IdentityKeys ==
    {"name", "whatap-gpu", "app", "app.kubernetes.io/name", "app.kubernetes.io/instance"}

\* Faulty variant: only targets that name the agent count.
IsDuplicateByName(target, spec) ==
    \/ target.name = AutoName
    \/ target.sel # Unset /\ <<"name", AgentName(spec)>> \in target.sel.labels

IsDuplicate(target, spec) ==
    \/ target.name = AutoName
    \/ /\ target.sel # Unset
       /\ target.sel.labels \subseteq AgentLabels(spec)
       /\ KeysOf(target.sel.labels) \cap IdentityKeys # {}

\* The DaemonSets are in the operator's namespace; the target is in the one the
\* resource names, if it names one.
AgentNamespace(spec) == IF spec.namespace # Unset THEN spec.namespace ELSE Home.name

AutoTarget(spec) ==
    [name |-> AutoName, type |-> "PodMonitor",
     ends |-> {[port |-> "9400", files |-> {}]},
     ns   |-> InNamespace(AgentNamespace(spec)),
     sel  |-> ByName(AgentName(spec))]

Given(spec, lists) == InlineTargets(spec) \cup MonitorTargets(lists)

Generate(spec, lists) ==
    Given(spec, lists)
    \cup IF spec.gpu # "off" /\ ~\E t \in Given(spec, lists) : IsDuplicate(t, spec)
         THEN {AutoTarget(spec)} ELSE {}

\* collectAllTLSSecrets: the secrets of all inline targets, disabled or not, of
\* the pod monitors and of the service monitors.
SecretsOf(endpoints) ==
    {part.secret : part \in UNION {e.tls : e \in endpoints}} \ {Unset}

Secrets(spec, lists) ==
    UNION {SecretsOf(t.endpoints) :
             t \in spec.targets \cup lists["PodMonitor"] \cup lists["ServiceMonitor"]}

-----------------------------------------------------------------------------
\* The label the DaemonSets select by is not the user's to change, a selector is
\* not the absence of one, and the agents are not among the things.
ASSUME LabelsAssumption == \A spec \in Agents : "name" \notin KeysOf(spec.podLabels)
ASSUME UnsetAssumption ==
    /\ Unset \notin Agents /\ \A labels \in SUBSET Labels : Unset # labels
    /\ Unset \notin {ByName(name) : name \in AgentNames}
    /\ \A kind \in {"PodMonitor", "ServiceMonitor"} :
            \A list \in Monitors[kind] : \A m \in list : Unset # InNamespace(m.ns)
ASSUME ThingsAssumption ==
    \A thing \in Things : /\ thing.type \in {"PodMonitor", "ServiceMonitor"}
                          /\ \A name \in AgentNames : <<"name", name>> \notin thing.labels

(***************************************************************************)
(* A pass.                                                                 *)
(***************************************************************************)

NoLists == [kind \in Kinds |-> {}]

Listings == [Kinds -> UNION {Monitors[kind] : kind \in Kinds}]

\* There may be such monitors.
MayBe(lists) == lists \in Listings /\ \A kind \in Kinds : lists[kind] \in Monitors[kind]

Init ==
    /\ agent \in Agents /\ mons \in Listings /\ MayBe(mons)
    /\ agentSeen = agent /\ monsSeen = mons
    /\ queued = TRUE /\ timer = FALSE
    /\ pc = "idle" /\ work = Unset /\ listed = NoLists /\ tries = 0
    /\ config = Unset /\ mounts = Unset /\ podLabels = [name \in AgentNames |-> Unset]
    /\ edits = 0 /\ faults = 0

Fault == faults < MaxFaults /\ faults' = faults + 1

\* Faulty variant: the next pass has fewer tries.
EndPassCounting ==
    pc' = "idle" /\ work' = Unset /\ listed' = NoLists /\ UNCHANGED tries

EndPass ==
    pc' = "idle" /\ work' = Unset /\ listed' = NoLists /\ tries' = 0

\* An owned object that changes is an event that queues the WhatapAgent.
Queue == queued' = (queued \/ objects' # objects)

SetConfig(targets) == config' = targets /\ UNCHANGED <<mounts, podLabels>>
SetMounts(secrets) == mounts' = secrets /\ UNCHANGED <<config, podLabels>>
SetLabels(name, labels) ==
    podLabels' = [podLabels EXCEPT ![name] = labels] /\ UNCHANGED <<config, mounts>>

StartPass ==
    /\ pc = "idle" /\ queued
    /\ queued' = FALSE
    /\ work' = agentSeen
    /\ pc' = "gpuAgent"
    /\ UNCHANGED <<world, caches, timer, listed, tries, objects, faults>>

\* createOrUpdateNodeAgent: the DaemonSet of the GPU nodes, or its deletion.
WriteGpuAgent ==
    SetLabels("whatap-node-agent-gpu",
              IF work.gpu = "split"
              THEN Kept(podLabels["whatap-node-agent-gpu"],
                        TemplateLabels(work, "whatap-node-agent-gpu"))
              ELSE Unset)

UpdateGpuAgent ==
    /\ pc = "gpuAgent" /\ pc' = "nodeAgent"
    /\ WriteGpuAgent /\ Queue
    /\ UNCHANGED <<world, caches, timer, work, listed, tries, faults>>

WriteNodeAgent ==
    SetLabels("whatap-node-agent", Kept(podLabels["whatap-node-agent"],
                                        TemplateLabels(work, "whatap-node-agent")))

UpdateNodeAgent ==
    /\ pc = "nodeAgent"
    /\ pc' = IF work.open THEN "PodMonitor" ELSE "removeDeployment"
    /\ WriteNodeAgent /\ Queue
    /\ UNCHANGED <<world, caches, timer, work, listed, tries, faults>>

ListMonitors ==
    /\ pc \in Kinds
    /\ listed' = [listed EXCEPT ![pc] = monsSeen[pc]]
    /\ pc' = CASE pc = "PodMonitor"      -> "ServiceMonitor"
               [] pc = "ServiceMonitor"  -> "StaticEndpoints"
               [] pc = "StaticEndpoints" -> "config"
    /\ UNCHANGED <<world, caches, queued, timer, work, tries, objects, faults>>

WriteConfig ==
    /\ pc = "config" /\ pc' = "deploy"
    /\ SetConfig(Generate(work, listed)) /\ Queue
    /\ UNCHANGED <<world, caches, timer, work, listed, tries, faults>>

\* A pass that is done is repeated after five minutes.
Done == EndPass /\ timer' = TRUE

\* Faulty variant: the monitors are read again for the Deployment.
WriteDeploymentReading ==
    /\ pc = "deploy" /\ Done
    /\ SetMounts(Secrets(work, monsSeen)) /\ Queue
    /\ UNCHANGED <<world, caches, faults>>

WriteDeployment ==
    /\ pc = "deploy" /\ Done
    /\ SetMounts(Secrets(work, listed)) /\ Queue
    /\ UNCHANGED <<world, caches, faults>>

\* Faulty variant: the cleanup returns when the Deployment is gone.
RemoveDeploymentReturning ==
    /\ pc = "removeDeployment"
    /\ SetMounts(Unset) /\ Queue
    /\ IF mounts = Unset THEN Done
       ELSE pc' = "removeConfig" /\ UNCHANGED <<timer, work, listed, tries>>
    /\ UNCHANGED <<world, caches, faults>>

\* cleanupOpenAgent of an open agent that is switched off.
RemoveDeployment ==
    /\ pc = "removeDeployment" /\ pc' = "removeConfig"
    /\ SetMounts(Unset) /\ Queue
    /\ UNCHANGED <<world, caches, timer, work, listed, tries, faults>>

RemoveConfig ==
    /\ pc = "removeConfig" /\ Done
    /\ SetConfig(Unset) /\ Queue
    /\ UNCHANGED <<world, caches, faults>>

\* The call a step makes, when only its answer is lost.
Applied ==
    \/ pc = "gpuAgent" /\ WriteGpuAgent
    \/ pc = "nodeAgent" /\ WriteNodeAgent
    \/ pc = "config" /\ SetConfig(Generate(work, listed))
    \/ pc = "deploy" /\ SetMounts(Secrets(work, listed))
    \/ pc = "removeDeployment" /\ SetMounts(Unset)
    \/ pc = "removeConfig" /\ SetConfig(Unset)

\* The pass goes on after an error.
Logged ==
    \/ pc = "gpuAgent" /\ work.gpu # "split" /\ pc' = "nodeAgent"
       /\ UNCHANGED <<work, listed, tries, timer>>
    \/ pc \in {"removeDeployment", "removeConfig"} /\ Done

\* A failed write of the Deployment is tried again, for some time or for all of
\* the tries; any other failed step of the installation ends the pass, which is
\* queued again.  A failed removal is only logged.
StepFails ==
    /\ pc # "idle" /\ Fault
    /\ Applied \/ UNCHANGED objects
    /\ \/ /\ pc = "deploy" /\ tries + 1 < DeployTries /\ tries' = tries + 1
          /\ Queue /\ UNCHANGED <<pc, work, listed, timer>>
       \/ /\ pc \in Kinds \cup {"gpuAgent", "nodeAgent", "config", "deploy"}
          /\ pc = "gpuAgent" => work.gpu = "split"
          /\ EndPass /\ queued' = TRUE /\ UNCHANGED timer
       \/ Logged /\ Queue
    /\ UNCHANGED <<world, caches>>

Tick ==
    /\ timer
    /\ timer' = FALSE /\ queued' = TRUE
    /\ UNCHANGED <<world, caches, pass, objects, faults>>

-----------------------------------------------------------------------------
(***************************************************************************)
(* Informers, users and others.                                            *)
(***************************************************************************)

SeeAgent ==
    /\ agentSeen # agent
    /\ agentSeen' = agent
    /\ queued' = TRUE
    /\ UNCHANGED <<world, monsSeen, timer, pass, objects, faults>>

\* findWhatapAgents.
SeeMonitors(kind) ==
    /\ monsSeen[kind] # mons[kind]
    /\ monsSeen' = [monsSeen EXCEPT ![kind] = mons[kind]]
    /\ queued' = TRUE
    /\ UNCHANGED <<world, agentSeen, timer, pass, objects, faults>>

\* The operator starts again with full caches, and every object is an event.
Restart ==
    /\ Fault
    /\ EndPass
    /\ queued' = TRUE /\ timer' = FALSE
    /\ agentSeen' = agent /\ monsSeen' = mons
    /\ UNCHANGED <<world, objects>>

\* The deletion of an owned object is an event, too.
ForeignDelete ==
    /\ Fault
    /\ queued' = TRUE
    /\ \/ config # Unset /\ SetConfig(Unset)
       \/ mounts # Unset /\ SetMounts(Unset)
       \/ \E name \in AgentNames : podLabels[name] # Unset /\ SetLabels(name, Unset)
    /\ UNCHANGED <<world, caches, timer, pass>>

EditAgent ==
    /\ edits < MaxEdits /\ edits' = edits + 1
    /\ agent' \in Agents \ {agent}
    /\ UNCHANGED <<mons, caches, queued, timer, pass, objects, faults>>

EditMonitors(kind) ==
    /\ edits < MaxEdits /\ edits' = edits + 1
    /\ \E list \in Monitors[kind] \ {mons[kind]} : mons' = [mons EXCEPT ![kind] = list]
    /\ UNCHANGED <<agent, caches, queued, timer, pass, objects, faults>>

-----------------------------------------------------------------------------
Pass ==
    \/ StartPass \/ UpdateGpuAgent \/ UpdateNodeAgent
    \/ ListMonitors \/ WriteConfig \/ WriteDeployment \/ RemoveDeployment \/ RemoveConfig

Next ==
    \/ Pass \/ StepFails \/ Tick \/ SeeAgent \/ Restart \/ ForeignDelete \/ EditAgent
    \/ \E kind \in Kinds : SeeMonitors(kind) \/ EditMonitors(kind)

\* The worker, its timer and the informers go on.
Spec ==
    /\ Init /\ [][Next]_vars
    /\ WF_vars(Pass) /\ WF_vars(Tick) /\ WF_vars(SeeAgent)
    /\ \A kind \in Kinds : WF_vars(SeeMonitors(kind))

-----------------------------------------------------------------------------
(***************************************************************************)
(* What users ask for, by the comments of the API types: a monitor without *)
(* a namespace selector covers its own namespace, and a selector that is   *)
(* left empty selects everything.                                          *)
(***************************************************************************)
Asks(m, thing) ==
    /\ IF m.nsSel = Unset THEN thing.ns.name = m.ns ELSE SelectsNamespace(m.nsSel, thing.ns)
    /\ Selects(m.sel, thing.labels)

Ports(endpoints) == {e.port : e \in endpoints}

\* The targets and monitors that ask for a thing, with the ports they ask for.
Asked(thing) ==
    {<<<<t.name>>, Ports(t.endpoints)>> : t \in {u \in agent.targets :
        /\ u.enabled /\ u.type = thing.type
        /\ SelectsNamespace(u.ns, thing.ns) /\ Selects(u.sel, thing.labels)}}
    \cup {<<<<m.ns, m.name>>, Ports(m.endpoints)>> :
            m \in {n \in mons[thing.type] : Asks(n, thing)}}

\* The targets by which the open agent finds a thing.
Covers(t, thing) ==
    /\ t.type = thing.type
    /\ SelectsNamespace(t.ns, thing.ns) /\ Selects(t.sel, thing.labels)

Scraped(thing) == {<<t.name, Ports(t.ends)>> : t \in {u \in config : Covers(u, thing)}}

\* The operator has seen everything and has nothing to do before the timer.
AtRest ==
    /\ pc = "idle" /\ ~queued
    /\ agentSeen = agent /\ monsSeen = mons

\* Whether a target is meant for the exporter: it has the name of the operator's
\* own, or selects by a label that identifies the agent.
ByIdentity(t) == t.sel # Unset /\ KeysOf(t.sel.labels) \cap IdentityKeys # {}

NamesExporter(t) ==
    t.name = AutoName \/ (ByIdentity(t) /\ t.sel.labels \subseteq AgentLabels(agent))

\* Whether it scrapes the exporter, by the labels its pods have in the cluster.
ExporterLabels == podLabels[AgentName(agent)]

ScrapesExporter(t) ==
    /\ ExporterLabels # Unset
    /\ Covers(t, [type |-> "PodMonitor", ns |-> Home, labels |-> ExporterLabels])
    /\ "9400" \in Ports(t.ends)

Mounted(targets) ==
    \A t \in targets : t.type # "StaticEndpoints" =>
        \A e \in t.ends : \A f \in e.files : f.from = "secret" => f.of \in mounts'

-----------------------------------------------------------------------------
(***************************************************************************)
(* Properties.                                                             *)
(***************************************************************************)

\* The types, and what a pass holds when: a copy of the WhatapAgent from its
\* start to its end, and a count of tries only while it writes the Deployment.
TypeOK ==
    /\ agent \in Agents /\ agentSeen \in Agents
    /\ MayBe(mons) /\ MayBe(monsSeen)
    /\ queued \in BOOLEAN /\ timer \in BOOLEAN
    /\ pc \in {"idle", "gpuAgent", "nodeAgent", "config", "deploy",
               "removeDeployment", "removeConfig"} \cup Kinds
    /\ work \in IF pc = "idle" THEN {Unset} ELSE Agents
    /\ listed \in [Kinds -> {{}} \cup UNION {Monitors[kind] : kind \in Kinds}]
    /\ \A kind \in Kinds : listed[kind] \in {{}} \cup Monitors[kind]
    /\ tries \in IF pc = "deploy" THEN 0 .. DeployTries - 1 ELSE {0}
    /\ podLabels \in [AgentNames -> {Unset} \cup SUBSET Labels]
    /\ edits \in 0 .. MaxEdits /\ faults \in 0 .. MaxFaults

\* At rest, by the ConfigMap of the open agent every pod and every service is
\* scraped by exactly the targets and monitors that ask for it, at the ports they
\* ask for, and no static endpoint is missing or left over (generateScrapeConfig,
\* Watches): whatever was edited while a pass went on, failed or was cut off by a
\* restart.
ScrapesAsAsked ==
    AtRest /\ agent.open =>
        /\ \A thing \in Things : Scraped(thing) = Asked(thing)
        /\ {t.name : t \in {c \in config : c.type = "StaticEndpoints"}}
               = {<<m.ns, m.name>> : m \in mons["StaticEndpoints"]}
                 \cup {<<t.name>> : t \in {u \in agent.targets :
                                             u.enabled /\ u.type = "StaticEndpoints"}}

\* At rest the exporter of the GPU nodes is scraped (the duplicate check of
\* generateScrapeConfig), through edits of the GPU mode, the labels, the targets
\* and the monitors: as long as the user's targets that name the exporter do
\* scrape it, and there is one or the resource does not name another namespace.
\* And when the operator has added its target, no other that selects by identity
\* scrapes the exporter as well, unless by a label that an earlier resource has
\* left on the pods.
ExporterScrapedOnce ==
    LET given == Given(agent, mons) IN
    AtRest /\ agent.open /\ agent.gpu # "off" =>
        /\ /\ \A t \in given : NamesExporter(t) => ScrapesExporter(t)
           /\ AgentNamespace(agent) = Home.name \/ \E t \in given : NamesExporter(t)
           => \E t \in config : ScrapesExporter(t)
        /\ config # given /\ ExporterLabels = AgentLabels(agent)
           => \A t \in given : ByIdentity(t) => ~ScrapesExporter(t)

\* Once a pass has ended well, every secret the configuration names is mounted
\* (collectAllTLSSecrets), although monitors come and go during the pass, its
\* writes fail and others delete what it wrote: the ConfigMap and the Deployment
\* are made from one listing.  Static endpoints are not in it, as their secrets
\* are not collected.
FilesMounted ==
    [][pc = "deploy" /\ pc' = "idle" /\ faults' = faults /\ config # Unset
        => Mounted(config)]_vars

\* Once users and faults leave it alone, the open agent ends up scraping what is
\* asked for, or removed (installOpenAgent, cleanupOpenAgent), although a
\* removal that fails is not reported.
BecomesCurrent ==
    <>[](IF agent.open THEN config = Generate(agent, mons) /\ mounts = Secrets(agent, mons)
                       ELSE config = Unset /\ mounts = Unset)
=============================================================================
