--------------------------- MODULE NodePlacement ---------------------------
(***************************************************************************)
(* The node agent DaemonSets: createOrUpdateNodeAgent and                  *)
(* reconcileNodeAgentDaemonSet (internal/controller/install_agents.go).    *)
(*                                                                         *)
(* With GPU monitoring restricted to some nodes, "whatap-node-agent-gpu"   *)
(* runs there with the exporter and "whatap-node-agent" everywhere else;   *)
(* otherwise "whatap-node-agent" runs everywhere, with the exporter if GPU *)
(* monitoring is on. Each pass merges what the resource asks for into what *)
(* earlier passes, and others, have left in the cluster.                   *)
(***************************************************************************)
EXTENDS NodeSelectors

CONSTANTS
    Specs,      \* what users may write (see SpecType)
    Sidecars,   \* containers others add to the pod templates
    NoDS,       \* there is no such DaemonSet
    Unset       \* a field without a value

Base     == {"whatap-node-helper", "whatap-node-agent"}
Exporter == {"dcgm-exporter", "dcgm-hostengine"}
DSNames  == {"gpu", "normal"}

\* Two fields of a PodSecurityContext stand for all of them.
SecurityType == [runAsUser : {"root", "other", Unset},
                 runAsNonRoot : {"true", Unset}]
DefaultSecurity == [runAsUser |-> "root", runAsNonRoot |-> Unset]

\* gpuSel, gpuAff: gpuMonitoring's node selector and required node affinity.
\* nodeSel, nodeAff: the same of nodeAgent; hasAff: nodeAgent.affinity is set,
\* with or without a required node affinity. res, containerRes: the resources
\* of nodeAgent and of nodeAgent.nodeAgentContainer. security: nodeAgent's
\* PodSecurityContext, or Unset.
SpecType ==
    [gpu : BOOLEAN, hostEngine : BOOLEAN, gpuSel : Selectors,
     gpuAff : Affinities,
     nodeSel : Selectors, hasAff : BOOLEAN, nodeAff : Affinities,
     res : {"a", Unset}, containerRes : {"b", Unset},
     security : SecurityType \cup {Unset}]

DSType ==
    [sel : Selectors, aff : Affinities,
     containers : SUBSET (Base \cup Exporter \cup Sidecars),
     gpuLabel : BOOLEAN, res : {"a", "b", "default"}, security : SecurityType]

ASSUME SpecsAssumption ==
    /\ Specs \subseteq SpecType
    /\ \A s \in Specs : ~s.hasAff => s.nodeAff = {}
ASSUME SidecarsAssumption == Sidecars \cap (Base \cup Exporter) = {}
ASSUME NoDSAssumption == NoDS \notin DSType

VARIABLES
    spec,     \* the WhatapAgent
    work,     \* the spec the pass works on
    aff,      \* its nodeAgent.affinity, behind a pointer shared with it
    security, \* its nodeAgent.podSecurityContext, likewise
    pc,       \* where createOrUpdateNodeAgent stands
    clean,    \* no call of this pass has failed, and nobody has interfered
    settled,  \* the same of a completed pass, for the current spec
    ds,       \* the DaemonSets
    order     \* the order in which the normal one lists the negated keys

vars == <<spec, work, aff, security, pc, clean, settled, ds, order>>

TypeOK ==
    /\ spec \in Specs /\ work \in Specs
    /\ aff \in Affinities
    /\ security \in SecurityType \cup {Unset}
    /\ pc \in {"idle", "gpu", "drop", "normal"}
    /\ clean \in BOOLEAN /\ settled \in BOOLEAN
    /\ ds \in [DSNames -> DSType \cup {NoDS}]
    /\ order \subseteq Keys \X Keys

Init ==
    /\ spec \in Specs /\ work = spec
    /\ aff = work.nodeAff /\ security = work.security
    /\ pc = "idle" /\ clean = FALSE /\ settled = FALSE
    /\ ds = [d \in DSNames |-> NoDS] /\ order = {}

-----------------------------------------------------------------------------
Split(s) == s.gpu /\ (DOMAIN s.gpuSel # {} \/ s.gpuAff # {})

\* The node selector and terms each DaemonSet is restricted to in split mode.
GpuTerms(s) == TermsOf(s.gpuAff)

\* Only an affinity with a single term is negated.
NegatedAffinity(s) ==
    UNION {Negation(t) : t \in {t \in GpuTerms(s) : GpuTerms(s) = {t}}}

\* Faulty variant: the node selector is not negated.
NormalTermsAffinity(s) == NegatedAffinity(s)

NormalTerms(s) == NegatedSelector(s.gpuSel) \cup NegatedAffinity(s)

\* Faulty variant: the exporter follows GPU monitoring alone.
IncludesExporterAlways(s, d) == s.gpu

IncludesExporter(s, d) == IF Split(s) THEN d = "gpu" ELSE s.gpu

WantedContainers(s, d) ==
    Base \cup (IF IncludesExporter(s, d) THEN {"dcgm-exporter"} ELSE {})
         \cup (IF IncludesExporter(s, d) /\ s.hostEngine THEN {"dcgm-hostengine"} ELSE {})

\* Faulty variant: there are no default resources.
WantedResUndefaulted(s) == IF s.containerRes # Unset THEN s.containerRes ELSE s.res

WantedRes(s) == IF s.containerRes # Unset THEN s.containerRes
                ELSE IF s.res # Unset THEN s.res ELSE "default"

\* The template a pass asks for, built from the shared affinity and context.
Template(s, d, terms) ==
    [sel        |-> IF d = "gpu" /\ DOMAIN s.gpuSel # {} THEN s.gpuSel ELSE s.nodeSel,
     aff        |-> Restrict(aff, terms),
     containers |-> WantedContainers(s, d),
     gpuLabel   |-> IncludesExporter(s, d),
     res        |-> WantedRes(s),
     security   |-> IF security = Unset THEN DefaultSecurity ELSE security]

\* mergePodSpec: fields without a value are taken from the cluster.
FillSecurity(new, old) == [f \in DOMAIN new |-> IF new[f] = Unset THEN old[f] ELSE new[f]]

\* Faulty variants: nothing in the template is preserved; the host engine is
\* taken for a container of somebody else.
MergeReplacing(s, new, old) == new
MergeKeepingEngine(s, new, old) ==
    IF old = NoDS THEN new
    ELSE [new EXCEPT !.containers = @ \cup (old.containers \ {"dcgm-exporter"})]

\* What is kept of a DaemonSet that exists: the labels of its template, the
\* node agent's resources unless nodeAgent.resources is set, the containers
\* the operator does not manage, and the security fields left unset.
Merge(s, new, old) ==
    IF old = NoDS THEN new
    ELSE [new EXCEPT
            !.gpuLabel   = @ \/ old.gpuLabel,
            !.res        = IF s.res # Unset THEN @ ELSE old.res,
            !.containers = @ \cup (old.containers \ (Base \cup Exporter)),
            !.security   = FillSecurity(@, old.security)]

\* reconcileNodeAgentDaemonSet works in place on an affinity, and on a security
\* context, that the resource sets.
ReconcileDS(d, terms) ==
    LET new == Merge(work, Template(work, d, terms), ds[d]) IN
    /\ ds' = [ds EXCEPT ![d] = new]
    /\ aff' = IF work.hasAff THEN new.aff ELSE aff
    /\ security' = IF security = Unset THEN Unset ELSE new.security

CallGpu == ReconcileDS("gpu", GpuTerms(work)) /\ UNCHANGED order

\* The negated node selector is appended in the order in which the map yields it.
CallNormal ==
    /\ ReconcileDS("normal", IF Split(work) THEN NormalTerms(work) ELSE {})
    /\ order' \in IF Split(work) THEN Orders(DOMAIN work.gpuSel) ELSE {{}}

-----------------------------------------------------------------------------
(***************************************************************************)
(* createOrUpdateNodeAgent.                                                *)
(***************************************************************************)

\* Faulty variant: the pass goes on with the affinity of the last one.
StartPassShared ==
    /\ pc = "idle"
    /\ work' = spec /\ security' = spec.security
    /\ aff' = IF work = spec THEN aff ELSE spec.nodeAff
    /\ pc' = IF Split(spec) THEN "gpu" ELSE "drop"
    /\ clean' = TRUE
    /\ UNCHANGED <<spec, settled, ds, order>>

\* Reconcile reads the resource anew in each pass.
StartPass ==
    /\ pc = "idle"
    /\ work' = spec /\ aff' = spec.nodeAff /\ security' = spec.security
    /\ pc' = IF Split(spec) THEN "gpu" ELSE "drop"
    /\ clean' = TRUE
    /\ UNCHANGED <<spec, settled, ds, order>>

ReconcileGpu ==
    /\ pc = "gpu" /\ pc' = "normal"
    /\ CallGpu
    /\ UNCHANGED <<spec, work, clean, settled>>

\* Without a split the GPU DaemonSet is deleted; an error is only logged.
DropGpu ==
    /\ pc = "drop" /\ pc' = "normal"
    /\ \/ ds' = [ds EXCEPT !["gpu"] = NoDS] /\ UNCHANGED clean
       \/ clean' = FALSE /\ UNCHANGED ds
    /\ UNCHANGED <<spec, work, aff, security, settled, order>>

ReconcileNormal ==
    /\ pc = "normal" /\ pc' = "idle"
    /\ CallNormal
    /\ settled' = (clean /\ work = spec)
    /\ UNCHANGED <<spec, work, clean>>

\* A CreateOrUpdate fails, or its answer is lost, and the pass with it.
FailPass ==
    /\ pc' = "idle"
    /\ \/ pc \in {"gpu", "normal"} /\ UNCHANGED <<aff, security, ds, order>>
       \/ pc = "gpu" /\ CallGpu
       \/ pc = "normal" /\ CallNormal
    /\ UNCHANGED <<spec, work, clean, settled>>

-----------------------------------------------------------------------------
Edit(s) ==
    /\ spec' = s /\ settled' = (settled /\ s = spec)
    /\ UNCHANGED <<work, aff, security, pc, clean, ds, order>>

AddSidecar(d, c) ==
    /\ ds[d] # NoDS
    /\ ds' = [ds EXCEPT ![d].containers = @ \cup {c}]
    /\ UNCHANGED <<spec, work, aff, security, pc, clean, settled, order>>

ForeignDelete(d) ==
    /\ ds[d] # NoDS
    /\ ds' = [ds EXCEPT ![d] = NoDS]
    /\ clean' = FALSE /\ settled' = FALSE
    /\ UNCHANGED <<spec, work, aff, security, pc, order>>

Next ==
    \/ StartPass \/ ReconcileGpu \/ DropGpu \/ ReconcileNormal \/ FailPass
    \/ \E s \in Specs : Edit(s)
    \/ \E d \in DSNames : ForeignDelete(d) \/ \E c \in Sidecars : AddSidecar(d, c)

Spec == Init /\ [][Next]_vars

-----------------------------------------------------------------------------
(***************************************************************************)
(* Properties.                                                             *)
(***************************************************************************)

\* The scheduler's view: n may run a pod of DaemonSet d.
Runs(n, d) ==
    /\ ds[d] # NoDS
    /\ MatchesSelector(n, ds[d].sel) /\ MatchesAffinity(n, ds[d].aff)

\* Where the resource wants the node agent, and GPU monitoring.
Eligible(n) == MatchesSelector(n, spec.nodeSel) /\ MatchesAffinity(n, spec.nodeAff)
GpuNode(n)  == MatchesSelector(n, spec.gpuSel) /\ MatchesAffinity(n, spec.gpuAff)

\* The resources for which the nodes are split as intended: an affinity of the
\* GPU monitoring is one term of negatable matchExpressions, and it is not
\* combined with an affinity of the node agent.
Negates(t) == t.fields = {} /\ t.exprs # {} /\ \A r \in t.exprs : r.op \in Negatable
Separable(s) ==
    Split(s) /\ s.gpuAff # {}
    => ~s.hasAff /\ \E t \in GpuTerms(s) : s.gpuAff = {{t}} /\ Negates(t)

\* After a pass none of whose calls failed, no node runs two node agents: the
\* terms given to the normal DaemonSet exclude the nodes of the other.
NoNodeTwice == settled => \A n \in Nodes : ~(Runs(n, "gpu") /\ Runs(n, "normal"))

\* Nor is an eligible node left without one, whichever sequence of edits led
\* to the current resource.
NoNodeMissed ==
    settled => \A n \in Nodes : Eligible(n) => Runs(n, "gpu") \/ Runs(n, "normal")

\* The exporter runs exactly on the GPU nodes among the eligible ones.
ExporterOnGpuNodes ==
    settled =>
    \A n \in Nodes : Eligible(n) =>
        ((\E d \in DSNames : Runs(n, d) /\ "dcgm-exporter" \in ds[d].containers)
         <=> spec.gpu /\ GpuNode(n))

\* Containers added by others survive every pass, as long as the DaemonSet
\* itself does.
SidecarsKept ==
    [][\A d \in DSNames :
          ds[d] # NoDS /\ ds'[d] # NoDS
          => ds[d].containers \cap Sidecars \subseteq ds'[d].containers]_vars

\* A pass that finds its work done writes what is there: a change of a template
\* would restart the node agents of the whole cluster every five minutes. The
\* one exception is a GPU node selector of several keys: createOrUpdateNodeAgent
\* ranges over a map, so that the normal DaemonSet may be given the same terms
\* in another order, which is such a change.
RepeatKeepsTemplates ==
    [][pc # "idle" /\ pc' # pc /\ settled =>
          /\ ds' = ds
          /\ order' = order \/ (Split(work) /\ \E j, k \in DOMAIN work.gpuSel : j # k)]_vars

\* The operator's own containers are those the resource asks for: the merge
\* does not take a former exporter or host engine for a sidecar.
ExporterExact ==
    settled =>
    \A d \in DSNames : ds[d] # NoDS =>
        ds[d].containers \cap Exporter = WantedContainers(spec, d) \cap Exporter

\* install_agents.go:2703-2705: the terms of the normal DaemonSet are the
\* user's terms and the negated GPU terms, combined, so that it still runs on
\* the eligible nodes without GPU monitoring.
NormalOnOtherNodes ==
    settled /\ Split(spec) =>
    \A n \in Nodes : Eligible(n) /\ ~GpuNode(n) => Runs(n, "normal")
=============================================================================
