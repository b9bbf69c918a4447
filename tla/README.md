# WhaTap operator: TLA+ models, model checking and proofs

The WhaTap operator is a Kubernetes operator. It watches one cluster-scoped
resource, the `WhatapAgent` "whatap", and installs what that resource asks for:
the WhaTap master agent, the node agent (with GPU monitoring in two placements),
the open agent, and an admission webhook that injects APM agents into new pods.
These files are the TLA+ development kept beside that code.

Paths below are relative to the repository; `controller.go` is
`internal/controller/whatapagent_controller.go` and `install_agents.go` is
`internal/controller/install_agents.go`.

## 1. Inventory of the system

| part | state it keeps | operations | interacts with |
| --- | --- | --- | --- |
| Reconcile loop (`controller.go`) | work queue, requeue timer, informer caches, the copy a pass works on | `Reconcile`: finalizer, progress status, webhook objects, agents, final status; `cleanup*` | API server (reads through caches, writes directly), install helpers |
| Install helpers (`install_agents.go`) | none of their own; the objects in the cluster, which they read back and merge | `createOrUpdateMasterAgent`, `createOrUpdateNodeAgent`, `ensureDcgmExporterService`, `installOpenAgent` | called by Reconcile with the copy of the resource |
| Node agent placement (`createOrUpdateNodeAgent`, `reconcileNodeAgentDaemonSet`) | two DaemonSets; the affinity shared with the copy of the resource | split of the nodes between GPU and normal DaemonSet, merge with what is in the cluster | scheduler (external) |
| Scrape configuration (`generateScrapeConfig`, `collectAllTLSSecrets`) | ConfigMap and mounts of the open agent | one function of the resource and the monitors | open agent pod (external) |
| Admission webhook (`internal/webhook/v2alpha1`) | none | `Default` for pods, `ValidateCreate/Update` for the resource (its name only) | API server calls it; the resource is read through the cache |
| Certificates (`cmd/main.go`, `ensureWebhookTLSSecret`, `ensureMutatingWebhookConfiguration`) | in memory and on disk for the process, CA in the webhook configuration | made once at the start | API server trusts the CA the configuration holds |
| GPU memory checker (`gpu_mem_check.go`) | a ticker | `checkGpuPods`, `checkPod` | HTTP to the node agents' port 6801, deletes pods |
| API types, manifests, examples, e2e tests | none | | |

### What is hard, and what makes each part correct

* **Reconcile loop.** Every read goes through a cache that may be behind, every
  write may be refused or its answer lost, the process may restart between any
  two steps, and users edit, delete and re-create the resource meanwhile. It is
  correct when it never installs for a resource that is gone, never undoes an
  edit, always finishes a deletion, and comes to rest only with what the current
  spec asks for installed and reported.
* **Node agent placement.** The two DaemonSets have to split the nodes: no node
  without an agent, none with two. What is already in the cluster is merged into
  what is wanted (sidecars, labels, resources), so the outcome can depend on the
  history of the resource.
* **Scrape configuration.** Each enabled target, the exporter by the labels its pods
  really have, and the secrets the targets name mounted.
* **Admission webhook.** Injection happens once, keeps what the user configured,
  never rejects a pod; the first environment variable of a name wins.
* **Certificates and admission.** After restarts, rolling updates and lost leases the
  API server trusts the serving process again; a resource the validator would refuse,
  let in while nobody was trusted, does no lasting harm and can be removed.
* **GPU memory checker.** Reads, then deletes by name: the pod may have been
  replaced in between.

`PROJECT.json` lists every hazard at its line.

## 2. Plan

Most important behaviour first; everything in it is done.

1. `WhatapReconciler`: Reconcile against the API server, one API call per step, with
   `WhatapReconcilerProofs` (safety under stale copies) and `WhatapReconcilerRestProofs`
   (what a pass knows and leaves).
2. `NodeSelectors`, `NodePlacement`: the algebra of node selector terms and the two
   DaemonSets across edits of the resource, with `NodePlacementProofs`.
3. `PodInjection`: the pod defaulter as a function on containers, environment and
   volumes, among re-invocation, other webhooks and the caches it reads;
   `PodInjectionProofs`, on a theory of lists of named things.
4. `AgentLifecycle`: what the operator promises about a resource, seen from outside,
   implemented by `WhatapReconciler`; `AgentLifecycleProofs` proves the refinement.
5. `GpuMemCheck`: the ticker, the measurements and the deletion, with pods that are
   replaced between them; `GpuMemCheckProofs`.
6. `ScrapeConfig`: targets and TLS secrets as functions of the resource and the
   monitors, and the pass that lists, writes and fails; `ScrapeConfigProofs`.
7. `AdmissionServing`: processes, certificates, the lease, the webhook configuration
   and the validator it leads to; `AdmissionServingProofs`.

All safety properties that passing runs check are proved. Worth doing next: the expansion
of entries that name owned ones in `PodInjection`, the resources that the merge of
`NodePlacement` keeps beyond their use, and the service of the exporter with its
namespace (section 6).

## 3. The models and the code

### WhatapReconciler

The state is the API server's (`cr`, `status`, `objs`, `mon`), the operator's
informer caches (`cache`, `view`, `monView`), and the controller's own: the work
queue (`queued`, one request or none, since there is one resource), the requeue
timer, and the pass in progress (`pc`, `work`, `calls`, `listed`, `tries`).

| action | code |
| --- | --- |
| `StartPass` | `Reconcile` up to the first write: the cached Get, deletion or finalizer branch |
| `AddFinalizer`, `ReleaseCR` | the updates that add and remove the finalizer |
| `MarkReconciling`, `MarkFailed` | the status updates before the work and after the webhook objects failed |
| `EnsureObject`, `EnsureFails` | one `CreateOrUpdate`: cached read, then create, update or nothing |
| `RemoveObject`, `DropObject`, `DeleteFails` | one deletion of `cleanup*` (looks into the cache first) or of `createOrUpdateNodeAgent` (does not) |
| `ReportInstalled`, `ReportFails` | the final status update with its retry on conflict, and the requeue after five minutes |
| `SyncCR`, `SyncObjects`, `SyncMonitors` | informers and watches of `SetupWithManager`, with the predicate on the generation |
| `TimerFires`, `Restart` | the requeue, a crash and start of the process |
| `UserCreates`, `UserEdits`, `UserDeletes`, `ForeignDelete`, `MonitorsChange` | the users |
| `CollectGarbage`, `ReleaseHold` | the garbage collector of the cluster |

Every API call is a step of its own, so that everything else can happen between
any two of them. `InstallCalls` and `CleanupCalls` are the calls in the order in
which the helpers make them, with the errors that are returned and the ones that
are only logged. A call may fail, or succeed while its answer is lost.

Abstractions:

* A resource version is a flag that says whether a copy is current; the write of
  an old copy is refused.
* The informer of the WhatapAgent jumps to the latest state. Events of objects
  are kept as the set of objects that have changed since (`unseen`), and arrive in
  the groups `Informers`.
* The content of an object is what it is computed from: the spec's `rev` (all
  fields that are only copied), the GPU mode, the certificate of the process, and
  the monitors.
* Rate limiting delays a request and never drops it, so a failed pass is simply
  queued again. A crash and the start after it are one step, which makes a new
  certificate (`epoch`), empties the pass and lists everything again.
* The hold of a foreground deletion is the `foregroundDeletion` finalizer.
* `dcgm` is `gpuMonitoring.service` enabled or left out; its namespace override is
  not modelled. Users do not take the operator's finalizer off, there is one
  replica, and one WhatapAgent, as the documentation describes.

### AgentLifecycle

The abstract specification. A resource is new, guarded by the finalizer, deleting,
released or absent; an object is installed only for the guarded or deleting
resource of that moment, may change hands to it, and is dropped at any time.
`WhatapReconciler!Lifecycle` is the refinement: `last`, `phase` and `owners` are read
off the uids, the resource and the owners of the objects in the API server. Queue,
caches, copies, status, tries and faults are what the refinement hides.

### NodeSelectors and NodePlacement

`NodeSelectors` is the meaning of node selector terms for the scheduler, and the
code that negates and combines them (`negateNodeSelectorTerm`, and the loops in
`createOrUpdateNodeAgent` and `reconcileNodeAgentDaemonSet`). `NodePlacement` is
`createOrUpdateNodeAgent` as a state machine: `StartPass`, the GPU DaemonSet or its
removal (`ReconcileGpu`, `DropGpu`), the normal one (`ReconcileNormal`), and failure
at each. `ReconcileDS` merges the new template into the existing one with all that
it keeps: foreign containers, labels, resources, and fields of the security
context. `aff` and `security` are apart from the spec because the code changes
them in place, through pointers the two calls of a pass share.

Which nodes a list of terms matches does not depend on its order, so terms are sets;
but another order is another template, and a rollout. The order of the terms negated
from the GPU node selector, a Go map that yields its keys in any order
(install_agents.go:514), is therefore a variable of its own, `order`. Two other orders
are not modelled: the secrets of the open agent (2301) and the containers appended to
an existing template (2785). `Gt` and `Lt` are one operator, which the negation
leaves out; two fields stand for the security context. The
DaemonSet is read and written in one step: what conflicts and failed calls lead
to is `FailPass`. An explicitly empty node selector is not distinguished from none.

### PodInjection

One pod on its way through the API server: `Submit` or `Resubmit` (a copy of a
stored pod), any number of calls of other webhooks (`OtherWebhook`) and of the
operator's, and `Store`. `CallDefault` reads the WhatapAgent from the cache and
makes the early returns of `Default`; `SkipTarget` and `InjectTarget` are one turn
each of its loop, with the namespace read anew from the cache; `LoseAnswer` is a
timeout or a stopped operator, after which failurePolicy Ignore admits the pod as
it was. `Inject` is `patchPodTemplateSpec` and the annotations: pull secrets,
ConfigMap volumes, init container, agent volume, and for each container the
mount and the environment from the injector of the language.

An environment is a sequence of entries with a value, a sequence of parts, or a
reference. NODE_IP stands for the three downward API names; the port is treated
like the host; OKIND and the process name like the application name. Names are
never empty. Commands of the init container are the steps they consist of. Of the
languages the schema allows, `php` stands for those without an injector.

### GpuMemCheck

The checker of `gpu_mem_check.go`, one call per step: `ListPods` (a tick), `NextPod` and
`PassOver` (the skips of `checkPod`), `StatsAnswered` (`getMemoryStats`),
`LimitAnswered` (`getContainerLimit` and the comparison), `DeletePod`, and `CallFails` and
`LoseCall` for refusals and lost answers. Around it the DaemonSet makes pods,
containers start, addresses pass to other pods, memory changes, helpers stop
answering, and the operator restarts. Memory is a machine word of `Words` values, so
that a difference below zero would wrap.

The name of a pod is unique, as the DaemonSet controller makes it; limits belong to
the pod. Quantities are numbers; percentages are compared in integers.

### ScrapeConfig

`Generate` is `generateScrapeConfig` (inline targets, three kinds of monitors, the
operator's own target unless one of the others is a duplicate), `Secrets` is
`collectAllTLSSecrets`. A pass begins with `UpdateGpuAgent` and `UpdateNodeAgent`, the part
of `createOrUpdateNodeAgent` that gives the pods of the two DaemonSets their labels
(`podLabels`): those of the spec (`TemplateLabels`) over all that the template had before
(`Kept`, install_agents.go:2728). `ListMonitors` (one kind at a time, each from its own cache),
`WriteConfig` and `WriteDeployment` with its three tries are `installOpenAgent`;
`RemoveDeployment` and `RemoveConfig` are `cleanupOpenAgent`. Users edit the resource and the
monitors between any two of them; `StepFails` is a failed call or a lost answer (`Applied`),
and for the Deployment a failure that lasts for one try or for all of them.

The operator's own target is in the namespace the resource names (`AgentNamespace`), the
DaemonSets in the operator's own. So with another namespace named, the exporter is scraped
only if a target of the user does it: `Scrape_targets` has such a resource, and
`ExporterScrapedOnce` claims no more for it. It also sets aside user targets that name the exporter
by name or label but do not scrape it (another namespace, port or expression, or a label
value that differs in the cluster). Two targets for the exporter are possible by a label
that an earlier resource left on the pods.

Labels are sets of pairs, a target is its name, type, selectors and ends; relabelling,
job labels, authentication, parameters and intervals are copied by the code and
left out, and the node agent is taken to be enabled. How the open agent evaluates
selectors is external and follows the comments of the API types. An object is read
and written in one step; what stale caches of them lead to is in `WhatapReconciler`. That
the namespace of a secret reference is not looked at is not modelled.

`ScrapesAsAsked` and `BecomesCurrent` are about the content of the ConfigMap, not about what
the running open agent has read: the ConfigMap is mounted by `subPath`
(install_agents.go:2290-2294), which the kubelet never refreshes, so that a pod keeps the
configuration it was started with.

### AdmissionServing

A process is the number of its certificate authority (`generateSelfSignedCert`, one
at each start). `StartProcess`, `StopProcess`, `Acquire`, `Expire` and `LoseLease` are the
manager of `cmd/main.go` with leader election, as `config/manager/manager.yaml` runs it.
A pass is the part of `Reconcile` that admission depends on: `AddFinalizer`, `Ensure` for
the Service, the webhook configuration and all else, `Drop` for the deletions of
`cleanupAgents`, `RemoveFinalizer`. `Refuses` is the validator, asked through whatever the
API server knows of the configuration (`hookSeen`), on every creation and update, the
operator's own included; a call that fails is ignored (failurePolicy Ignore).

There are several resources here, since only the validator keeps other names out,
and only while somebody is trusted. The Secret belongs to the rest of the objects: the
server reads its certificate from disk. A resource deleted and created again between
two steps counts as the same; `WhatapReconciler` has the uids. `validateRequiredFields`
and `validateApmTargets` are not called by the code. While the authorities differ, pods
go in without an agent: that is what Ignore means, and no property denies it.

## 4. What is checked

| run | question |
| --- | --- |
| `Reconcile_switch` | two specs that between them switch every component, one failed or lost call: does the operator rest only with the current spec reported (`RestReported`); after the last edit, is what is wanted installed, and what is not removed (`Settles`, apart from what no call deletes), and does the status say so (`ReportsInstalled`)? |
| `Reconcile_recreate` | deletion and re-creation under cached copies, a fault and a restart: `GuardInv`, no install for a resource that is gone (`InstallsForLiveOwner`), deletions complete and leave nothing, what the pass knows and has installed is true unless a request is queued (`RestInv`, so the certificates are current at rest), every step is one of `AgentLifecycle` (`ImplementsLifecycle`) |
| `Reconcile_foreground` | foreground deletions, two specs, an edit and a re-creation: does the deletion complete while the garbage collector removes objects that are watched (`DeletionCompletes`), and does no update from a cached copy undo an edit or hit a resource that took the place of the one it read (`NoLostEdit`)? |
| `Reconcile_kinds` | one event stream for each kind, the open agent, changing monitors and one edit, without faults: `RestConforms` |
| `Reconcile_nodegpu` | refuted: disabling nodeAgent cleans up the node agents (in split mode the GPU DaemonSet stays) |
| `Placement_split` | ten specs with switches between any two at any moment, failed passes, foreign deletions, a sidecar: each eligible node runs one node agent, the exporter is exactly where it should be, sidecars stay, a clean pass repeated writes the same templates, up to the order of the terms negated from a selector of several keys (`RepeatKeepsTemplates`) |
| `Placement_affinity` | refuted: with GPU monitoring by affinity and an affinity of the node agent, the other nodes run the normal DaemonSet |
| `Injection_pods` | three pods, six resources, two namespaces, three entries of other webhooks: an agent goes in whole and once (`MarkTruthful`), pods stay valid, the server settings win (`OneServer`), the application's entries and their order stay (`UserEnvKept`), only the target's files are copied (`CopiesItsOwnFiles`), the first matching target decides (`PickedFirst`) |
| `Injection_loaded` | refuted: the agent gets onto search paths the application already sets |
| `Gpu_restarts` | two nodes whose pods, containers, addresses and helpers change between any two calls: only a pod whose own exporter was over its own limit since the listing is deleted (`DeletesOnlyOverloaded`), and one that stays over it is (`NoneStaysOverloaded`) although other helpers hang |
| `Scrape_targets` | five resources, lists of all kinds of monitors, two edits and one fault (a failed call, a lost answer, a restart, a deletion by others) anywhere in a pass: at rest the ConfigMap has each pod and service scraped exactly by those who ask for it (`ScrapesAsAsked`), the exporter is scraped by the labels its pods have and not twice (`ExporterScrapedOnce`), a pass that ends well mounts the secrets its configuration names (`FilesMounted`), the outcome is current in the end (`BecomesCurrent`) |
| `Admission_rollout` | three starts, rolling updates, crashes and lost leases, one fault, two names: one process reconciles at a time (`OneReconciles`), in the end the API server trusts the process that serves and the valid resource has everything (`EndsUpVouched`), a misnamed resource can be deleted (`MisnamedGoes`) |

The refuted statements are comments of the code that the program does not keep;
`PROJECT.json` quotes them. The code also differs from `whatapagent_types.go:587`
("existing entries take precedence"): entries of a target replace those of the
container, as a test wants it.

**Bounds.** `MaxUid = 2` gives one re-creation, enough for a copy that outlives its
resource; `MaxGen = 2` one edit or deletion at any point of a pass. One fault (none in
`Reconcile_kinds`, which is about the order of events and would grow out of reach,
`RestConforms` being proved with faults; none in `Reconcile_foreground`), and one
restart where restarts matter, at any point: every error path has its own step, and a
second fault only repeats one of them from a state that the first pass can also start
in. The final status update gives up after two tries instead of client-go's five: one
conflict that is made up for and one that is not. In `Reconcile_recreate` (one spec) and
`Reconcile_foreground` (two, one of them an edit of the other) every agent is off, so
that the objects they follow are the webhook's Service, Secret and configuration:
deletion and re-creation do not look at the kind of an object. The open agent's
Deployment has its three tries. The placement runs have two keys and two values, so
nodes with and without each label, and selectors of one and of two keys; negation works
key by key. An injected pod meets up to two entries of other webhooks, before, between
and after calls, which gives every order around one injection and a duplicate of the
name it owns.

`Gpu_restarts` has two nodes and two addresses, so that addresses can be swapped, two
pods and two containers, a sample at exactly 70%, one above it and one below zero, and a
pod without a limit. `Scrape_targets` allows two edits, so that one can fall between two
listings and the other after a write, and each of its five resources is about one way to
decide on the exporter's target; between them labels of the node agents come, go and
change their value. Its one fault may be an outage that uses up all tries of the
Deployment. `Admission_rollout` has three starts, one more than a rolling update needs,
so that the new process can crash as well, and three creations and deletions: both
resources exist, and one of them goes. Deadlock is not checked where an operator without
work, or at the bounds, stands still.

**Fairness.** Weak fairness on the worker (`Reconcile`: the queue is served while
the process lives, and a pass runs to its end), on informers, which list and
watch again after errors, on the requeue timer, and on the garbage collector.
Users, faults, restarts and foreign deletions have none, and are finitely many. In
`GpuMemCheck` the checker itself is fair (a ticker and requests with timeouts), nothing
around it. In `AdmissionServing` the Deployment replaces a process that is gone and ends
the older of two, a lost lease ends a process, the lease of one that is gone expires,
and the work queue is strongly fair to each resource: a request put back with a delay
comes to the front again. A replacement is always available at the bounds (`Spare`).
`NodePlacement` and `PodInjection` are checked for safety only.

## 5. What is proved

For every value of the constants that the named assumptions allow.

`WhatapReconcilerProofs`: `TypeCorrect`, `GuardInvCorrect`, `InstallsOnlyForLiveOwner`,
`EditsAreKept` and `FinalizerGuards`. None of the last three is inductive: each
depends on what Reconcile may conclude from a copy. `GuardInv` says it: a copy
believed current is the resource (`FreshCopies`); no resource that held the
finalizer in the cache and was not being deleted has vanished since, and a pass
beyond the finalizer step works for a resource that still exists, under the same
uid, and holds the finalizer (`GuardedCopies`), because only such a pass takes the
finalizer off, and only with a current copy; owners are uids that were given out
(`KnownOwners`). The proof has a lemma for the steps of Reconcile, of the rest of
the operator and of the cluster, with a step for each action.

`WhatapReconcilerRestProofs`: `RestInvCorrect`, and from it `RestIsConforming` and
`RestIsReported`: at rest, a live resource has every object it asks for, made from its
current spec, the monitors and the certificate of the process, and its status says
so. Neither is inductive, since what is true at rest was made so, call by call, by a
pass that worked on copies. `RestInv` (checked by `Reconcile_recreate`) says what those are
worth: the generation dates a cached resource (`CopiesDated`); a cached object differs
from the real one only while an event about it is on its way (`ViewKnown`); and unless
a request is queued (`Undisturbed`), the pass works with what the cache holds, each
wanted object it has no call left for is in place or an event about it will start
another pass, the monitors are listed or will be before anything is made from them,
and between passes everything is in place and reported. `GuardInv` is used along with it.

`NodePlacementProofs`: `NegationComplement` and `NegatedSelectorComplement` (the
negation matches exactly the other nodes, for terms made of the four operators
the code negates), `RestrictNarrows` and `RestrictKeeps` (adding terms to an
affinity is an intersection), and on top of them `SplitIsExact`: if every spec is
`Separable`, then after a clean pass no node runs two node agents, no eligible
node runs none, and the exporter is where the spec wants it, for any labels,
values and sidecars. `PlaceInv`, the inductive invariant, carries the first half of
a pass: between the two DaemonSets the GPU one is as wanted and the shared
affinity is still the spec's. `NodesAreCovered`, `ExporterIsOnGpuNodes` and
`ExporterIsExact` name its parts. `Separable` is exactly where the code is not correct:
a GPU affinity that is not one negatable term, or an affinity of the node agent
beside it (`Placement_affinity` shows the consequence). `SidecarsSurvive`,
`PlacementTypes` and `RepeatedPassesKeepTemplates` need no such assumption. The last rests
on an invariant of its own, `StayInv`: a merge repeated with the same template changes
nothing (`MergeTwice`), and the template of the second DaemonSet, made from the affinity
and the security context the first call changed in place, is the same in every pass,
because the first call finds what it left. A selector of at most one key has one order
(`SingleOrder`), and `StayInv` says that the terms in the cluster are in it; with more
keys the theorem leaves the order open, as the code does.

`PodInjectionProofs`: `TypeCorrect`, `InjectionKeepsPodsValid`, `MarkIsTruthful`,
`FirstTargetIsPicked`, `OwnFilesAreCopied`, `ServerIsOne` and `UserEntriesAreKept`: every
property of `Injection_pods`, for any pods, resources, namespaces and entries of other
webhooks. The loops over lists are folds. What they compute is proved from an
induction over sequences that takes a set instead of an operator (`SetOfSeqs`, from
the well-foundedness of finite sets): what `Without`, `Merge`, `Upsert`, `Combine` and
`JavaToolOptions` keep, in which order, and what they add. `PodInv` is the inductive
invariant: types, valid pods, truthful marks, and a handler that works on an unmarked
pod. The first three are inductive only together: an injection keeps a pod valid
because the unmarked pod uses none of the agent's names, and a pod that
has the mark is left alone when the webhook is called again. The step properties follow
from what one injection does to such a pod (`InjectKeeps`, `InjectOwnFiles`,
`InjectSameServer`, `StartKept`); `FirstTargetIsPicked` also needs `PickInv`, that the targets
passed so far do not match. The assumptions are:

* `PodsAssumption`: submitted pods are well-formed, valid, and do not use the agent's
  names, nor a `JAVA_TOOL_OPTIONS` that is a reference or loads the agent already;
  `ForeignAssumption` asks the latter of the entries other webhooks add.
* `CRsAssumption`: a target is well-formed, and does not call its ConfigMap volume or its
  mount path like the operator's own (the code would leave out files of one of the two,
  or mount two volumes at one path).
* `UnsetAssumption` and `StringsAssumption`: what is missing is not a value, and the
  operator's literals are strings.

`AgentLifecycleProofs`: `RefinesLifecycle`, the refinement itself: initial states are
abstract initial states, and each step of `WhatapReconciler` is a step of
`AgentLifecycle` or leaves it alone. The install steps need `GuardInv` in the state
before: without it a stale copy could install for a resource that has been released.

`GpuMemCheckProofs`: `CheckerTypes` and `DeletesAreJustified`, for any nodes, samples,
limits and faults. `MeasuredInv` is the inductive invariant: the container in the
listed copy never belongs to another pod, so that a helper that knows it answers for
the pod of the list, whoever holds the address now; and once both answers are in, the
pod has been over its own limit.

`ScrapeConfigProofs`: `ScrapeTypes`, `RestScrapesAsAsked`, `RestExporterScraped` and
`SecretsMounted`, for any resources, monitors, pods, edits and faults. `CurrentInv` is the
inductive invariant: unless a request is queued, what a pass works with and has listed
is what the caches hold, the ConfigMap is made from it, at the end both objects are what
one would write now, and once their DaemonSet has been written the pods with the exporter
have at least the labels of the current spec (`LabelsCurrent`). Only labels of other
keys can be left over from an earlier one, so that a target that names the exporter
by the duplicate check's labels also selects its pods. The rest is about the functions: the
generated targets cover a thing exactly when it is asked for, and every secret in a path
is in the collected set, static endpoints apart.

`AdmissionServingProofs`: `ServingTypes`, `OneLeaderReconciles` and `OwnersAreKept` (no
object passes from one resource to another without having been gone), for any names
and numbers of starts. The first two are inductive only together.

## 6. What is only model-checked, and what is not modelled

Liveness (`Settles`, `ReportsInstalled`, `DeletionCompletes`, `LeavesNothing`,
`NoneStaysOverloaded`, `BecomesCurrent`, `EndsUpVouched`, `MisnamedGoes`) rests on the model
checker: liveness under fairness and ENABLED are beyond the proof system.

`MisnamedGoes` is about a misnamed resource without a valid one beside it. With one, the
cleanup removes the webhook configuration, the valid resource's pass puts it back, and
the removal of the finalizer has to fall in between: nothing in the code sees to it.

`PodInjection` leaves out pods that the code breaks and nothing promises to keep
(`PodsAssumption`, `CRsAssumption`): a `JAVA_TOOL_OPTIONS` by reference, to which
the Java injector adds a value; a mount of `/whatap-agent`, a volume or an init
container under the operator's names. Environment entries that expand another,
owned one are not modelled either: the owned entry moves behind them.

`NodePlacement` models that resources of the existing container win over those of
nodeAgentContainer (`Merge`, install_agents.go:2755); no property is about it.

Two objects outlive the setting that asked for them: no code deletes
`dcgm-exporter-service` when the service or GPU monitoring is switched off or its
namespace changes (install_agents.go:556, 1046-1060), and the GPU DaemonSet stays when the
node agent is switched off in split mode. `WhatapReconciler` models both (the first without
namespaces), `Settles` sets them aside (`Leftovers`), and the second is refuted by
`Reconcile_nodegpu`.

The install helpers are modelled by their calls and errors; the pod templates,
roles and commands they put together are constants of the code and appear as what
they are computed from. Not modelled: API types and generated code, manifests,
examples, the end-to-end tests, the environment getters and the metric list, which
have no behaviour of their own.
