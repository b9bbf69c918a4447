---------------------------- MODULE PodInjection ----------------------------
(***************************************************************************)
(* The mutating webhook that injects APM agents into pods:                 *)
(* WhatapAgentCustomDefaulter.Default, patchPodTemplateSpec and the        *)
(* language injectors (internal/webhook/v2alpha1).                         *)
(*                                                                         *)
(* The API server shows every pod that is created to the webhooks in turn. *)
(* The operator reads the WhatapAgent, and the labels of the namespace     *)
(* once for each target, from informer caches that change in the meantime; *)
(* the first target that matches decides which agent goes into the pod.    *)
(***************************************************************************)
EXTENDS Naturals, SequencesExt

CONSTANTS
    CRs,         \* the WhatapAgents users write: [enabled, targets, security, resources]
    Pods,        \* the pods that are submitted
    Namespaces,  \* the labels the namespace of the pods may have
    Foreign,     \* environment entries other webhooks put into containers
    MaxForeign,  \* bound: how often they do it to one pod
    Unset        \* no object, or a field without a value

\* "php" stands for the languages without an injector.
Languages == {"java", "python", "nodejs", "php"}

\* An entry of a container's environment: a value, as the sequence of parts it
\* is put together from, or a reference (valueFrom).
Var(n, v) == [name |-> n, val |-> v, ref |-> FALSE]
Ref(n)    == [name |-> n, val |-> <<>>, ref |-> TRUE]

\* Lists of things with names: entries, and also pull secrets and containers.
Names(list) == {e.name : e \in ToSet(list)}

\* What a loop keeps that leaves some names out, or all others.
Without(list, names) ==
    FoldLeft(LAMBDA kept, e : IF e.name \in names THEN kept ELSE Append(kept, e), <<>>, list)

Only(list, names) == Without(list, Names(list) \ names)

Binding(list, n) == Only(list, {n})

\* Kubernetes lets the first entry of a name win.
Effective(envs, n) == Head(Binding(envs, n))

VARIABLES
    cr,      \* the WhatapAgent in the cache
    ns,      \* the labels of the pods' namespace in the cache
    stage,   \* where the pod stands: none, mutating, handling, stored
    pod,     \* the pod the API server has in hand
    read,    \* the WhatapAgent the handler works with
    next,    \* the target it tries next
    foreign, \* how many entries other webhooks have added to the pod
    steady   \* the namespace has not changed since the handler was called

vars == <<cr, ns, stage, pod, read, next, foreign, steady>>

-----------------------------------------------------------------------------
(***************************************************************************)
(* utils.go: environment lists and selectors.                              *)
(***************************************************************************)

\* Faulty variant: an owned entry is appended like any other.
UpsertAppending(base, overrides) == base \o overrides

Upsert(base, overrides) == Without(base, Names(overrides)) \o overrides

Merge(base, extras) ==
    FoldLeft(LAMBDA b, e : IF e.name \in Names(b) THEN b ELSE Append(b, e), base, extras)

\* Faulty variant: every incoming entry wins.
CombineForcing(base, incoming, forced) == Upsert(base, incoming)

Combine(base, incoming, forced) ==
    Merge(Upsert(base, Only(incoming, forced)), Without(incoming, forced))

\* What a target says under the first of several keys; a reference has no value.
Override(envs, keys, default) ==
    LET first == SelectInSeq(keys, LAMBDA k : k \in Names(envs))
    IN  IF first = 0 THEN default ELSE Effective(envs, keys[first]).val

License(t) == Override(t.envs, <<"WHATAP_LICENSE", "license">>, <<"operator">>)
Host(t)    == Override(t.envs, <<"WHATAP_HOST", "whatap.server.host",
                "whatap_server_host", "WHATAP_SERVER_HOST">>, <<"operator">>)

LicenseName == [java |-> "license", python |-> "license", nodejs |-> "WHATAP_LICENSE"]
HostName == [java |-> "whatap.server.host", python |-> "whatap_server_host",
             nodejs |-> "WHATAP_SERVER_HOST"]
PathName == [java |-> "WHATAP_JAVA_AGENT_PATH", python |-> "WHATAP_PYTHON_AGENT_PATH",
             nodejs |-> "WHATAP_NODEJS_AGENT_PATH"]

\* By which names an agent finds its modules.
SearchNames == [python |-> <<"PYTHONPATH">>, nodejs |-> <<"NODE_PATH", "NODE_OPTIONS">>]

\* pythonForceEnvNames, nodejsForceEnvNames, and the names Java always replaces.
\* NODE_IP stands for the three entries taken from the downward API.
ForceEnvNames(lang) ==
    {LicenseName[lang], HostName[lang], "whatap.micro.enabled", "NODE_IP"}
        \cup (IF lang = "java" THEN {} ELSE {"WHATAP_HOME"})

ManagedNames ==
    (UNION {{LicenseName[l], HostName[l], PathName[l]} : l \in DOMAIN LicenseName})
        \cup {"WHATAP_HOST", "NODE_IP", "whatap.micro.enabled", "WHATAP_HOME",
              "JAVA_TOOL_OPTIONS", "PYTHONPATH", "NODE_PATH", "NODE_OPTIONS", "app_name"}

HasLabels(labels, wanted) ==
    \A k \in DOMAIN wanted : k \in DOMAIN labels /\ labels[k] = wanted[k]

MatchesExpression(labels, req) ==
    \/ req.op = "In" /\ req.key \in DOMAIN labels /\ labels[req.key] \in req.vals
    \/ req.op = "NotIn" /\ (req.key \in DOMAIN labels => labels[req.key] \notin req.vals)
    \/ req.op = "Exists" /\ req.key \in DOMAIN labels
    \/ req.op = "DoesNotExist" /\ req.key \notin DOMAIN labels

MatchesSelector(labels, selector) ==
    /\ HasLabels(labels, selector.labels)
    /\ \A req \in selector.exprs : MatchesExpression(labels, req)

MatchesNamespace(name, labels, selector) ==
    /\ selector.names # {} => name \in selector.names
    /\ MatchesSelector(labels, selector)

-----------------------------------------------------------------------------
(***************************************************************************)
(* The language injectors.                                                 *)
(***************************************************************************)

Connection(t) ==
    <<Var(LicenseName[t.lang], License(t)), Var(HostName[t.lang], Host(t)),
      Var("whatap.micro.enabled", <<"true">>), Ref("NODE_IP")>>

\* The agent's option goes to the end of the first JAVA_TOOL_OPTIONS, also of
\* one that is a reference.
JavaToolOptions(env) ==
    IF "JAVA_TOOL_OPTIONS" \notin Names(env)
    THEN Append(env, Var("JAVA_TOOL_OPTIONS", <<"agent">>))
    ELSE LET i == SelectInSeq(env, LAMBDA e : e.name = "JAVA_TOOL_OPTIONS")
         IN  [env EXCEPT ![i].val = Append(@, "agent")]

InjectJava(env, t) ==
    Upsert(Merge(JavaToolOptions(env), <<Var(PathName.java, <<"jar">>)>>), Connection(t))

\* getPythonAppConfig, getNodejsAppConfig: the last app_name wins. Process name
\* and OKIND are treated like it.
AppName(envs) ==
    LET given == Binding(envs, "app_name") IN IF given = <<>> THEN <<>> ELSE Last(given).val

\* The search paths are added to a list of the operator's own entries, where no
\* other value of theirs can be found.
SearchEntries(lang) ==
    [i \in DOMAIN SearchNames[lang] |-> Var(SearchNames[lang][i], <<"agent">>)]

\* Python and Node.js.
InjectScripted(env, t, c) ==
    LET name     == IF AppName(t.envs) = <<>> THEN <<c>> ELSE AppName(t.envs)
        incoming == Connection(t)
                      \o <<Var("app_name", name), Var("WHATAP_HOME", <<"home">>)>>
                      \o SearchEntries(t.lang) \o <<Var(PathName[t.lang], <<"path">>)>>
    IN  Combine(env, incoming, ForceEnvNames(t.lang))

\* injectLanguageSpecificEnvVars, for container c.
InjectEnv(env, t, c) ==
    LET own == IF t.lang = "java" THEN InjectJava(env, t)
               ELSE IF t.lang \in DOMAIN SearchNames THEN InjectScripted(env, t, c)
               ELSE env
    IN  Combine(own, t.envs, Names(t.envs) \ ManagedNames)

-----------------------------------------------------------------------------
(***************************************************************************)
(* patchPodTemplateSpec.                                                   *)
(***************************************************************************)
AgentVolume == [name |-> "whatap-agent-volume", source |-> "empty"]
AgentMount  == [name |-> "whatap-agent-volume", path |-> "/whatap-agent"]

\* The first of several places where a setting is given.
Resolve(places, default) ==
    LET first == SelectInSeq(places, LAMBDA v : v # Unset)
    IN  IF first = 0 THEN default ELSE places[first]

\* The environment of the init container; there is none for other languages.
InitEnv(t) ==
    IF t.lang \notin DOMAIN LicenseName THEN <<>>
    ELSE <<Var("WHATAP_LICENSE", License(t)), Var("WHATAP_HOST", Host(t))>>
           \o (IF t.lang = "java" THEN <<>> ELSE <<Var("app_name", AppName(t.envs))>>)

\* createAgentInitContainers, with what it mounts and copies.
InitContainer(t, w, mounts, steps) ==
    [name      |-> "whatap-agent-init",
     image     |-> Resolve(<<t.imageFull, t.image>>, t.lang),
     env       |-> InitEnv(t),
     mounts    |-> mounts,
     steps     |-> steps,
     security  |-> Resolve(<<t.security, w.security>>, "nonroot"),
     resources |-> Resolve(<<t.resources, w.resources>>, "default")]

\* The ConfigMaps a target may want mounted into the init container.
ConfigVolume(t) ==
    [name |-> Resolve(<<t.volumeName>>, "config-volume"), source |-> t.config,
     path |-> Resolve(<<t.mountPath>>, "/config-volume"), step |-> "config"]

PluginVolume(t) ==
    [name |-> "whatap-plugin-volume", source |-> t.plugin,
     path |-> "/whatap-plugin", step |-> "plugin"]

AddVolume(acc, v) ==
    [vols   |-> Append(acc.vols, [name |-> v.name, source |-> v.source]),
     mounts |-> Append(acc.mounts, [name |-> v.name, path |-> v.path]),
     steps  |-> Append(acc.steps, v.step)]

\* Faulty variant: a volume of that name is reused.
InjectVolumeReusing(acc, v) ==
    IF v.source = Unset THEN acc
    ELSE IF v.name \in Names(acc.vols) THEN [AddVolume(acc, v) EXCEPT !.vols = acc.vols]
    ELSE AddVolume(acc, v)

\* Faulty variant: the volume is added although there is one of that name.
InjectVolumeTwice(acc, v) == IF v.source = Unset THEN acc ELSE AddVolume(acc, v)

\* Nothing is mounted or copied when the target names no ConfigMap, or the pod
\* has a volume of that name.
InjectVolume(acc, v) ==
    IF v.source = Unset \/ v.name \in Names(acc.vols) THEN acc ELSE AddVolume(acc, v)

AppendIfNotExists(vols, vol) ==
    IF vol.name \in Names(vols) THEN vols ELSE Append(vols, vol)

AddSecrets(secrets, new) == Merge(secrets, new)

\* patchPodTemplateSpec, and the annotations Default adds.
Inject(p, t, w) ==
    LET bare   == [vols |-> p.vols, mounts |-> <<AgentMount>>, steps |-> <<>>]
        config == InjectVolume(bare, ConfigVolume(t))
        added  == InjectVolume(config, PluginVolume(t))
    IN  [p EXCEPT
           !.secrets = AddSecrets(@, t.secrets),
           !.vols    = AppendIfNotExists(added.vols, AgentVolume),
           !.inits   = Append(@, InitContainer(t, w, added.mounts, added.steps)),
           !.env     = [c \in DOMAIN @ |-> InjectEnv(@[c], t, c)],
           !.mounts  = [c \in DOMAIN @ |-> Append(@[c], AgentMount)],
           !.agent   = [lang |-> t.lang, version |-> Resolve(<<t.version>>, "latest")]]

-----------------------------------------------------------------------------
(***************************************************************************)
(* The life of a pod's creation.                                           *)
(***************************************************************************)
Idle == read' = Unset /\ next' = 0

Submit ==
    /\ stage = "none"
    /\ pod' \in Pods
    /\ stage' = "mutating" /\ foreign' = 0
    /\ UNCHANGED <<cr, ns, read, next, steady>>

\* Somebody creates a copy of a pod that exists, annotations included.
Resubmit ==
    /\ stage = "stored"
    /\ stage' = "mutating"
    /\ UNCHANGED <<cr, ns, pod, read, next, foreign, steady>>

\* Another webhook puts an entry in front of a container's environment.
OtherWebhook ==
    /\ stage = "mutating" /\ foreign < MaxForeign
    /\ \E e \in Foreign, c \in DOMAIN pod.env : pod' = [pod EXCEPT !.env[c] = <<e>> \o @]
    /\ foreign' = foreign + 1
    /\ UNCHANGED <<cr, ns, stage, read, next, steady>>

\* Faulty variants: the annotation, or the list of targets, is not looked at.
HandlesEmpty(p) == cr # Unset /\ cr.enabled /\ p.agent = Unset
HandlesUnmarked(p) == cr # Unset /\ cr.enabled /\ cr.targets # <<>>

\* The checks of Default before its loop.
Handles(p) == cr # Unset /\ cr.enabled /\ cr.targets # <<>> /\ p.agent = Unset

\* Default is called, also again for a pod that has been through other webhooks.
CallDefault ==
    /\ stage = "mutating" /\ Handles(pod)
    /\ stage' = "handling" /\ read' = cr /\ next' = 1 /\ steady' = TRUE
    /\ UNCHANGED <<cr, ns, pod, foreign>>

\* Faulty variant: a target that is switched off is tried.
MatchesDisabled(t, p, labels) ==
    /\ MatchesSelector(p.labels, t.podSel)
    /\ labels # Unset /\ MatchesNamespace(p.namespace, labels, t.nsSel)

\* A namespace that cannot be read does not match.
Matches(t, p, labels) ==
    /\ t.enabled
    /\ MatchesSelector(p.labels, t.podSel)
    /\ labels # Unset /\ MatchesNamespace(p.namespace, labels, t.nsSel)

SkipTarget ==
    /\ stage = "handling" /\ ~Matches(read.targets[next], pod, ns)
    /\ IF next < Len(read.targets)
       THEN next' = next + 1 /\ UNCHANGED <<stage, read>>
       ELSE stage' = "mutating" /\ Idle
    /\ UNCHANGED <<cr, ns, pod, foreign, steady>>

InjectTarget ==
    /\ stage = "handling" /\ Matches(read.targets[next], pod, ns)
    /\ pod' = Inject(pod, read.targets[next], read)
    /\ stage' = "mutating" /\ Idle
    /\ UNCHANGED <<cr, ns, foreign, steady>>

\* The operator stops, or answers too late: failurePolicy Ignore.
LoseAnswer ==
    /\ stage = "handling"
    /\ stage' = "mutating" /\ Idle
    /\ UNCHANGED <<cr, ns, pod, foreign, steady>>

Store ==
    /\ stage = "mutating"
    /\ stage' = "stored"
    /\ UNCHANGED <<cr, ns, pod, read, next, foreign, steady>>

DeletePod ==
    /\ stage = "stored"
    /\ stage' = "none" /\ pod' = Unset /\ foreign' = 0
    /\ UNCHANGED <<cr, ns, read, next, steady>>

SeeWhatapAgent ==
    /\ cr' \in CRs \cup {Unset}
    /\ UNCHANGED <<ns, stage, pod, read, next, foreign, steady>>

SeeNamespace ==
    /\ ns' \in (Namespaces \cup {Unset}) \ {ns}
    /\ steady' = FALSE
    /\ UNCHANGED <<cr, stage, pod, read, next, foreign>>

Init ==
    /\ cr = Unset /\ ns = Unset /\ stage = "none" /\ pod = Unset
    /\ read = Unset /\ next = 0 /\ foreign = 0 /\ steady = FALSE

Next ==
    \/ Submit \/ Resubmit \/ OtherWebhook \/ CallDefault \/ SkipTarget \/ InjectTarget
    \/ LoseAnswer \/ Store \/ DeletePod \/ SeeWhatapAgent \/ SeeNamespace

Spec == Init /\ [][Next]_vars

-----------------------------------------------------------------------------
(***************************************************************************)
(* Properties.                                                             *)
(***************************************************************************)

Entries == [name : STRING, val : Seq(STRING), ref : BOOLEAN]
Volumes == [name : STRING, source : STRING]
Mounts  == [name : STRING, path : STRING]
Secrets == [name : STRING]
Agents  == [lang : Languages, version : STRING]

WellFormed(p) ==
    /\ DOMAIN p = {"namespace", "labels", "agent", "secrets", "vols", "inits", "env", "mounts"}
    /\ p.agent \in Agents \cup {Unset}
    /\ p.secrets \in Seq(Secrets) /\ p.vols \in Seq(Volumes)
    /\ p.inits \in Seq(ToSet(p.inits))
    /\ \A i \in ToSet(p.inits) : i.mounts \in Seq(Mounts)
    /\ DOMAIN p.mounts = DOMAIN p.env
    /\ \A c \in DOMAIN p.env :
         c \in STRING /\ p.env[c] \in Seq(Entries) /\ p.mounts[c] \in Seq(Mounts)

\* TypeOK: the handler works with a target of the WhatapAgent it has read, and
\* only then; a pod is well-formed at every stage, its mark included.
TypeOK ==
    /\ cr \in CRs \cup {Unset} /\ ns \in Namespaces \cup {Unset}
    /\ stage \in {"none", "mutating", "handling", "stored"}
    /\ IF stage = "none" THEN pod = Unset ELSE WellFormed(pod)
    /\ IF stage = "handling" THEN read \in CRs /\ next \in DOMAIN read.targets
       ELSE read = Unset /\ next = 0

Distinct(seq, Key(_)) == \A i, j \in DOMAIN seq : Key(seq[i]) = Key(seq[j]) => i = j

ValidMounts(p, mounts) ==
    /\ Distinct(mounts, LAMBDA m : m.path)
    /\ \A m \in ToSet(mounts) : m.name \in Names(p.vols)

ValidEntry(e) == ~(e.ref /\ e.val # <<>>)

Valid(p) ==
    /\ Distinct(p.vols, LAMBDA v : v.name)
    /\ Distinct(p.inits, LAMBDA i : i.name)
    /\ Distinct(p.secrets, LAMBDA s : s.name)
    /\ \A i \in ToSet(p.inits) : ValidMounts(p, i.mounts)
    /\ \A c \in DOMAIN p.mounts : ValidMounts(p, p.mounts[c])
    /\ \A c \in DOMAIN p.env : \A e \in ToSet(p.env[c]) : ValidEntry(e)

\* JAVA_TOOL_OPTIONS as others write it: without the agent, and not by
\* reference, which the Java injector would break.
PlainOptions(e) ==
    e.name = "JAVA_TOOL_OPTIONS" => ~e.ref /\ "agent" \notin ToSet(e.val)

\* What the names the agent uses must not be used for.
Plain(p) ==
    /\ p.agent = Unset
    /\ AgentVolume.name \notin Names(p.vols)
    /\ "whatap-agent-init" \notin Names(p.inits)
    /\ \A c \in DOMAIN p.env :
         /\ AgentMount.path \notin {m.path : m \in ToSet(p.mounts[c])}
         /\ \A e \in ToSet(p.env[c]) : PlainOptions(e)

\* The strings the webhook puts into pods are strings (the proofs need to be told).
ASSUME StringsAssumption ==
    {"license", "WHATAP_LICENSE", "WHATAP_HOST", "whatap.server.host", "whatap_server_host",
     "WHATAP_SERVER_HOST", "whatap.micro.enabled", "NODE_IP", "JAVA_TOOL_OPTIONS", "WHATAP_HOME",
     "WHATAP_JAVA_AGENT_PATH", "WHATAP_PYTHON_AGENT_PATH", "WHATAP_NODEJS_AGENT_PATH",
     "PYTHONPATH", "NODE_PATH", "NODE_OPTIONS", "app_name", "operator", "true", "agent", "jar",
     "path", "home", "latest", "empty", "config-volume", "/config-volume", "whatap-plugin-volume",
     "/whatap-plugin", "whatap-agent-volume", "/whatap-agent"} \subseteq STRING

ASSUME UnsetAssumption ==
    Unset \notin Agents /\ Unset \notin CRs /\ Unset \notin Pods /\ Unset \notin STRING
ASSUME PodsAssumption == \A p \in Pods : WellFormed(p) /\ Valid(p) /\ Plain(p)
ASSUME ForeignAssumption ==
    /\ MaxForeign \in Nat
    /\ \A e \in Foreign : e \in Entries /\ ValidEntry(e) /\ PlainOptions(e)

\* A target does not give its ConfigMap the names and paths of the operator's volumes.
ProperTarget(t) ==
    /\ t.lang \in Languages
    /\ t.envs \in Seq(Entries) /\ \A e \in ToSet(t.envs) : ValidEntry(e)
    /\ t.secrets \in Seq(Secrets)
    /\ {t.version, t.config, t.plugin, t.volumeName, t.mountPath} \subseteq STRING \cup {Unset}
    /\ t.volumeName \notin {AgentVolume.name, "whatap-plugin-volume"}
    /\ t.mountPath \notin {AgentMount.path, "/whatap-plugin"}

ASSUME CRsAssumption ==
    \A w \in CRs :
      /\ w.targets \in Seq(ToSet(w.targets))
      /\ \A t \in ToSet(w.targets) : ProperTarget(t)

\* PodStaysValid: whatever other webhooks add, however often the webhook is
\* called and pods are copied, a pod the API server would accept stays one:
\* volumes, mounts, init containers and pull secrets never collide.
PodStaysValid == stage # "none" => Valid(pod)

AgentInits(p) == Binding(p.inits, "whatap-agent-init")

\* Where the options of a Java container load the agent.
AgentOptions(env) ==
    LET options == Binding(env, "JAVA_TOOL_OPTIONS")
    IN  UNION {{<<i, k>> : k \in {k \in DOMAIN options[i].val : options[i].val[k] = "agent"}} :
                 i \in DOMAIN options}

\* Marked(p): p has the whole agent, once: its init container, its volume, and
\* its mount in every container, and one -javaagent option in a Java container.
Marked(p) ==
    /\ Len(AgentInits(p)) = 1
    /\ AgentVolume \in ToSet(p.vols)
    /\ \A c \in DOMAIN p.env :
         /\ \E i \in DOMAIN p.mounts[c] :
              {j \in DOMAIN p.mounts[c] : p.mounts[c][j] = AgentMount} = {i}
         /\ p.agent.lang = "java" =>
              \E o \in AgentOptions(p.env[c]) : AgentOptions(p.env[c]) = {o}

\* MarkTruthful: a pod is marked as injected if and only if it has the whole
\* agent, once; without the mark it has nothing of it.
MarkTruthful == stage # "none" => IF pod.agent = Unset THEN Plain(pod) ELSE Marked(pod)

Injects ==
    stage # "none" /\ stage' # "none" /\ pod.agent = Unset /\ pod'.agent # Unset
Target == read.targets[next]

\* OneServer: when the agent is injected, each application container has a
\* single entry for the server and for the licence, the one the init container
\* was given, whatever the container, other webhooks or the target had under
\* that name (KAZAA-641).
OneServer ==
    [][Injects /\ pod'.agent.lang \in DOMAIN HostName =>
         \A c \in DOMAIN pod'.env :
           LET init == AgentInits(pod')[1].env
               lang == pod'.agent.lang
           IN  /\ Binding(pod'.env[c], HostName[lang])
                    = <<[Effective(init, "WHATAP_HOST") EXCEPT !.name = HostName[lang]]>>
               /\ Binding(pod'.env[c], LicenseName[lang])
                    = <<[Effective(init, "WHATAP_LICENSE") EXCEPT !.name = LicenseName[lang]]>>]_vars

\* The names of entries that injection may replace.
Claimed(t) ==
    (IF t.lang \in DOMAIN HostName THEN ForceEnvNames(t.lang) ELSE {})
        \cup (Names(t.envs) \ ManagedNames)

\* UserEnvKept: injection keeps every entry of a container that neither the
\* operator owns nor the target sets, in the same order, so that entries that
\* refer to earlier ones still resolve; options may only be appended to.
UserEnvKept ==
    [][Injects =>
         \A c \in DOMAIN pod.env :
           LET old == Without(pod.env[c], Claimed(Target))
               new == Only(pod'.env[c], Names(old))
           IN  /\ Len(new) = Len(old)
               /\ \A i \in DOMAIN old :
                    /\ new[i].name = old[i].name /\ new[i].ref = old[i].ref
                    /\ IsPrefix(old[i].val, new[i].val)
                    /\ old[i].name # "JAVA_TOOL_OPTIONS" => new[i] = old[i]]_vars

Source(p, m) == {v.source : v \in {v \in ToSet(p.vols) : v.name = m.name}}

ConfigVolumes(t) == {v \in {ConfigVolume(t), PluginVolume(t)} : v.source # Unset}

\* CopiesItsOwnFiles: the init container copies a configuration or plugins only
\* out of the target's own ConfigMap, never out of a volume the pod had under
\* that name, and it does so unless there was one.
CopiesItsOwnFiles ==
    [][Injects =>
         LET init == AgentInits(pod')[1] IN
         \A v \in ConfigVolumes(Target) :
           IF v.name \in Names(pod.vols)
           THEN v.step \notin ToSet(init.steps)
           ELSE /\ v.step \in ToSet(init.steps)
                /\ \E m \in ToSet(init.mounts) :
                     m.path = v.path /\ Source(pod', m) = {v.source}]_vars

\* PickedFirst: while the namespace stays as it is, the agent that goes into a
\* pod is that of the first enabled target that selects the pod, of the resource
\* as it was when the handler was called, whatever users do to it meanwhile.
PickedFirst ==
    [][Injects /\ steady =>
         /\ Target.enabled
         /\ \A i \in 1..next-1 :
              read.targets[i].enabled /\ MatchesSelector(pod.labels, read.targets[i].podSel)
                => ~MatchesNamespace(pod.namespace, ns, read.targets[i].nsSel)
         /\ pod'.agent.lang = Target.lang]_vars

\* AgentLoaded (refuted): an injected Python or Node.js agent is put onto the
\* search paths of every container, unless they are references.
AgentLoaded ==
    [][Injects /\ pod'.agent.lang \in DOMAIN SearchNames =>
         \A c \in DOMAIN pod'.env, n \in ToSet(SearchNames[pod'.agent.lang]) :
           LET e == Effective(pod'.env[c], n) IN e.ref \/ "agent" \in ToSet(e.val)]_vars
=============================================================================
