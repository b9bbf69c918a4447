---------------------------- MODULE GpuMemCheck ----------------------------
(***************************************************************************)
(* The GPU memory checker: GpuMemChecker.Start, checkGpuPods, checkPod,    *)
(* getMemoryStats and getContainerLimit                                    *)
(* (internal/controller/gpu_mem_check.go).                                 *)
(*                                                                         *)
(* At every tick the checker lists the GPU pods and works through its copy *)
(* of the list.  Each pod takes two requests to the node helper at the     *)
(* address in the copy and, if the exporter holds too much memory, one     *)
(* deletion by name.  Between any two of these calls containers and pods   *)
(* come and go, addresses change hands, memory grows and shrinks, and      *)
(* helpers stop to answer.                                                 *)
(***************************************************************************)
EXTENDS Integers

CONSTANTS
    Nodes,       \* the GPU nodes: the DaemonSet keeps one pod on each
    Addrs,       \* the addresses pods may have
    Samples,     \* what a helper may measure: [usage, inactive]
    Limits,      \* the memory limits of exporters; 0 is no limit
    OtherLimit,  \* the limit of the other containers of a node
    Words,       \* the number of values of a machine word (2^64 in the code)
    MaxPods,     \* bound: pods ever created
    MaxConts,    \* bound: exporter containers ever started
    MaxFaults,   \* bound: lost calls and restarts of the operator
    None         \* no pod, no container, no measurement

ASSUME SamplesAssumption ==
    Samples \subseteq [usage : 0 .. Words - 1, inactive : 0 .. Words - 1]

ASSUME LimitsAssumption == Limits \subseteq Nat /\ OtherLimit \in Nat

ASSUME BoundsAssumption ==
    Words \in Nat /\ MaxPods \in Nat /\ MaxConts \in Nat /\ MaxFaults \in Nat

VARIABLES
    pod,      \* what runs on each node
    sample,   \* the memory of the exporter on each node
    up,       \* the nodes whose helper answers
    born,     \* how many pods and containers have been started
    pc,       \* where the checker stands
    todo,     \* the pods of its list it has not looked at yet
    cur,      \* the pod it looks at, as it was in the list
    used,     \* the working set it was told
    faults,   \* lost calls and restarts so far
    hot       \* history: the pods over the threshold at some time since the list

vars == <<pod, sample, up, born, pc, todo, cur, used, faults, hot>>
world == <<pod, sample, up, born, hot>>

PodType ==
    [name : 1 .. MaxPods, addr : Addrs, del : BOOLEAN, limit : Limits,
     cont : 1 .. MaxConts \cup {None}]

ASSUME NoneAssumption == None \notin Int \cup PodType \cup Samples

-----------------------------------------------------------------------------
(***************************************************************************)
(* What is measured.                                                       *)
(***************************************************************************)

\* Faulty variant: the difference of two unsigned words, unguarded.
WorkingSetWrapping(s) == (s.usage - s.inactive) % Words

WorkingSet(s) == IF s.usage > s.inactive THEN s.usage - s.inactive ELSE 0

\* More than 70% of the limit; without a limit never.
Exceeds(size, limit) == limit # 0 /\ 10 * size > 7 * limit

\* The node whose helper answers at an address, as long as the pod there lives.
At(addr) == {n \in Nodes : pod[n] # None /\ pod[n].addr = addr /\ n \in up}

\* The helpers that know a container: only that of its own node.
Knows(p) == {n \in At(p.addr) : pod[n].cont = p.cont}

LimitsOf(p) == {pod[n].limit : n \in Knows(p)}

\* The exporter of a node holds too much memory.
Over(n) ==
    /\ pod[n] # None
    /\ pod[n].cont # None
    /\ Exceeds(sample[n].usage - sample[n].inactive, pod[n].limit)

OverNow == {pod[n].name : n \in {m \in Nodes : Over(m)}}

-----------------------------------------------------------------------------
(***************************************************************************)
(* The checker.                                                            *)
(***************************************************************************)

Init ==
    /\ pod = [n \in Nodes |-> None]
    /\ sample = [n \in Nodes |-> None]
    /\ up = Nodes
    /\ born = [pods |-> 0, conts |-> 0]
    /\ pc = "waiting"
    /\ todo = {}
    /\ cur = None
    /\ used = None
    /\ faults = 0
    /\ hot = {}

\* Faulty variant: a pod without an exporter is looked at.
CheckedAny(p) == ~p.del

\* The ticker fires.  The pods checkPod passes over at once, going by nothing but
\* its copy, are left out here: those that are terminating, and those that do
\* not run or have no exporter, which are the ones without a container.  A list
\* that fails is no step: the next tick makes another.
Checked(p) == ~p.del /\ p.cont # None

ListPods ==
    /\ pc = "waiting"
    /\ pc' = "next"
    /\ todo' = {pod[n] : n \in {m \in Nodes : pod[m] # None /\ Checked(pod[m])}}
    /\ hot' = OverNow
    /\ UNCHANGED <<pod, sample, up, born, cur, used, faults>>

\* The API server lists pods by name, and those names are random.
NextPod ==
    /\ pc = "next"
    /\ \E p \in todo :
        /\ cur' = p
        /\ todo' = todo \ {p}
    /\ pc' = "stats"
    /\ UNCHANGED <<world, used, faults>>

EndPass ==
    /\ pc = "next"
    /\ todo = {}
    /\ pc' = "waiting"
    /\ hot' = {}
    /\ UNCHANGED <<pod, sample, up, born, todo, cur, used, faults>>

LooksAt(n) == pod[n] # None /\ pod[n].name = cur.name

\* Faulty variant: one pod that cannot be measured ends the pass.
PassOverFailing ==
    /\ pc' = "next"
    /\ todo' = {}
    /\ cur' = None
    /\ used' = None

PassOver ==
    /\ pc' = "next"
    /\ cur' = None
    /\ used' = None
    /\ UNCHANGED todo

StatsAnswered ==
    /\ pc = "stats"
    /\ pc' = "limit"
    /\ \E n \in Knows(cur) : used' = WorkingSet(sample[n])
    /\ UNCHANGED <<world, todo, cur, faults>>

LimitAnswered ==
    /\ pc = "limit"
    /\ \E limit \in LimitsOf(cur) :
        IF Exceeds(used, limit) THEN pc' = "delete" /\ UNCHANGED <<todo, cur, used>>
                                ELSE PassOver
    /\ UNCHANGED <<world, faults>>

\* Nobody at the address, a helper that hangs for five seconds or does not know
\* the container; a pod that is gone is not found by its name.
CallFails ==
    /\ \/ pc \in {"stats", "limit"} /\ Knows(cur) = {}
       \/ pc = "delete" /\ \A n \in Nodes : ~LooksAt(n)
    /\ PassOver
    /\ UNCHANGED <<world, faults>>

\* Any other call may get lost as well.
LoseCall ==
    /\ pc \in {"stats", "limit", "delete"}
    /\ faults < MaxFaults
    /\ faults' = faults + 1
    /\ PassOver
    /\ UNCHANGED world

\* Only the name says which pod is meant.
DeletePod(n) ==
    /\ pc = "delete"
    /\ LooksAt(n)
    /\ pod' = [pod EXCEPT ![n].del = TRUE]
    /\ PassOver
    /\ UNCHANGED <<sample, up, born, faults, hot>>

\* The process ends, or loses the lease and ends; the next one starts over.
Restart ==
    /\ faults < MaxFaults
    /\ faults' = faults + 1
    /\ pc' = "waiting"
    /\ todo' = {}
    /\ cur' = None
    /\ used' = None
    /\ hot' = {}
    /\ UNCHANGED <<pod, sample, up, born>>

-----------------------------------------------------------------------------
(***************************************************************************)
(* The cluster.                                                            *)
(***************************************************************************)

checker == <<pc, todo, cur, used, faults>>

\* The DaemonSet creates a pod under a new name.
CreatePod(n, addr, limit) ==
    /\ pod[n] = None
    /\ \A m \in Nodes : pod[m] # None => pod[m].addr # addr
    /\ born.pods < MaxPods
    /\ born' = [born EXCEPT !.pods = @ + 1]
    /\ pod' = [pod EXCEPT ![n] = [name |-> born'.pods, addr |-> addr, limit |-> limit,
                                  del |-> FALSE, cont |-> None]]
    /\ UNCHANGED <<sample, up, hot, checker>>

\* The pod runs and its exporter starts, for the first time or again, under a
\* new identifier.
StartExporter(n, s) ==
    /\ pod[n] # None
    /\ ~pod[n].del
    /\ born.conts < MaxConts
    /\ born' = [born EXCEPT !.conts = @ + 1]
    /\ pod' = [pod EXCEPT ![n].cont = born'.conts]
    /\ sample' = [sample EXCEPT ![n] = s]
    /\ UNCHANGED <<up, checker>>
    /\ hot' = IF pc = "waiting" THEN {} ELSE hot \cup OverNow'

UseMemory(n, s) ==
    /\ pod[n] # None
    /\ pod[n].cont # None
    /\ sample' = [sample EXCEPT ![n] = s]
    /\ UNCHANGED <<pod, up, born, checker>>
    /\ hot' = IF pc = "waiting" THEN {} ELSE hot \cup OverNow'

\* Somebody else deletes the pod: the DaemonSet controller, an administrator.
ForeignDelete(n) ==
    /\ pod[n] # None
    /\ ~pod[n].del
    /\ pod' = [pod EXCEPT ![n].del = TRUE]
    /\ UNCHANGED <<sample, up, born, hot, checker>>

PodGone(n) ==
    /\ pod[n] # None
    /\ pod[n].del
    /\ pod' = [pod EXCEPT ![n] = None]
    /\ sample' = [sample EXCEPT ![n] = None]
    /\ UNCHANGED <<up, born, hot, checker>>

HelperStops(n) ==
    /\ n \in up
    /\ up' = up \ {n}
    /\ UNCHANGED <<pod, sample, born, hot, checker>>

HelperStarts(n) ==
    /\ n \notin up
    /\ up' = up \cup {n}
    /\ UNCHANGED <<pod, sample, born, hot, checker>>

-----------------------------------------------------------------------------
Check ==
    \/ ListPods \/ NextPod \/ EndPass
    \/ StatsAnswered \/ LimitAnswered \/ CallFails
    \/ \E n \in Nodes : DeletePod(n)

Cluster ==
    \E n \in Nodes :
        \/ \E a \in Addrs, l \in Limits : CreatePod(n, a, l)
        \/ \E s \in Samples : StartExporter(n, s) \/ UseMemory(n, s)
        \/ ForeignDelete(n)
        \/ PodGone(n)
        \/ HelperStops(n)
        \/ HelperStarts(n)

Next == Check \/ LoseCall \/ Restart \/ Cluster

\* The checker goes on: a request ends after five seconds at the latest.
Spec == Init /\ [][Next]_vars /\ WF_vars(Check)

-----------------------------------------------------------------------------
(***************************************************************************)
(* Properties.                                                             *)
(***************************************************************************)

\* The state is well-formed: in particular checkPod measures nothing but pods
\* that had an exporter when they were listed, and decides only with a working
\* set in hand.
TypeOK ==
    /\ pod \in [Nodes -> PodType \cup {None}]
    /\ sample \in [Nodes -> Samples \cup {None}]
    /\ \A n \in Nodes : pod[n] # None /\ pod[n].cont # None => sample[n] # None
    /\ up \subseteq Nodes
    /\ born \in [pods : 0 .. MaxPods, conts : 0 .. MaxConts]
    /\ pc \in {"waiting", "next", "stats", "limit", "delete"}
    /\ todo \subseteq {p \in PodType : p.cont # None}
    /\ cur \in {p \in PodType : p.cont # None} \cup {None}
    /\ used \in Nat \cup {None}
    /\ faults \in 0 .. MaxFaults
    /\ hot \subseteq 1 .. MaxPods
    /\ pc \in {"stats", "limit", "delete"} => cur # None
    /\ pc \in {"limit", "delete"} => used # None

\* checkPod measures over HTTP, by address, and deletes later, by name: the
\* pod it deletes is one whose own exporter was over 70% of its own limit at
\* some moment since the pods were listed, whatever has happened to addresses,
\* containers and helpers meanwhile, and never one without a limit.
DeletesOnlyOverloaded ==
    [][\A n \in Nodes : DeletePod(n) => cur.name \in hot]_vars

\* Why: a container belongs to one pod for good, so that a helper that knows the
\* one in the list answers for the pod in the list.
Same(p, n) == pod[n].name = p.name /\ pod[n].limit = p.limit

Listed(p) ==
    /\ p.name \in 1 .. born.pods /\ p.cont \in 1 .. born.conts
    /\ \A n \in Nodes : pod[n] # None /\ pod[n].cont = p.cont => Same(p, n)

\* The inductive invariant behind DeletesOnlyOverloaded (checkPod).
MeasuredInv ==
    /\ TypeOK
    /\ \A n \in Nodes : pod[n] # None =>
        /\ pod[n].name \in 1 .. born.pods
        /\ pod[n].cont \in 1 .. born.conts \cup {None}
        /\ \A m \in Nodes \ {n} : pod[m] # None /\ pod[m].cont = pod[n].cont
                => pod[n].cont = None
    /\ \A p \in todo : Listed(p)
    /\ cur # None => Listed(cur)
    /\ pc # "waiting" => OverNow \subseteq hot
    /\ pc = "limit" /\ Exceeds(used, cur.limit) => cur.name \in hot
    /\ pc = "delete" => cur.name \in hot

\* An exporter that stays over the threshold is restarted (checkGpuPods),
\* although the helpers of other nodes may never answer again and calls to its
\* own may fail at times.
NoneStaysOverloaded ==
    \A n \in Nodes : ~<>[](Over(n) /\ ~pod[n].del /\ n \in up)
=============================================================================
