------------------------ MODULE GpuMemCheckProofs ------------------------
(***************************************************************************)
(* The GPU memory checker deletes no pod whose exporter was not over its   *)
(* limit: the proof, for any number of nodes, pods, containers and faults. *)
(***************************************************************************)
EXTENDS GpuMemCheck, TLAPS

\* The working set is what is really in use (getMemoryStats).
LEMMA WorkingSetType ==
    ASSUME NEW s \in Samples
    PROVE  /\ s.usage \in Nat /\ s.inactive \in Nat
           /\ WorkingSet(s) \in Nat
  BY SamplesAssumption, BoundsAssumption DEF WorkingSet

\* What exceeds a limit as a working set does so as a plain difference.
LEMMA WorkingSetExact ==
    ASSUME NEW s \in Samples, NEW l \in Nat, Exceeds(WorkingSet(s), l)
    PROVE  Exceeds(s.usage - s.inactive, l)
<1>1. s.usage \in Nat /\ s.inactive \in Nat
  BY WorkingSetType
<1>2. CASE s.usage > s.inactive
  BY <1>2 DEF WorkingSet, Exceeds
<1>3. CASE ~(s.usage > s.inactive)
  BY <1>3 DEF WorkingSet, Exceeds
<1> QED
  BY <1>2, <1>3

-----------------------------------------------------------------------------
(***************************************************************************)
(* Type correctness.                                                       *)
(***************************************************************************)

LEMMA TypeInit == Init => TypeOK
  BY BoundsAssumption DEF Init, TypeOK

\* A step of the checker keeps the types.
LEMMA TypeCheck ==
    ASSUME TypeOK, Check \/ LoseCall \/ Restart
    PROVE  TypeOK'
<1> USE DEF TypeOK, vars, world
<1>1. OverNow \subseteq 1 .. MaxPods
  BY DEF OverNow, Over, PodType
<1>2. ASSUME ListPods PROVE TypeOK'
  <2>1. todo' \subseteq {p \in PodType : p.cont # None}
    BY <1>2 DEF ListPods, Checked
  <2> QED
    BY <1>1, <1>2, <2>1 DEF ListPods
<1>3. ASSUME NextPod PROVE TypeOK'
  BY <1>3, NoneAssumption DEF NextPod
<1>4. ASSUME EndPass PROVE TypeOK'
  BY <1>4 DEF EndPass
<1>5. ASSUME StatsAnswered PROVE TypeOK'
  <2>1. PICK n \in Knows(cur) : used' = WorkingSet(sample[n])
    BY <1>5 DEF StatsAnswered
  <2>2. sample[n] \in Samples
    BY <1>5, <2>1 DEF StatsAnswered, Knows, At, PodType
  <2>3. used' \in Nat
    BY <2>1, <2>2, WorkingSetType
  <2>4. used' # None
    BY <2>3, NoneAssumption
  <2> QED
    BY <1>5, <2>3, <2>4 DEF StatsAnswered
<1>6. ASSUME LimitAnswered PROVE TypeOK'
  BY <1>6 DEF LimitAnswered, PassOver
<1>7. ASSUME CallFails PROVE TypeOK'
  BY <1>7 DEF CallFails, PassOver
<1>8. ASSUME NEW n \in Nodes, DeletePod(n) PROVE TypeOK'
  <2>1. pod[n] \in PodType
    BY <1>8 DEF DeletePod, LooksAt
  <2>2. [pod[n] EXCEPT !.del = TRUE] \in PodType
    BY <2>1 DEF PodType
  <2>3. pod' \in [Nodes -> PodType \cup {None}]
    BY <1>8, <2>2 DEF DeletePod
  <2>4. \A m \in Nodes : pod'[m] # None /\ pod'[m].cont # None
            => pod[m] # None /\ pod[m].cont # None
    <3> TAKE m \in Nodes
    <3>1. CASE m = n
      BY <1>8, <2>1, <3>1 DEF DeletePod, LooksAt, PodType
    <3>2. CASE m # n
      BY <1>8, <3>2 DEF DeletePod
    <3> QED
      BY <3>1, <3>2
  <2> QED
    BY <1>8, <2>3, <2>4 DEF DeletePod, PassOver
<1>9. ASSUME LoseCall PROVE TypeOK'
  BY <1>9, BoundsAssumption DEF LoseCall, PassOver
<1>10. ASSUME Restart PROVE TypeOK'
  BY <1>10, BoundsAssumption DEF Restart
<1> QED
  BY <1>2, <1>3, <1>4, <1>5, <1>6, <1>7, <1>8, <1>9, <1>10 DEF Check
\* A step of the cluster keeps the types.
LEMMA TypeCluster ==
    ASSUME TypeOK, Cluster
    PROVE  TypeOK'
<1> USE DEF TypeOK, checker
<1>1. PICK n \in Nodes :
        \/ \E a \in Addrs, l \in Limits : CreatePod(n, a, l)
        \/ \E s \in Samples : StartExporter(n, s) \/ UseMemory(n, s)
        \/ ForeignDelete(n) \/ PodGone(n) \/ HelperStops(n) \/ HelperStarts(n)
  BY DEF Cluster
<1>2. ASSUME NEW a \in Addrs, NEW l \in Limits, CreatePod(n, a, l) PROVE TypeOK'
  <2>1. born' \in [pods : 0 .. MaxPods, conts : 0 .. MaxConts] /\ born'.pods \in 1 .. MaxPods
    BY <1>2, BoundsAssumption DEF CreatePod
  <2>2. pod' \in [Nodes -> PodType \cup {None}]
    BY <1>2, <2>1 DEF CreatePod, PodType
  <2>3. \A m \in Nodes : pod'[m] # None /\ pod'[m].cont # None
            => pod[m] # None /\ pod[m].cont # None
    BY <1>2 DEF CreatePod
  <2> QED
    BY <1>2, <2>1, <2>2, <2>3 DEF CreatePod
<1>3. ASSUME NEW s \in Samples, StartExporter(n, s) PROVE TypeOK'
  <2>1. born' \in [pods : 0 .. MaxPods, conts : 0 .. MaxConts] /\ born'.conts \in 1 .. MaxConts
    BY <1>3, BoundsAssumption DEF StartExporter
  <2>2. pod' \in [Nodes -> PodType \cup {None}]
    BY <1>3, <2>1 DEF StartExporter, PodType
  <2>3. sample' \in [Nodes -> Samples \cup {None}]
    BY <1>3 DEF StartExporter
  <2>4. \A m \in Nodes : pod'[m] # None /\ pod'[m].cont # None => sample'[m] # None
    BY <1>3, NoneAssumption DEF StartExporter
  <2>5. hot' \subseteq 1 .. MaxPods
    BY <1>3, <2>2 DEF StartExporter, OverNow, Over, PodType
  <2> QED
    BY <1>3, <2>1, <2>2, <2>3, <2>4, <2>5 DEF StartExporter
<1>4. ASSUME NEW s \in Samples, UseMemory(n, s) PROVE TypeOK'
  <2>1. sample' \in [Nodes -> Samples \cup {None}]
    BY <1>4 DEF UseMemory
  <2>2. \A m \in Nodes : pod'[m] # None /\ pod'[m].cont # None => sample'[m] # None
    BY <1>4, NoneAssumption DEF UseMemory
  <2>3. pod' = pod /\ (hot' = {} \/ hot' = hot \cup OverNow')
    BY <1>4 DEF UseMemory
  <2>4. OverNow' \subseteq 1 .. MaxPods
    BY <2>3 DEF OverNow, Over, PodType
  <2> QED
    BY <1>4, <2>1, <2>2, <2>3, <2>4 DEF UseMemory
<1>5. ASSUME ForeignDelete(n) PROVE TypeOK'
  <2>1. pod' \in [Nodes -> PodType \cup {None}]
    BY <1>5 DEF ForeignDelete, PodType
  <2>2. \A m \in Nodes : pod'[m] # None /\ pod'[m].cont # None
            => pod[m] # None /\ pod[m].cont # None
    BY <1>5 DEF ForeignDelete, PodType
  <2> QED
    BY <1>5, <2>1, <2>2 DEF ForeignDelete
<1>6. ASSUME PodGone(n) PROVE TypeOK'
  BY <1>6 DEF PodGone
<1>7. ASSUME HelperStops(n) \/ HelperStarts(n) PROVE TypeOK'
  BY <1>7 DEF HelperStops, HelperStarts
<1> QED
  BY <1>1, <1>2, <1>3, <1>4, <1>5, <1>6, <1>7

LEMMA TypeNext == TypeOK /\ [Next]_vars => TypeOK'
<1>1. TypeOK /\ UNCHANGED vars => TypeOK'
  BY DEF TypeOK, vars
<1> QED
  BY <1>1, TypeCheck, TypeCluster DEF Next

\* The state is well-formed in every behaviour.
THEOREM CheckerTypes == Spec => []TypeOK
  BY TypeInit, TypeNext, PTL DEF Spec
-----------------------------------------------------------------------------
(***************************************************************************)
(* What the checker has in hand is true of the pod it was read from.       *)
(***************************************************************************)

\* What the checker does to the pods keeps their identity and their memory.
LEMMA CheckerKeepsPods ==
    ASSUME TypeOK, Check \/ LoseCall \/ Restart
    PROVE  /\ sample' = sample /\ born' = born
           /\ \A n \in Nodes :
                /\ pod'[n] = None <=> pod[n] = None
                /\ pod[n] # None => /\ pod'[n].name = pod[n].name
                                    /\ pod'[n].cont = pod[n].cont
                                    /\ pod'[n].limit = pod[n].limit
<1>1. CASE \E n \in Nodes : DeletePod(n)
  <2>1. PICK n \in Nodes : DeletePod(n)
    BY <1>1
  <2>2. pod[n] \in PodType /\ [pod[n] EXCEPT !.del = TRUE] # None
    BY <2>1, NoneAssumption DEF TypeOK, DeletePod, LooksAt, PodType
  <2>3. pod' = [pod EXCEPT ![n] = [pod[n] EXCEPT !.del = TRUE]]
    BY <2>1 DEF DeletePod
  <2>4. sample' = sample /\ born' = born
    BY <2>1 DEF DeletePod
  <2>5. pod[n] # None
    BY <2>1 DEF DeletePod, LooksAt
  <2> QED
    BY <2>2, <2>3, <2>4, <2>5 DEF TypeOK, PodType
<1>2. CASE ~\E n \in Nodes : DeletePod(n)
  <2>1. pod' = pod /\ sample' = sample /\ born' = born
    BY <1>2 DEF Check, ListPods, NextPod, EndPass, StatsAnswered, LimitAnswered,
                CallFails, LoseCall, Restart, world
  <2> QED
    BY <2>1
<1> QED
  BY <1>1, <1>2

\* The same pods are over the threshold, and the copies stay true.
LEMMA CheckerKeepsTruth ==
    ASSUME TypeOK, Check \/ LoseCall \/ Restart
    PROVE  /\ OverNow' = OverNow
           /\ \A p : Listed(p) => Listed(p)'
<1>1. \A n \in Nodes : Over(n)' <=> Over(n)
  BY CheckerKeepsPods DEF Over
<1>2. OverNow' = OverNow
  BY <1>1, CheckerKeepsPods DEF OverNow, Over
<1>3. \A p : Listed(p) => Listed(p)'
  BY CheckerKeepsPods DEF Listed, Same
<1> QED
  BY <1>2, <1>3

\* A step of the checker.
LEMMA MeasuredCheck ==
    ASSUME MeasuredInv, Check \/ LoseCall \/ Restart
    PROVE  MeasuredInv'
<1> DEFINE Ids == \A n \in Nodes : pod[n] # None =>
             /\ pod[n].name \in 1 .. born.pods
             /\ pod[n].cont \in 1 .. born.conts \cup {None}
             /\ \A m \in Nodes \ {n} : pod[m] # None /\ pod[m].cont = pod[n].cont
                    => pod[n].cont = None
           Copies == (\A p \in todo : Listed(p)) /\ (cur # None => Listed(cur))
           Hot == /\ pc # "waiting" => OverNow \subseteq hot
                  /\ pc = "limit" /\ Exceeds(used, cur.limit) => cur.name \in hot
                  /\ pc = "delete" => cur.name \in hot
<1>1. TypeOK /\ Ids /\ Copies /\ Hot
  BY DEF MeasuredInv
<1>2. TypeOK'
  BY <1>1, TypeCheck
<1>3. Ids'
  BY <1>1, CheckerKeepsPods
<1>4. ASSUME ListPods PROVE Copies' /\ Hot'
  <2>1. ASSUME NEW n \in Nodes, pod[n] # None, Checked(pod[n]) PROVE Listed(pod[n])
    BY <1>1, <2>1 DEF Checked, Listed, Same
  <2>2. \A p \in todo' : Listed(p)'
    BY <1>1, <1>4, <2>1, CheckerKeepsTruth DEF ListPods, Check
  <2>3. cur' # None => Listed(cur)'
    BY <1>1, <1>4, CheckerKeepsTruth DEF ListPods, Check, Listed, Same
  <2>4. Hot'
    BY <1>1, <1>4, CheckerKeepsTruth DEF ListPods, Check
  <2> QED
    BY <2>2, <2>3, <2>4
<1>5. ASSUME ~ListPods PROVE Copies'
  <2>1. todo' \subseteq todo /\ (cur' = None \/ cur' = cur \/ cur' \in todo)
    BY <1>5 DEF Check, NextPod, EndPass, StatsAnswered, LimitAnswered, CallFails,
                DeletePod, LoseCall, Restart, PassOver, world
  <2>2. \A p \in todo' : Listed(p)'
    BY <1>1, <2>1, CheckerKeepsTruth
  <2>3. cur' # None => Listed(cur)'
    BY <1>1, <2>1, CheckerKeepsTruth DEF Listed, Same
  <2> QED
    BY <2>2, <2>3
<1>6. ASSUME StatsAnswered PROVE Hot'
  <2>1. PICK n \in Knows(cur) : used' = WorkingSet(sample[n])
    BY <1>6 DEF StatsAnswered
  <2>2. n \in Nodes /\ pod[n] # None /\ pod[n].cont = cur.cont /\ cur # None /\ cur.cont # None
    BY <1>1, <1>6, <2>1 DEF Knows, At, StatsAnswered, TypeOK
  <2>3. Same(cur, n) /\ sample[n] \in Samples /\ cur.limit \in Nat
    BY <1>1, <2>2, LimitsAssumption DEF Listed, TypeOK, PodType
  <2>4. ASSUME Exceeds(used', cur.limit) PROVE cur.name \in hot
    <3>1. Exceeds(sample[n].usage - sample[n].inactive, pod[n].limit)
      BY <2>1, <2>3, <2>4, WorkingSetExact DEF Same
    <3>2. pod[n].name \in OverNow
      BY <2>2, <3>1 DEF OverNow, Over
    <3> QED
      BY <1>1, <1>6, <2>3, <3>2 DEF StatsAnswered, Same
  <2> QED
    BY <1>1, <1>6, <2>4, CheckerKeepsTruth DEF StatsAnswered, Check, world
<1>7. ASSUME LimitAnswered PROVE Hot'
  <2>1. PICK limit \in LimitsOf(cur) :
          \/ Exceeds(used, limit) /\ pc' = "delete" /\ cur' = cur
          \/ pc' = "next"
    BY <1>7 DEF LimitAnswered, PassOver
  <2>2. PICK n \in Knows(cur) : limit = pod[n].limit
    BY <2>1 DEF LimitsOf
  <2>3. limit = cur.limit
    BY <1>1, <1>7, <2>2 DEF Knows, At, LimitAnswered, TypeOK, Listed, Same
  <2>4. hot' = hot /\ OverNow' = OverNow /\ pc = "limit"
    BY <1>1, <1>7, CheckerKeepsTruth DEF LimitAnswered, Check, world
  <2> QED
    BY <1>1, <2>1, <2>3, <2>4
<1>8. ASSUME NextPod \/ CallFails \/ LoseCall \/ \E n \in Nodes : DeletePod(n) PROVE Hot'
  <2>1. /\ hot' = hot /\ OverNow' = OverNow
        /\ pc # "waiting" /\ pc' \in {"next", "stats"}
    BY <1>1, <1>8, CheckerKeepsTruth DEF NextPod, CallFails, LoseCall, DeletePod, Check,
                                         PassOver, world
  <2> QED
    BY <1>1, <2>1
<1>9. ASSUME EndPass \/ Restart PROVE Hot'
  BY <1>9 DEF EndPass, Restart
<1>10. Copies' /\ Hot'
  BY <1>4, <1>5, <1>6, <1>7, <1>8, <1>9 DEF Check
<1> QED
  BY <1>2, <1>3, <1>10 DEF MeasuredInv
\* A step of the cluster: identifiers are used once, and whoever crosses the
\* threshold is remembered.
LEMMA MeasuredCluster ==
    ASSUME MeasuredInv, Cluster
    PROVE  MeasuredInv'
<1> DEFINE Ids == \A n \in Nodes : pod[n] # None =>
             /\ pod[n].name \in 1 .. born.pods
             /\ pod[n].cont \in 1 .. born.conts \cup {None}
             /\ \A m \in Nodes \ {n} : pod[m] # None /\ pod[m].cont = pod[n].cont
                    => pod[n].cont = None
           Copies == (\A p \in todo : Listed(p)) /\ (cur # None => Listed(cur))
           Seen == pc # "waiting" => OverNow \subseteq hot
<1>1. TypeOK /\ Ids /\ Copies /\ Seen
  BY DEF MeasuredInv
<1>2. TypeOK'
  BY <1>1, TypeCluster
<1>3. /\ UNCHANGED <<pc, todo, cur, used, faults>>
      /\ pc # "waiting" => hot \subseteq hot'
  BY DEF Cluster, CreatePod, StartExporter, UseMemory, ForeignDelete, PodGone,
         HelperStops, HelperStarts, checker
<1>4. PICK n \in Nodes :
        \/ \E a \in Addrs, l \in Limits : CreatePod(n, a, l)
        \/ \E s \in Samples : StartExporter(n, s) \/ UseMemory(n, s)
        \/ ForeignDelete(n) \/ PodGone(n) \/ HelperStops(n) \/ HelperStarts(n)
  BY DEF Cluster
<1>5. ASSUME Ids', \A p : Listed(p) /\ p.cont # None => Listed(p)', Seen' PROVE MeasuredInv'
  <2>1. Copies'
    BY <1>1, <1>3, <1>5 DEF TypeOK, Listed, Same
  <2> QED
    BY <1>2, <1>3, <1>5, <2>1 DEF MeasuredInv
<1>6. ASSUME NEW a \in Addrs, NEW l \in Limits, CreatePod(n, a, l) PROVE MeasuredInv'
  <2>1. /\ born'.pods = born.pods + 1 /\ born'.conts = born.conts
        /\ born.pods \in Nat /\ born.conts \in Nat
    BY <1>1, <1>6 DEF CreatePod, TypeOK
  <2>2. /\ pod'[n].name = born'.pods /\ pod'[n].cont = None
        /\ \A m \in Nodes \ {n} : pod'[m] = pod[m]
    BY <1>1, <1>6 DEF CreatePod, TypeOK
  <2>3. Ids'
    BY <1>1, <2>1, <2>2
  <2>4. \A p : Listed(p) /\ p.cont # None => Listed(p)'
    BY <2>1, <2>2 DEF Listed, Same
  <2>5. OverNow' \subseteq OverNow
    BY <1>6, <2>2 DEF OverNow, Over, CreatePod
  <2>6. Seen'
    BY <1>1, <1>3, <2>5
  <2> QED
    BY <1>5, <2>3, <2>4, <2>6
<1>7. ASSUME NEW s \in Samples, StartExporter(n, s) PROVE MeasuredInv'
  <2>1. /\ born'.conts = born.conts + 1 /\ born'.pods = born.pods
        /\ born.pods \in Nat /\ born.conts \in Nat
    BY <1>1, <1>7 DEF StartExporter, TypeOK
  <2>2. pod[n] \in PodType
    BY <1>1, <1>7 DEF StartExporter, TypeOK
  <2>3. /\ pod'[n].name = pod[n].name /\ pod'[n].cont = born'.conts
        /\ \A m \in Nodes \ {n} : pod'[m] = pod[m]
    BY <1>1, <1>7, <2>2 DEF StartExporter, TypeOK, PodType
  <2>4. Ids'
    BY <1>1, <1>7, <2>1, <2>3, NoneAssumption DEF StartExporter
  <2>5. \A p : Listed(p) /\ p.cont # None => Listed(p)'
    BY <2>1, <2>3 DEF Listed, Same
  <2>6. Seen'
    BY <1>3, <1>7 DEF StartExporter
  <2> QED
    BY <1>5, <2>4, <2>5, <2>6
<1>8. ASSUME NEW s \in Samples, UseMemory(n, s) PROVE MeasuredInv'
  <2>1. pod' = pod /\ born' = born
    BY <1>8 DEF UseMemory
  <2>2. Seen'
    BY <1>3, <1>8 DEF UseMemory
  <2> QED
    BY <1>1, <1>5, <2>1, <2>2 DEF Listed, Same
<1>9. ASSUME ForeignDelete(n) \/ PodGone(n) PROVE MeasuredInv'
  <2>1. /\ born' = born
        /\ \A m \in Nodes : pod'[m] # None =>
             /\ pod[m] # None /\ sample'[m] = sample[m]
             /\ pod'[m].name = pod[m].name /\ pod'[m].cont = pod[m].cont
             /\ pod'[m].limit = pod[m].limit
    BY <1>1, <1>9 DEF ForeignDelete, PodGone, TypeOK, PodType
  <2>2. Ids'
    BY <1>1, <2>1
  <2>3. \A p : Listed(p) /\ p.cont # None => Listed(p)'
    BY <2>1 DEF Listed, Same
  <2>4. OverNow' \subseteq OverNow
    BY <2>1 DEF OverNow, Over
  <2>5. Seen'
    BY <1>1, <1>3, <2>4
  <2> QED
    BY <1>5, <2>2, <2>3, <2>5
<1>10. ASSUME HelperStops(n) \/ HelperStarts(n) PROVE MeasuredInv'
  <2>1. pod' = pod /\ born' = born /\ sample' = sample
    BY <1>10 DEF HelperStops, HelperStarts
  <2>2. OverNow' = OverNow
    BY <2>1 DEF OverNow, Over
  <2> QED
    BY <1>1, <1>3, <1>5, <2>1, <2>2 DEF Listed, Same
<1> QED
  BY <1>4, <1>6, <1>7, <1>8, <1>9, <1>10

LEMMA MeasuredInit == Init => MeasuredInv
  BY TypeInit DEF Init, MeasuredInv, TypeOK

LEMMA MeasuredNext == MeasuredInv /\ [Next]_vars => MeasuredInv'
<1>1. ASSUME MeasuredInv, UNCHANGED vars PROVE MeasuredInv'
  <2>1. TypeOK'
    BY <1>1, TypeNext DEF MeasuredInv
  <2>2. OverNow' = OverNow
    BY <1>1 DEF vars, OverNow, Over
  <2> QED
    BY <1>1, <2>1, <2>2 DEF vars, MeasuredInv, Listed, Same
<1> QED
  BY <1>1, MeasuredCheck, MeasuredCluster DEF Next

\* checkPod deletes, by name, only a pod whose own exporter was over 70% of its
\* own limit at some moment since the pods were listed.
THEOREM DeletesAreJustified == Spec => DeletesOnlyOverloaded
<1>1. MeasuredInv => [\A n \in Nodes : DeletePod(n) => cur.name \in hot]_vars
  BY DEF MeasuredInv, DeletePod
<1> QED
  BY <1>1, MeasuredInit, MeasuredNext, PTL DEF Spec, DeletesOnlyOverloaded
=============================================================================
