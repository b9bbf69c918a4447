------------------------ MODULE NodePlacementProofs ------------------------
(***************************************************************************)
(* Theorems about NodePlacement, for any keys, values, specs and sidecars: *)
(* first what negating and combining node selector terms does to the nodes *)
(* they match, then the placement and the containers after a clean pass.   *)
(***************************************************************************)
EXTENDS NodePlacement, TLAPS

\* Of the types: the four operators that can be negated are swapped in pairs.
LEMMA NegatedOpValues ==
    /\ NegatedOp["In"] = "NotIn" /\ NegatedOp["NotIn"] = "In"
    /\ NegatedOp["Exists"] = "DoesNotExist" /\ NegatedOp["DoesNotExist"] = "Exists"
BY DEF NegatedOp, Negatable

\* A negated requirement is satisfied by exactly the other nodes.
LEMMA NegatedRequirement ==
    ASSUME NEW n \in Nodes, NEW r \in Reqs, r.op \in Negatable
    PROVE  LET neg == [r EXCEPT !.op = NegatedOp[@]] IN
           /\ neg \in Reqs
           /\ Satisfies(n, neg) <=> ~Satisfies(n, r)
<1> DEFINE neg == [r EXCEPT !.op = NegatedOp[@]]
<1>1. neg.key = r.key /\ neg.vals = r.vals /\ neg.op = NegatedOp[r.op]
  BY DEF Reqs
<1>2. neg \in Reqs
  BY NegatedOpValues DEF Reqs, Ops, Negatable
<1>3. Satisfies(n, neg) <=> ~Satisfies(n, r)
  <2>1. CASE r.op = "In"
    BY <1>1, <2>1, NegatedOpValues DEF Satisfies
  <2>2. CASE r.op = "NotIn"
    BY <1>1, <2>2, NegatedOpValues DEF Satisfies
  <2>3. CASE r.op = "Exists"
    BY <1>1, <2>3, NegatedOpValues DEF Satisfies
  <2>4. CASE r.op = "DoesNotExist"
    BY <1>1, <2>4, NegatedOpValues DEF Satisfies
  <2> QED
    BY <2>1, <2>2, <2>3, <2>4 DEF Negatable
<1> QED
  BY <1>2, <1>3

\* A term of a single matchExpression matches where that one is satisfied.
LEMMA AlternativeMatches ==
    ASSUME NEW n, NEW r
    PROVE  MatchesTerm(n, Alternative(r)) <=> Satisfies(n, r)
BY DEF MatchesTerm, Alternative

\* The alternatives negateNodeSelectorTerm returns are terms of matchExpressions.
LEMMA NegationTerms ==
    ASSUME NEW t \in Terms, NEW u \in Negation(t)
    PROVE  u \in Terms /\ u.fields = {} /\ u.exprs # {}
<1>1. PICK r \in t.exprs : r.op \in Negatable
                           /\ u = Alternative([r EXCEPT !.op = NegatedOp[@]])
  BY DEF Negation
<1>2. r \in Reqs
  BY DEF Terms
<1>3. [r EXCEPT !.op = NegatedOp[@]] \in Reqs
  BY <1>1, <1>2, NegatedOpValues DEF Reqs, Ops, Negatable
<1> QED
  BY <1>1, <1>3 DEF Alternative, Terms

\* For a term of negatable matchExpressions, one of the alternatives of
\* negateNodeSelectorTerm matches exactly the nodes the term does not match.
THEOREM NegationComplement ==
    ASSUME NEW n \in Nodes, NEW t \in Terms, Negates(t)
    PROVE  (\E u \in Negation(t) : MatchesTerm(n, u)) <=> ~MatchesTerm(n, t)
<1> USE DEF Negates
<1>1. \A r \in t.exprs : r \in Reqs /\ r.op \in Negatable
  BY DEF Terms
<1>2. (\E u \in Negation(t) : MatchesTerm(n, u))
      <=> \E r \in t.exprs : Satisfies(n, [r EXCEPT !.op = NegatedOp[@]])
  BY <1>1, AlternativeMatches DEF Negation
<1>3. \A r \in t.exprs :
         Satisfies(n, [r EXCEPT !.op = NegatedOp[@]]) <=> ~Satisfies(n, r)
  BY <1>1, NegatedRequirement
<1>4. MatchesTerm(n, t) <=> \A r \in t.exprs : Satisfies(n, r)
  BY DEF MatchesTerm
<1> QED
  BY <1>2, <1>3, <1>4

\* The alternatives made from a node selector are terms of matchExpressions.
LEMMA NegatedSelectorTerms ==
    ASSUME NEW sel \in Selectors, NEW u \in NegatedSelector(sel)
    PROVE  u \in Terms /\ u.fields = {} /\ u.exprs # {}
<1>1. PICK k \in DOMAIN sel :
         u = Alternative([key |-> k, op |-> "NotIn", vals |-> {sel[k]}])
  BY DEF NegatedSelector
<1>2. k \in Keys /\ sel[k] \in Values
  BY DEF Selectors
<1>3. [key |-> k, op |-> "NotIn", vals |-> {sel[k]}] \in Reqs
  BY <1>2 DEF Reqs, Ops
<1> QED
  BY <1>1, <1>3 DEF Alternative, Terms

\* One of the alternatives made from gpuMonitoring.nodeSelector matches
\* exactly the nodes the node selector does not match.
THEOREM NegatedSelectorComplement ==
    ASSUME NEW n \in Nodes, NEW sel \in Selectors
    PROVE  (\E u \in NegatedSelector(sel) : MatchesTerm(n, u))
           <=> ~MatchesSelector(n, sel)
<1>1. \A k : Satisfies(n, [key |-> k, op |-> "NotIn", vals |-> {sel[k]}])
             <=> n[k] # sel[k]
  BY DEF Satisfies
<1>2. (\E u \in NegatedSelector(sel) : MatchesTerm(n, u))
      <=> \E k \in DOMAIN sel :
             Satisfies(n, [key |-> k, op |-> "NotIn", vals |-> {sel[k]}])
  BY AlternativeMatches DEF NegatedSelector
<1> QED
  BY <1>1, <1>2 DEF MatchesSelector

\* The terms of a required node affinity are terms, and make it up.
LEMMA TermsOfAffinity ==
    ASSUME NEW a \in Affinities
    PROVE  /\ TermsOf(a) \subseteq Terms
           /\ TermsOf(a) # {} => a = {TermsOf(a)}
<1>1. TermsOf(a) \subseteq Terms
  BY DEF Affinities, TermsOf
<1>2. CASE TermsOf(a) # {}
  <2>1. PICK terms \in a : terms # {}
    BY <1>2 DEF TermsOf
  <2>2. a = {terms}
    BY <2>1 DEF Affinities
  <2>3. TermsOf(a) = terms
    BY <2>2 DEF TermsOf
  <2> QED
    BY <1>1, <2>2, <2>3
<1> QED
  BY <1>1, <1>2

\* A combined term has the requirements of both.
LEMMA CombinedTerms ==
    ASSUME NEW t \in Terms, NEW u \in Terms
    PROVE  /\ Combined(t, u) \in Terms
           /\ Combined(t, u).exprs = t.exprs \cup u.exprs
           /\ Combined(t, u).fields = t.fields
BY DEF Combined, Terms

\* Combining lists of terms gives a list of terms.
LEMMA CombinationsType ==
    ASSUME NEW ts \in SUBSET Terms, NEW us \in SUBSET Terms
    PROVE  Combinations(ts, us) \in SUBSET Terms
<1>1. \A t \in ts, u \in us : Combined(t, u) \in Terms
  BY CombinedTerms
<1> QED
  BY <1>1 DEF Combinations

\* The affinity override keeps to required node affinities.
LEMMA RestrictType ==
    ASSUME NEW a \in Affinities, NEW to \in SUBSET Terms
    PROVE  Restrict(a, to) \in Affinities
<1>1. CASE to = {}
  BY <1>1 DEF Restrict
<1>2. CASE to # {} /\ TermsOf(a) = {}
  BY <1>2 DEF Restrict, Affinities
<1>3. CASE to # {} /\ TermsOf(a) # {}
  <2>1. Combinations(TermsOf(a), to) \in SUBSET Terms
    BY TermsOfAffinity, CombinationsType
  <2> QED
    BY <1>3, <2>1 DEF Restrict, Affinities
<1> QED
  BY <1>1, <1>2, <1>3

\* The affinity override never widens: every node the result matches is matched
\* by one of the new terms, if these are terms of matchExpressions.
THEOREM RestrictNarrows ==
    ASSUME NEW n \in Nodes, NEW a \in Affinities, NEW to \in SUBSET Terms,
           to # {}, \A u \in to : u.fields = {} /\ u.exprs # {},
           MatchesAffinity(n, Restrict(a, to))
    PROVE  \E u \in to : MatchesTerm(n, u)
<1>1. CASE TermsOf(a) = {}
  BY <1>1 DEF Restrict, MatchesAffinity
<1>2. CASE TermsOf(a) # {}
  <2>1. \E c \in Combinations(TermsOf(a), to) : MatchesTerm(n, c)
    BY <1>2 DEF Restrict, MatchesAffinity
  <2>2. PICK t \in TermsOf(a), u \in to : MatchesTerm(n, Combined(t, u))
    BY <2>1 DEF Combinations
  <2>3. Combined(t, u).exprs = t.exprs \cup u.exprs
    BY TermsOfAffinity, CombinedTerms
  <2> QED
    BY <2>2, <2>3 DEF MatchesTerm
<1> QED
  BY <1>1, <1>2

\* Nor does it narrow more than it should: a node the old affinity matches, and
\* one of the new terms, is matched by the result.
THEOREM RestrictKeeps ==
    ASSUME NEW n \in Nodes, NEW a \in Affinities, NEW to \in SUBSET Terms,
           \A u \in to : u.fields = {}, MatchesAffinity(n, a),
           \E u \in to : MatchesTerm(n, u)
    PROVE  MatchesAffinity(n, Restrict(a, to))
<1>1. PICK u \in to : MatchesTerm(n, u)
  OBVIOUS
<1>2. CASE TermsOf(a) = {}
  BY <1>1, <1>2 DEF Restrict, MatchesAffinity
<1>3. CASE TermsOf(a) # {}
  <2>1. PICK t \in TermsOf(a) : MatchesTerm(n, t)
    BY <1>3, TermsOfAffinity DEF MatchesAffinity
  <2>2. /\ Combined(t, u).exprs = t.exprs \cup u.exprs
        /\ Combined(t, u).fields = t.fields
    BY TermsOfAffinity, CombinedTerms
  <2>3. MatchesTerm(n, Combined(t, u))
    BY <1>1, <2>1, <2>2 DEF MatchesTerm
  <2>4. Combined(t, u) \in Combinations(TermsOf(a), to)
    BY DEF Combinations
  <2> QED
    BY <1>1, <1>3, <2>3, <2>4 DEF Restrict, MatchesAffinity
<1> QED
  BY <1>2, <1>3
-----------------------------------------------------------------------------
(***************************************************************************)
(* Types.                                                                  *)
(***************************************************************************)

\* The lists of terms a pass hands to the affinity override.
LEMMA TermLists ==
    ASSUME NEW s \in Specs
    PROVE  /\ s \in SpecType
           /\ GpuTerms(s) \in SUBSET Terms
           /\ NormalTerms(s) \in SUBSET Terms
           /\ \A u \in NormalTerms(s) : u.fields = {} /\ u.exprs # {}
<1>1. s \in SpecType
  BY SpecsAssumption
<1>2. s.gpuAff \in Affinities /\ s.gpuSel \in Selectors
  BY <1>1 DEF SpecType
<1>3. GpuTerms(s) \in SUBSET Terms
  BY <1>2, TermsOfAffinity DEF GpuTerms
<1>4. \A u \in NegatedSelector(s.gpuSel) : u \in Terms /\ u.fields = {} /\ u.exprs # {}
  BY <1>2, NegatedSelectorTerms
<1>5. \A u \in NegatedAffinity(s) : u \in Terms /\ u.fields = {} /\ u.exprs # {}
  BY <1>3, NegationTerms DEF NegatedAffinity
<1> QED
  BY <1>1, <1>3, <1>4, <1>5 DEF NormalTerms

\* The template has the type of a DaemonSet.
LEMMA TemplateType ==
    ASSUME NEW s \in Specs, NEW d \in DSNames, NEW terms \in SUBSET Terms,
           aff \in Affinities, security \in SecurityType \cup {Unset}
    PROVE  Template(s, d, terms) \in DSType
<1>1. s \in SpecType
  BY SpecsAssumption
<1>2. WantedRes(s) \in {"a", "b", "default"}
  BY <1>1 DEF WantedRes, SpecType
<1>3. DefaultSecurity \in SecurityType
  BY DEF DefaultSecurity, SecurityType
<1>4. WantedContainers(s, d) \in SUBSET (Base \cup Exporter \cup Sidecars)
  BY DEF WantedContainers, Exporter
<1>5. IncludesExporter(s, d) \in BOOLEAN
  BY <1>1 DEF IncludesExporter, SpecType
<1>6. s.gpuSel \in Selectors /\ s.nodeSel \in Selectors
  BY <1>1 DEF SpecType
<1>7. Restrict(aff, terms) \in Affinities
  BY RestrictType
<1> QED
  BY <1>2, <1>3, <1>4, <1>5, <1>6, <1>7 DEF Template, DSType

\* Filling unset fields yields a PodSecurityContext.
LEMMA FillSecurityType ==
    ASSUME NEW x \in SecurityType, NEW y \in SecurityType
    PROVE  FillSecurity(x, y) \in SecurityType
<1>1. FillSecurity(x, y) =
        [runAsUser    |-> IF x.runAsUser = Unset THEN y.runAsUser ELSE x.runAsUser,
         runAsNonRoot |-> IF x.runAsNonRoot = Unset THEN y.runAsNonRoot ELSE x.runAsNonRoot]
  BY DEF FillSecurity, SecurityType
<1> QED
  BY <1>1 DEF SecurityType

\* What the merge takes from the cluster and what it leaves alone.
LEMMA MergeKeeps ==
    ASSUME NEW s, NEW new \in DSType, NEW old \in DSType \cup {NoDS}
    PROVE  /\ Merge(s, new, old) \in DSType
           /\ Merge(s, new, old).sel = new.sel
           /\ Merge(s, new, old).aff = new.aff
           /\ Merge(s, new, old).containers \cap Exporter = new.containers \cap Exporter
           /\ old # NoDS => old.containers \cap Sidecars \subseteq Merge(s, new, old).containers
<1>1. CASE old = NoDS
  BY <1>1 DEF Merge
<1>2. CASE old # NoDS
  <2>1. old \in DSType
    BY <1>2
  <2>2. FillSecurity(new.security, old.security) \in SecurityType
    BY <2>1, FillSecurityType DEF DSType
  <2> DEFINE m == Merge(s, new, old)
  <2>3. m = [new EXCEPT
                !.gpuLabel   = @ \/ old.gpuLabel,
                !.res        = IF s.res # Unset THEN @ ELSE old.res,
                !.containers = @ \cup (old.containers \ (Base \cup Exporter)),
                !.security   = FillSecurity(@, old.security)]
    BY <1>2 DEF Merge
  <2>4. m = [sel |-> new.sel, aff |-> new.aff,
             containers |-> new.containers \cup (old.containers \ (Base \cup Exporter)),
             gpuLabel |-> new.gpuLabel \/ old.gpuLabel,
             res |-> IF s.res # Unset THEN new.res ELSE old.res,
             security |-> FillSecurity(new.security, old.security)]
    BY <2>3 DEF DSType
  <2>5. m \in DSType
    BY <2>1, <2>2, <2>4 DEF DSType
  <2>6. old.containers \cap Sidecars \subseteq m.containers
    BY <2>4, SidecarsAssumption
  <2> QED
    BY <2>4, <2>5, <2>6
<1> QED
  BY <1>1, <1>2

\* One call of reconcileNodeAgentDaemonSet: the DaemonSet it leaves.
LEMMA ReconcileDSEffect ==
    ASSUME TypeOK, NEW d \in DSNames, NEW terms \in SUBSET Terms,
           ReconcileDS(d, terms)
    PROVE  /\ ds' \in [DSNames -> DSType \cup {NoDS}]
           /\ ds'[d] \in DSType
           /\ \A e \in DSNames \ {d} : ds'[e] = ds[e]
           /\ ds'[d].sel = IF d = "gpu" /\ DOMAIN work.gpuSel # {}
                           THEN work.gpuSel ELSE work.nodeSel
           /\ ds'[d].aff = Restrict(aff, terms)
           /\ ds'[d].containers \cap Exporter = WantedContainers(work, d) \cap Exporter
           /\ ds[d] # NoDS => ds[d].containers \cap Sidecars \subseteq ds'[d].containers
           /\ aff' = IF work.hasAff THEN Restrict(aff, terms) ELSE aff
           /\ aff' \in Affinities
           /\ security' \in SecurityType \cup {Unset}
<1> DEFINE t == Template(work, d, terms)
           m == Merge(work, t, ds[d])
<1> USE DEF TypeOK
<1>1. t \in DSType
  BY TemplateType
<1>2. /\ t.sel = IF d = "gpu" /\ DOMAIN work.gpuSel # {}
                 THEN work.gpuSel ELSE work.nodeSel
      /\ t.aff = Restrict(aff, terms)
      /\ t.containers = WantedContainers(work, d)
  BY DEF Template
<1>3. ds[d] \in DSType \cup {NoDS}
  OBVIOUS
<1>4. /\ m \in DSType /\ m.sel = t.sel /\ m.aff = t.aff
      /\ m.containers \cap Exporter = t.containers \cap Exporter
      /\ ds[d] # NoDS => ds[d].containers \cap Sidecars \subseteq m.containers
  BY <1>1, <1>3, MergeKeeps
<1>5. /\ ds' = [ds EXCEPT ![d] = m]
      /\ aff' = IF work.hasAff THEN m.aff ELSE aff
      /\ security' = IF security = Unset THEN Unset ELSE m.security
  BY DEF ReconcileDS
<1>6. m.aff \in Affinities /\ m.security \in SecurityType
  BY <1>4 DEF DSType
<1> HIDE DEF t, m
<1>7. ds'[d] = m /\ \A e \in DSNames \ {d} : ds'[e] = ds[e]
  BY <1>5
<1>8. ds' \in [DSNames -> DSType \cup {NoDS}]
  BY <1>4, <1>5
<1> QED
  BY <1>2, <1>4, <1>5, <1>6, <1>7, <1>8

\* Every call of reconcileNodeAgentDaemonSet in a pass hands it a list of terms,
\* in an order of some of the keys.
LEMMA PassCalls ==
    ASSUME TypeOK, CallGpu \/ CallNormal
    PROVE  /\ \E d \in DSNames, terms \in SUBSET Terms : ReconcileDS(d, terms)
           /\ order' \subseteq Keys \X Keys
<1>1. /\ GpuTerms(work) \in SUBSET Terms /\ NormalTerms(work) \in SUBSET Terms
      /\ work.gpuSel \in Selectors
  BY TermLists DEF TypeOK, SpecType
<1>2. DOMAIN work.gpuSel \subseteq Keys
  BY <1>1 DEF Selectors
<1>3. order' \subseteq Keys \X Keys
  BY <1>2 DEF CallGpu, CallNormal, Orders, TypeOK
<1> QED
  BY <1>1, <1>3 DEF CallGpu, CallNormal, DSNames

\* What a container added by others leaves of a DaemonSet.
LEMMA SidecarAdded ==
    ASSUME NEW x \in DSType, NEW c \in Sidecars
    PROVE  LET new == [x EXCEPT !.containers = @ \cup {c}] IN
           /\ new \in DSType /\ new.sel = x.sel /\ new.aff = x.aff
           /\ new.containers = x.containers \cup {c}
           /\ new.containers \cap Exporter = x.containers \cap Exporter
<1> DEFINE new == [x EXCEPT !.containers = @ \cup {c}]
<1>1. /\ new \in DSType /\ new.sel = x.sel /\ new.aff = x.aff
      /\ new.containers = x.containers \cup {c}
  BY DEF DSType
<1> QED
  BY <1>1, SidecarsAssumption

\* Each step keeps the types, and the containers others have added to a
\* DaemonSet that stays.
LEMMA NextTypeOK ==
    ASSUME TypeOK, [Next]_vars
    PROVE  /\ TypeOK'
           /\ \A d \in DSNames :
                 ds[d] # NoDS /\ ds'[d] # NoDS
                 => ds[d].containers \cap Sidecars \subseteq ds'[d].containers
<1> USE DEF TypeOK
<1>1. CASE StartPass
  <2>1. spec \in SpecType
    BY SpecsAssumption
  <2> QED
    BY <1>1, <2>1 DEF StartPass, SpecType
<1>2. ASSUME NEW d \in DSNames, NEW terms \in SUBSET Terms, ReconcileDS(d, terms)
      PROVE  /\ ds' \in [DSNames -> DSType \cup {NoDS}]
             /\ aff' \in Affinities /\ security' \in SecurityType \cup {Unset}
             /\ \A e \in DSNames :
                   ds[e] # NoDS => ds[e].containers \cap Sidecars \subseteq ds'[e].containers
  BY <1>2, ReconcileDSEffect
<1>3. CASE ReconcileGpu
  BY <1>2, <1>3, PassCalls DEF ReconcileGpu
<1>4. CASE ReconcileNormal
  BY <1>2, <1>4, PassCalls DEF ReconcileNormal
<1>5. CASE FailPass
  BY <1>2, <1>5, PassCalls DEF FailPass
<1>6. CASE DropGpu
  BY <1>6 DEF DropGpu
<1>7. ASSUME NEW s \in Specs, Edit(s)
      PROVE  /\ TypeOK' /\ ds' = ds
  BY <1>7 DEF Edit
<1>8. ASSUME NEW d \in DSNames, ForeignDelete(d)
      PROVE  /\ TypeOK'
             /\ \A e \in DSNames : ds'[e] = ds[e] \/ ds'[e] = NoDS
  BY <1>8 DEF ForeignDelete
<1>9. ASSUME NEW d \in DSNames, NEW c \in Sidecars, AddSidecar(d, c)
      PROVE  /\ TypeOK'
             /\ \A e \in DSNames :
                   ds[e] # NoDS => ds[e].containers \subseteq ds'[e].containers
  <2>1. ds[d] \in DSType
    BY <1>9 DEF AddSidecar
  <2> DEFINE new == [ds[d] EXCEPT !.containers = @ \cup {c}]
  <2>2. new \in DSType /\ new.containers = ds[d].containers \cup {c}
    BY <2>1, SidecarAdded
  <2>3. ds' = [ds EXCEPT ![d] = new]
    BY <1>9 DEF AddSidecar
  <2> HIDE DEF new
  <2> QED
    BY <1>9, <2>2, <2>3 DEF AddSidecar
<1>10. CASE UNCHANGED vars
  BY <1>10 DEF vars
<1> QED
  BY <1>1, <1>3, <1>4, <1>5, <1>6, <1>7, <1>8, <1>9, <1>10 DEF Next

-----------------------------------------------------------------------------
(***************************************************************************)
(* The inductive invariant: what a clean pass has done so far.             *)
(***************************************************************************)

\* The DaemonSet x is the one the spec s asks for under the name d.
AsWanted(x, s, d, terms) ==
    /\ x # NoDS
    /\ x.sel = IF d = "gpu" /\ DOMAIN s.gpuSel # {} THEN s.gpuSel ELSE s.nodeSel
    /\ x.aff = Restrict(s.nodeAff, terms)
    /\ x.containers \cap Exporter = WantedContainers(s, d) \cap Exporter

GpuPlaced(x, s)    == IF Split(s) THEN AsWanted(x, s, "gpu", GpuTerms(s)) ELSE x = NoDS
NormalPlaced(x, s) == AsWanted(x, s, "normal", IF Split(s) THEN NormalTerms(s) ELSE {})

PlaceInv ==
    /\ TypeOK
    /\ pc # "idle" => aff = work.nodeAff
    /\ (pc = "gpu" => Split(work)) /\ (pc = "drop" => ~Split(work))
    /\ pc = "normal" /\ clean => GpuPlaced(ds["gpu"], work)
    /\ settled => GpuPlaced(ds["gpu"], spec) /\ NormalPlaced(ds["normal"], spec)
    /\ settled /\ pc # "idle" => work = spec

\* Initially there are no DaemonSets.
LEMMA InitPlaceInv == Init => PlaceInv
<1> SUFFICES ASSUME Init PROVE PlaceInv
  OBVIOUS
<1>1. work \in SpecType
  BY SpecsAssumption DEF Init
<1>2. aff \in Affinities /\ security \in SecurityType \cup {Unset}
  BY <1>1 DEF Init, SpecType
<1> QED
  BY <1>2 DEF Init, PlaceInv, TypeOK

\* reconcileNodeAgentDaemonSet for the GPU nodes leaves the DaemonSet wanted
\* there, and, for a separable spec, the shared affinity as it was.
LEMMA GpuStep ==
    ASSUME \A s \in Specs : Separable(s), PlaceInv, pc = "gpu",
           ReconcileDS("gpu", GpuTerms(work))
    PROVE  /\ GpuPlaced(ds'["gpu"], work)
           /\ ds'["normal"] = ds["normal"]
           /\ ds' \in [DSNames -> DSType \cup {NoDS}]
           /\ aff' = work.nodeAff /\ aff' \in Affinities
           /\ security' \in SecurityType \cup {Unset}
<1> USE DEF PlaceInv
<1>1. TypeOK /\ work \in Specs /\ Split(work) /\ aff = work.nodeAff
  BY DEF TypeOK
<1>2. GpuTerms(work) \in SUBSET Terms
  BY <1>1, TermLists
<1>3. /\ ds' \in [DSNames -> DSType \cup {NoDS}]
      /\ ds'["gpu"] \in DSType
      /\ ds'["normal"] = ds["normal"]
      /\ AsWanted(ds'["gpu"], work, "gpu", GpuTerms(work))
      /\ aff' = IF work.hasAff THEN Restrict(aff, GpuTerms(work)) ELSE aff
      /\ aff' \in Affinities
      /\ security' \in SecurityType \cup {Unset}
  BY <1>1, <1>2, ReconcileDSEffect, NoDSAssumption DEF AsWanted, DSNames
<1>4. work.hasAff => GpuTerms(work) = {}
  BY <1>1 DEF Separable, GpuTerms, TermsOf
<1> QED
  BY <1>1, <1>3, <1>4 DEF GpuPlaced, Restrict

\* The same for the other nodes.
LEMMA NormalStep ==
    ASSUME PlaceInv, pc = "normal",
           ReconcileDS("normal", IF Split(work) THEN NormalTerms(work) ELSE {})
    PROVE  /\ NormalPlaced(ds'["normal"], work)
           /\ ds'["gpu"] = ds["gpu"]
           /\ ds' \in [DSNames -> DSType \cup {NoDS}]
           /\ aff' \in Affinities
           /\ security' \in SecurityType \cup {Unset}
<1> USE DEF PlaceInv
<1> DEFINE terms == IF Split(work) THEN NormalTerms(work) ELSE {}
<1>1. TypeOK /\ work \in Specs /\ aff = work.nodeAff
  BY DEF TypeOK
<1>2. terms \in SUBSET Terms /\ ReconcileDS("normal", terms)
  BY <1>1, TermLists
<1>3. /\ ds' \in [DSNames -> DSType \cup {NoDS}]
      /\ ds'["normal"] \in DSType
      /\ ds'["gpu"] = ds["gpu"]
      /\ AsWanted(ds'["normal"], work, "normal", terms)
      /\ aff' \in Affinities
      /\ security' \in SecurityType \cup {Unset}
  <2> HIDE DEF terms
  <2> QED
    BY <1>1, <1>2, ReconcileDSEffect, NoDSAssumption DEF AsWanted, DSNames
<1> QED
  BY <1>3 DEF NormalPlaced

\* Each step preserves the invariant.
LEMMA NextPlaceInv ==
    ASSUME \A s \in Specs : Separable(s), PlaceInv, [Next]_vars
    PROVE  PlaceInv'
<1> USE DEF PlaceInv
<1>t. TypeOK /\ TypeOK'
  BY NextTypeOK
<1>1. CASE StartPass
  BY <1>t, <1>1 DEF StartPass
<1>2. CASE ReconcileGpu
  <2>1. /\ GpuPlaced(ds'["gpu"], work) /\ ds'["normal"] = ds["normal"]
        /\ aff' = work.nodeAff
    BY <1>2, GpuStep DEF ReconcileGpu, CallGpu
  <2> QED
    BY <1>t, <1>2, <2>1 DEF ReconcileGpu
<1>3. CASE DropGpu
  <2>1. ds'["normal"] = ds["normal"]
    BY <1>t, <1>3 DEF DropGpu, TypeOK, DSNames
  <2>2. ds'["gpu"] = NoDS \/ (~clean' /\ ds' = ds)
    BY <1>t, <1>3 DEF DropGpu, TypeOK, DSNames
  <2> QED
    BY <1>t, <1>3, <2>1, <2>2 DEF DropGpu, GpuPlaced
<1>4. CASE ReconcileNormal
  <2>1. NormalPlaced(ds'["normal"], work) /\ ds'["gpu"] = ds["gpu"]
    BY <1>4, NormalStep DEF ReconcileNormal, CallNormal
  <2> QED
    BY <1>t, <1>4, <2>1 DEF ReconcileNormal
<1>5. CASE FailPass
  <2>1. CASE UNCHANGED <<aff, security, ds>>
    BY <1>t, <1>5, <2>1 DEF FailPass
  <2>2. CASE pc = "gpu" /\ CallGpu
    <3>1. GpuPlaced(ds'["gpu"], work) /\ ds'["normal"] = ds["normal"]
      BY <2>2, GpuStep DEF CallGpu
    <3> QED
      BY <1>t, <1>5, <2>2, <3>1 DEF FailPass
  <2>3. CASE pc = "normal" /\ CallNormal
    <3>1. NormalPlaced(ds'["normal"], work) /\ ds'["gpu"] = ds["gpu"]
      BY <2>3, NormalStep DEF CallNormal
    <3> QED
      BY <1>t, <1>5, <2>3, <3>1 DEF FailPass
  <2> QED
    BY <1>5, <2>1, <2>2, <2>3 DEF FailPass
<1>6. ASSUME NEW s \in Specs, Edit(s)
      PROVE  PlaceInv'
  <2>1. settled' => settled /\ spec' = spec
    BY <1>6 DEF Edit
  <2>2. UNCHANGED <<work, aff, security, pc, clean, ds>>
    BY <1>6 DEF Edit
  <2> QED
    BY <1>t, <2>1, <2>2
<1>7. ASSUME NEW d \in DSNames, ForeignDelete(d)
      PROVE  PlaceInv'
  BY <1>t, <1>7 DEF ForeignDelete
<1>8. ASSUME NEW d \in DSNames, NEW c \in Sidecars, AddSidecar(d, c)
      PROVE  PlaceInv'
  <2>1. ds[d] # NoDS /\ ds[d] \in DSType
    BY <1>t, <1>8 DEF AddSidecar, TypeOK
  <2> DEFINE new == [ds[d] EXCEPT !.containers = @ \cup {c}]
  <2>2. /\ new \in DSType /\ new.sel = ds[d].sel /\ new.aff = ds[d].aff
        /\ new.containers \cap Exporter = ds[d].containers \cap Exporter
    BY <2>1, SidecarAdded
  <2>3. ds' = [ds EXCEPT ![d] = new]
    BY <1>8 DEF AddSidecar
  <2> HIDE DEF new
  <2>4. \A s, e, terms : AsWanted(ds[d], s, e, terms) => AsWanted(new, s, e, terms)
    BY <2>2, NoDSAssumption DEF AsWanted
  <2>5. \A e \in DSNames : ds'[e] = IF e = d THEN new ELSE ds[e]
    BY <1>t, <2>3 DEF TypeOK
  <2>6. \A s : /\ GpuPlaced(ds["gpu"], s) => GpuPlaced(ds'["gpu"], s)
               /\ NormalPlaced(ds["normal"], s) => NormalPlaced(ds'["normal"], s)
    BY <2>1, <2>4, <2>5 DEF GpuPlaced, NormalPlaced, DSNames
  <2> QED
    BY <1>t, <1>8, <2>6 DEF AddSidecar
<1>9. CASE UNCHANGED vars
  BY <1>t, <1>9 DEF vars
<1> QED
  BY <1>1, <1>2, <1>3, <1>4, <1>5, <1>6, <1>7, <1>8, <1>9 DEF Next

-----------------------------------------------------------------------------
(***************************************************************************)
(* Where the pods go.                                                      *)
(***************************************************************************)

\* For a spec that is split and separable, the terms of the normal DaemonSet
\* match exactly the nodes outside the GPU node selector and affinity.
LEMMA NormalTermsComplement ==
    ASSUME NEW s \in Specs, Split(s), Separable(s), NEW n \in Nodes
    PROVE  /\ NormalTerms(s) # {}
           /\ (\E u \in NormalTerms(s) : MatchesTerm(n, u))
              <=> ~(MatchesSelector(n, s.gpuSel) /\ MatchesAffinity(n, s.gpuAff))
<1>1. s.gpuSel \in Selectors /\ s.gpuAff \in Affinities
  BY SpecsAssumption DEF SpecType
<1>2. (\E u \in NegatedSelector(s.gpuSel) : MatchesTerm(n, u))
      <=> ~MatchesSelector(n, s.gpuSel)
  BY <1>1, NegatedSelectorComplement
<1>3. DOMAIN s.gpuSel # {} => NegatedSelector(s.gpuSel) # {}
  BY DEF NegatedSelector
<1>4. CASE s.gpuAff = {}
  <2>1. NegatedAffinity(s) = {}
    BY <1>4 DEF NegatedAffinity, GpuTerms, TermsOf
  <2> QED
    BY <1>2, <1>3, <1>4, <2>1 DEF NormalTerms, Split, MatchesAffinity
<1>5. CASE s.gpuAff # {}
  <2>1. PICK t \in GpuTerms(s) : s.gpuAff = {{t}} /\ Negates(t)
    BY <1>5 DEF Separable
  <2>2. t \in Terms /\ GpuTerms(s) = {t}
    BY <2>1, TermLists DEF GpuTerms, TermsOf
  <2>3. NegatedAffinity(s) = Negation(t)
    BY <2>2 DEF NegatedAffinity
  <2>4. (\E u \in Negation(t) : MatchesTerm(n, u)) <=> ~MatchesTerm(n, t)
    BY <2>1, <2>2, NegationComplement
  <2>5. MatchesAffinity(n, s.gpuAff) <=> MatchesTerm(n, t)
    BY <2>1 DEF MatchesAffinity
  <2>6. Negation(t) # {}
    BY <2>1 DEF Negation, Negates
  <2> QED
    BY <1>2, <2>3, <2>4, <2>5, <2>6 DEF NormalTerms
<1> QED
  BY <1>4, <1>5

\* With the DaemonSets of a clean pass for a split: on the GPU nodes the GPU
\* DaemonSet runs, if the node is eligible, and only there; likewise the other.
LEMMA SplitPlacement ==
    ASSUME \A s \in Specs : Separable(s), PlaceInv, settled, Split(spec),
           NEW n \in Nodes
    PROVE  /\ Runs(n, "gpu") => GpuNode(n)
           /\ Runs(n, "normal") => ~GpuNode(n)
           /\ Eligible(n) /\ GpuNode(n) => Runs(n, "gpu")
           /\ Eligible(n) /\ ~GpuNode(n) => Runs(n, "normal")
<1>1. /\ spec \in Specs /\ spec \in SpecType /\ Separable(spec)
      /\ ~spec.hasAff => spec.nodeAff = {}
  BY SpecsAssumption DEF PlaceInv, TypeOK
<1>2. spec.nodeAff \in Affinities
  BY <1>1 DEF SpecType
<1>3. AsWanted(ds["gpu"], spec, "gpu", GpuTerms(spec))
  BY DEF PlaceInv, GpuPlaced
<1>4. AsWanted(ds["normal"], spec, "normal", NormalTerms(spec))
  BY DEF PlaceInv, NormalPlaced
<1>5. DOMAIN spec.gpuSel = {} => MatchesSelector(n, spec.gpuSel)
  BY DEF MatchesSelector
<1>6. MatchesAffinity(n, Restrict(spec.nodeAff, GpuTerms(spec)))
      <=> MatchesAffinity(n, spec.nodeAff) /\ MatchesAffinity(n, spec.gpuAff)
  <2>1. CASE spec.gpuAff = {}
    BY <2>1 DEF GpuTerms, TermsOf, Restrict, MatchesAffinity
  <2>2. CASE spec.gpuAff # {}
    <3>1. PICK t \in GpuTerms(spec) : spec.gpuAff = {{t}}
      BY <1>1, <2>2 DEF Separable
    <3>2. GpuTerms(spec) = {t} /\ spec.nodeAff = {}
      BY <1>1, <2>2, <3>1 DEF Separable, GpuTerms, TermsOf
    <3>3. Restrict(spec.nodeAff, GpuTerms(spec)) = spec.gpuAff
      BY <3>1, <3>2 DEF Restrict, TermsOf
    <3> QED
      BY <3>2, <3>3 DEF MatchesAffinity
  <2> QED
    BY <2>1, <2>2
<1>7. /\ NormalTerms(spec) \in SUBSET Terms /\ NormalTerms(spec) # {}
      /\ \A u \in NormalTerms(spec) : u.fields = {} /\ u.exprs # {}
      /\ (\E u \in NormalTerms(spec) : MatchesTerm(n, u)) <=> ~GpuNode(n)
  BY <1>1, TermLists, NormalTermsComplement DEF GpuNode
<1>8. /\ MatchesAffinity(n, Restrict(spec.nodeAff, NormalTerms(spec))) => ~GpuNode(n)
      /\ MatchesAffinity(n, spec.nodeAff) /\ ~GpuNode(n)
         => MatchesAffinity(n, Restrict(spec.nodeAff, NormalTerms(spec)))
  BY <1>2, <1>7, RestrictNarrows, RestrictKeeps
<1>9. Runs(n, "gpu") => GpuNode(n)
  BY <1>3, <1>5, <1>6 DEF AsWanted, Runs, GpuNode
<1>10. Eligible(n) /\ GpuNode(n) => Runs(n, "gpu")
  BY <1>3, <1>6 DEF AsWanted, Runs, GpuNode, Eligible
<1>11. Runs(n, "normal") => ~GpuNode(n)
  BY <1>4, <1>8 DEF AsWanted, Runs
<1>12. Eligible(n) /\ ~GpuNode(n) => Runs(n, "normal")
  BY <1>4, <1>8 DEF AsWanted, Runs, Eligible
<1> QED
  BY <1>9, <1>10, <1>11, <1>12

\* Without a split the normal DaemonSet runs on every eligible node, and the
\* other does not exist.
LEMMA WholePlacement ==
    ASSUME PlaceInv, settled, ~Split(spec), NEW n \in Nodes
    PROVE  ~Runs(n, "gpu") /\ (Eligible(n) => Runs(n, "normal"))
<1>1. ds["gpu"] = NoDS
  BY DEF PlaceInv, GpuPlaced
<1>2. AsWanted(ds["normal"], spec, "normal", {})
  BY DEF PlaceInv, NormalPlaced
<1> QED
  BY <1>1, <1>2 DEF AsWanted, Runs, Eligible, Restrict

\* The invariant gives the properties of the placement.
LEMMA PlaceInvImplies ==
    ASSUME \A s \in Specs : Separable(s), PlaceInv
    PROVE  NoNodeTwice /\ NoNodeMissed /\ ExporterExact /\ ExporterOnGpuNodes
<1> SUFFICES ASSUME settled
             PROVE  NoNodeTwice /\ NoNodeMissed /\ ExporterExact /\ ExporterOnGpuNodes
  BY DEF NoNodeTwice, NoNodeMissed, ExporterExact, ExporterOnGpuNodes
<1>1. \A d \in DSNames : ds[d] # NoDS =>
         ds[d].containers \cap Exporter = WantedContainers(spec, d) \cap Exporter
  BY DEF PlaceInv, GpuPlaced, NormalPlaced, AsWanted, DSNames
<1>2. \A d \in DSNames :
         "dcgm-exporter" \in WantedContainers(spec, d) <=> IncludesExporter(spec, d)
  BY DEF WantedContainers, Base
<1>3. \A n : \A d \in DSNames :
         Runs(n, d) /\ "dcgm-exporter" \in ds[d].containers
         <=> Runs(n, d) /\ IncludesExporter(spec, d)
  BY <1>1, <1>2 DEF Runs, Exporter
<1>4. CASE Split(spec)
  <2>1. \A n \in Nodes :
           /\ Runs(n, "gpu") => GpuNode(n)
           /\ Runs(n, "normal") => ~GpuNode(n)
           /\ Eligible(n) /\ GpuNode(n) => Runs(n, "gpu")
           /\ Eligible(n) /\ ~GpuNode(n) => Runs(n, "normal")
    BY <1>4, SplitPlacement
  <2>2. \A d \in DSNames : IncludesExporter(spec, d) <=> d = "gpu"
    BY <1>4 DEF IncludesExporter
  <2>3. NoNodeTwice /\ NoNodeMissed
    BY <2>1 DEF NoNodeTwice, NoNodeMissed
  <2>4. ExporterOnGpuNodes
    BY <1>3, <1>4, <2>1, <2>2 DEF ExporterOnGpuNodes, DSNames, Split
  <2> QED
    BY <1>1, <2>3, <2>4 DEF ExporterExact
<1>5. CASE ~Split(spec)
  <2>1. \A n \in Nodes : ~Runs(n, "gpu") /\ (Eligible(n) => Runs(n, "normal"))
    BY <1>5, WholePlacement
  <2>2. \A d \in DSNames : IncludesExporter(spec, d) <=> spec.gpu
    BY <1>5 DEF IncludesExporter
  <2>3. spec.gpu => \A n : GpuNode(n)
    BY <1>5 DEF Split, GpuNode, MatchesSelector, MatchesAffinity
  <2>4. ExporterOnGpuNodes
    BY <1>3, <2>1, <2>2, <2>3 DEF ExporterOnGpuNodes, DSNames
  <2> QED
    BY <1>1, <2>1, <2>4 DEF ExporterExact, NoNodeTwice, NoNodeMissed
<1> QED
  BY <1>4, <1>5

-----------------------------------------------------------------------------
\* The types of the state, and of the DaemonSets the merge produces.
THEOREM PlacementTypes == Spec => []TypeOK
<1>1. Init => TypeOK
  BY InitPlaceInv DEF PlaceInv
<1>2. TypeOK /\ [Next]_vars => TypeOK'
  BY NextTypeOK
<1> QED
  BY <1>1, <1>2, PTL DEF Spec

\* reconcileNodeAgentDaemonSet never removes a container added by others.
THEOREM SidecarsSurvive == Spec => SidecarsKept
<1>1. TypeOK /\ [Next]_vars =>
      [\A d \in DSNames :
          ds[d] # NoDS /\ ds'[d] # NoDS
          => ds[d].containers \cap Sidecars \subseteq ds'[d].containers]_vars
  BY NextTypeOK
<1> QED
  BY <1>1, PlacementTypes, PTL DEF Spec, SidecarsKept

\* If every resource users may write is separable, then after a clean pass no
\* node runs two node agents, no eligible node runs none, and the exporter runs
\* on the GPU nodes and in the containers the resource asks for: for any label
\* keys and values, any specs and any sequence of edits and failures.
THEOREM SplitIsExact ==
    ASSUME \A s \in Specs : Separable(s)
    PROVE  Spec => [](NoNodeTwice /\ NoNodeMissed /\ ExporterExact /\ ExporterOnGpuNodes)
<1>1. Init => PlaceInv
  BY InitPlaceInv
<1>2. PlaceInv /\ [Next]_vars => PlaceInv'
  BY NextPlaceInv
<1>3. PlaceInv => NoNodeTwice /\ NoNodeMissed /\ ExporterExact /\ ExporterOnGpuNodes
  BY PlaceInvImplies
<1> QED
  BY <1>1, <1>2, <1>3, PTL DEF Spec

\* Under the same assumption, an eligible node is never left without a node
\* agent (createOrUpdateNodeAgent).
THEOREM NodesAreCovered ==
    ASSUME \A s \in Specs : Separable(s)
    PROVE  Spec => []NoNodeMissed
BY SplitIsExact, PTL

\* Under the same assumption, the exporter runs exactly on the GPU nodes.
THEOREM ExporterIsOnGpuNodes ==
    ASSUME \A s \in Specs : Separable(s)
    PROVE  Spec => []ExporterOnGpuNodes
BY SplitIsExact, PTL

\* Under the same assumption, the operator's own containers are those the
\* resource asks for, whatever was merged before (mergePodSpec).
THEOREM ExporterIsExact ==
    ASSUME \A s \in Specs : Separable(s)
    PROVE  Spec => []ExporterExact
BY SplitIsExact, PTL

-----------------------------------------------------------------------------
(***************************************************************************)
(* A pass over what a clean pass has left.                                 *)
(***************************************************************************)

\* The template as a function of the affinity and the security context that a
\* call finds behind the shared pointers.
TemplateOf(s, d, terms, a, c) ==
    [sel        |-> IF d = "gpu" /\ DOMAIN s.gpuSel # {} THEN s.gpuSel ELSE s.nodeSel,
     aff        |-> Restrict(a, terms),
     containers |-> WantedContainers(s, d),
     gpuLabel   |-> IncludesExporter(s, d),
     res        |-> WantedRes(s),
     security   |-> IF c = Unset THEN DefaultSecurity ELSE c]

NormalTermsOf(s) == IF Split(s) THEN NormalTerms(s) ELSE {}
OrdersOf(s)      == IF Split(s) THEN Orders(DOMAIN s.gpuSel) ELSE {{}}

\* One key, or none, has but one order.
LEMMA SingleOrder ==
    ASSUME NEW s, NEW o \in OrdersOf(s), NEW p \in OrdersOf(s),
           ~(Split(s) /\ \E j, k \in DOMAIN s.gpuSel : j # k)
    PROVE  o = p
<1>1. CASE ~Split(s)
  BY <1>1 DEF OrdersOf
<1>2. CASE Split(s)
  <2>1. \A j, k \in DOMAIN s.gpuSel : j = k
    BY <1>2
  <2>2. \A q \in Orders(DOMAIN s.gpuSel) : q = {}
    BY <2>1 DEF Orders
  <2> QED
    BY <1>2, <2>2 DEF OrdersOf
<1> QED
  BY <1>1, <1>2

\* What the call for the GPU nodes leaves behind the pointers.
NormalAffinity(s) ==
    IF Split(s) /\ s.hasAff THEN Restrict(s.nodeAff, GpuTerms(s)) ELSE s.nodeAff
NormalSecurity(s, g) ==
    IF Split(s) /\ s.security # Unset THEN g.security ELSE s.security

GpuTemplate(s)       == TemplateOf(s, "gpu", GpuTerms(s), s.nodeAff, s.security)
NormalTemplate(s, g) ==
    TemplateOf(s, "normal", NormalTermsOf(s), NormalAffinity(s), NormalSecurity(s, g))

\* Merging the template into x changes nothing.
Stays(x, s, t) == t \in DSType /\ x \in DSType /\ Merge(s, t, x) = x

GpuStays(g, s)       == IF Split(s) THEN Stays(g, s, GpuTemplate(s)) ELSE g = NoDS
NormalStays(n, g, s) == Stays(n, s, NormalTemplate(s, g))

StayInv ==
    /\ TypeOK
    /\ (pc = "gpu" => Split(work)) /\ (pc = "drop" => ~Split(work))
    /\ pc \in {"gpu", "drop"} => aff = work.nodeAff /\ security = work.security
    /\ pc = "normal" /\ (clean \/ settled)
         => /\ GpuStays(ds["gpu"], work)
            /\ aff = NormalAffinity(work) /\ security = NormalSecurity(work, ds["gpu"])
    /\ settled => /\ GpuStays(ds["gpu"], spec)
                  /\ NormalStays(ds["normal"], ds["gpu"], spec)
                  /\ pc # "idle" => work = spec
                  /\ order \in OrdersOf(spec)

\* What merging t into x makes, field by field.
MergedFields(m, s, t, x) ==
    /\ m.sel = t.sel /\ m.aff = t.aff
    /\ m.containers = t.containers \cup (x.containers \ (Base \cup Exporter))
    /\ m.gpuLabel \in BOOLEAN /\ (m.gpuLabel <=> t.gpuLabel \/ x.gpuLabel)
    /\ m.res = IF s.res # Unset THEN t.res ELSE x.res
    /\ m.security = FillSecurity(t.security, x.security)

LEMMA MergeFields ==
    ASSUME NEW s, NEW t \in DSType, NEW x \in DSType
    PROVE  MergedFields(Merge(s, t, x), s, t, x)
<1>1. x # NoDS
  BY NoDSAssumption
<1>2. PICK g \in BOOLEAN : g = (t.gpuLabel \/ x.gpuLabel)
  OBVIOUS
<1>3. PICK c : c = t.containers \cup (x.containers \ (Base \cup Exporter))
  OBVIOUS
<1>4. PICK r : r = IF s.res # Unset THEN t.res ELSE x.res
  OBVIOUS
<1>5. PICK f : f = FillSecurity(t.security, x.security)
  OBVIOUS
<1>6. Merge(s, t, x) = [t EXCEPT !.gpuLabel = g, !.res = r, !.containers = c, !.security = f]
  BY <1>1, <1>2, <1>3, <1>4, <1>5 DEF Merge
<1>7. PICK m : m = [t EXCEPT !.gpuLabel = g, !.res = r, !.containers = c, !.security = f]
  OBVIOUS
<1>8. /\ m.sel = t.sel /\ m.aff = t.aff /\ m.containers = c
      /\ m.gpuLabel = g /\ m.res = r /\ m.security = f
  BY <1>7 DEF DSType
<1>9. MergedFields(m, s, t, x)
  BY <1>2, <1>3, <1>4, <1>5, <1>8 DEF MergedFields
<1>10. QED
  BY <1>6, <1>7, <1>9

\* Two DaemonSets are the same if their fields are.
LEMMA SameFields ==
    ASSUME NEW x \in DSType, NEW y \in DSType, x.sel = y.sel, x.aff = y.aff,
           x.containers = y.containers, x.gpuLabel <=> y.gpuLabel,
           x.res = y.res, x.security = y.security
    PROVE  x = y
<1>1. x.gpuLabel = y.gpuLabel
  BY DEF DSType
<1>2. QED
  BY <1>1 DEF DSType

\* To merge once more changes nothing.
LEMMA FillTwice ==
    ASSUME NEW x \in SecurityType, NEW y \in SecurityType
    PROVE  /\ FillSecurity(x, FillSecurity(x, y)) = FillSecurity(x, y)
           /\ FillSecurity(x, x) = x
<1>1. \A u, v \in SecurityType : FillSecurity(u, v) =
        [runAsUser    |-> IF u.runAsUser = Unset THEN v.runAsUser ELSE u.runAsUser,
         runAsNonRoot |-> IF u.runAsNonRoot = Unset THEN v.runAsNonRoot ELSE u.runAsNonRoot]
  BY DEF FillSecurity, SecurityType
<1>2. FillSecurity(x, y) \in SecurityType
  BY FillSecurityType
<1>3. FillSecurity(x, x) = x
  BY <1>1 DEF SecurityType
<1>4. PICK z \in SecurityType : z = FillSecurity(x, y)
  BY <1>2
<1>5. FillSecurity(x, z) = z
  <2>1. /\ z.runAsUser = IF x.runAsUser = Unset THEN y.runAsUser ELSE x.runAsUser
        /\ z.runAsNonRoot = IF x.runAsNonRoot = Unset THEN y.runAsNonRoot ELSE x.runAsNonRoot
    BY <1>1, <1>4
  <2>2. FillSecurity(x, z) = [runAsUser |-> z.runAsUser, runAsNonRoot |-> z.runAsNonRoot]
    BY <1>1, <2>1
  <2>3. QED
    BY <2>2 DEF SecurityType
<1>6. QED
  BY <1>3, <1>4, <1>5

LEMMA MergeTwice ==
    ASSUME NEW s, NEW t \in DSType, NEW x \in DSType \cup {NoDS}
    PROVE  Stays(Merge(s, t, x), s, t)
<1>1. CASE x = NoDS
  <2>1. Merge(s, t, x) = t
    BY <1>1 DEF Merge
  <2>2. FillSecurity(t.security, t.security) = t.security
    BY FillTwice DEF DSType
  <2>3. MergedFields(Merge(s, t, t), s, t, t) /\ Merge(s, t, t) \in DSType
    BY MergeFields, MergeKeeps
  <2>4. Merge(s, t, t) = t
    <3>1. PICK m \in DSType : m = Merge(s, t, t)
      BY <2>3
    <3>2. MergedFields(m, s, t, t)
      BY <2>3, <3>1
    <3>3. /\ m.sel = t.sel /\ m.aff = t.aff /\ m.containers = t.containers
          /\ m.gpuLabel <=> t.gpuLabel
          /\ m.res = t.res /\ m.security = t.security
      BY <2>2, <3>2 DEF MergedFields
    <3>4. QED
      BY <3>1, <3>3, SameFields
  <2>5. QED
    BY <2>1, <2>4 DEF Stays
<1>2. CASE x \in DSType
  <2>1. PICK m : m = Merge(s, t, x)
    OBVIOUS
  <2>2. m \in DSType
    BY <2>1, MergeKeeps
  <2>3. MergedFields(m, s, t, x)
    BY <1>2, <2>1, MergeFields
  <2>4. PICK n \in DSType : n = Merge(s, t, m)
    BY <2>2, MergeKeeps
  <2>5. MergedFields(n, s, t, m)
    BY <2>2, <2>4, MergeFields
  <2>6. FillSecurity(t.security, m.security) = m.security
    BY <1>2, <2>3, FillTwice DEF DSType, MergedFields
  <2>7. /\ n.sel = m.sel /\ n.aff = m.aff /\ n.containers = m.containers
        /\ n.res = m.res /\ n.security = m.security
    BY <2>3, <2>5, <2>6 DEF MergedFields
  <2>8. n.gpuLabel <=> m.gpuLabel
    BY <2>3, <2>5 DEF MergedFields
  <2>9. n = m
    BY <2>2, <2>7, <2>8, SameFields
  <2>10. QED
    BY <2>1, <2>2, <2>4, <2>9 DEF Stays
<1>3. QED
  BY <1>1, <1>2

\* A container added by others is none of those the merge replaces.
LEMMA SidecarStays ==
    ASSUME NEW s, NEW t, NEW x, Stays(x, s, t), NEW c \in Sidecars
    PROVE  Stays([x EXCEPT !.containers = @ \cup {c}], s, t)
<1>1. t \in DSType /\ x \in DSType /\ Merge(s, t, x) = x
  BY DEF Stays
<1>2. PICK y : y = [x EXCEPT !.containers = @ \cup {c}]
  OBVIOUS
<1>3. y \in DSType
  BY <1>1, <1>2, SidecarAdded
<1>4. /\ y.sel = x.sel /\ y.aff = x.aff /\ y.containers = x.containers \cup {c}
      /\ y.gpuLabel = x.gpuLabel /\ y.res = x.res /\ y.security = x.security
  BY <1>1, <1>2 DEF DSType
<1>5. MergedFields(x, s, t, x)
  BY <1>1, MergeFields
<1>6. PICK n \in DSType : n = Merge(s, t, y)
  BY <1>1, <1>3, MergeKeeps
<1>7. MergedFields(n, s, t, y)
  BY <1>1, <1>3, <1>6, MergeFields
<1>8. n = y
  <2>1. n.containers = y.containers
    BY <1>4, <1>5, <1>7, SidecarsAssumption DEF MergedFields
  <2>2. n.sel = y.sel /\ n.aff = y.aff /\ n.res = y.res /\ n.security = y.security
    BY <1>4, <1>5, <1>7 DEF MergedFields
  <2>3. n.gpuLabel <=> y.gpuLabel
    BY <1>4, <1>5, <1>7 DEF MergedFields
  <2>4. QED
    BY <1>3, <2>1, <2>2, <2>3, SameFields
<1>9. QED
  BY <1>1, <1>2, <1>3, <1>6, <1>8 DEF Stays

\* One call of reconcileNodeAgentDaemonSet leaves what it would leave alone the
\* next time.
LEMMA ReconcileStays ==
    ASSUME TypeOK, NEW d \in DSNames, NEW terms \in SUBSET Terms, ReconcileDS(d, terms)
    PROVE  /\ Stays(ds'[d], work, TemplateOf(work, d, terms, aff, security))
           /\ \A e \in DSNames \ {d} : ds'[e] = ds[e]
           /\ aff' = IF work.hasAff THEN Restrict(aff, terms) ELSE aff
           /\ security' = IF security = Unset THEN Unset ELSE ds'[d].security
           /\ Stays(ds[d], work, TemplateOf(work, d, terms, aff, security)) => ds' = ds
<1>1. PICK t : t = Template(work, d, terms)
  OBVIOUS
<1>2. t = TemplateOf(work, d, terms, aff, security)
  BY <1>1 DEF Template, TemplateOf
<1>3. t \in DSType /\ ds[d] \in DSType \cup {NoDS} /\ ds \in [DSNames -> DSType \cup {NoDS}]
  BY <1>1, TemplateType DEF TypeOK
<1>4. PICK m : m = Merge(work, t, ds[d])
  OBVIOUS
<1>5. Stays(m, work, t)
  BY <1>3, <1>4, MergeTwice
<1>6. ds' = [ds EXCEPT ![d] = m] /\ security' = IF security = Unset THEN Unset ELSE m.security
  BY <1>1, <1>4 DEF ReconcileDS
<1>7. ds'[d] = m /\ \A e \in DSNames \ {d} : ds'[e] = ds[e]
  BY <1>3, <1>6
<1>8. aff' = IF work.hasAff THEN Restrict(aff, terms) ELSE aff
  BY ReconcileDSEffect
<1>9. ASSUME Stays(ds[d], work, t)
      PROVE  ds' = ds
  <2>1. m = ds[d]
    BY <1>4, <1>9 DEF Stays
  <2>2. QED
    BY <1>3, <1>6, <2>1
<1>10. QED
  BY <1>2, <1>5, <1>6, <1>7, <1>8, <1>9

\* The call for the GPU nodes, with what it leaves behind the pointers.
LEMMA GpuCallStays ==
    ASSUME StayInv, pc = "gpu", ReconcileDS("gpu", GpuTerms(work))
    PROVE  /\ GpuStays(ds'["gpu"], work)
           /\ aff' = NormalAffinity(work) /\ security' = NormalSecurity(work, ds'["gpu"])
           /\ settled => ds' = ds
<1>1. TypeOK /\ work \in Specs /\ Split(work) /\ aff = work.nodeAff /\ security = work.security
  BY DEF StayInv, TypeOK
<1>2. GpuTerms(work) \in SUBSET Terms /\ "gpu" \in DSNames
  BY <1>1, TermLists DEF DSNames
<1>3. PICK t : t = TemplateOf(work, "gpu", GpuTerms(work), aff, security)
  OBVIOUS
<1>4. t = GpuTemplate(work)
  BY <1>1, <1>3 DEF GpuTemplate
<1>5. /\ Stays(ds'["gpu"], work, t)
      /\ aff' = IF work.hasAff THEN Restrict(aff, GpuTerms(work)) ELSE aff
      /\ security' = IF security = Unset THEN Unset ELSE ds'["gpu"].security
      /\ Stays(ds["gpu"], work, t) => ds' = ds
  BY <1>1, <1>2, <1>3, ReconcileStays
<1>6. settled => Stays(ds["gpu"], work, t)
  BY <1>1, <1>4 DEF StayInv, GpuStays
<1>7. QED
  BY <1>1, <1>4, <1>5, <1>6 DEF GpuStays, NormalAffinity, NormalSecurity

\* The call for the other nodes.
LEMMA NormalCallStays ==
    ASSUME StayInv, pc = "normal", clean \/ settled,
           ReconcileDS("normal", NormalTermsOf(work))
    PROVE  /\ NormalStays(ds'["normal"], ds["gpu"], work)
           /\ ds'["gpu"] = ds["gpu"]
           /\ settled => ds' = ds
<1>1. /\ TypeOK /\ work \in Specs
      /\ aff = NormalAffinity(work) /\ security = NormalSecurity(work, ds["gpu"])
      /\ settled => work = spec /\ NormalStays(ds["normal"], ds["gpu"], spec)
  BY DEF StayInv, TypeOK
<1>2. NormalTermsOf(work) \in SUBSET Terms /\ "normal" \in DSNames /\ "gpu" \in DSNames \ {"normal"}
  BY <1>1, TermLists DEF NormalTermsOf, DSNames
<1>3. PICK t : t = TemplateOf(work, "normal", NormalTermsOf(work), aff, security)
  OBVIOUS
<1>4. t = NormalTemplate(work, ds["gpu"])
  BY <1>1, <1>3 DEF NormalTemplate
<1>5. /\ Stays(ds'["normal"], work, t) /\ ds'["gpu"] = ds["gpu"]
      /\ Stays(ds["normal"], work, t) => ds' = ds
  BY <1>1, <1>2, <1>3, ReconcileStays
<1>6. settled => Stays(ds["normal"], work, t)
  BY <1>1, <1>4 DEF NormalStays
<1>7. QED
  BY <1>4, <1>5, <1>6 DEF NormalStays

\* What a step of a pass does to the DaemonSets of the current resource.
LEMMA PassStays ==
    ASSUME StayInv, [Next]_vars, pc # "idle", pc' # pc, settled
    PROVE  /\ ds' = ds
           /\ order' \in OrdersOf(work)
           /\ order' = order \/ (Split(work) /\ \E j, k \in DOMAIN work.gpuSel : j # k)
<1>0. work = spec /\ order \in OrdersOf(work)
  BY DEF StayInv
<1>1. ~StartPass /\ ~UNCHANGED vars
  BY DEF StartPass, vars
<1>2. \A s, d, c : ~Edit(s) /\ ~ForeignDelete(d) /\ ~AddSidecar(d, c)
  BY DEF Edit, ForeignDelete, AddSidecar
<1>3. CASE ReconcileGpu
  BY <1>0, <1>3, GpuCallStays DEF ReconcileGpu, CallGpu
<1>4. CASE DropGpu
  <2>1. ds \in [DSNames -> DSType \cup {NoDS}] /\ ~Split(work) /\ work = spec
    BY <1>4 DEF StayInv, TypeOK, DropGpu
  <2>2. ds["gpu"] = NoDS
    BY <2>1 DEF StayInv, GpuStays
  <2>3. ds' = [ds EXCEPT !["gpu"] = NoDS] \/ ds' = ds
    BY <1>4 DEF DropGpu
  <2>4. ds' = ds
    BY <2>1, <2>2, <2>3
  <2>5. QED
    BY <1>0, <1>4, <2>4 DEF DropGpu
<1>5. ASSUME pc = "normal", CallNormal
      PROVE  ds' = ds /\ order' \in OrdersOf(work)
  <2>1. ReconcileDS("normal", NormalTermsOf(work)) /\ order' \in OrdersOf(work)
    BY <1>5 DEF CallNormal, NormalTermsOf, OrdersOf
  <2>2. QED
    BY <1>5, <2>1, NormalCallStays
<1>6. CASE FailPass
  <2>1. CASE pc = "gpu" /\ CallGpu
    BY <1>0, <2>1, GpuCallStays DEF CallGpu
  <2>2. CASE UNCHANGED <<ds, order>>
    BY <1>0, <2>2
  <2>3. QED
    BY <1>0, <1>5, <1>6, <2>1, <2>2, SingleOrder DEF FailPass
<1>7. CASE ReconcileNormal
  BY <1>0, <1>5, <1>7, SingleOrder DEF ReconcileNormal
<1>8. QED
  BY <1>1, <1>2, <1>3, <1>4, <1>6, <1>7 DEF Next

LEMMA InitStayInv == Init => StayInv
BY InitPlaceInv DEF PlaceInv, StayInv, Init

LEMMA NextStayInv ==
    ASSUME StayInv, [Next]_vars
    PROVE  StayInv'
<1>t. TypeOK /\ TypeOK'
  BY NextTypeOK DEF StayInv
<1>0. ds \in [DSNames -> DSType \cup {NoDS}]
  BY <1>t DEF TypeOK
<1>1. CASE StartPass
  <2>1. /\ work' = spec /\ aff' = spec.nodeAff /\ security' = spec.security
        /\ pc' = IF Split(spec) THEN "gpu" ELSE "drop"
        /\ UNCHANGED <<spec, settled, ds, order>>
    BY <1>1 DEF StartPass
  <2>2. QED
    BY <1>t, <2>1 DEF StayInv
<1>2. CASE ReconcileGpu
  <2>1. /\ pc = "gpu" /\ pc' = "normal" /\ UNCHANGED <<spec, work, clean, settled, order>>
        /\ ReconcileDS("gpu", GpuTerms(work))
    BY <1>2 DEF ReconcileGpu, CallGpu
  <2>2. /\ GpuStays(ds'["gpu"], work)
        /\ aff' = NormalAffinity(work) /\ security' = NormalSecurity(work, ds'["gpu"])
        /\ settled => ds' = ds
    BY <2>1, GpuCallStays
  <2>3. settled' => /\ GpuStays(ds'["gpu"], spec') /\ NormalStays(ds'["normal"], ds'["gpu"], spec')
                    /\ work' = spec' /\ order' \in OrdersOf(spec')
    BY <2>1, <2>2 DEF StayInv
  <2>4. QED
    BY <1>t, <2>1, <2>2, <2>3 DEF StayInv
<1>3. CASE DropGpu
  <2>1. /\ pc = "drop" /\ pc' = "normal"
        /\ UNCHANGED <<spec, work, aff, security, settled, order>>
        /\ ~Split(work) /\ aff = work.nodeAff /\ security = work.security
    BY <1>3 DEF DropGpu, StayInv
  <2>2. aff' = NormalAffinity(work) /\ \A g : security' = NormalSecurity(work, g)
    BY <2>1 DEF NormalAffinity, NormalSecurity
  <2>3. settled => ds' = ds
    BY <1>3, <2>1, PassStays DEF Next
  <2>4. ds'["gpu"] = NoDS \/ (~clean' /\ ds' = ds)
    BY <1>0, <1>3 DEF DropGpu, DSNames
  <2>5. settled => work = spec /\ GpuStays(ds["gpu"], spec)
    BY <2>1 DEF StayInv
  <2>6. clean' \/ settled' => GpuStays(ds'["gpu"], work)
    BY <2>1, <2>3, <2>4, <2>5 DEF GpuStays
  <2>7. settled' => /\ GpuStays(ds'["gpu"], spec') /\ NormalStays(ds'["normal"], ds'["gpu"], spec')
                    /\ work' = spec' /\ order' \in OrdersOf(spec')
    BY <2>1, <2>3 DEF StayInv
  <2>8. QED
    BY <1>t, <2>1, <2>2, <2>6, <2>7 DEF StayInv
<1>4. CASE ReconcileNormal
  <2>1. /\ pc = "normal" /\ pc' = "idle" /\ UNCHANGED <<spec, work, clean>>
        /\ ReconcileDS("normal", NormalTermsOf(work))
        /\ settled' = (clean /\ work = spec) /\ order' \in OrdersOf(work)
    BY <1>4 DEF ReconcileNormal, CallNormal, NormalTermsOf, OrdersOf
  <2>2. clean => GpuStays(ds["gpu"], work)
    BY <2>1 DEF StayInv
  <2>3. clean => NormalStays(ds'["normal"], ds["gpu"], work) /\ ds'["gpu"] = ds["gpu"]
    BY <2>1, NormalCallStays
  <2>4. settled' => /\ GpuStays(ds'["gpu"], spec') /\ NormalStays(ds'["normal"], ds'["gpu"], spec')
                    /\ order' \in OrdersOf(spec')
    BY <2>1, <2>2, <2>3
  <2>5. QED
    BY <1>t, <2>1, <2>4 DEF StayInv
<1>5. CASE FailPass
  <2>1. pc # "idle" /\ pc' = "idle" /\ UNCHANGED <<spec, work, clean, settled>>
    BY <1>5 DEF FailPass
  <2>2. settled => ds' = ds /\ order' \in OrdersOf(spec')
    BY <1>5, <2>1, PassStays DEF Next, StayInv
  <2>3. QED
    BY <1>t, <2>1, <2>2 DEF StayInv
<1>6. ASSUME NEW s \in Specs, Edit(s)
      PROVE  StayInv'
  <2>1. settled' => settled /\ spec' = spec
    BY <1>6 DEF Edit
  <2>2. UNCHANGED <<work, aff, security, pc, clean, ds, order>>
    BY <1>6 DEF Edit
  <2>3. QED
    BY <1>t, <2>1, <2>2 DEF StayInv
<1>7. ASSUME NEW d \in DSNames, ForeignDelete(d)
      PROVE  StayInv'
  BY <1>t, <1>7 DEF ForeignDelete, StayInv
<1>8. ASSUME NEW d \in DSNames, NEW c \in Sidecars, AddSidecar(d, c)
      PROVE  StayInv'
  <2>1. ds[d] # NoDS /\ ds[d] \in DSType
    BY <1>0, <1>8 DEF AddSidecar
  <2>2. PICK y : y = [ds[d] EXCEPT !.containers = @ \cup {c}]
    OBVIOUS
  <2>3. ds' = [ds EXCEPT ![d] = y]
    BY <1>8, <2>2 DEF AddSidecar
  <2>4. \A e \in DSNames : ds'[e] = IF e = d THEN y ELSE ds[e]
    BY <1>0, <2>3
  <2>5. \A s, t : Stays(ds[d], s, t) => Stays(y, s, t)
    BY <1>8, <2>2, SidecarStays
  <2>6. y.security = ds[d].security /\ y \in DSType
    BY <1>8, <2>1, <2>2, SidecarAdded DEF DSType
  <2>7. ds'["gpu"].security = ds["gpu"].security
    BY <2>4, <2>6 DEF DSNames
  <2>8. \A s : GpuStays(ds["gpu"], s) => GpuStays(ds'["gpu"], s)
    BY <2>1, <2>4, <2>5 DEF GpuStays, DSNames
  <2>9. \A s : NormalSecurity(s, ds'["gpu"]) = NormalSecurity(s, ds["gpu"])
    BY <2>7 DEF NormalSecurity
  <2>10. \A s : NormalStays(ds["normal"], ds["gpu"], s) => NormalStays(ds'["normal"], ds'["gpu"], s)
    BY <2>4, <2>5, <2>9 DEF NormalStays, NormalTemplate, DSNames
  <2>11. UNCHANGED <<spec, work, aff, security, pc, clean, settled, order>>
    BY <1>8 DEF AddSidecar
  <2>12. QED
    BY <1>t, <2>8, <2>9, <2>10, <2>11 DEF StayInv
<1>9. CASE UNCHANGED vars
  BY <1>t, <1>9 DEF vars, StayInv
<1>10. QED
  BY <1>1, <1>2, <1>3, <1>4, <1>5, <1>6, <1>7, <1>8, <1>9 DEF Next

\* A pass that finds its work done writes the templates that are there, for any
\* resources, separable or not, and any sidecars (mergePodSpec and the affinity
\* and security context that reconcileNodeAgentDaemonSet changes in place). Only
\* the order of the terms negated from a node selector of several keys may differ.
THEOREM RepeatedPassesKeepTemplates == Spec => RepeatKeepsTemplates
<1>1. StayInv /\ [Next]_vars => StayInv'
  BY NextStayInv
<1>2. StayInv /\ [Next]_vars
      => [pc # "idle" /\ pc' # pc /\ settled =>
             /\ ds' = ds
             /\ order' = order \/ (Split(work) /\ \E j, k \in DOMAIN work.gpuSel : j # k)]_vars
  BY PassStays
<1>3. QED
  BY <1>1, <1>2, InitStayInv, PTL DEF Spec, RepeatKeepsTemplates
=============================================================================
