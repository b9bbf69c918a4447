--------------------------- MODULE NodeSelectors ---------------------------
(***************************************************************************)
(* Node selectors and node selector terms as Kubernetes reads them, and    *)
(* how install_agents.go combines and negates them to split the nodes      *)
(* between the two node agent DaemonSets. The order of alternative terms   *)
(* is irrelevant to what they match, and kept apart from them.             *)
(***************************************************************************)
CONSTANTS
    Keys,      \* label keys, metadata.name (what matchFields select) included
    Values,    \* label values
    NoLabel    \* a node does not have the label

ASSUME NoLabelAssumption == NoLabel \notin Values

Nodes == [Keys -> Values \cup {NoLabel}]

\* "Compare" stands for Gt and Lt, with the values that pass the comparison.
Ops  == {"In", "NotIn", "Exists", "DoesNotExist", "Compare"}
Reqs == [key : Keys, op : Ops, vals : SUBSET Values]

\* A term has matchExpressions and matchFields; the order of either is
\* irrelevant to what it matches.
Terms == [exprs : SUBSET Reqs, fields : SUBSET Reqs]

\* A required node affinity lists alternative terms; it may be missing, which
\* the empty set stands for.
Affinities == {a \in SUBSET SUBSET Terms : \A x, y \in a : x = y}

\* A nodeSelector binds some of the keys.
Selectors == UNION {[K -> Values] : K \in SUBSET Keys}

Satisfies(n, r) ==
    CASE r.op \in {"In", "Compare"} -> n[r.key] \in r.vals
      [] r.op = "NotIn"             -> n[r.key] \notin r.vals
      [] r.op = "Exists"            -> n[r.key] # NoLabel
      [] r.op = "DoesNotExist"      -> n[r.key] = NoLabel

\* Every requirement of a term holds; a term without any matches no node.
MatchesTerm(n, t) ==
    /\ t.exprs \cup t.fields # {}
    /\ \A r \in t.exprs \cup t.fields : Satisfies(n, r)

MatchesAffinity(n, aff) == \A terms \in aff : \E t \in terms : MatchesTerm(n, t)

MatchesSelector(n, sel) == \A k \in DOMAIN sel : n[k] = sel[k]

-----------------------------------------------------------------------------
Negatable == {"In", "NotIn", "Exists", "DoesNotExist"}

NegatedOp == [op \in Negatable |->
    CASE op = "In"     -> "NotIn"  [] op = "NotIn"        -> "In"
      [] op = "Exists" -> "DoesNotExist" [] op = "DoesNotExist" -> "Exists"]

Alternative(r) == [exprs |-> {r}, fields |-> {}]

\* negateNodeSelectorTerm: one alternative for each matchExpression; Gt, Lt
\* and matchFields are skipped.
Negation(t) ==
    {Alternative([r EXCEPT !.op = NegatedOp[@]]) :
        r \in {r \in t.exprs : r.op \in Negatable}}

\* Faulty variant: the negated keys make up a single term.
NegatedSelectorOneTerm(sel) ==
    {[exprs |-> {[key |-> k, op |-> "NotIn", vals |-> {sel[k]}] : k \in DOMAIN sel},
      fields |-> {}]}

\* A node selector is negated by one NotIn for each of its keys. It is a Go map:
\* each time it is negated, its keys come in any order (see Orders).
NegatedSelector(sel) ==
    {Alternative([key |-> k, op |-> "NotIn", vals |-> {sel[k]}]) : k \in DOMAIN sel}

\* The orders of the keys, as sets of pairs of an earlier and a later one.
Orders(K) ==
    {o \in SUBSET (K \X K) :
        /\ \A k \in K : <<k, k>> \notin o
        /\ \A j, k \in K : j # k => (<<j, k>> \in o <=> <<k, j>> \notin o)
        /\ \A i, j, k \in K : <<i, j>> \in o /\ <<j, k>> \in o => <<i, k>> \in o}

\* The terms a required node affinity lists, if any.
TermsOf(aff) == UNION aff

\* The affinity override appends the matchExpressions of a term to one of the
\* existing terms; its matchFields are dropped.
Combined(t, u) == [t EXCEPT !.exprs = @ \cup u.exprs]
Combinations(ts, us) == {Combined(t, u) : t \in ts, u \in us}

\* No terms override nothing; otherwise they replace an empty list, and are
\* combined with each of the existing ones.
Restrict(aff, to) ==
    IF to = {} THEN aff
    ELSE IF TermsOf(aff) = {} THEN {to}
    ELSE {Combinations(TermsOf(aff), to)}
=============================================================================
