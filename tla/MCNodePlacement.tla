-------------------------- MODULE MCNodePlacement --------------------------
(***************************************************************************)
(* Small instances of NodePlacement for TLC: two label keys, two values.   *)
(***************************************************************************)
EXTENDS NodePlacement

TwoKeys   == {"pool", "zone"}
TwoValues == {"gpu", "a"}

Req(k, op, vs) == [key |-> k, op |-> op, vals |-> vs]
Term(rs)       == [exprs |-> rs, fields |-> {}]
NoSel          == [k \in {} |-> "a"]
OneSel(k, v)   == [x \in {k} |-> v]

Off == [gpu |-> FALSE, hostEngine |-> FALSE, gpuSel |-> NoSel, gpuAff |-> {},
        nodeSel |-> NoSel, hasAff |-> FALSE, nodeAff |-> {},
        res |-> Unset, containerRes |-> Unset, security |-> Unset]

Sidecar   == [Off EXCEPT !.gpu = TRUE, !.hostEngine = TRUE]
BySel     == [Sidecar EXCEPT !.gpuSel = OneSel("pool", "gpu"), !.hostEngine = FALSE]
ByTwoKeys == [Off EXCEPT !.gpu = TRUE, !.gpuSel = [k \in TwoKeys |->
                            IF k = "pool" THEN "gpu" ELSE "a"]]
ByTerm    == [Off EXCEPT !.gpu = TRUE,
                !.gpuAff = {{Term({Req("pool", "In", {"gpu"}), Req("zone", "Exists", {})})}}]
ByBoth    == [ByTerm EXCEPT !.gpuSel = OneSel("zone", "a"),
                !.gpuAff = {{Term({Req("pool", "NotIn", {"a"})})}}]
InZone    == [ByTerm EXCEPT !.nodeSel = OneSel("zone", "a")]

\* An affinity of the node agent with two alternatives, one by name of a field.
WithAffinity(s) ==
    [s EXCEPT !.hasAff = TRUE,
              !.nodeAff = {{Term({Req("zone", "DoesNotExist", {})}),
                            [exprs |-> {}, fields |-> {Req("pool", "In", {"gpu"})}]}}]
PodAffinity(s) == [s EXCEPT !.hasAff = TRUE]

Secured(s) == [s EXCEPT !.res = "a",
                 !.security = [runAsUser |-> Unset, runAsNonRoot |-> "true"]]

\* Specs for which the split is meant to be exact.
SplitSpecs == {Off, Sidecar, BySel, ByTwoKeys, ByTerm, ByBoth, InZone,
               WithAffinity(ByTwoKeys), Secured(WithAffinity(Sidecar)),
               PodAffinity([BySel EXCEPT !.nodeSel = OneSel("zone", "a")])}

ASSUME SplitSpecsAssumption == \A s \in SplitSpecs : Separable(s)

\* GPU monitoring by affinity, with an affinity of the node agent as well.
AffinitySpecs == {WithAffinity(ByTerm)}

OneSidecar == {"fluentbit"}
=============================================================================
