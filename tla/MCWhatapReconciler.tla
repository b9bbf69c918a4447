------------------------ MODULE MCWhatapReconciler ------------------------
(***************************************************************************)
(* Small instances of WhatapReconciler for TLC.                            *)
(***************************************************************************)
EXTENDS WhatapReconciler

SpecOf(m, n, op, g, d, r) ==
    [master |-> m, node |-> n, open |-> op, gpu |-> g, dcgm |-> d, rev |-> r]

MasterAndGpu == SpecOf(TRUE, TRUE, FALSE, "split", TRUE, 0)
Sidecar      == SpecOf(FALSE, TRUE, FALSE, "sidecar", FALSE, 1)
OpenOnly     == SpecOf(FALSE, FALSE, TRUE, "off", FALSE, 0)
NodeGpu      == SpecOf(FALSE, TRUE, FALSE, "split", TRUE, 0)
WebhookOnly  == SpecOf(FALSE, FALSE, FALSE, "off", FALSE, 0)

\* The master agent, the service of the exporter and the GPU node agent, which
\* an edit switches on and off, and a field that every node agent copies.
SwitchSpecs == {MasterAndGpu, Sidecar}
OpenSpecs   == {OpenOnly, WebhookOnly}
NodeSpecs   == {NodeGpu, WebhookOnly}
OneSpec     == {WebhookOnly}
EditSpecs   == {WebhookOnly, [WebhookOnly EXCEPT !.rev = 1]}

\* One event stream for all objects, or one for each kind as in the code.
OneInformer == {Objs}
KindInformers ==
    {{"master", "open"}, {"node", "nodeGpu"}, {"svc", "dcgmSvc"}, {"secret"},
     {"mwc"}, {"config"}, {"sa"}, {"role"}, {"binding"}}
=============================================================================
