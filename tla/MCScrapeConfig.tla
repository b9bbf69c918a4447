--------------------------- MODULE MCScrapeConfig ---------------------------
(***************************************************************************)
(* Targets that overlap the node agents in every way the duplicate check   *)
(* tells apart, and secrets shared by targets and monitors.                *)
(***************************************************************************)
EXTENDS ScrapeConfig

All == [labels |-> {}, exprs |-> {}]
AllNs == [names |-> {}, labels |-> {}, exprs |-> {}]
In(ns) == [AllNs EXCEPT !.names = {ns}]
By(label, value) == [All EXCEPT !.labels = {<<label, value>>}]
ByExprs(op, key, vals) == [All EXCEPT !.exprs = {[op |-> op, key |-> key, vals |-> vals]}]

\* The authority is a file of the image although a secret is named, too.
Ca == [file |-> "ca.pem", secret |-> "spare"]
Cert(secret) == [file |-> Unset, secret |-> secret]
None == [file |-> Unset, secret |-> Unset]
Port(p, parts) == {[port |-> p, tls |-> parts]}

Target(name, enabled, ns, sel, ends) ==
    [name |-> name, type |-> "PodMonitor", enabled |-> enabled, ns |-> ns, sel |-> sel,
     endpoints |-> ends]

Monitor(ns, name, nsSel, sel, ends) ==
    [ns |-> ns, name |-> name, nsSel |-> nsSel, sel |-> sel, endpoints |-> ends]

MCHome == [name |-> "monitoring", labels |-> {<<"team", "ops">>}]
Shop   == [name |-> "shop", labels |-> {<<"team", "web">>}]

MCThings ==
    {[type |-> type, ns |-> ns, labels |-> labels] :
        type \in {"PodMonitor", "ServiceMonitor"}, ns \in {MCHome, Shop},
        labels \in {{}, {<<"app", "cart">>}, {<<"app", "cart">>, <<"tier", "db">>}}}

Plain == [open |-> TRUE, gpu |-> "off", podLabels |-> {}, targets |-> {}, namespace |-> Unset]

MCAgents == {
    [Plain EXCEPT !.open = FALSE],
    [Plain EXCEPT !.targets = {Target("carts", TRUE, AllNs, By("app", "cart"),
                                      Port("80", {Ca, None})),
                               Target("off", FALSE, AllNs, All, Port("81", {Cert("idle")}))}],
    [Plain EXCEPT !.gpu = "split", !.podLabels = {<<"app", "whatap">>},
                  !.targets = {Target("carts", TRUE, In("shop"), ByExprs("NotIn", "tier", {"db"}),
                                      Port("80", {Cert("carts")}))}],
    [Plain EXCEPT !.gpu = "sidecar", !.namespace = "shop",
                  !.podLabels = {<<"app", "whatap">>, <<"whatap-gpu", "yes">>},
                  !.targets = {Target("dcgm-exporter-auto", TRUE, In("monitoring"),
                                      By("name", "whatap-node-agent"), Port("9400", {}))}],
    [Plain EXCEPT !.gpu = "sidecar"]}

GpuLabels == {<<"name", "whatap-node-agent">>, <<"whatap-gpu", "true">>}
Gpus == Monitor("monitoring", "gpus", Unset, [All EXCEPT !.labels = GpuLabels],
                Port("9400", {Cert("gpus")}))
Apps == Monitor("monitoring", "apps", Unset, By("app", "whatap"), Port("9400", {Cert("carts")}))
Everywhere == Monitor("shop", "cart", AllNs, ByExprs("Exists", "app", {}), Port("80", {}))
Webs == Monitor("monitoring", "web", [AllNs EXCEPT !.labels = {<<"team", "web">>}],
                ByExprs("DoesNotExist", "tier", {}), Port("443", {Ca, Cert("web")}))
Carts == Monitor("shop", "carts", Unset, By("app", "cart"), Port("443", {}))
Fixed == [ns |-> "shop", name |-> "fixed", endpoints |-> Port("99", {Cert("fixed")})]

MCMonitors ==
    [PodMonitor      |-> {{Gpus}, {Apps, Everywhere}},
     ServiceMonitor  |-> {{}, {Webs, Carts}},
     StaticEndpoints |-> {{}, {Fixed}}]
=============================================================================
