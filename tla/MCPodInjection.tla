-------------------------- MODULE MCPodInjection --------------------------
(***************************************************************************)
(* Small instances of PodInjection for TLC.                                *)
(***************************************************************************)
EXTENDS PodInjection

NoLabels == [k \in {} |-> "a"]
Label(k, v) == [x \in {k} |-> v]
All == [labels |-> NoLabels, exprs |-> {}]
AllNamespaces == [labels |-> NoLabels, exprs |-> {}, names |-> {}]

Base == [enabled |-> TRUE, lang |-> "java", version |-> Unset, podSel |-> All,
         nsSel |-> AllNamespaces, envs |-> <<>>, config |-> Unset, plugin |-> Unset,
         volumeName |-> Unset, mountPath |-> Unset, image |-> Unset,
         imageFull |-> Unset, security |-> Unset, resources |-> Unset, secrets |-> <<>>]

\* Names the server twice, overrides a name of the application, and one of
\* the names the operator manages.
Overriding ==
    <<Var("whatap.server.host", <<"second">>), Var("WHATAP_HOST", <<"target">>),
      Var("FEATURE", <<"target">>), Var("app_name", <<"shop">>)>>

Java   == [Base EXCEPT !.envs = Overriding, !.secrets = <<[name |-> "pull"]>>]
JavaIn == [Base EXCEPT !.nsSel.labels = Label("apm", "on"), !.version = "2", !.security = "root"]
Python == [Base EXCEPT !.lang = "python", !.config = "conf", !.plugin = "plug",
                       !.podSel.exprs = {[key |-> "app", op |-> "In", vals |-> {"shop"}]},
                       !.image = "old", !.imageFull = "own"]
PythonOwn == [Python EXCEPT !.volumeName = "own-volume", !.mountPath = "/own", !.envs = Overriding]
Nodejs == [Base EXCEPT !.lang = "nodejs", !.plugin = "plug",
                       !.nsSel.exprs = {[key |-> "apm", op |-> "DoesNotExist", vals |-> {}]},
                       !.nsSel.names = {"shop"}]
Php    == [Base EXCEPT !.lang = "php", !.envs = Overriding, !.resources = "small",
                       !.podSel.exprs = {[key |-> "app", op |-> "NotIn", vals |-> {"db"}],
                                         [key |-> "app", op |-> "Exists", vals |-> {}]}]

WithTargets(ts) == [enabled |-> TRUE, targets |-> ts, security |-> "uid", resources |-> Unset]

SomeCRs == {[WithTargets(<<Java>>) EXCEPT !.enabled = FALSE], WithTargets(<<>>),
            WithTargets(<<[Java EXCEPT !.enabled = FALSE], JavaIn, Python>>),
            WithTargets(<<Nodejs, Java>>), WithTargets(<<Php, PythonOwn>>),
            WithTargets(<<PythonOwn>>)}

Plainest == [namespace |-> "shop", labels |-> NoLabels, agent |-> Unset, secrets |-> <<>>,
             vols |-> <<>>, inits |-> <<>>, env |-> [c \in {"app"} |-> <<>>],
             mounts |-> [c \in {"app"} |-> <<>>]]

\* An application with entries under names the operator owns, or adds to.
Busy == [Plainest EXCEPT
           !.labels = Label("app", "shop"),
           !.secrets = <<[name |-> "pull"]>>,
           !.vols = <<[name |-> "config-volume", source |-> "own"]>>,
           !.env = [c \in {"app", "proxy"} |->
             IF c = "proxy" THEN <<Var("FEATURE", <<"own">>)>>
             ELSE <<Var("whatap.server.host", <<"stale">>), Var("LIBS", <<"own">>),
                    Var("JAVA_TOOL_OPTIONS", <<"own">>), Var("PYTHONPATH", <<"own">>),
                    Ref("NODE_OPTIONS"), Var("NODE_IP", <<"own">>), Var("FEATURE", <<"own">>)>>],
           !.mounts = [c \in {"app", "proxy"} |->
             <<[name |-> "config-volume", path |-> "/config-volume"]>>]]

SomePods       == {Plainest, Busy, [Busy EXCEPT !.labels = Label("app", "db"), !.namespace = "db"]}
SomeNamespaces == {NoLabels, Label("apm", "on")}
SomeForeign    == {Var("whatap.server.host", <<"localhost">>),
                   Var("whatap_server_host", <<"localhost">>),
                   Var("JAVA_TOOL_OPTIONS", <<"other">>)}
=============================================================================
