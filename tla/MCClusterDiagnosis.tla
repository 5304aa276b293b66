------------------------- MODULE MCClusterDiagnosis -------------------------
(***************************************************************************)
(* Clusters that differ from a healthy one in one or two kinds of objects. *)
(***************************************************************************)
EXTENDS ClusterDiagnosis

\* The conditions of an object: all types are given, those in "true" as True.
Conds(types, true) ==
    {[type |-> t, status |-> IF t \in true THEN "True" ELSE "False"] : t \in types}

Node(true) == [conditions |-> Conds({"Ready", "DiskPressure", "MemoryPressure"}, true)]

Operator(name, true) ==
    [name |-> name, conditions |-> Conds({"Available", "Progressing", "Degraded"}, true)]

Version(true) ==
    [ conditions |-> Conds({"Available", "Progressing", "Failing"}, true),
      history |-> <<[version |-> "4.16", state |-> IF "Progressing" \in true THEN "Partial" ELSE "Completed"],
                    [version |-> "4.15", state |-> "Completed"]>> ]

Pool(true, paused) == [conditions |-> Conds({"Updating", "Degraded"}, true), paused |-> paused]

Volume(phase, policy) == [phase |-> phase, policy |-> policy]

Container(ready, waiting) == [ready |-> ready, waiting |-> waiting, restarts |-> 0, topics |-> {}]

RawPod(phase, ready, containers) == [phase |-> phase, ready |-> ready, containers |-> containers]

MCHealthy ==
    [ nodes |-> {Node({"Ready"})},
      operators |-> {Operator(n, {"Available"}) : n \in {"etcd", "dns", "monitoring", "kube-apiserver"}},
      version |-> {Version({"Available"})}, pools |-> {Pool({}, FALSE), Pool({}, TRUE)},
      volumes |-> {Volume("Bound", "Retain")}, claims |-> {"Bound"},
      pods |-> {RawPod("Running", TRUE, <<Container(TRUE, "")>>), RawPod("Pending", FALSE, <<>>),
                RawPod("Running", TRUE, <<>>)},
      events |-> {[type |-> "Normal", reason |-> "Pulled"]} ]

MCOperators ==
    { {Operator("etcd", {"Available", "Degraded"}), Operator("dns", {}), Operator("openshift-apiserver", {})},
      {Operator("dns", {"Available", "Progressing"}), Operator("etcd", {}), Operator("kube-apiserver", {})},
      {Operator("monitoring", {"Degraded"}), Operator("network", {"Available"}),
       Operator("kube-apiserver", {"Available"}), Operator("openshift-apiserver", {})} }

MCPods ==
    { RawPod("Running", TRUE, <<Container(TRUE, ""), Container(FALSE, "")>>),
      RawPod("Running", FALSE, <<Container(FALSE, "CrashLoopBackOff"), Container(FALSE, "")>>),
      RawPod("Failed", FALSE, <<Container(FALSE, "")>>),
      RawPod("Succeeded", FALSE, <<Container(FALSE, "")>>) }

MCClusters ==
    {MCHealthy}
    \cup {[MCHealthy EXCEPT !.operators = o] : o \in MCOperators}
    \cup {[MCHealthy EXCEPT !.nodes = n] : n \in {{Node({}), Node({"Ready"})}, {Node({"Ready", "DiskPressure"})}}}
    \cup {[MCHealthy EXCEPT !.version = {Version(v)}, !.pools = {Pool(p, FALSE), Pool({}, TRUE)}] :
            v \in {{"Failing", "Progressing"}, {"Available", "Progressing"}},
            p \in {{"Degraded", "Updating"}, {"Updating"}}}
    \cup {[MCHealthy EXCEPT !.volumes = v, !.claims = {"Lost"}, !.pods = pods,
                            !.events = {[type |-> "Warning", reason |-> "BackOff"]}] :
            v \in {{Volume("Failed", "Delete")}, {Volume("Released", "Delete")}, {Volume("Released", "Retain")}, {}},
            pods \in {MCPods, MCPods \ {RawPod("Running", TRUE, <<Container(TRUE, ""), Container(FALSE, "")>>)}}}

MCReadable == {Kinds, Kinds \ {"operators", "pods", "pools"}, {}}
=============================================================================
