-------------------------- MODULE MustGatherSource --------------------------
(***************************************************************************)
(* internal/datasource/mustgather_adapter.go: the same interface over the  *)
(* files of a must-gather.  A file that is missing or cannot be parsed is  *)
(* skipped: the answer is a shorter list, never an error.  "readable" are  *)
(* the kinds whose files are there.                                        *)
(***************************************************************************)
EXTENDS MustGather

findClusterScopedResources(kind, cluster, readable) ==
    IF kind \in readable THEN cluster[kind] ELSE {}

GetNodes(cluster, readable) ==
    {{[ready |-> Holds(n, "Ready"), conditions |-> n.conditions] :
        n \in findClusterScopedResources("nodes", cluster, readable)}}

GetClusterOperators(cluster, readable) ==
    {{[ name |-> o.name, available |-> Holds(o, "Available"),
        progressing |-> Holds(o, "Progressing"), degraded |-> Holds(o, "Degraded") ] :
            o \in findClusterScopedResources("operators", cluster, readable)}}

\* The first update of the history that was completed gives the version.
Completed(history) == SelectSeq(history, LAMBDA h : h.state = "Completed")

\* No document is the one error of this source.
GetClusterVersion(cluster, readable) ==
    {[ version |-> IF Completed(v.history) = <<>> THEN NoText ELSE Completed(v.history)[1].version,
       progressing |-> Holds(v, "Progressing"), failing |-> Holds(v, "Failing") ] :
         v \in findClusterScopedResources("version", cluster, readable)}

GetMachineConfigPools(cluster, readable) ==
    {{[ degraded |-> Holds(p, "Degraded"), updating |-> Holds(p, "Updating"),
        paused |-> p.paused ] : p \in findClusterScopedResources("pools", cluster, readable)}}

GetPVs(cluster, readable) == {findClusterScopedResources("volumes", cluster, readable)}

GetPVCs(cluster, readable) == {IF "claims" \in readable THEN cluster.claims ELSE {}}

GetPods(cluster, readable) ==
    {IF "pods" \in readable THEN {parsePodFile(p) : p \in cluster.pods} ELSE {}}

\* The events of a namespace are one list.
GetEvents(cluster, readable) ==
    {IF "events" \in readable
     THEN parseEventsFile([list |-> TRUE, events |-> cluster.events]) ELSE {}}

\* The operator of either API server, the first by name.
GetAPIServerStatus(cluster, readable) ==
    LET Of(name) == {o \in UNION GetClusterOperators(cluster, readable) : o.name = name}
        first == IF Of("kube-apiserver") # {} THEN Of("kube-apiserver") ELSE Of("openshift-apiserver")
    IN  {IF first = {} THEN TRUE ELSE \A o \in first : o.available}

GetCertificates(cluster, readable) == {{}}

Answers(cluster, readable) ==
    [ nodes |-> GetNodes(cluster, readable), operators |-> GetClusterOperators(cluster, readable),
      version |-> GetClusterVersion(cluster, readable),
      pools |-> GetMachineConfigPools(cluster, readable), volumes |-> GetPVs(cluster, readable),
      claims |-> GetPVCs(cluster, readable), pods |-> GetPods(cluster, readable),
      events |-> GetEvents(cluster, readable), api |-> GetAPIServerStatus(cluster, readable),
      certificates |-> GetCertificates(cluster, readable) ]
=============================================================================
