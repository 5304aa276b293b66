------------------------- MODULE LiveClusterSource -------------------------
(***************************************************************************)
(* internal/livecluster/collector.go: a ClusterDataSource over the API of  *)
(* a cluster.  "readable" are the kinds of objects the API answers for at  *)
(* the moment; for the others every call returns its error.                *)
(*                                                                         *)
(* An answer is a set with the one list it returns, or {} for an error.    *)
(***************************************************************************)
EXTENDS MustGather

List(kind, cluster, readable) == IF kind \in readable THEN {cluster[kind]} ELSE {}

GetNodes(cluster, readable) ==
    {{[ready |-> Holds(n, "Ready"), conditions |-> n.conditions] : n \in list} :
        list \in List("nodes", cluster, readable)}

GetClusterOperators(cluster, readable) ==
    {{[ name |-> o.name, available |-> Holds(o, "Available"),
        progressing |-> Holds(o, "Progressing"), degraded |-> Holds(o, "Degraded") ] :
            o \in list} : list \in List("operators", cluster, readable)}

\* The version is the first of the history that was completed.
Completed(history) == SelectSeq(history, LAMBDA h : h.state = "Completed")

GetClusterVersion(cluster, readable) ==
    {[ version |-> IF Completed(v.history) = <<>> THEN NoText ELSE Completed(v.history)[1].version,
       progressing |-> Holds(v, "Progressing"), failing |-> Holds(v, "Failing") ] :
         v \in UNION List("version", cluster, readable)}

GetMachineConfigPools(cluster, readable) ==
    {{[ degraded |-> Holds(p, "Degraded"), updating |-> Holds(p, "Updating"),
        paused |-> p.paused ] : p \in list} : list \in List("pools", cluster, readable)}

GetPVs(cluster, readable) == List("volumes", cluster, readable)

GetPVCs(cluster, readable) == List("claims", cluster, readable)

\* Mutant of LivePod: a pod without containers is not ready.
LivePod_NeedsContainer(pod) ==
    [parsePodFile(pod) EXCEPT
        !.ready = \E i \in DOMAIN pod.containers : pod.containers[i].ready]

\* A pod is ready unless one of its containers is not, whatever its own
\* condition says; the rest is as the must-gather has it.
LivePod(pod) ==
    [parsePodFile(pod) EXCEPT
        !.ready = \A i \in DOMAIN pod.containers : pod.containers[i].ready]

GetPods(cluster, readable) ==
    {{LivePod(p) : p \in list} : list \in List("pods", cluster, readable)}

\* Only warnings are asked for.
GetEvents(cluster, readable) ==
    {{e \in list : e.type = "Warning"} : list \in List("events", cluster, readable)}

\* Every error means available, also that of an API that does not answer.
GetAPIServerStatus(cluster, readable) ==
    LET kube == {o \in UNION GetClusterOperators(cluster, readable) : o.name = "kube-apiserver"}
    IN  {IF kube = {} THEN TRUE ELSE \A o \in kube : o.available}

GetCertificates(cluster, readable) == {{}}

Answers(cluster, readable) ==
    [ nodes |-> GetNodes(cluster, readable), operators |-> GetClusterOperators(cluster, readable),
      version |-> GetClusterVersion(cluster, readable),
      pools |-> GetMachineConfigPools(cluster, readable), volumes |-> GetPVs(cluster, readable),
      claims |-> GetPVCs(cluster, readable), pods |-> GetPods(cluster, readable),
      events |-> GetEvents(cluster, readable), api |-> GetAPIServerStatus(cluster, readable),
      certificates |-> GetCertificates(cluster, readable) ]
=============================================================================
