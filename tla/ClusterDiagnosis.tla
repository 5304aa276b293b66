-------------------------- MODULE ClusterDiagnosis --------------------------
(***************************************************************************)
(* RunInfra, BuildClusterSnapshot and the noise filter one read after the  *)
(* other, as runDataSourceAnalysis (internal/cli/diagnose.go) runs them on *)
(* a live cluster and analyzeSingleOperator on a must-gather, while the    *)
(* live cluster changes and stops answering.  Nothing is kept between two  *)
(* reads: every dimension and every part of the snapshot asks again.       *)
(***************************************************************************)
EXTENDS InfraChecks

CONSTANTS
    Clusters,   \* the states a cluster may be in
    Readable,   \* what may be readable: sets of kinds
    MaxChanges  \* how often the cluster changes during one run

VARIABLES
    source,    \* where the cluster is read from
    cluster,   \* the cluster as it is now
    readable,  \* the kinds that can be read now
    results,   \* the dimensions checked so far
    snapshot,  \* the snapshot, as far as it is built
    at,        \* the next read of the snapshot
    noise,     \* the classes of the findings, none before the filter
    seen       \* history: every state and readability since the start

vars == <<source, cluster, readable, results, snapshot, at, noise, seen>>

Init ==
    /\ source \in Sources
    /\ cluster \in Clusters /\ readable \in Readable
    /\ results = <<>>
    /\ snapshot = NoSnapshot /\ at = 1
    /\ noise = {}
    /\ seen = {[cluster |-> cluster, readable |-> readable]}

Checked == Len(results) = Len(InfraDimensionIDs)
Collected == at > Len(SnapshotReads)

\* A live cluster changes between two reads, or its API starts or stops to
\* answer.  A must-gather stays as it was collected.
Change ==
    /\ source = "live-cluster"
    /\ Cardinality(seen) <= MaxChanges
    /\ ~Collected
    /\ cluster' \in Clusters /\ readable' \in Readable
    /\ seen' = seen \cup {[cluster |-> cluster', readable |-> readable']}
    /\ UNCHANGED <<source, results, snapshot, at, noise>>

\* One turn of the loop of RunInfra.
RunInfra ==
    /\ ~Checked
    /\ results' = Append(results,
         checkInfraDimension(InfraDimensionIDs[Len(results) + 1],
                             Ask(source, cluster, readable)))
    /\ UNCHANGED <<source, cluster, readable, snapshot, at, noise, seen>>

\* One read of BuildClusterSnapshot.
BuildClusterSnapshot ==
    /\ Checked /\ ~Collected
    /\ snapshot' = [snapshot EXCEPT ![SnapshotReads[at]] =
                        SnapshotPart(SnapshotReads[at], Ask(source, cluster, readable))]
    /\ at' = at + 1
    /\ UNCHANGED <<source, cluster, readable, results, noise, seen>>

\* The infrastructure findings are filtered on the way of a live cluster
\* only; without ADHD no snapshot is taken before it.
FilterFindings ==
    /\ source = "live-cluster" /\ Checked /\ (Collected \/ at = 1) /\ noise = {}
    /\ \E env \in Environments :
         noise' = {[env |-> env,
                    classes |-> Filter(env, results)]}
    /\ at' = Len(SnapshotReads) + 1
    /\ UNCHANGED <<source, cluster, readable, results, snapshot, seen>>

Done ==
    /\ Checked /\ Collected
    /\ source = "must-gather" \/ noise # {}
    /\ UNCHANGED vars

Next == Change \/ RunInfra \/ BuildClusterSnapshot \/ FilterFindings \/ Done

Spec == Init /\ [][Next]_vars

-----------------------------------------------------------------------------
(***************************************************************************)
(* Properties                                                              *)
(***************************************************************************)
Infra == {InfraDimensionIDs[i] : i \in 1..Len(results)}

\* The result of a dimension that was checked.
Of(dim) == results[CHOOSE i \in DOMAIN InfraDimensionIDs : InfraDimensionIDs[i] = dim]

\* Every variable has its type; no dimension is left Unknown.
TypeOK ==
    /\ source \in Sources /\ cluster \in Clusters /\ readable \in Readable
    /\ \A i \in DOMAIN results :
         results[i].status \in Statuses \ {"Unknown"} /\ results[i].severity \in Severities
    /\ at \in 1..(Len(SnapshotReads) + 1)
    /\ \A n \in noise : n.env \in Environments
    /\ seen # {}

OperatorsOf(dim) ==
    CASE dim = "etcd_health" -> {"etcd"}
      [] dim = "api_server_health" -> {"kube-apiserver", "openshift-apiserver"}
      [] dim \in DOMAIN ByName -> {ByName[dim][1]}
      [] OTHER -> {}

\* The kind of object that a dimension reads.
KindOf(dim) ==
    CASE dim = "node_health" -> "nodes" [] dim = "cluster_version" -> "version"
      [] dim = "pv_health" -> "volumes" [] dim = "mcp_health" -> "pools"
      [] OTHER -> "operators"

\* What is wrong with a cluster in the eyes of an administrator, whatever
\* could be read of it.
Wrong(dim, c) ==
    CASE dim = "node_health"     -> \E n \in c.nodes : ~Holds(n, "Ready") \/ Pressured(n)
      [] dim = "cluster_version" -> \E v \in c.version : Holds(v, "Failing") \/ Holds(v, "Progressing")
      [] dim = "pv_health"       -> \E v \in c.volumes : v.phase \in {"Failed", "Released"}
      [] dim = "mcp_health"      -> \E p \in c.pools : Holds(p, "Degraded") \/ Holds(p, "Updating")
      [] OTHER -> \E o \in c.operators :
             /\ o.name \in OperatorsOf(dim)
             /\ Holds(o, "Degraded") \/ ~Holds(o, "Available") \/ Holds(o, "Progressing")

\* A finding is never made of what could not be read: what a dimension fails
\* or warns about was wrong with the cluster at some moment of the run, even
\* if the cluster changes between the reads and part of them fails.
NoFalseAlarm ==
    \A dim \in Infra : Of(dim).status \in {"Fail", "Warn"} =>
        \E s \in seen : Wrong(dim, s.cluster)

\* A dimension passes only if its objects could be read at some moment, with
\* two exceptions: the API server, which passes also when it does not answer,
\* and the volumes of a must-gather that has none.
PassNeedsData ==
    \A dim \in Infra :
        Of(dim).status = "Pass" /\ (\A s \in seen : KindOf(dim) \notin s.readable) =>
            \/ dim = "api_server_health"
            \/ dim = "pv_health" /\ source = "must-gather"

\* All along the objects of a kind were the same and could, or could not, be read.
Steady(kind) ==
    \A s, t \in seen : /\ s.cluster[kind] = t.cluster[kind]
                       /\ kind \in s.readable <=> kind \in t.readable

\* Symptoms and snapshot go into the same prompt although they are read one
\* after the other.  They tell the same of every kind of objects that was
\* steady, whatever changes or stops to answer beside it: of nodes that are
\* not ready, operators that are broken, volumes and pools.
PromptAgrees ==
    Checked /\ at = Len(SnapshotReads) + 1 /\ snapshot # NoSnapshot =>
        /\ Steady("nodes") => (Of("node_health").status = "Fail" <=> snapshot.nodes # {})
        /\ Steady("operators") =>
             \A dim \in DOMAIN ByName :
               Of(dim).status = "Fail" <=> ByName[dim][1] \in snapshot.operators
        /\ Steady("operators") =>
             (Of("etcd_health").status = "Fail" <=> "etcd" \in snapshot.operators)
        /\ Steady("volumes") =>
             (Of("pv_health").status \in {"Fail", "Warn"} => snapshot.volumes # {})
        /\ Steady("pools") =>
             (Of("mcp_health").status = "Fail" <=> "DEGRADED" \in snapshot.pools)

\* A pod whose condition says what its containers say, if it runs.
Coherent(pod) ==
    pod.phase = "Running" =>
        (pod.ready <=> \A i \in DOMAIN pod.containers : pod.containers[i].ready)

Listed(pods) == {[p EXCEPT !.ready = FALSE] : p \in pods}

\* The two sources are two implementations of one interface: of a cluster
\* that can be read completely they give the same verdicts and the same
\* failed pods, but for the API server of a cluster without the operator
\* kube-apiserver and for pods whose readiness does not follow their
\* containers.
SourcesAgree == results = <<>> =>
    LET live == Ask("live-cluster", cluster, Kinds)
        files == Ask("must-gather", cluster, Kinds)
    IN  /\ \A dim \in {InfraDimensionIDs[i] : i \in DOMAIN InfraDimensionIDs} :
             checkInfraDimension(dim, live) # checkInfraDimension(dim, files) =>
                /\ dim = "api_server_health"
                /\ Named(cluster.operators, "kube-apiserver") = {}
        /\ (\A pod \in cluster.pods : Coherent(pod)) =>
                Listed(SnapshotPart("pods", live)) = Listed(SnapshotPart("pods", files))
        /\ \A kind \in Kinds \ {"pods"} : SnapshotPart(kind, live) = SnapshotPart(kind, files)
=============================================================================
