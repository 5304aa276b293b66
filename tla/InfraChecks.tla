---------------------------- MODULE InfraChecks ----------------------------
(***************************************************************************)
(* What is asked of a whole cluster: the thirteen infrastructure           *)
(* dimensions of healthcheck/infra_checks.go and the parts of the snapshot *)
(* of adhd.BuildClusterSnapshot, as functions of what a ClusterDataSource  *)
(* answers.                                                                *)
(***************************************************************************)
EXTENDS NoiseFilter

L == INSTANCE LiveClusterSource
G == INSTANCE MustGatherSource

Sources == {"must-gather", "live-cluster"}

\* What a source reads one at a time.
Kinds == {"nodes", "operators", "version", "pools", "volumes", "claims", "pods", "events"}

\* The two implementations of ClusterDataSource.
Ask(source, cluster, readable) ==
    IF source = "live-cluster" THEN L!Answers(cluster, readable) ELSE G!Answers(cluster, readable)

Named(operators, name) == {o \in operators : o.name = name}

Broken(operator) == operator.degraded \/ ~operator.available

-----------------------------------------------------------------------------
(***************************************************************************)
(* Infrastructure dimensions                                               *)
(***************************************************************************)
Pressure == {"MemoryPressure", "DiskPressure", "PIDPressure"}

Pressured(node) == \E p \in Pressure : Holds(node, p)

checkNodeHealth(src) ==
    LET nodes == UNION src.nodes
    IN  IF nodes = {} THEN Skip
        ELSE IF \E n \in nodes : ~n.ready THEN Fail({"notready"})
        ELSE IF \E n \in nodes : Pressured(n) THEN Warn({})
        ELSE Pass

checkEtcdHealth(src) ==
    LET etcd == Named(UNION src.operators, "etcd")
    IN  IF etcd = {} THEN Skip
        ELSE IF \E o \in etcd : Broken(o) THEN Fail({"etcd"})
        ELSE Pass

checkAPIServerHealthInfra(src) == IF FALSE \in src.api THEN Fail({}) ELSE Pass

\* The words "cluster version" are in every text.
checkClusterVersionHealth(src) ==
    IF src.version = {} THEN Skip
    ELSE IF \E v \in src.version : v.failing THEN Fail({"upgrade"})
    ELSE IF \E v \in src.version : v.progressing THEN Warn({"upgrade"})
    ELSE Pass

\* The dimensions that look for one cluster operator, with its name and the
\* topics of their texts.
ByName ==
    [ network_operator |-> <<"network", {}>>,  dns_health |-> <<"dns", {"dns"}>>,
      ingress_health   |-> <<"ingress", {}>>,  storage_operator |-> <<"storage", {}>>,
      auth_operator    |-> <<"authentication", {}>>,
      monitoring_stack |-> <<"monitoring", {"monitoring"}>> ]

\* Mutant of checkClusterOperatorByName: an operator that is not found fails.
checkClusterOperatorByName_NeedsOne(src, dim) ==
    LET found == Named(UNION src.operators, ByName[dim][1])
        topics == ByName[dim][2]
    IN  IF found = {} \/ \E o \in found : Broken(o) THEN Fail(topics)
        ELSE IF \E o \in found : o.progressing THEN Warn(topics \cup {"upgrade"})
        ELSE Pass

\* "progressing" is among the words for upgrades.
checkClusterOperatorByName(src, dim) ==
    LET found == Named(UNION src.operators, ByName[dim][1])
        topics == ByName[dim][2]
    IN  IF found = {} THEN Skip
        ELSE IF \E o \in found : Broken(o) THEN Fail(topics)
        ELSE IF \E o \in found : o.progressing THEN Warn(topics \cup {"upgrade"})
        ELSE Pass

\* Mutant of checkPVHealthInfra: the status is not set for released volumes.
checkPVHealthInfra_Unset(src) ==
    IF src.volumes = {} THEN Skip
    ELSE IF \E v \in UNION src.volumes : v.phase = "Failed" THEN Fail({})
    ELSE IF \E v \in UNION src.volumes : v.phase = "Released" THEN Result("Unknown", "Warning", {})
    ELSE Pass

\* No volumes are as good as healthy volumes.
checkPVHealthInfra(src) ==
    LET volumes == UNION src.volumes
    IN  IF src.volumes = {} THEN Skip
        ELSE IF \E v \in volumes : v.phase = "Failed" THEN Fail({})
        ELSE IF \E v \in volumes : v.phase = "Released" /\ v.policy = "Retain" THEN Warn({})
        ELSE Pass

\* No source has certificates.
checkCertExpiry(src) == IF UNION src.certificates = {} THEN Skip ELSE Pass

\* Mutant of checkMCPHealthInfra: like the volumes, no pools are healthy pools.
checkMCPHealthInfra_NoneIsFine(src) ==
    IF src.pools = {} THEN Skip
    ELSE IF \E p \in UNION src.pools : p.degraded THEN Fail({"paused"})
    ELSE IF \E p \in UNION src.pools : p.updating THEN Warn({"paused"})
    ELSE Pass

\* Every text says "MachineConfigPools", a word of the rule on paused pools.
checkMCPHealthInfra(src) ==
    LET pools == UNION src.pools
    IN  IF pools = {} THEN Skip
        ELSE IF \E p \in pools : p.degraded THEN Fail({"paused"})
        ELSE IF \E p \in pools : p.updating THEN Warn({"paused"})
        ELSE Pass

\* The dimensions in the order they are checked.
InfraDimensionIDs ==
    << "node_health", "etcd_health", "api_server_health", "cluster_version",
       "network_operator", "dns_health", "ingress_health", "pv_health",
       "storage_operator", "certificate_expiry", "auth_operator", "mcp_health",
       "monitoring_stack" >>

checkInfraDimension(dim, src) ==
    CASE dim = "node_health"        -> checkNodeHealth(src)
      [] dim = "etcd_health"        -> checkEtcdHealth(src)
      [] dim = "api_server_health"  -> checkAPIServerHealthInfra(src)
      [] dim = "cluster_version"    -> checkClusterVersionHealth(src)
      [] dim = "pv_health"          -> checkPVHealthInfra(src)
      [] dim = "certificate_expiry" -> checkCertExpiry(src)
      [] dim = "mcp_health"         -> checkMCPHealthInfra(src)
      [] OTHER                      -> checkClusterOperatorByName(src, dim)

-----------------------------------------------------------------------------
(***************************************************************************)
(* The snapshot: what one read puts into it; an error puts nothing there.  *)
(* The limit of fifty events is left out.                                  *)
(***************************************************************************)
SnapshotReads ==
    <<"version", "nodes", "operators", "pods", "events", "pools", "volumes", "claims">>

NoSnapshot ==
    [ version |-> {}, nodes |-> {}, operators |-> {}, pods |-> {}, events |-> {},
      pools |-> {}, volumes |-> {}, claims |-> {} ]

\* Mutant of DegradedOperators: an operator that is not available is left out.
DegradedOperators_ByCondition(operators) == {o.name : o \in {o \in operators : o.degraded}}

DegradedOperators(operators) == {o.name : o \in {o \in operators : Broken(o)}}

\* The test for a phase CrashLoopBackOff is left out: no pod is in such a phase.
FailedPod(pod) ==
    \/ pod.phase = "Failed"
    \/ ~pod.ready /\ pod.phase = "Running"
    \/ \E w \in pod.waiting : w.reason # NoText

PoolStatus(pool) ==
    IF pool.degraded THEN "DEGRADED" ELSE IF pool.updating THEN "updating"
    ELSE IF pool.paused THEN "paused" ELSE "ok"

SnapshotPart(kind, src) ==
    CASE kind = "version"   -> {v.version : v \in src.version}
      [] kind = "nodes"     -> {n \in UNION src.nodes : ~n.ready}
      [] kind = "operators" -> DegradedOperators(UNION src.operators)
      [] kind = "pods"      -> {p \in UNION src.pods : FailedPod(p)}
      [] kind = "events"    -> {e \in UNION src.events : e.type = "Warning"}
      [] kind = "pools"     -> {PoolStatus(p) : p \in UNION src.pools}
      [] kind = "volumes"   -> {v \in UNION src.volumes : v.phase \in {"Failed", "Released"}}
      [] kind = "claims"    -> {p \in UNION src.claims : p \in {"Pending", "Lost"}}
=============================================================================
