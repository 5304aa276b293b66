---------------------------- MODULE HealthChecks ----------------------------
(***************************************************************************)
(* internal/healthcheck/checker.go: the twenty OLM dimensions of one       *)
(* operator, each a function of the operator, of the workloads read for    *)
(* its namespace, of its install plan and of the cluster resources of the  *)
(* must-gather.                                                            *)
(*                                                                         *)
(* A result is a status, a severity and the topics of the noise filter its *)
(* summary, evidence and recommendation touch.  A severity that a check    *)
(* does not set is empty.                                                  *)
(***************************************************************************)
EXTENDS MustGather

Result(status, severity, topics) ==
    [status |-> status, severity |-> severity, topics |-> topics]

Pass == Result("Pass", "Healthy", {})
Skip == Result("Skip", NoText, {})
Fail(topics) == Result("Fail", "Critical", topics)
Warn(topics) == Result("Warn", "Warning", topics)

Statuses == {"Pass", "Fail", "Warn", "Skip", "Unknown"}
Severities == {"Critical", "Warning", "Healthy", NoText}

\* The topics of a message found by the first condition that matches: any
\* matching condition may come first.
Topics(conditions) == UNION {c.topics : c \in conditions}

NotInstalledState == {"NotFound", "ClusterConfig"}

checkCatalogSource(op) ==
    LET bad == {c \in op.conditions : c.type = "CatalogSourcesUnhealthy" /\ c.status = "True"}
    IN  IF bad # {} THEN Fail({"catalog"} \cup Topics(bad)) ELSE Pass

\* "UpgradePending" and a stuck upgrade put the word "upgrade" in the text.
checkSubscription(op) ==
    LET unresolved == {c \in op.conditions : c.type = "ResolutionFailed" /\ c.status = "True"}
        stuck == op.currentCSV # NoText /\ op.installedCSV # NoText /\ op.currentCSV # op.installedCSV
    IN  IF op.state \in NotInstalledState THEN Skip
        ELSE IF unresolved # {} /\ op.installedCSV = NoText THEN Fail(Topics(unresolved))
        ELSE IF op.state = "AtLatestKnown" THEN Pass
        ELSE IF op.state = "Failed" THEN Fail({})
        ELSE Warn(IF stuck \/ op.state = "UpgradePending" THEN {"upgrade"} ELSE {})

\* Mutant of checkInstallPlan: only the phase tells that a plan failed.
checkInstallPlan_ByPhase(op, plan) ==
    IF ~op.planRef THEN Skip
    ELSE IF \E p \in plan : p.phase = "Failed" THEN Fail({}) ELSE Pass

\* Complete and waiting are looked at before failed, unlike in isFaulty.
checkInstallPlan(op, plan) ==
    IF ~op.planRef THEN Skip
    ELSE IF plan = {} THEN Result("Unknown", NoText, {})
    ELSE LET p == CHOOSE p \in plan : TRUE
         IN  IF IsComplete(p) THEN Pass
             ELSE IF IsWaitingApproval(p) THEN Warn({})
             ELSE IF IsFailed(p) THEN Fail({})
             ELSE Warn(IF p.phase = "RequiresApproval" THEN {"approval"} ELSE {})

checkOperatorGroup(op) == IF op.ns THEN Pass ELSE Result("Warn", NoText, {})

checkCSVPhase(op) ==
    LET bad == {c \in op.conditions :
                    (c.type = "Succeeded" \/ c.reason = "InstallSucceeded") /\ c.status = "False"}
    IN  IF op.state \in NotInstalledState THEN Skip
        ELSE IF bad # {} THEN Fail(Topics(bad))
        ELSE IF op.installedCSV # NoText THEN Pass
        ELSE Result("Warn", NoText, {})

MissingCRDs(op) == \E c \in op.rootCause : c.missingCRDs # {}

checkCSVRequirements(op) ==
    LET unmet == {c \in op.conditions : c.reason = "RequirementsNotMet" /\ c.status = "True"}
    IN  IF op.state \in NotInstalledState THEN Skip
        ELSE IF op.state = "AtLatestKnown" /\ op.installedCSV # NoText
        THEN IF MissingCRDs(op) THEN Fail({}) ELSE Pass
        ELSE IF unmet # {} THEN Fail(Topics(unmet))
        ELSE IF MissingCRDs(op) THEN Fail({}) ELSE Pass

checkDeploymentReady(wl) ==
    IF wl.deployments = {} THEN Skip
    ELSE IF \E d \in wl.deployments : ~d.available \/ d.readyReplicas < d.replicas
    THEN Fail({}) ELSE Pass

\* A running pod that is not ready puts the words "not ready" in the text.
checkPodHealth(wl) ==
    LET wrongPhase == {p \in wl.pods : p.phase \notin {"Running", "Succeeded"}}
        notReady == {p \in wl.pods : p.phase = "Running" /\ ~p.ready}
    IN  IF wl.pods = {} THEN Skip
        ELSE IF wrongPhase \cup notReady # {}
        THEN Fail(IF notReady # {} THEN {"notready"} ELSE {})
        ELSE Pass

checkContainerRestarts(wl) ==
    IF wl.pods = {} THEN Skip
    ELSE IF \E p \in wl.pods : p.restarts > 5 THEN Warn({}) ELSE Pass

PullReasons == {"ImagePullBackOff", "ErrImagePull"}

checkImagePull(wl) ==
    LET waits == UNION {p.waiting : p \in wl.pods}
        pulls == {w \in waits : w.reason \in PullReasons}
    IN  IF pulls # {} THEN Fail(Topics(pulls)) ELSE Pass

\* Only the first five events are quoted.
checkWarningEvents(wl) ==
    IF wl.events = {} THEN Pass
    ELSE Warn(Topics(wl.events))

checkCRDEstablished(op) == IF MissingCRDs(op) THEN Fail({}) ELSE Pass

checkScheduling(wl) ==
    LET unscheduled == {e \in wl.events : e.reason = "FailedScheduling"}
    IN  IF unscheduled # {} THEN Fail(Topics(unscheduled))
        ELSE IF \E p \in wl.pods : p.phase = "Pending" THEN Warn({}) ELSE Pass

checkManagedClusters(op, managed) ==
    IF op.kind \notin {"acm", "talm"} THEN Skip
    ELSE IF managed THEN Pass ELSE Warn({})

checkPolicyCompliance(op) == IF op.kind = "talm" THEN Pass ELSE Skip

checkBackupRestore(op, wl) ==
    IF op.kind # "oadp" THEN Skip
    ELSE IF \E d \in wl.deployments : d.velero /\ d.available THEN Pass
    ELSE Warn({})

\* Roles, webhooks, quotas and mirror sets pass whatever is there.
checkDimension(op, plan, wl, managed) ==
    [ catalog_source               |-> checkCatalogSource(op),
      catalog_subscription         |-> checkSubscription(op),
      install_plan                 |-> checkInstallPlan(op, plan),
      operator_group               |-> checkOperatorGroup(op),
      csv_phase                    |-> checkCSVPhase(op),
      csv_requirements             |-> checkCSVRequirements(op),
      deployment_ready             |-> checkDeploymentReady(wl),
      pod_health                   |-> checkPodHealth(wl),
      container_restarts           |-> checkContainerRestarts(wl),
      image_pull                   |-> checkImagePull(wl),
      rbac_serviceaccount          |-> Pass,
      warning_events               |-> checkWarningEvents(wl),
      crd_established              |-> checkCRDEstablished(op),
      webhooks                     |-> Pass,
      resource_quota               |-> Pass,
      node_scheduling              |-> checkScheduling(wl),
      idms_mirror_config           |-> Pass,
      managed_cluster_connectivity |-> checkManagedClusters(op, managed),
      policy_compliance            |-> checkPolicyCompliance(op),
      backup_restore_status        |-> checkBackupRestore(op, wl) ]

OLMDimensions ==
    {"catalog_source", "catalog_subscription", "install_plan", "operator_group",
     "csv_phase", "csv_requirements", "deployment_ready", "pod_health",
     "container_restarts", "image_pull", "rbac_serviceaccount", "warning_events",
     "crd_established", "webhooks", "resource_quota", "node_scheduling",
     "idms_mirror_config", "managed_cluster_connectivity", "policy_compliance",
     "backup_restore_status"}

With(dimensions, status) ==
    Cardinality({d \in DOMAIN dimensions : dimensions[d].status = status})

\* Run: the report counts four of the five statuses.
Report(dimensions) ==
    [ dimensions |-> dimensions,
      passed   |-> With(dimensions, "Pass"), failed  |-> With(dimensions, "Fail"),
      warnings |-> With(dimensions, "Warn"), skipped |-> With(dimensions, "Skip") ]
=============================================================================
