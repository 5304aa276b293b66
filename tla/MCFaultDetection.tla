-------------------------- MODULE MCFaultDetection --------------------------
(***************************************************************************)
(* Every combination of state, conditions, references and plan for one     *)
(* operator; a few namespaces with the workloads the checks tell apart.    *)
(***************************************************************************)
EXTENDS FaultDetection

Cond(type, cstatus, reason, topics) ==
    [type |-> type, status |-> cstatus, reason |-> reason, topics |-> topics]

MCConditions ==
    { Cond("CatalogSourcesUnhealthy", "True", "", {"network"}),
      Cond("ResolutionFailed", "True", "", {}),
      Cond("InstallPlanPending", "True", "RequirementsNotMet", {"pull"}) }

Sub(kind, state, ns, current, installed, conditions, ref) ==
    [ kind |-> kind, state |-> state, ns |-> ns, currentCSV |-> current,
      installedCSV |-> installed, conditions |-> conditions, planRef |-> ref ]

MCSubscriptions ==
    { Sub("other", state, TRUE, "v2", installed, conditions, ref) :
        state \in {"AtLatestKnown", "UpgradePending", "Failed", ""},
        installed \in {"", "v1"}, conditions \in SUBSET MCConditions,
        ref \in BOOLEAN }
    \cup { Sub(kind, "NotFound", ns, "", "", {}, FALSE) :
             kind \in {"acm", "talm", "oadp"}, ns \in BOOLEAN }

MCCSVs ==
    { [version |-> "", conditions |-> {}],
      [version |-> "1.0", conditions |-> {Cond("Succeeded", "False", "InstallFailed", {})}] }

MCPlans ==
    { [phase |-> phase, approved |-> approved, installed |-> installed, steps |-> steps] :
        phase \in {"RequiresApproval", "Complete", "Failed"}, approved \in BOOLEAN,
        installed \in {{}, {"True"}, {"False"}, {"FalseSilent"}},
        steps \in {{}, {[status |-> "Unknown", crd |-> TRUE]},
                   {[status |-> "NotPresent", crd |-> FALSE]}} }

Box(waiting, n, topics) == [waiting |-> waiting, restarts |-> n, topics |-> topics]

Pod(phase, ready, containers) == [phase |-> phase, ready |-> ready, containers |-> containers]

Pull == Box("ImagePullBackOff", 0, {"pull"})
Crash == Box("CrashLoopBackOff", 3, {})

Event(type, reason) == [type |-> type, reason |-> reason, topics |-> {}]

Files(deployments, pods, events) ==
    [deployments |-> deployments, pods |-> pods, events |-> events]

MCWorkloadFiles ==
    { Files({}, {}, {}),
      Files({[velero |-> TRUE, replicas |-> 1, readyReplicas |-> 1, available |-> "True"]},
            {Pod("Running", TRUE, <<Crash, Crash>>)},
            {[list |-> FALSE, events |-> {Event("Normal", "Pulled")}]}),
      Files({[velero |-> FALSE, replicas |-> 2, readyReplicas |-> 1, available |-> ""]},
            {Pod("Running", FALSE, <<Pull, Crash>>)},
            {[list |-> TRUE, events |-> {Event("Normal", "Pulled"), Event("Warning", "FailedScheduling")}]}),
      Files({}, {Pod("Pending", FALSE, <<Crash, Pull>>)}, {}) }
=============================================================================
