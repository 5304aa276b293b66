----------------------------- MODULE MustGather -----------------------------
(***************************************************************************)
(* What internal/mustgather makes of the files of one operator: the        *)
(* subscription, the ClusterServiceVersion it names, its install plan and  *)
(* the workloads of its namespace.                                         *)
(*                                                                         *)
(* A message is the set of topics of the noise filter it touches; a list   *)
(* of conditions is a set, since the code only ever looks for one that     *)
(* matches.  An optional value is a set with at most one element.          *)
(***************************************************************************)
EXTENDS Integers, Sequences, FiniteSets

\* A string of Go that was never set.
NoText == ""
Texts == STRING \cup {NoText}

\* What follows an installed condition of a plan: "FalseSilent" is one with
\* status False that has neither a reason nor a message.
InstalledStatus == {"True", "False", "FalseSilent"}

\* Steps of a plan that are told apart: their status and whether they are CRDs.
Steps == [status : {"Unknown", "NotPresent", "Present"}, crd : BOOLEAN]

NotInstalled == {"Unknown", "NotPresent"}

(***************************************************************************)
(* Install plans                                                           *)
(***************************************************************************)
SaysNotInstalled(plan) == \E s \in plan.installed : s # "True"

IsFailed(plan) ==
    \/ plan.phase = "Failed"
    \/ SaysNotInstalled(plan)
    \/ \E s \in plan.steps : s.status \in NotInstalled

IsWaitingApproval(plan) == plan.phase = "RequiresApproval" /\ ~plan.approved

IsComplete(plan) == plan.phase = "Complete" /\ "True" \in plan.installed

ExtractRootCause(plan) ==
    [ missingCRDs |-> {s \in plan.steps : s.status \in NotInstalled /\ s.crd},
      unknown     |-> {s \in plan.steps : s.status = "Unknown"},
      notPresent  |-> {s \in plan.steps : s.status = "NotPresent"},
      raw         |-> "False" \in plan.installed ]

RootCauses ==
    [missingCRDs : SUBSET Steps, unknown : SUBSET Steps,
     notPresent : SUBSET Steps, raw : BOOLEAN]

(***************************************************************************)
(* Subscription and ClusterServiceVersion                                  *)
(***************************************************************************)
operatorFromSubscription(sub) ==
    [ kind |-> sub.kind, state |-> sub.state, ns |-> sub.ns, installedCSV |-> sub.installedCSV,
      currentCSV |-> sub.currentCSV, conditions |-> sub.conditions,
      planRef |-> sub.planRef, version |-> NoText, rootCause |-> {},
      faulty |-> FALSE, reason |-> {} ]

\* The version falls back on the name of the CSV, and the conditions of the
\* CSV join those of the subscription.
enrichOperatorFromCSV(op, csv) ==
    [op EXCEPT !.version = IF csv.version # NoText THEN csv.version ELSE op.installedCSV,
               !.conditions = @ \cup csv.conditions]

Holds(op, type) == \E c \in op.conditions : c.type = type /\ c.status = "True"

CatalogUnhealthy(op) == Holds(op, "CatalogSourcesUnhealthy")

NeedsInstallPlanCheck(op) ==
    \/ op.state = "UpgradePending"
    \/ \E c \in op.conditions : c.reason \in {"RequirementsNotMet", "InstallPlanFailed"}

UnresolvedInstall(op) ==
    Holds(op, "ResolutionFailed") /\ (op.installedCSV = NoText \/ op.state = NoText)

\* Mutant of planToRead: the plan is read whatever state and reference say.
planToRead_Always(op, plan) == plan

\* The plan isFaulty reads: the one the reference names, if it looks for it
\* and if the file is there and can be read.
planToRead(op, plan) == IF NeedsInstallPlanCheck(op) /\ op.planRef THEN plan ELSE {}

(***************************************************************************)
(* isFaulty returns its verdict and changes the operator on the way: the   *)
(* operator after the call, with the verdict in field faulty.              *)
(***************************************************************************)
isFaulty(op, plan) ==
    LET read == planToRead(op, plan)
        failed == {p \in read : IsFailed(p)}
    IN  IF op.state = "Failed" \/ CatalogUnhealthy(op)
        THEN [op EXCEPT !.faulty = TRUE]
        ELSE IF failed # {}
        THEN [op EXCEPT !.faulty = TRUE, !.rootCause = {ExtractRootCause(p) : p \in failed}]
        ELSE IF \E p \in read : IsWaitingApproval(p) \/ IsComplete(p)
        THEN [op EXCEPT !.faulty = FALSE]
        ELSE IF UnresolvedInstall(op)
        THEN [op EXCEPT !.faulty = TRUE,
                        !.reason = IF @ = {} THEN {"ResolutionFailed"} ELSE @]
        ELSE [op EXCEPT !.faulty = FALSE]

Unknown == {"Unknown failure"}

\* Mutant of CauseParts: the message of the plan's condition is left out.
CauseParts_NoRaw(cause) ==
    {part \in {"Missing CRDs", "Unknown resources", "Not present"} :
        \/ part = "Missing CRDs" /\ cause.missingCRDs # {}
        \/ part = "Unknown resources" /\ cause.unknown # {}
        \/ part = "Not present" /\ cause.notPresent # {}}

CauseParts(cause) ==
    {part \in {"Missing CRDs", "Unknown resources", "Not present", "Raw"} :
        \/ part = "Missing CRDs" /\ cause.missingCRDs # {}
        \/ part = "Unknown resources" /\ cause.unknown # {}
        \/ part = "Not present" /\ cause.notPresent # {}
        \/ part = "Raw" /\ cause.raw}

\* Mutant of StateParts: the state itself is the reason.
StateParts_Raw(op) == {op.state}

StateParts(op) ==
    {part \in {"Upgrade pending", "Subscription failed", "RequirementsNotMet"} :
        \/ part = "Upgrade pending" /\ op.state = "UpgradePending"
        \/ part = "Subscription failed" /\ op.state = "Failed"
        \/ /\ part = "RequirementsNotMet"
           /\ \E c \in op.conditions : c.reason = "RequirementsNotMet"}

\* The reason is built anew: what isFaulty had put in it is not looked at.
buildFailureReason(op) ==
    LET parts == (IF CatalogUnhealthy(op) THEN {"CatalogSourcesUnhealthy"} ELSE {})
                 \cup (IF op.rootCause # {}
                       THEN UNION {CauseParts(c) : c \in op.rootCause}
                       ELSE StateParts(op))
    IN  IF parts = {} THEN Unknown ELSE parts

ReasonParts ==
    {"CatalogSourcesUnhealthy", "Missing CRDs", "Unknown resources", "Not present",
     "Raw", "Upgrade pending", "Subscription failed", "RequirementsNotMet",
     "ResolutionFailed"} \cup Unknown

(***************************************************************************)
(* Workloads.  A container says how often it restarted, why it waits ("" if *)
(* it does not) and the topics of its waiting message; a deployment or a   *)
(* pod whose file cannot be parsed is left out of what is read.            *)
(***************************************************************************)
Restarts(containers) ==
    LET upTo[i \in 0..Len(containers)] ==
            IF i = 0 THEN 0 ELSE upTo[i - 1] + containers[i].restarts
    IN  upTo[Len(containers)]

Waiting(containers) == {i \in DOMAIN containers : containers[i].waiting # NoText}

\* Mutant of Reported: the first waiting container is kept.
Reported_First(containers) ==
    {i \in Waiting(containers) : \A j \in Waiting(containers) : i <= j}

\* Each waiting container overwrites what the one before it left.
Reported(containers) ==
    {i \in Waiting(containers) : \A j \in Waiting(containers) : j <= i}

parsePodFile(pod) ==
    [ phase |-> pod.phase, ready |-> pod.ready, restarts |-> Restarts(pod.containers),
      waiting |-> {[reason |-> pod.containers[i].waiting,
                    topics |-> pod.containers[i].topics] : i \in Reported(pod.containers)} ]

parseDeploymentFile(dep) ==
    [ velero |-> dep.velero, replicas |-> dep.replicas, readyReplicas |-> dep.readyReplicas,
      available |-> dep.available = "True" ]

\* A file with a list keeps its warnings only; one with a single event keeps
\* it whatever its type.
parseEventsFile(file) ==
    IF file.list THEN {e \in file.events : e.type = "Warning"} ELSE file.events

ParseWorkloads(files) ==
    [ deployments |-> {parseDeploymentFile(d) : d \in files.deployments},
      pods        |-> {parsePodFile(p) : p \in files.pods},
      events      |-> UNION {parseEventsFile(f) : f \in files.events} ]
=============================================================================
