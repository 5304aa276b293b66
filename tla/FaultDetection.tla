--------------------------- MODULE FaultDetection ---------------------------
(***************************************************************************)
(* One operator of a must-gather on its way through the analysis: its      *)
(* subscription is read, enriched from its ServiceVersion, judged, given a *)
(* reason, checked along the health dimensions, and filtered for noise; the *)
(* statuses written to the session and to the database come out of all of  *)
(* these.  Every step may find its file missing or unreadable.             *)
(*                                                                         *)
(* internal/mustgather, internal/healthcheck, internal/noise and the parts *)
(* of internal/analysis that call them.                                    *)
(***************************************************************************)
EXTENDS NoiseFilter

CONSTANTS
    Subscriptions, \* what the subscription of the operator may say
    CSVs,          \* what its ServiceVersion may say
    Plans,         \* what its install plan may say
    WorkloadFiles  \* what the files of its namespace may say

Conditions ==
    [type : Texts, status : Texts, reason : Texts, topics : SUBSET Texts]

\* The two states that are not from OLM are given to operators that have no
\* subscription, and these have nothing else (analyze.go).
ASSUME InputAssumption ==
    /\ Subscriptions \subseteq
          [kind : Texts, state : Texts, ns : BOOLEAN, currentCSV : Texts,
           installedCSV : Texts, conditions : SUBSET Conditions, planRef : BOOLEAN]
    /\ \A sub \in Subscriptions :
          sub.state \in NotInstalledState => sub.installedCSV = NoText /\ sub.conditions = {}
    /\ CSVs \subseteq [version : Texts, conditions : SUBSET Conditions]
    /\ Plans \subseteq [phase : Texts, approved : BOOLEAN,
                        installed : SUBSET InstalledStatus, steps : SUBSET Steps]
    /\ \A files \in WorkloadFiles : \A p \in files.pods :
          p.containers \in Seq([waiting : Texts, restarts : Nat, topics : SUBSET Texts])

VARIABLES
    pc,      \* the step that is next
    op,      \* the operator, as far as it is known
    plan,    \* the install plan of the must-gather: at most one
    report,  \* the health report: none before the checks
    noise,   \* the noise report: none before the filter
    status   \* what is written to the session and to the database

vars == <<pc, op, plan, report, noise, status>>

Steps_ == {"csv", "fault", "reason", "health", "filter", "record", "done"}

\* The must-gather has a subscription; whether it also has the plan its
\* reference names is seen when the plan is looked for.
Init ==
    /\ pc = "csv"
    /\ \E sub \in Subscriptions : op = operatorFromSubscription(sub)
    /\ plan \in {{}} \cup {{p} : p \in Plans}
    /\ report = {} /\ noise = {}
    /\ status = [session |-> "none", run |-> "none"]

\* No CSV installed, its file missing or not to be parsed: nothing is added.
SkipCSV ==
    /\ pc = "csv"
    /\ pc' = "fault"
    /\ UNCHANGED <<op, plan, report, noise, status>>

ReadCSV ==
    /\ pc = "csv"
    /\ op.installedCSV # NoText
    /\ \E csv \in CSVs : op' = enrichOperatorFromCSV(op, csv)
    /\ pc' = "fault"
    /\ UNCHANGED <<plan, report, noise, status>>

DetectFault ==
    /\ pc = "fault"
    /\ op' = isFaulty(op, plan)
    /\ pc' = "reason"
    /\ UNCHANGED <<plan, report, noise, status>>

BuildReason ==
    /\ pc = "reason"
    /\ op' = IF op.faulty THEN [op EXCEPT !.reason = buildFailureReason(op)] ELSE op
    /\ pc' = "health"
    /\ UNCHANGED <<plan, report, noise, status>>

Run ==
    /\ pc = "health"
    /\ \E files \in WorkloadFiles, managed \in BOOLEAN :
         report' = {Report(checkDimension(op, plan, ParseWorkloads(files), managed))}
    /\ pc' = "filter"
    /\ UNCHANGED <<op, plan, noise, status>>

FilterNoise ==
    /\ pc = "filter"
    /\ \E env \in Environments, r \in report :
         noise' = {[env |-> env, classes |-> Filter(env, r.dimensions)]}
    /\ pc' = "record"
    /\ UNCHANGED <<op, plan, report, status>>

\* Mutant of sessionStatus: only the findings decide.
sessionStatus_NoVerdict ==
    IF \E n \in noise : n.classes.real # {} THEN "failed"
    ELSE IF \E r \in report : r.warnings > 0 THEN "degraded"
    ELSE "healthy"

\* The session looks at the verdict and at the real findings, the database
\* at the verdict alone.
sessionStatus ==
    IF op.faulty \/ \E n \in noise : n.classes.real # {} THEN "failed"
    ELSE IF \E r \in report : r.warnings > 0 THEN "degraded"
    ELSE "healthy"

runStatus ==
    IF op.faulty THEN "failed"
    ELSE IF \E r \in report : r.warnings > 0 THEN "degraded"
    ELSE "healthy"

Record ==
    /\ pc = "record"
    /\ status' = [session |-> sessionStatus, run |-> runStatus]
    /\ pc' = "done"
    /\ UNCHANGED <<op, plan, report, noise>>

Done == pc = "done" /\ UNCHANGED vars

Next ==
    \/ SkipCSV \/ ReadCSV \/ DetectFault \/ BuildReason \/ Run
    \/ FilterNoise \/ Record \/ Done

Spec == Init /\ [][Next]_vars

-----------------------------------------------------------------------------
(***************************************************************************)
(* Properties                                                              *)
(***************************************************************************)

\* Every variable has its type.
TypeOK ==
    /\ pc \in Steps_
    /\ op.faulty \in BOOLEAN
    /\ op.rootCause \subseteq RootCauses /\ op.reason \subseteq ReasonParts
    /\ plan \in {{}} \cup {{p} : p \in Plans}
    /\ \A r \in report : DOMAIN r.dimensions = OLMDimensions
    /\ \A n \in noise : n.env \in Environments
    /\ status \in [session : {"none", "healthy", "degraded", "failed"},
                   run : {"none", "healthy", "degraded", "failed"}]

Judged == pc \notin {"csv", "fault"}
Reasoned == Judged /\ pc # "reason"

\* A root cause is found exactly when the failed plan decides the verdict: an
\* operator in state Failed or with an unhealthy catalog returns before its
\* plan is read, and a plan that did not fail leaves none.  What the cause
\* lists is what the plan could not install.
CauseComesFromDecidingPlan ==
    Judged =>
        /\ (op.rootCause # {}) <=>
              /\ op.state # "Failed" /\ ~CatalogUnhealthy(op)
              /\ NeedsInstallPlanCheck(op) /\ op.planRef
              /\ \E p \in plan : IsFailed(p)
        /\ op.rootCause # {} => op.faulty
        /\ \A c \in op.rootCause, p \in plan :
              /\ c.unknown \cup c.notPresent
                    = {s \in p.steps : s.status \in NotInstalled}
              /\ c.missingCRDs \subseteq c.unknown \cup c.notPresent

\* A faulty operator is left with "Unknown failure" in two cases only: its
\* packages do not resolve and nothing else is wrong (the message isFaulty
\* stored is overwritten), or its plan failed without saying anything.
UnknownOnlyWhenSilent ==
    Reasoned /\ op.reason = Unknown =>
        \/ UnresolvedInstall(op) /\ op.state # "UpgradePending" /\ op.rootCause = {}
        \/ \E p \in plan : /\ op.rootCause = {ExtractRootCause(p)}
                           /\ ~\E s \in p.steps : s.status \in NotInstalled
                           /\ "False" \notin p.installed

\* The verdict of isFaulty and the health dimensions come from different
\* code.  Still, in production an operator found faulty has a finding that
\* counts as a real issue, unless its plan is complete and failed at once.
FaultIsReported ==
    pc \in {"record", "done"} /\ op.faulty /\ ~(\E p \in plan : IsComplete(p)) =>
        \A n \in noise : n.env = "production" => n.classes.real # {}

\* The image pull dimension passes although a container cannot pull only if
\* another container of that pod waits too and comes after it.
PullFailureHiddenBehindAnother ==
    \A files \in WorkloadFiles :
        checkImagePull(ParseWorkloads(files)).status = "Pass" =>
            \A p \in files.pods : \A i \in DOMAIN p.containers :
                p.containers[i].waiting \in PullReasons =>
                    \E j \in Waiting(p.containers) : i < j

\* Session and database never contradict each other in the bad direction: a
\* run the database calls failed or degraded is not healthy in the session,
\* and only a real finding without a verdict makes them differ.
StatusesAgree ==
    pc = "done" =>
        /\ status.run = "failed" => status.session = "failed"
        /\ status.session = "healthy" => status.run = "healthy"
        /\ status.session # status.run =>
              ~op.faulty /\ \E n \in noise : n.classes.real # {}

\* What the comment in isFaulty says: plans that wait for approval are
\* ignored.  The steps of such a plan are not installed yet.
WaitingPlanIsNoFault ==
    Judged /\ op.rootCause # {} => \A p \in plan : ~IsWaitingApproval(p)
=============================================================================
