----------------------- MODULE FaultDetection_proofs -----------------------
(***************************************************************************)
(* The properties of FaultDetection for whatever subscriptions, service    *)
(* versions, install plans and workloads a must-gather holds.              *)
(*                                                                         *)
(* Verdict says where the verdict comes from, and is what the reason, the  *)
(* report and the noise filter are compared with, each in a part of the    *)
(* invariant of its own.                                                   *)
(***************************************************************************)
EXTENDS FaultDetection, TLAPS

OperatorStates ==
  [kind : Texts, state : Texts, ns : BOOLEAN, installedCSV : Texts, currentCSV : Texts,
   conditions : SUBSET Conditions, planRef : BOOLEAN, version : Texts,
   rootCause : SUBSET RootCauses, faulty : BOOLEAN, reason : SUBSET ReasonParts]

ReportStatuses == {"none", "healthy", "degraded", "failed"}

Typed ==
  /\ pc \in Steps_
  /\ op \in OperatorStates
  /\ plan \in {{}} \cup {{p} : p \in Plans}
  /\ status \in [session : ReportStatuses, run : ReportStatuses]

Bare(o) == o.state \in NotInstalledState => o.installedCSV = NoText /\ o.conditions = {}

\* What is known of a verdict v on an operator with this plan.
Deciding(v) ==
  /\ v.state # "Failed" /\ ~CatalogUnhealthy(v) /\ NeedsInstallPlanCheck(v) /\ v.planRef

Verdict(v) ==
  /\ v.rootCause # {} <=> Deciding(v) /\ \E p \in plan : IsFailed(p)
  /\ v.rootCause # {} => v.faulty /\ v.rootCause = {ExtractRootCause(p) : p \in plan}
  /\ v.faulty => \/ v.state = "Failed" \/ CatalogUnhealthy(v) \/ UnresolvedInstall(v)
                 \/ v.rootCause # {}

CertainFault == op.faulty /\ ~\E p \in plan : IsComplete(p)

Reports ==
  \A r \in report : /\ DOMAIN r.dimensions = OLMDimensions
                    /\ CertainFault => Findings(r.dimensions) # {}

Noises ==
  \A n \in noise : /\ n.env \in Environments
                   /\ CertainFault /\ n.env = "production" => n.classes.real # {}

IInv ==
  /\ Typed /\ Bare(op)
  /\ ~Judged => op.rootCause = {} /\ ~op.faulty /\ op.reason = {}
  /\ Judged  => Verdict(op)
  /\ pc = "reason" => op.faulty \/ op.reason = {}
  /\ UnknownOnlyWhenSilent
  /\ Reports /\ Noises
  /\ pc \in {"csv", "fault", "reason", "health"} => report = {}
  /\ pc \notin {"record", "done"} => noise = {}
  /\ pc = "done" => status = [session |-> sessionStatus, run |-> runStatus]
-----------------------------------------------------------------------------
(* The operator on its way.                                                *)

LEMMA SubscriptionTyped ==
  ASSUME NEW sub \in Subscriptions
  PROVE  /\ operatorFromSubscription(sub) \in OperatorStates
         /\ Bare(operatorFromSubscription(sub))
         /\ operatorFromSubscription(sub).rootCause = {}
         /\ ~operatorFromSubscription(sub).faulty
         /\ operatorFromSubscription(sub).reason = {}
<1> DEFINE o == operatorFromSubscription(sub)
<1>1. /\ sub.kind \in Texts /\ sub.state \in Texts /\ sub.ns \in BOOLEAN
      /\ sub.currentCSV \in Texts /\ sub.installedCSV \in Texts
      /\ sub.conditions \in SUBSET Conditions /\ sub.planRef \in BOOLEAN
      /\ sub.state \in NotInstalledState => sub.installedCSV = NoText /\ sub.conditions = {}
  BY InputAssumption
<1>2. o \in OperatorStates
  <2>1. NoText \in Texts
    BY DEF Texts
  <2> QED
    BY <1>1, <2>1 DEF operatorFromSubscription, OperatorStates
<1>3. /\ o.state = sub.state /\ o.installedCSV = sub.installedCSV
      /\ o.conditions = sub.conditions /\ o.rootCause = {} /\ ~o.faulty /\ o.reason = {}
  BY DEF operatorFromSubscription
<1> HIDE DEF o
<1>4. Bare(o)
  BY <1>1, <1>3 DEF Bare
<1> QED
  BY <1>2, <1>3, <1>4 DEF o

\* Only a named ServiceVersion is read, so that an operator without subscription stays bare.
LEMMA EnrichTyped ==
  ASSUME NEW o \in OperatorStates, Bare(o), o.installedCSV # NoText, NEW csv \in CSVs
  PROVE  LET e == enrichOperatorFromCSV(o, csv)
         IN  /\ e \in OperatorStates /\ Bare(e) /\ e.rootCause = o.rootCause
             /\ e.faulty = o.faulty /\ e.reason = o.reason
<1> DEFINE v == IF csv.version # NoText THEN csv.version ELSE o.installedCSV
           e == [o EXCEPT !.version = v, !.conditions = o.conditions \cup csv.conditions]
<1>1. v \in Texts /\ csv.conditions \in SUBSET Conditions
  BY InputAssumption DEF OperatorStates
<1>2. /\ e \in OperatorStates /\ e.rootCause = o.rootCause
      /\ e.faulty = o.faulty /\ e.reason = o.reason
      /\ e.state = o.state
  <2> HIDE DEF v
  <2> QED
    BY <1>1 DEF OperatorStates
<1>3. Bare(e)
  BY <1>2 DEF Bare
<1>4. enrichOperatorFromCSV(o, csv) = e
  BY DEF enrichOperatorFromCSV
<1> HIDE DEF e
<1> QED
  BY <1>2, <1>3, <1>4

\* What isFaulty and BuildReason leave alone decides the verdict.
SameFacts(o, v) ==
  /\ v.kind = o.kind /\ v.state = o.state /\ v.installedCSV = o.installedCSV
  /\ v.currentCSV = o.currentCSV /\ v.conditions = o.conditions /\ v.planRef = o.planRef

LEMMA SameFactsDecide ==
  ASSUME NEW o, NEW v, SameFacts(o, v)
  PROVE  /\ CatalogUnhealthy(v) <=> CatalogUnhealthy(o)
         /\ NeedsInstallPlanCheck(v) <=> NeedsInstallPlanCheck(o)
         /\ UnresolvedInstall(v) <=> UnresolvedInstall(o)
         /\ Bare(o) => Bare(v)
         /\ Deciding(v) <=> Deciding(o)
<1>1. \A type : Holds(v, type) <=> Holds(o, type)
  BY DEF SameFacts, Holds
<1>2. /\ CatalogUnhealthy(v) <=> CatalogUnhealthy(o)
      /\ UnresolvedInstall(v) <=> UnresolvedInstall(o)
  BY <1>1 DEF SameFacts, CatalogUnhealthy, UnresolvedInstall
<1>3. NeedsInstallPlanCheck(v) <=> NeedsInstallPlanCheck(o)
  BY DEF SameFacts, NeedsInstallPlanCheck
<1> QED
  BY <1>2, <1>3 DEF SameFacts, Bare, Deciding

LEMMA CauseTyped ==
  ASSUME NEW p \in Plans
  PROVE  ExtractRootCause(p) \in RootCauses
BY InputAssumption DEF ExtractRootCause, RootCauses

\* isFaulty leaves the operator as it was but for the verdict, the cause and a reason.
LEMMA VerdictFound ==
  ASSUME Typed, Bare(op), op.rootCause = {}, ~op.faulty, op.reason = {}
  PROVE  LET v == isFaulty(op, plan)
         IN  /\ v \in OperatorStates /\ Bare(v) /\ Verdict(v)
             /\ v.faulty \/ v.reason = {}
<1> DEFINE read == planToRead(op, plan)
           failed == {p \in read : IsFailed(p)}
           causes == {ExtractRootCause(p) : p \in failed}
           v == isFaulty(op, plan)
<1>1. op \in OperatorStates /\ plan \in {{}} \cup {{p} : p \in Plans}
  BY DEF Typed
<1>2. failed \subseteq plan /\ causes \in SUBSET RootCauses
  <2>1. failed \subseteq plan /\ plan \subseteq Plans
    BY <1>1 DEF planToRead
  <2> QED
    BY <2>1, CauseTyped
<1>3. {"ResolutionFailed"} \in SUBSET ReasonParts
  BY DEF ReasonParts
<1>4. /\ failed # {} <=> NeedsInstallPlanCheck(op) /\ op.planRef /\ \E p \in plan : IsFailed(p)
      /\ failed # {} => causes # {} /\ causes = {ExtractRootCause(p) : p \in plan}
  <2>1. failed # {} => failed = plan
    BY <1>1 DEF planToRead
  <2> QED
    BY <2>1 DEF planToRead
<1>5. CASE op.state = "Failed" \/ CatalogUnhealthy(op)
  <2>1. v = [op EXCEPT !.faulty = TRUE]
    BY <1>5 DEF isFaulty
  <2>2. v \in OperatorStates /\ SameFacts(op, v) /\ v.faulty /\ v.rootCause = op.rootCause
    BY <1>1, <2>1 DEF OperatorStates, SameFacts
  <2> HIDE DEF v
  <2>3. v.state = op.state /\ (CatalogUnhealthy(v) <=> CatalogUnhealthy(op)) /\ Bare(v)
    BY <2>2, SameFactsDecide DEF SameFacts
  <2> QED
    BY <1>5, <2>2, <2>3 DEF Verdict, Deciding, v
<1>6. CASE ~(op.state = "Failed" \/ CatalogUnhealthy(op)) /\ failed # {}
  <2>1. v = [op EXCEPT !.faulty = TRUE, !.rootCause = causes]
    BY <1>6 DEF isFaulty
  <2>2. v \in OperatorStates /\ SameFacts(op, v) /\ v.faulty /\ v.rootCause = causes
    <3> HIDE DEF causes
    <3> QED
      BY <1>1, <1>2, <2>1 DEF OperatorStates, SameFacts
  <2> HIDE DEF v, failed, causes
  <2>3. Deciding(op) /\ \E p \in plan : IsFailed(p)
    BY <1>4, <1>6 DEF Deciding
  <2>4. Deciding(v) /\ Bare(v)
    BY <2>2, <2>3, SameFactsDecide
  <2> QED
    BY <1>4, <1>6, <2>2, <2>3, <2>4 DEF Verdict, v
<1>7. CASE ~(op.state = "Failed" \/ CatalogUnhealthy(op)) /\ failed = {}
  <2>1. \/ v = [op EXCEPT !.faulty = FALSE]
        \/ UnresolvedInstall(op) /\ v = [op EXCEPT !.faulty = TRUE, !.reason = {"ResolutionFailed"}]
    BY <1>7 DEF isFaulty
  <2>2. /\ v \in OperatorStates /\ SameFacts(op, v) /\ v.rootCause = {}
        /\ v.faulty => UnresolvedInstall(op)
        /\ v.faulty \/ v.reason = {}
    <3>1. CASE v = [op EXCEPT !.faulty = FALSE]
      BY <1>1, <3>1 DEF OperatorStates, SameFacts
    <3>2. CASE UnresolvedInstall(op) /\ v = [op EXCEPT !.faulty = TRUE, !.reason = {"ResolutionFailed"}]
      BY <1>1, <1>3, <3>2 DEF OperatorStates, SameFacts
    <3> QED
      BY <2>1, <3>1, <3>2
  <2> HIDE DEF v, failed
  <2>3. ~(Deciding(op) /\ \E p \in plan : IsFailed(p))
    BY <1>4, <1>7 DEF Deciding
  <2>4. /\ Deciding(v) <=> Deciding(op)
        /\ UnresolvedInstall(v) <=> UnresolvedInstall(op)
        /\ Bare(v)
    BY <2>2, SameFactsDecide
  <2> QED
    BY <2>2, <2>3, <2>4 DEF Verdict, v
<1> QED
  BY <1>5, <1>6, <1>7
-----------------------------------------------------------------------------
(* The reason, the report and the noise.                                   *)

\* The literals that a text is compared with are not the empty one.
LEMMA TextsDiffer ==
  /\ NoText # "Failed" /\ NoText # "AtLatestKnown" /\ NoText # "NotFound"
  /\ NoText # "ClusterConfig" /\ NoText # "ImagePullBackOff" /\ NoText # "ErrImagePull"
BY Zenon DEF NoText

\* A message is stored by isFaulty and overwritten by buildFailureReason: what is
\* left without a part is an operator whose state and conditions say nothing.
LEMMA ReasonFound ==
  ASSUME Typed, Verdict(op), op.faulty
  PROVE  LET r == buildFailureReason(op)
         IN  /\ r \in SUBSET ReasonParts
             /\ r = Unknown =>
                  \/ UnresolvedInstall(op) /\ op.state # "UpgradePending" /\ op.rootCause = {}
                  \/ \E p \in plan : /\ op.rootCause = {ExtractRootCause(p)}
                                     /\ ~\E s \in p.steps : s.status \in NotInstalled
                                     /\ "False" \notin p.installed
<1> DEFINE catalog == IF CatalogUnhealthy(op) THEN {"CatalogSourcesUnhealthy"} ELSE {}
           rest == IF op.rootCause # {} THEN UNION {CauseParts(c) : c \in op.rootCause}
                                        ELSE StateParts(op)
           parts == catalog \cup rest
           r == buildFailureReason(op)
<1>1. r = IF parts = {} THEN Unknown ELSE parts
  BY DEF buildFailureReason
<1>2. "Unknown failure" \notin parts /\ parts \subseteq ReasonParts
  <2>1. \A c : CauseParts(c) \subseteq {"Missing CRDs", "Unknown resources", "Not present", "Raw"}
    BY DEF CauseParts
  <2>2. StateParts(op) \subseteq {"Upgrade pending", "Subscription failed", "RequirementsNotMet"}
    BY DEF StateParts
  <2>3. rest \subseteq {"Missing CRDs", "Unknown resources", "Not present", "Raw",
                       "Upgrade pending", "Subscription failed", "RequirementsNotMet"}
    BY <2>1, <2>2
  <2> QED
    BY <2>3 DEF ReasonParts
<1>3. r \in SUBSET ReasonParts
  BY <1>1, <1>2 DEF ReasonParts, Unknown
<1>4. ASSUME r = Unknown
      PROVE  \/ UnresolvedInstall(op) /\ op.state # "UpgradePending" /\ op.rootCause = {}
             \/ \E p \in plan : /\ op.rootCause = {ExtractRootCause(p)}
                                /\ ~\E s \in p.steps : s.status \in NotInstalled
                                /\ "False" \notin p.installed
  <2>1. parts = {}
    BY <1>1, <1>2, <1>4 DEF Unknown
  <2>2. ~CatalogUnhealthy(op) /\ rest = {}
    BY <2>1
  <2>3. CASE op.rootCause = {}
    <3>1. StateParts(op) = {}
      BY <2>2, <2>3
    <3>2. op.state # "UpgradePending" /\ op.state # "Failed"
      BY <3>1 DEF StateParts
    <3> QED
      BY <2>2, <2>3, <3>2 DEF Verdict
  <2>4. CASE op.rootCause # {}
    <3>1. op.rootCause = {ExtractRootCause(p) : p \in plan}
      BY <2>4 DEF Verdict
    <3>2. PICK p \in plan : plan = {p}
      BY <2>4, <3>1 DEF Typed
    <3>3. op.rootCause = {ExtractRootCause(p)}
      BY <3>1, <3>2
    <3>4. CauseParts(ExtractRootCause(p)) = {}
      BY <2>2, <2>4, <3>3
    <3>5. /\ ExtractRootCause(p).unknown = {} /\ ExtractRootCause(p).notPresent = {}
          /\ ~ExtractRootCause(p).raw
      BY <3>4 DEF CauseParts
    <3>6. /\ ~\E s \in p.steps : s.status \in NotInstalled
          /\ "False" \notin p.installed
      BY <3>5 DEF ExtractRootCause, NotInstalled
    <3> QED
      BY <3>2, <3>3, <3>6
  <2> QED
    BY <2>3, <2>4
<1> QED
  BY <1>3, <1>4

\* A certain fault shows in the dimension of what caused it.
LEMMA FaultShows ==
  ASSUME Typed, Bare(op), Verdict(op), CertainFault, NEW wl, NEW managed \in BOOLEAN
  PROVE  Findings(checkDimension(op, plan, wl, managed)) # {}
<1> DEFINE dims == checkDimension(op, plan, wl, managed)
           Found(d) == d \in DOMAIN dims /\ dims[d].status \notin {"Pass", "Skip"}
<1> SUFFICES Findings(dims) # {}
  OBVIOUS
<1>0. \A d : Found(d) => Findings(dims) # {}
  BY DEF Findings
<1>1. /\ \A t : Fail(t).status = "Fail" /\ Warn(t).status = "Warn"
      /\ \A s, t : Result("Unknown", s, t).status = "Unknown"
  BY DEF Fail, Warn, Result
<1>2. /\ "catalog_source" \in DOMAIN dims /\ dims["catalog_source"] = checkCatalogSource(op)
      /\ "catalog_subscription" \in DOMAIN dims
      /\ dims["catalog_subscription"] = checkSubscription(op)
      /\ "install_plan" \in DOMAIN dims /\ dims["install_plan"] = checkInstallPlan(op, plan)
  BY DEF checkDimension
<1> HIDE DEF dims
<1>3. CASE CatalogUnhealthy(op)
  <2>1. checkCatalogSource(op).status = "Fail"
    BY <1>1, <1>3 DEF checkCatalogSource, CatalogUnhealthy, Holds
  <2> QED
    BY <1>0, <1>2, <2>1
<1>4. CASE op.state = "Failed"
  <2>1. checkSubscription(op).status = "Fail"
    BY <1>1, <1>4 DEF checkSubscription, NotInstalledState
  <2> QED
    BY <1>0, <1>2, <2>1
<1>5. CASE UnresolvedInstall(op)
  <2>1. op.state \notin NotInstalledState
    BY <1>5 DEF Bare, UnresolvedInstall, Holds
  <2>2. CASE op.installedCSV = NoText
    <3>1. checkSubscription(op).status = "Fail"
      BY <1>1, <1>5, <2>1, <2>2 DEF checkSubscription, UnresolvedInstall, Holds
    <3> QED
      BY <1>0, <1>2, <3>1
  <2>3. CASE op.installedCSV # NoText /\ op.state = NoText
    <3>1. checkSubscription(op).status \in {"Warn", "Fail"}
      BY <1>1, <2>1, <2>3, TextsDiffer DEF checkSubscription
    <3> QED
      BY <1>0, <1>2, <3>1
  <2> QED
    BY <1>5, <2>2, <2>3 DEF UnresolvedInstall
<1>6. CASE op.rootCause # {}
  <2>1. op.planRef /\ plan # {} /\ \A p \in plan : ~IsComplete(p)
    BY <1>6 DEF Verdict, Deciding, CertainFault
  <2>2. PICK p : plan = {p}
    BY <2>1 DEF Typed
  <2>3. IsFailed(p)
    BY <1>6, <2>2 DEF Verdict
  <2>4. (CHOOSE q \in plan : TRUE) = p
    BY <2>2
  <2>5. checkInstallPlan(op, plan).status \in {"Warn", "Fail"}
    BY <1>1, <2>1, <2>2, <2>3, <2>4 DEF checkInstallPlan
  <2> QED
    BY <1>0, <1>2, <2>5
<1> QED
  BY <1>3, <1>4, <1>5, <1>6 DEF Verdict, CertainFault

\* No topic is noise in production, and no finding is ambiguous there.
LEMMA ProductionIsReal ==
  ASSUME NEW dims
  PROVE  Filter("production", dims).real = Findings(dims)
<1>1. \A r : Classify("production", r) = "real"
  <2> DEFINE Kinds == {"kvm", "lab", "disconnected"}
  <2>1. \A t \in DOMAIN noiseRules : noiseRules[t] \subseteq Kinds
    BY DEF noiseRules
  <2>2. \A topics : ~matchNoise("production", topics)
    BY <2>1 DEF matchNoise, envMatches
  <2> QED
    BY <2>2 DEF Classify
<1> QED
  BY <1>1 DEF Filter
-----------------------------------------------------------------------------
(* The steps.                                                              *)

LEMMA Starts == Init => IInv
<1> SUFFICES ASSUME Init PROVE IInv
  OBVIOUS
<1>1. PICK sub \in Subscriptions : op = operatorFromSubscription(sub)
  BY DEF Init
<1>2. op \in OperatorStates /\ Bare(op) /\ op.rootCause = {} /\ ~op.faulty /\ op.reason = {}
  BY <1>1, SubscriptionTyped
<1>3. Typed
  BY <1>2 DEF Init, Typed, Steps_, ReportStatuses
<1> QED
  BY <1>2, <1>3 DEF Init, IInv, Judged, Reasoned, UnknownOnlyWhenSilent, Reports, Noises

LEMMA SkipCSVStep == IInv /\ SkipCSV => IInv'
<1> SUFFICES ASSUME IInv, SkipCSV PROVE IInv'
  OBVIOUS
<1>1. Typed' /\ Bare(op)'
  BY DEF IInv, SkipCSV, Typed, Steps_, Bare
<1> QED
  BY <1>1 DEF IInv, SkipCSV, Judged, Reasoned, UnknownOnlyWhenSilent, Reports, Noises

LEMMA ReadCSVStep == IInv /\ ReadCSV => IInv'
<1> SUFFICES ASSUME IInv, ReadCSV PROVE IInv'
  OBVIOUS
<1>1. PICK csv \in CSVs : op' = enrichOperatorFromCSV(op, csv)
  BY DEF ReadCSV
<1>2. /\ op' \in OperatorStates /\ Bare(op)' /\ op'.rootCause = {} /\ ~op'.faulty
      /\ op'.reason = {}
  <2>1. op \in OperatorStates /\ Bare(op) /\ op.installedCSV # NoText
    BY DEF IInv, Typed, ReadCSV
  <2>2. op.rootCause = {} /\ ~op.faulty /\ op.reason = {}
    BY DEF IInv, ReadCSV, Judged
  <2> QED
    BY <1>1, <2>1, <2>2, EnrichTyped DEF Bare
<1>3. Typed'
  BY <1>2 DEF IInv, ReadCSV, Typed, Steps_
<1> QED
  BY <1>2, <1>3 DEF IInv, ReadCSV, Judged, Reasoned, UnknownOnlyWhenSilent, Reports, Noises

LEMMA DetectFaultStep == IInv /\ DetectFault => IInv'
<1> SUFFICES ASSUME IInv, DetectFault PROVE IInv'
  OBVIOUS
<1>1. /\ isFaulty(op, plan) \in OperatorStates /\ Bare(isFaulty(op, plan))
      /\ Verdict(isFaulty(op, plan))
      /\ isFaulty(op, plan).faulty \/ isFaulty(op, plan).reason = {}
  BY VerdictFound DEF IInv, DetectFault, Judged
<1>2. /\ op' = isFaulty(op, plan) /\ plan' = plan
      /\ op' \in OperatorStates
      /\ op'.faulty \/ op'.reason = {}
  BY <1>1 DEF DetectFault
<1>3. Bare(op)' /\ Verdict(op)'
  BY <1>1, <1>2 DEF Bare, Verdict, Deciding, CatalogUnhealthy, NeedsInstallPlanCheck,
                    UnresolvedInstall, Holds
<1>4. Typed'
  BY <1>2 DEF IInv, DetectFault, Typed, Steps_
<1> QED
  BY <1>2, <1>3, <1>4 DEF IInv, DetectFault, Judged, Reasoned, UnknownOnlyWhenSilent,
                          Reports, Noises

\* Only the reason of a faulty operator changes.
LEMMA BuildReasonStep == IInv /\ BuildReason => IInv'
<1> SUFFICES ASSUME IInv, BuildReason PROVE IInv'
  OBVIOUS
<1>1. Typed /\ Bare(op) /\ Verdict(op) /\ op \in OperatorStates
  BY DEF IInv, BuildReason, Judged, Typed
<1> DEFINE r == IF op.faulty THEN buildFailureReason(op) ELSE op.reason
<1>2. /\ op' = [op EXCEPT !.reason = r] /\ r \in SUBSET ReasonParts
      /\ ~op.faulty => r = {}
  <2>1. CASE op.faulty
    BY <1>1, <2>1, ReasonFound DEF BuildReason
  <2>2. CASE ~op.faulty
    BY <1>1, <2>2 DEF BuildReason, OperatorStates, IInv
  <2> QED
    BY <2>1, <2>2
<1>3. r = Unknown =>
         \/ UnresolvedInstall(op) /\ op.state # "UpgradePending" /\ op.rootCause = {}
         \/ \E p \in plan : /\ op.rootCause = {ExtractRootCause(p)}
                            /\ ~\E s \in p.steps : s.status \in NotInstalled
                            /\ "False" \notin p.installed
  BY <1>1, <1>2, ReasonFound DEF Unknown
<1> HIDE DEF r
<1>4. /\ op' \in OperatorStates /\ SameFacts(op, op') /\ op'.reason = r
      /\ op'.rootCause = op.rootCause /\ op'.faulty = op.faulty
  BY <1>1, <1>2 DEF OperatorStates, SameFacts
<1>5. /\ CatalogUnhealthy(op') <=> CatalogUnhealthy(op)
      /\ UnresolvedInstall(op') <=> UnresolvedInstall(op)
      /\ Deciding(op') <=> Deciding(op)
      /\ Bare(op') /\ op'.state = op.state /\ plan' = plan
  BY <1>1, <1>4, SameFactsDecide DEF SameFacts, BuildReason
<1>6. Bare(op)' /\ Verdict(op)'
  <2>1. Bare(op)'
    BY <1>5 DEF Bare
  <2>2. Deciding(op)' <=> Deciding(op)
    BY <1>5 DEF Deciding, CatalogUnhealthy, NeedsInstallPlanCheck, Holds
  <2>3. /\ CatalogUnhealthy(op)' <=> CatalogUnhealthy(op)
        /\ UnresolvedInstall(op)' <=> UnresolvedInstall(op)
    BY <1>5 DEF UnresolvedInstall, CatalogUnhealthy, Holds
  <2> QED
    BY <1>1, <1>4, <1>5, <2>1, <2>2, <2>3 DEF Verdict
<1>7. UnknownOnlyWhenSilent'
  <2>1. UnresolvedInstall(op)' <=> UnresolvedInstall(op)
    BY <1>5 DEF UnresolvedInstall, Holds
  <2> QED
    BY <1>3, <1>4, <1>5, <2>1 DEF UnknownOnlyWhenSilent
<1>8. Typed'
  BY <1>1, <1>4 DEF IInv, BuildReason, Typed, Steps_
<1> QED
  BY <1>6, <1>7, <1>8 DEF IInv, BuildReason, Judged, Reports, Noises

\* From here on the operator and its plan stay as they are.
LEMMA JudgedStays ==
  ASSUME IInv, pc \in {"health", "filter", "record", "done"},
         pc' \in {"health", "filter", "record", "done"},
         UNCHANGED <<op, plan>>, status' \in [session : ReportStatuses, run : ReportStatuses]
  PROVE  /\ Typed' /\ Bare(op)' /\ Verdict(op)' /\ UnknownOnlyWhenSilent'
         /\ CertainFault' <=> CertainFault
<1>1. Typed' /\ Bare(op)' /\ (CertainFault' <=> CertainFault)
  BY DEF IInv, Typed, Steps_, Bare, CertainFault
<1>2. Verdict(op)'
  BY DEF IInv, Judged, Verdict, Deciding, CatalogUnhealthy, NeedsInstallPlanCheck,
         UnresolvedInstall, Holds
<1>3. UnknownOnlyWhenSilent'
  BY DEF IInv, UnknownOnlyWhenSilent, Judged, Reasoned, UnresolvedInstall, Holds
<1> QED
  BY <1>1, <1>2, <1>3

LEMMA RunStep == IInv /\ Run => IInv'
<1> SUFFICES ASSUME IInv, Run PROVE IInv'
  OBVIOUS
<1>1. Typed' /\ Bare(op)' /\ Verdict(op)' /\ UnknownOnlyWhenSilent' /\ (CertainFault' <=> CertainFault)
  BY JudgedStays DEF IInv, Typed, Run
<1>2. PICK files \in WorkloadFiles, managed \in BOOLEAN :
         report' = {Report(checkDimension(op, plan, ParseWorkloads(files), managed))}
  BY DEF Run
<1> DEFINE dims == checkDimension(op, plan, ParseWorkloads(files), managed)
<1>3. DOMAIN dims = OLMDimensions /\ (CertainFault => Findings(dims) # {})
  <2>1. DOMAIN dims = OLMDimensions
    BY DEF checkDimension, OLMDimensions
  <2>2. CertainFault => Findings(dims) # {}
    BY FaultShows DEF IInv, Judged, Run
  <2> QED
    BY <2>1, <2>2
<1> HIDE DEF dims
<1>4. Reports'
  <2>1. report' = {Report(dims)} /\ Report(dims).dimensions = dims
    BY <1>2 DEF dims, Report
  <2> QED
    BY <1>1, <1>3, <2>1 DEF Reports
<1> QED
  BY <1>1, <1>4 DEF IInv, Run, Judged, Noises

LEMMA FilterNoiseStep == IInv /\ FilterNoise => IInv'
<1> SUFFICES ASSUME IInv, FilterNoise PROVE IInv'
  OBVIOUS
<1>1. Typed' /\ Bare(op)' /\ Verdict(op)' /\ UnknownOnlyWhenSilent' /\ (CertainFault' <=> CertainFault)
  BY JudgedStays DEF IInv, Typed, FilterNoise
<1>2. PICK env \in Environments, r \in report :
         noise' = {[env |-> env, classes |-> Filter(env, r.dimensions)]}
  BY DEF FilterNoise
<1>3. CertainFault /\ env = "production" => Filter(env, r.dimensions).real # {}
  BY ProductionIsReal DEF IInv, Reports
<1>4. Noises'
  BY <1>1, <1>2, <1>3 DEF Noises
<1>5. Reports'
  BY <1>1 DEF IInv, FilterNoise, Reports
<1> QED
  BY <1>1, <1>4, <1>5 DEF IInv, FilterNoise, Judged

LEMMA RecordStep == IInv /\ Record => IInv'
<1> SUFFICES ASSUME IInv, Record PROVE IInv'
  OBVIOUS
<1>1. status' = [session |-> sessionStatus, run |-> runStatus]
  BY DEF Record
<1>2. status' \in [session : ReportStatuses, run : ReportStatuses]
  BY <1>1 DEF sessionStatus, runStatus, ReportStatuses
<1>3. Typed' /\ Bare(op)' /\ Verdict(op)' /\ UnknownOnlyWhenSilent' /\ (CertainFault' <=> CertainFault)
  BY <1>2, JudgedStays DEF Record
<1>4. Reports' /\ Noises'
  BY <1>3 DEF IInv, Record, Reports, Noises
<1>5. status' = [session |-> sessionStatus', run |-> runStatus']
  BY <1>1 DEF Record, sessionStatus, runStatus
<1> QED
  BY <1>3, <1>4, <1>5 DEF IInv, Record, Judged

LEMMA Stutters == IInv /\ UNCHANGED vars => IInv'
<1> SUFFICES ASSUME IInv, UNCHANGED vars PROVE IInv'
  OBVIOUS
<1>1. Typed' /\ Bare(op)' /\ (CertainFault' <=> CertainFault)
  BY DEF IInv, vars, Typed, Bare, CertainFault
<1>2. Judged => Verdict(op)'
  BY DEF IInv, vars, Judged, Verdict, Deciding, CatalogUnhealthy, NeedsInstallPlanCheck,
         UnresolvedInstall, Holds
<1>3. UnknownOnlyWhenSilent'
  BY DEF IInv, vars, UnknownOnlyWhenSilent, Judged, Reasoned, UnresolvedInstall, Holds
<1>4. Reports' /\ Noises'
  BY <1>1 DEF IInv, vars, Reports, Noises
<1>5. sessionStatus' = sessionStatus /\ runStatus' = runStatus
  BY DEF vars, sessionStatus, runStatus
<1> QED
  BY <1>1, <1>2, <1>3, <1>4, <1>5 DEF IInv, vars, Judged

\* Whatever the must-gather holds, the inductive invariant holds in every state.
THEOREM Invariant == Spec => []IInv
<1>1. IInv /\ [Next]_vars => IInv'
  BY SkipCSVStep, ReadCSVStep, DetectFaultStep, BuildReasonStep, RunStep, FilterNoiseStep,
     RecordStep, Stutters DEF Next, Done
<1> QED
  BY Starts, <1>1, PTL DEF Spec
-----------------------------------------------------------------------------
(* The properties.                                                         *)

\* Every variable has its type, and the reason is made of the known parts only.
THEOREM TypeCorrect == Spec => []TypeOK
<1>1. IInv => TypeOK
  <2> SUFFICES ASSUME IInv PROVE TypeOK
    OBVIOUS
  <2>1. /\ op.faulty \in BOOLEAN /\ op.rootCause \subseteq RootCauses
        /\ op.reason \subseteq ReasonParts
    BY DEF IInv, Typed, OperatorStates
  <2> QED
    BY <2>1 DEF IInv, Typed, TypeOK, Reports, Noises, ReportStatuses
<1> QED
  BY <1>1, Invariant, PTL

\* isFaulty extracts a root cause exactly when the failed plan decides.
THEOREM CauseFromPlan == Spec => []CauseComesFromDecidingPlan
<1>1. IInv => CauseComesFromDecidingPlan
  <2> SUFFICES ASSUME IInv, Judged PROVE CauseComesFromDecidingPlan
    BY DEF CauseComesFromDecidingPlan
  <2>1. Verdict(op)
    BY DEF IInv
  <2>2. ASSUME NEW c \in op.rootCause, NEW p \in plan
        PROVE  /\ c.unknown \cup c.notPresent = {s \in p.steps : s.status \in NotInstalled}
               /\ c.missingCRDs \subseteq c.unknown \cup c.notPresent
    <3>1. plan = {p}
      BY <2>2 DEF IInv, Typed
    <3>2. c = ExtractRootCause(p)
      BY <2>1, <2>2, <3>1 DEF Verdict
    <3> QED
      BY <3>2 DEF ExtractRootCause, NotInstalled
  <2> QED
    BY <2>1, <2>2 DEF CauseComesFromDecidingPlan, Verdict, Deciding
<1> QED
  BY <1>1, Invariant, PTL

\* "Unknown failure" is left in two cases only.
THEOREM UnknownIsSilent == Spec => []UnknownOnlyWhenSilent
<1>1. IInv => UnknownOnlyWhenSilent
  BY DEF IInv
<1> QED
  BY <1>1, Invariant, PTL

\* In production a faulty operator has a real finding, unless its plan is complete.
THEOREM FaultReported == Spec => []FaultIsReported
<1>1. IInv => FaultIsReported
  BY DEF IInv, Noises, FaultIsReported, CertainFault
<1> QED
  BY <1>1, Invariant, PTL

\* The session and the database derive statuses that do not contradict each other.
THEOREM StatusesConsistent == Spec => []StatusesAgree
<1>1. IInv => StatusesAgree
  <2> SUFFICES ASSUME IInv, pc = "done" PROVE StatusesAgree
    BY DEF StatusesAgree
  <2>1. status.session = sessionStatus /\ status.run = runStatus
    BY DEF IInv
  <2> QED
    BY <2>1 DEF StatusesAgree, sessionStatus, runStatus
<1> QED
  BY <1>1, Invariant, PTL

\* A pod file keeps the reason of the last waiting container alone, so that a failed
\* pull is lost only to a container behind it, whatever the files of the namespace.
THEOREM PullHidden == Spec => []PullFailureHiddenBehindAnother
<1>1. PullFailureHiddenBehindAnother
  <2> SUFFICES ASSUME NEW files \in WorkloadFiles,
                      checkImagePull(ParseWorkloads(files)).status = "Pass",
                      NEW p \in files.pods, NEW i \in DOMAIN p.containers,
                      p.containers[i].waiting \in PullReasons
               PROVE  \E j \in Waiting(p.containers) : i < j
    BY DEF PullFailureHiddenBehindAnother
  <2>1. /\ DOMAIN p.containers \subseteq Int
        /\ Waiting(p.containers) \subseteq DOMAIN p.containers
    BY InputAssumption DEF Waiting
  <2>2. i \in Waiting(p.containers)
    BY TextsDiffer DEF Waiting, PullReasons
  <2>3. i \notin Reported(p.containers)
    <3> SUFFICES ASSUME i \in Reported(p.containers) PROVE FALSE
      OBVIOUS
    <3> DEFINE w == [reason |-> p.containers[i].waiting, topics |-> p.containers[i].topics]
               wl == ParseWorkloads(files)
    <3>1. w \in parsePodFile(p).waiting /\ w.reason \in PullReasons
      BY DEF parsePodFile
    <3>2. parsePodFile(p) \in wl.pods
      BY DEF ParseWorkloads
    <3> HIDE DEF w, wl
    <3>3. w \in {x \in UNION {q.waiting : q \in wl.pods} : x.reason \in PullReasons}
      BY <3>1, <3>2
    <3>4. \A t : Fail(t).status # "Pass"
      BY DEF Fail, Result
    <3> QED
      BY <3>3, <3>4 DEF checkImagePull, wl
  <2> QED
    BY <2>1, <2>2, <2>3 DEF Reported
<1> QED
  BY <1>1, PTL
=============================================================================
