SPECIFICATION Spec
CONSTANTS
    Subscriptions <- MCSubscriptions
    CSVs <- MCCSVs
    Plans <- MCPlans
    WorkloadFiles <- MCWorkloadFiles
INVARIANTS
    TypeOK
    CauseComesFromDecidingPlan
    UnknownOnlyWhenSilent
    FaultIsReported
    PullFailureHiddenBehindAnother
    StatusesAgree
