SPECIFICATION Spec
CONSTANTS
    Subscriptions <- MCSubscriptions
    CSVs <- MCCSVs
    Plans <- MCPlans
    WorkloadFiles <- MCWorkloadFiles
INVARIANT WaitingPlanIsNoFault
