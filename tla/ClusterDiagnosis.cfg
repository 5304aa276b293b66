SPECIFICATION Spec
CONSTANTS
    Clusters <- MCClusters
    Readable <- MCReadable
    MaxChanges = 1
INVARIANTS
    TypeOK
    NoFalseAlarm
    PassNeedsData
    PromptAgrees
    SourcesAgree
