SPECIFICATION Spec
CONSTANTS
    Registry <- MCRegistry
    Invocations <- MCInvocations
    Dumps <- MCDumps
    Glob <- MCGlob
    Index <- MCIndex
INVARIANTS
    TypeOK
    NoFaultIsSkipped
    MissingIsAccounted
    OutcomeIsRight
