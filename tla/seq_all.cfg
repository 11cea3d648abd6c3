SPECIFICATION FairSpec
CONSTANTS
    None = None
    NotApplicable = NotApplicable
    out1 = out1
    out2 = out2
    OutDirs = {out1}
    Effects <- MCEffects
    PreflightRequired = TRUE
    MaxProviderCalls = 4
    MaxTargetAttempts = 2
    MaxInvalidOutputs = 2
    MaxInvocations = 2
    Stops = {1, 2, 3, 4, 6}
CHECK_DEADLOCK FALSE
INVARIANTS
    TypeOK
    BudgetsHold
    OneContactPerDirectory
    ClosureMeansExecuted
    SubjectResultIsTrue
    CompletenessIgnoresOutcome
PROPERTIES
    NoRequestBeforeGates
    EvidenceIsKept
    EveryRunEnds
