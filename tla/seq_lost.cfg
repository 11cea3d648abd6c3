SPECIFICATION Spec
CONSTANTS
    None = None
    NotApplicable = NotApplicable
    out1 = out1
    out2 = out2
    OutDirs = {out1}
    Effects <- MCEffects
    PreflightRequired = TRUE
    MaxProviderCalls = 4
    MaxTargetAttempts = 2
    MaxInvalidOutputs = 2
    MaxInvocations = 1
    Stops = {6}
CHECK_DEADLOCK FALSE
INVARIANT FailureIsPreserved
