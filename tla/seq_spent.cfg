SPECIFICATION Spec
CONSTANTS
    None = None
    NotApplicable = NotApplicable
    out1 = out1
    out2 = out2
    OutDirs = {out1, out2}
    Effects <- MCEffects
    PreflightRequired = TRUE
    MaxProviderCalls = 1
    MaxTargetAttempts = 1
    MaxInvalidOutputs = 2
    MaxInvocations = 2
    Stops = {6}
CHECK_DEADLOCK FALSE
INVARIANT AuthorizationSpentOnce
