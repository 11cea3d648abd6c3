SPECIFICATION Spec
CONSTANTS
    None = None
    NotApplicable = NotApplicable
    h1 = h1
    h2 = h2
    h3 = h3
    worker = worker
    Handlers = {h1, h2}
    Worker <- worker
    Requests <- GuardedRequests
    Authorizations <- MCAuthorizations
    Epochs <- MCEpochs
    Secret <- MCSecret
    ProtectedSinkId <- MCSink
    MaxVerdicts = 0
    MaxRestarts = 0
CHECK_DEADLOCK FALSE
INVARIANT GuardedCommitsStayClean
