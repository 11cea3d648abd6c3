SPECIFICATION HistorySpec
CONSTANTS
    None = None
    NotApplicable = NotApplicable
    h1 = h1
    h2 = h2
    h3 = h3
    worker = worker
    Handlers = {h1, h2}
    Worker <- worker
    Requests <- RetryRequests
    Authorizations <- MCAuthorizations
    Epochs <- MCEpochs
    Secret <- MCSecret
    ProtectedSinkId <- MCSink
    MaxVerdicts = 1
    MaxRestarts = 1
CHECK_DEADLOCK FALSE
INVARIANTS
    UseCountNeverOverstates
    AlarmIsOfSomeInstant
    StandingCrossingIsReported
    CleanVerdictCoversCommits
