SPECIFICATION Spec
CONSTANTS
    None = None
    NotApplicable = NotApplicable
    h1 = h1
    h2 = h2
    h3 = h3
    worker = worker
    Handlers = {h1, h2}
    Worker <- worker
    Requests <- AllRequests
    Authorizations <- MCAuthorizations
    Epochs <- MCEpochs
    Secret <- MCSecret
    ProtectedSinkId <- MCSink
    MaxVerdicts = 0
    MaxRestarts = 1
CHECK_DEADLOCK FALSE
INVARIANTS
    TypeOK
    GuardedCommitsCovered
    OneCommitPerAuthorization
    UseRecordedBeforeCommit
    AnsweredMeansDurable
    TelemetryNeverOverstates
    QuietTelemetryComplete
    JobsConserved
PROPERTIES
    HistoryIsAppendOnly
    CrossingIsPermanent
    ImplementsProtectedLedger
