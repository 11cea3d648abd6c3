CONSTANTS
    None = None
    NotApplicable = NotApplicable
    Epochs <- BaseAuthority
    IssuerSecret <- ScenarioSecret
    Submissions <- MCSubmissions
    Bypasses <- MCBypasses
    ScenarioDocs <- MCScenarioDocs
    Absent <- MCAbsent
    ConsequenceNames = {"guarded-valid", "hidden-route-bypass", "hidden-route-authorized", "exact-action-mutation", "wrong-principal", "wrong-release", "wrong-tenant", "wrong-sink", "stale-authority", "revoked-authority", "replay", "race-duplicate", "invalid-delegation", "incomplete-evidence", "internal-defect-no-commit", "instrument-failure"}
    MaxCandidates = 6
    MaxCommands = 2
    MaxFaults = 2
SPECIFICATION Spec
INVARIANTS
    CLTypeOK
    SealedIsWholeOrRefused
    WholePackageReplays
    VerdictFollowsSearch
    GuardedLedger
    PreventionAndDetectionAgree
    CleanVerdictHasCompleteGraphs
    ReplayReproduces
CHECK_DEADLOCK FALSE
