CONSTANTS
    None = None
    NotAnObject = NotAnObject
    Candidates <- MCCandidates
    PromptTokens <- MCPromptTokens
    Draws <- MCDraws
    Answers <- MCAnswers
    MinVaried = 2
    MaxProviderCalls = 3
    MaxTargetAttempts = 2
    MaxInvalidOutputs = 2
    MinTargetsSolved = 1
    TwiceMinBindingDimensions = 1
    MinRouteFamilies = 2
    TwiceMaxDuplicateRate = 700000
    TwiceMinUniqueRate = 1200000
    MinCompleted = 1
    FragileFiles <- MCFragileFiles
    MaxFaults = 0
SPECIFICATION Spec
INVARIANT
    PublishedVerdictHasItsEvidence
CHECK_DEADLOCK FALSE
