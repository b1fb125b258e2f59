SPECIFICATION MCSpec
CONSTANTS
    Top = top
    Workflows <- AllWorkflows
    Runs <- Children
    Kinds = {"Research", "Critique", "Decompose", "Synthesize"}
    MaxAttempts <- Attempts
    NonRetryable <- Fatal
    ErrorTypes <- Errors
    NoResult = noResult
    NoError = noError
    Questions <- AllQuestions
    EmptyText = 0
    NotAsked = notAsked
    MaxCrashes = 1
    Requests <- AllRequests
    DefaultCap = 1
INVARIANTS
    RoundsRevise
    AnswerIsTheLastJudged
    AnswersAreTheChildrens
    ClosesLast
    FailsOnlyAsDocumented
    CostIsCapped
PROPERTIES
    NoCallAfterFatalError
    Converges
    NonBlankEnds
CHECK_DEADLOCK FALSE
