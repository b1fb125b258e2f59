SPECIFICATION SupFairSpec
CONSTANTS
    Top = top
    Workflows <- AllWorkflows
    Runs <- Children
    Kinds = {"Research", "Critique", "Decompose", "Synthesize"}
    MaxAttempts <- Attempts
    NonRetryable <- Fatal
    ErrorTypes <- Errors
    NoResult = noResult
    NoError = noError
    Questions <- AllQuestions
    EmptyText = 0
    NotAsked = notAsked
    MaxCrashes = 1
    Requests <- Blank
    DefaultCap = 1
PROPERTIES
    SupervisorEnds
CHECK_DEADLOCK FALSE
