SPECIFICATION FairSpec
CONSTANTS
    Workflows = {f1}
    Kinds <- Activities
    MaxAttempts <- Attempts
    NonRetryable <- Fatal
    ErrorTypes <- Errors
    NoResult = noResult
    NoError = noError
    Requests = {r1, r2}
    Stray = stray
    MaxStrays = 1
    MaxRestarts = 1
    MaxCrashes = 1
INVARIANTS
    FirstCallbackCounts
    StateIsKeptForTheCallback
    SessionIsStored
PROPERTIES
    FlowsClose
CHECK_DEADLOCK FALSE
