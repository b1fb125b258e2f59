SPECIFICATION FairSpec
CONSTANTS
    NodeIDs <- IDs
    EmptyID = 0
    Plans <- AllPlans
    ErrorTypes <- Types
    DefaultMaxAttempts = 2
    DefaultNonRetryable <- Permanent
    SortIDs <- Sorted
    NoOutput = NoOutput
    MaxCrashes = 1
INVARIANTS
    ReplayIsDeterministic
    UpstreamIsRecorded
    LayersAreDepths
    ResultIsWhole
PROPERTIES
    RunsAsDag
    Terminates
CHECK_DEADLOCK FALSE
