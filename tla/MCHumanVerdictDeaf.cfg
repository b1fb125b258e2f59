SPECIFICATION Spec
CONSTANTS
    Channels <- Names
    Offered <- Choices
    Ignored = {"eyes"}
    Setups <- DeafSetups
    MaxPostAttempts = 2
    MaxReactions = 2
INVARIANT TimeoutMeansSomeoneWaited
CHECK_DEADLOCK FALSE
