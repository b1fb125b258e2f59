SPECIFICATION FairSpec
CONSTANTS
    Channels <- Names
    Offered <- Choices
    Ignored = {"eyes"}
    Setups <- AllSetups
    MaxPostAttempts = 2
    MaxReactions = 2
INVARIANTS
    VerdictWasGiven
    SilenceIsUnanimous
    ReactionIsNotMissed
PROPERTIES
    WaitersEnd
    AsksEnd
CHECK_DEADLOCK FALSE
