SPECIFICATION FairSpec
CONSTANTS
    Callers = {1, 2}
    Tries = 2
    TTL = 1
    Durable = TRUE
    MaxTime = 2
    Tools <- OneTool
    MaxSteps = 2
    MaxOutages = 1
INVARIANTS
    DecisionsWereMade
    OutcomeIsJustified
PROPERTIES
    AgentEnds
CHECK_DEADLOCK FALSE
