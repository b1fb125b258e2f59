SPECIFICATION FairSpec
CONSTANTS
    Parse = "parse_diff"
    Synthesize = "synthesize"
    Analyzers <- TwoAnalyzers
    MaxAttempts = 2
    TextLength = 1
    ChanCap = 1
    MaxOutages = 1
INVARIANTS
    ReviewIsOfTheRecord
    
PROPERTIES
    ReviewEnds
    ShutdownEnds
CHECK_DEADLOCK FALSE
