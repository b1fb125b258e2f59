\* One analyzer and no outage are enough: what the client misses, it misses in
\* every run.
SPECIFICATION FairSpec
CONSTANTS
    Parse = "parse_diff"
    Synthesize = "synthesize"
    Analyzers <- OneAnalyzer
    MaxAttempts = 1
    TextLength = 1
    ChanCap = 1
    MaxOutages = 0
PROPERTIES
    WatchersSeeTheRun
CHECK_DEADLOCK FALSE
