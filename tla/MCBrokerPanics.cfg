SPECIFICATION Spec
CONSTANTS
    Workflows = {w1}
    NoId = noId
    All = all
    Publishers = {p1, p2}
    Subscribers = {s1, s2}
    Closers = {c1}
    BufferArgs <- NotPositive
    DefaultBuffer = 1
    MaxEvents = 2
INVARIANTS
    CloseIsFine
CHECK_DEADLOCK FALSE
