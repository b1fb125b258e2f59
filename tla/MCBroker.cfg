SPECIFICATION FairSpec
CONSTANTS
    Workflows = {w1}
    NoId = noId
    All = all
    Publishers = {p1, p2}
    Subscribers = {s1}
    Closers = {c1, c2}
    BufferArgs <- NotPositive
    DefaultBuffer = 1
    MaxEvents = 2
INVARIANTS
    TypeOK
    RegistryOpen
    NoOrphanChannel
    SendsAccountedFor
PROPERTIES
    DeliversAsPromised
    PublishReturns
    CloseReachesSubscribers
CHECK_DEADLOCK FALSE
