CONSTANTS
    w1 = w1
    w2 = w2
    Workers = {w1, w2}
    Retries = 1
    Environments <- AllEnvironments
    MaxPolls = 2
    MaxReports = 2
SPECIFICATION SenderSpec
INVARIANTS
    TypeOK
    NoPollLost
    CountBounded
PROPERTIES
    GaugesInOrder
    CancelEndsSend
