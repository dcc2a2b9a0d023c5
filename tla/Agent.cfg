CONSTANTS
    Workers = {w1, w2}
    RateLimit = 2
    NGauges = 2
    SnapshotMayFail = TRUE
    MaxPolls = 3
SPECIFICATION ShutdownSpec
INVARIANTS
    TypeOK
    PollsConserved
    CleanReturn
    NoSendOnClosedQueue
    FlushAlone
    FreshGauges
PROPERTIES
    LedgerSpec
    ShutdownCompletes
    EventuallyAcked
