CONSTANTS
    Handlers = {h1, h2}
    GRPCHandlers = {h2}
    Counters = {"a", "b"}
    Batches <- AllBatches
    Modes = {"sync", "periodic"}
    Restore = TRUE
    MaxRequests = 2
    MaxDiskErrors = 1
    MaxCrashes = 1
    MaxBoots = 2
SPECIFICATION StopSpec
INVARIANTS
    TypeOK
    CleanStopSavesAll
    AckedNotLost
    BatchesWhole
    PeriodicFileReadable
    SavedSurvives
PROPERTIES
    ShutdownEnds
