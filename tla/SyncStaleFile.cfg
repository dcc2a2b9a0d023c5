CONSTANTS
    Handlers = {h1, h2}
    GRPCHandlers = {h2}
    Counters = {"a", "b"}
    Batches <- FiniteBatches
    Modes = {"sync"}
    Restore = TRUE
    MaxRequests = 2
    MaxDiskErrors = 0
    MaxCrashes = 0
    MaxBoots = 1
SPECIFICATION Spec
INVARIANTS
    SyncFileCurrent
