CONSTANTS
    BadFile = TRUE
    MaxActive = 1
SPECIFICATION FairSpec
INVARIANTS
    TypeOK
    ReleasedAtExit
    SavedOnceAfterTransports
    DrainedUnlessError
PROPERTIES
    ProcessEnds
