CONSTANTS
    BadFile = TRUE
    MaxActive = 0
SPECIFICATION Spec
INVARIANTS
    InitErrorReleases
