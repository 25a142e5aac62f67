CONSTANTS
    NULL = NULL
    MaxJump = 2048
    UpperReach = 1536
    Granularity = 256
    PageSize = 128
    Highest = 8192
    MHOOKS_MAX_SUPPORTED_HOOKS = 3
    Routines <- AllRoutines
    Layouts <- MCLayouts
SPECIFICATION Spec
INVARIANT TypeOK
INVARIANT EntryFits
INVARIANT TrampolineFits
INVARIANT DisplacementsFit
INVARIANT TableAgrees
PROPERTY CalledCodeStays
