\* A permission edit of guest page 10 (0xA000), which lies past the 8 pages
\* one PML4 entry maps at this geometry (the 512 GB of the real tables):
\* does the call touch an entry it does not govern?
CONSTANTS
    BasePageSize = 4096
    PdptEntries = 2
    PdEntries = 2
    PtEntries = 2
    PtCount = 3
    NoType = NoType
    NoRegion = NoRegion
    Primary = Primary
    Secondary = Secondary
    PrimaryHome = 16
    SecondaryHome = 23
    MtrrLayouts <- MCMtrrLayouts
    Accesses <- MCAccesses
    SplitAddrs = {8192}
    PermAddrs = {40960}
    RemapAddrs = {12288}
    HostAddrs = {40960}
    MaxCalls = 2
    KeepPtOwnership = TRUE
    SplitBeforeModify = TRUE

SPECIFICATION Spec
PROPERTY EptRefinement
CHECK_DEADLOCK FALSE
