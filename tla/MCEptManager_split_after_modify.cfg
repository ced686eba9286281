\* split_2mb_to_4kb of a 2MB page whose permissions were changed first.
CONSTANTS
    BasePageSize = 4096
    PdptEntries = 2
    PdEntries = 2
    PtEntries = 2
    PtCount = 3
    NoType = NoType
    NoRegion = NoRegion
    Primary = Primary
    Secondary = Secondary
    PrimaryHome = 16
    SecondaryHome = 23
    MtrrLayouts <- MCMtrrLayouts
    Accesses <- MCAccesses
    SplitAddrs = {8192}
    PermAddrs = {8192}
    RemapAddrs = {}
    HostAddrs = {40960}
    MaxCalls = 3
    KeepPtOwnership = TRUE
    SplitBeforeModify = FALSE

SPECIFICATION Spec
PROPERTY EptRefinement
CHECK_DEADLOCK FALSE
