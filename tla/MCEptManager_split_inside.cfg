\* split_2mb_to_4kb called with a 4KB-aligned address inside a 2MB page.
CONSTANTS
    BasePageSize = 4096
    PdptEntries = 2
    PdEntries = 2
    PtEntries = 2
    PtCount = 3
    NoType = NoType
    NoRegion = NoRegion
    Primary = Primary
    Secondary = Secondary
    PrimaryHome = 16
    SecondaryHome = 23
    MtrrLayouts <- MCMtrrLayouts
    Accesses <- MCAccesses
    SplitAddrs = {12288}
    PermAddrs = {}
    RemapAddrs = {}
    HostAddrs = {40960}
    MaxCalls = 3
    KeepPtOwnership = TRUE
    SplitBeforeModify = TRUE

SPECIFICATION Spec
PROPERTY EptRefinement
CHECK_DEADLOCK FALSE
