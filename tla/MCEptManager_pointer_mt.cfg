\* Memory type bits of table-pointer entries after a split.
CONSTANTS
    BasePageSize = 4096
    PdptEntries = 2
    PdEntries = 2
    PtEntries = 2
    PtCount = 3
    NoType = NoType
    NoRegion = NoRegion
    Primary = Primary
    Secondary = Secondary
    PrimaryHome = 16
    SecondaryHome = 23
    MtrrLayouts <- MCMtrrLayouts
    Accesses <- MCAccesses
    SplitAddrs = {8192}
    PermAddrs = {}
    RemapAddrs = {}
    HostAddrs = {40960}
    MaxCalls = 3
    KeepPtOwnership = TRUE
    SplitBeforeModify = TRUE

SPECIFICATION Spec
INVARIANT PointerEntriesHaveNoMemoryType
CHECK_DEADLOCK FALSE
