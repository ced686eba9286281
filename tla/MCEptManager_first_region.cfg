\* modify_page_permissions on a page of the first 2MB, which pt[0] maps.
CONSTANTS
    BasePageSize = 4096
    PdptEntries = 2
    PdEntries = 2
    PtEntries = 2
    PtCount = 3
    NoType = NoType
    NoRegion = NoRegion
    Primary = Primary
    Secondary = Secondary
    PrimaryHome = 16
    SecondaryHome = 23
    MtrrLayouts <- MCMtrrLayouts
    Accesses <- MCAccesses
    SplitAddrs = {}
    PermAddrs = {4096}
    RemapAddrs = {}
    HostAddrs = {40960}
    MaxCalls = 3
    KeepPtOwnership = FALSE
    SplitBeforeModify = TRUE

SPECIFICATION Spec
PROPERTY EptRefinement
CHECK_DEADLOCK FALSE
