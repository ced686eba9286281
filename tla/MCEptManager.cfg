\* Refinement of AbstractEpt by a caller that keeps the pt-index discipline
\* and splits 2MB-aligned regions before editing them.
CONSTANTS
    BasePageSize = 4096
    PdptEntries = 2
    PdEntries = 2
    PtEntries = 2
    PtCount = 3
    NoType = NoType
    NoRegion = NoRegion
    Primary = Primary
    Secondary = Secondary
    PrimaryHome = 16
    SecondaryHome = 23
    MtrrLayouts <- MCMtrrLayouts
    Accesses <- MCAccesses
    SplitAddrs = {0, 8192, 16384}
    PermAddrs = {4096, 8192, 12288, 16385}
    RemapAddrs = {12288, 20480}
    HostAddrs = {40960, 45057}
    MaxCalls = 3
    KeepPtOwnership = TRUE
    SplitBeforeModify = TRUE

SPECIFICATION Spec
INVARIANT TypeOK
PROPERTY EptRefinement RejectedCallChangesNothing
CHECK_DEADLOCK FALSE
