\* The hook installed at runtime by a build that keeps one store per
\* bitfield setter: can a processor walking the secondary Ept meet the
\* half-written execute-only entry of the hooked page?
CONSTANTS
    BasePageSize = 4096
    PdptEntries = 2
    PdEntries = 2
    PtEntries = 2
    PtCount = 3
    NoType = NoType
    NoInstr = NoInstr
    NoExit = NoExit
    CPUs = {c1, c2}
    PrimaryHome = 16
    SecondaryHome = 23
    Mtrr <- UcHookMtrr
    Hooked = 3
    Shadow = 40
    HookPt = 1
    DataAccess <- MCRW
    Instrs <- ReadInstrs
    HookAtRuntime = TRUE
    Editor = c1
    Shootdown = "all"
    StoreMode = "separate"
    NoEntry = NoEntry

SPECIFICATION Spec
INVARIANT NoProcessorHalts
