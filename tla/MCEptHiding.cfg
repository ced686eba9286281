\* The hook installed by the hook code on c1 while both processors run
\* guests, one store per setter, followed by invept on every processor; the
\* hooked region uncacheable; instructions that touch the hooked page.
CONSTANTS
    BasePageSize = 4096
    PdptEntries = 2
    PdEntries = 2
    PtEntries = 2
    PtCount = 3
    NoType = NoType
    NoInstr = NoInstr
    NoExit = NoExit
    CPUs = {c1, c2}
    PrimaryHome = 16
    SecondaryHome = 23
    Mtrr <- UcHookMtrr
    Hooked = 3
    Shadow = 40
    HookPt = 1
    DataAccess <- MCRW
    Instrs <- HookInstrs
    HookAtRuntime = TRUE
    Editor = c1
    Shootdown = "all"
    StoreMode = "separate"
    NoEntry = NoEntry

SPECIFICATION Spec
INVARIANT TypeOK HookedPageHidden AccessesReachOriginal
