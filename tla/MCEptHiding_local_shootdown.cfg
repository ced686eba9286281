\* As MCEptHiding.cfg, but after its calls the hook code issues
\* invept_all_contexts only on the processor it runs on: does the other
\* processor still see the hooked page unhidden?
CONSTANTS
    BasePageSize = 4096
    PdptEntries = 2
    PdEntries = 2
    PtEntries = 2
    PtCount = 3
    NoType = NoType
    NoInstr = NoInstr
    NoExit = NoExit
    CPUs = {c1, c2}
    PrimaryHome = 16
    SecondaryHome = 23
    Mtrr <- UcHookMtrr
    Hooked = 3
    Shadow = 40
    HookPt = 1
    DataAccess <- MCRW
    Instrs <- ReadInstrs
    HookAtRuntime = TRUE
    Editor = c1
    Shootdown = "local"
    StoreMode = "merged"
    NoEntry = NoEntry

SPECIFICATION Spec
INVARIANT HookedPageHidden
