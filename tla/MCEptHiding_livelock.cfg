\* An instruction that runs from the hooked page and reads or writes it:
\* does the re-executed instruction ever retire?
CONSTANTS
    BasePageSize = 4096
    PdptEntries = 2
    PdEntries = 2
    PtEntries = 2
    PtCount = 3
    NoType = NoType
    NoInstr = NoInstr
    NoExit = NoExit
    CPUs = {c1}
    PrimaryHome = 16
    SecondaryHome = 23
    Mtrr <- UcHookMtrr
    Hooked = 3
    Shadow = 40
    HookPt = 1
    DataAccess <- MCRW
    Instrs <- AllInstrs
    HookAtRuntime = FALSE
    Editor = c1
    Shootdown = "all"
    StoreMode = "merged"
    NoEntry = NoEntry

SPECIFICATION Spec
PROPERTY InstructionsRetire
