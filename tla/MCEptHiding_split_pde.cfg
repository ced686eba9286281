\* The hooked page's region write-back, as most RAM is: the PDE that
\* split_2mb_to_4kb points at the new PT keeps memory type 6 in bits 6:3,
\* reserved in a PDE that references a PT, so a processor that walks it halts.
CONSTANTS
    BasePageSize = 4096
    PdptEntries = 2
    PdEntries = 2
    PtEntries = 2
    PtCount = 3
    NoType = NoType
    NoInstr = NoInstr
    NoExit = NoExit
    CPUs = {c1}
    PrimaryHome = 16
    SecondaryHome = 23
    Mtrr <- MCMtrr
    Hooked = 3
    Shadow = 40
    HookPt = 1
    DataAccess <- MCRW
    Instrs <- ReadInstrs
    HookAtRuntime = FALSE
    Editor = c1
    Shootdown = "all"
    StoreMode = "merged"
    NoEntry = NoEntry

SPECIFICATION Spec
INVARIANT NoProcessorHalts
CHECK_DEADLOCK FALSE
