\* The hook installed on c1 while c2 runs its guest and c1's guest waits:
\* does every instruction either processor starts retire, before, during
\* and after the install, although c2 may fault on half-hooked tables?
CONSTANTS
    BasePageSize = 4096
    PdptEntries = 2
    PdEntries = 2
    PtEntries = 2
    PtCount = 3
    NoType = NoType
    NoInstr = NoInstr
    NoExit = NoExit
    CPUs = {c1, c2}
    PrimaryHome = 16
    SecondaryHome = 23
    Mtrr <- UcHookMtrr
    Hooked = 3
    Shadow = 40
    HookPt = 1
    DataAccess <- MCRW
    Instrs <- HookInstrs
    HookAtRuntime = TRUE
    Editor = c1
    Shootdown = "all"
    StoreMode = "merged"
    NoEntry = NoEntry

SPECIFICATION Spec
PROPERTY InstructionsRetire ViewsRefined
