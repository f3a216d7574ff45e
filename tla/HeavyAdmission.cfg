SPECIFICATION FairSpec
CONSTANTS
    a = a
    b = b
    w = w
    n = n
    o1 = o1
    NoCommand = NoCommand
    Commands = {a, b, w, n}
    OldCommands = {o1}
    TOKENS = 2
    TOKEN_G = 4
    VIVADO_G = 16
    ContainerCap = 3
    Mem <- MCMem
    Containers <- MCContainers
    Vivado <- MCVivado
    Line <- MCLine
    MEMORY_MIN = 1
    MEMORY_MAX = 8
    Outer <- MCOuter
    Recurring = {a}
INVARIANTS
    BudgetKept
    OldRunsAlone
PROPERTIES
    NeverOvertaken
    PoolSpec
    GateHolderIsAdmitted
