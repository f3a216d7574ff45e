SPECIFICATION CSpec
CONSTANTS
    CaseCount = 2
    Vector <- MCVector
    Selected <- MCSelected
    Jobs = 2
    TestCount = 3
    Prim <- MCPrim
    Unit <- MCUnit
    Level <- MCLevel
    Style <- MCStyle
    Glob <- MCGlob
    WorkUnits = {"flops", "later"}
    RUNNERS <- MCRunners
    DocOnly = {"log", "plan"}
    Read = {"tool"}
    NoPath = NoPath
    MayEnd <- MCMayEnd
    Invocations <- MCInvocations
INVARIANTS SummaryIsGenuine PythonFirst
PROPERTIES EveryCommandAnswers
CHECK_DEADLOCK FALSE
