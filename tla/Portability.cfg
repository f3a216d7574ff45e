SPECIFICATION LSpec
CONSTANTS
    Models <- MCModels
    Keys <- MCKeys
    Pairs <- MCPairs
    Inst <- MCInst
    Uses <- MCUses
    Kind <- MCKind
    Zcmp = {"SUB"}
    Jobs <- MCJobs
    Pair <- MCPair
    Guards = {"guard"}
    Open = {"guard"}
    MaxVersion = 3
    MaxSims = 2
    Reverts = FALSE
    Removals = {"TOP"}
    Command = "command"
    Order <- MCOrder
    CanEnd <- MCCanEnd
    jobs = 2
    ModelOf <- MCModelOf
    OtherTables <- MCOtherTables
INVARIANTS NeverStaleOrMissing GateHolds TableIsTrue LintFollowsTheRun
PROPERTIES EveryJobEnds EveryScriptCounts
CHECK_DEADLOCK FALSE
