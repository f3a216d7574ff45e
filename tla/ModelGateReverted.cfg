SPECIFICATION Spec
CONSTANTS
    Models <- MCModels
    Keys <- MCKeys
    Pairs <- MCPairs
    Inst <- MCInst
    Uses <- MCUses
    Kind <- MCKind
    Zcmp = {"SUB"}
    Jobs <- MCJobs
    Pair <- MCPair
    Guards = {"guard"}
    Open = {"guard"}
    MaxVersion = 3
    MaxSims = 2
    Reverts = TRUE
    Removals = {}
INVARIANT NeverStaleOrMissing
CHECK_DEADLOCK FALSE
