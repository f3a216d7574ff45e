SPECIFICATION ESpec
CONSTANTS
    GapPs = 1
    SepPs = 2
    PrimGap = 3
    Period = 19
    Settle = 6
    MinSep = 1
    RocWidth = 3
    Waits <- MCWaits
    MaxCalls = 4
    Files <- MCFiles
    Subjects <- MCSubjects
    Moves <- MCMoves
    Rounds = 2
INVARIANTS NoGeneratorBug EveryTriggerIsShown ValidByConstruction SameReplay
PROPERTY EveryReplayEnds
CHECK_DEADLOCK FALSE
