SPECIFICATION SlotsFairSpec
CONSTANTS
    a1 = a1
    a2 = a2
    b1 = b1
    b2 = b2
    A = A
    B = B
    Runs = {a1, a2, b1, b2}
    Procs = {A, B}
    Proc <- MCProc
    Limit <- MCLimit
    Stubborn = {a1, b1}
    NoSlot = NoSlot
CHECK_DEADLOCK FALSE
INVARIANTS
    AttendedWithinLimit
PROPERTIES
    EveryCallEnds
