SPECIFICATION ContainersFairSpec
CONSTANTS
    r1 = r1
    r2 = r2
    Calls = {r1, r2}
INVARIANTS
    NoneUnseen
    OomLineIsReal
PROPERTIES
    ContainersEnd
    InterruptDrains
CHECK_DEADLOCK FALSE
