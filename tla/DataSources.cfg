SPECIFICATION FairSpec
CONSTANTS
    u1 = u1
    u2 = u2
    Caller = {c1, c2, c3}
    MaxId = 5
    Initial = 2
    Url = {u1, u2}
    Requests <- Asked
    Unborn = Unborn
    Gone = Gone
    Idle = Idle
    MaxFaults = 1
INVARIANTS TypeOK NoBlindDuplicate
PROPERTIES ImplementsRegistry CommandsFinish
CHECK_DEADLOCK FALSE
