SPECIFICATION Spec
CONSTANTS
    Org = {o1}
    Task = {t1, t2}
    MaxEpoch = 2
    MaxFaults = 0
    AutoRegister = FALSE
    Serial = FALSE
INVARIANTS
    DeauthorizationRevokes
CHECK_DEADLOCK FALSE
