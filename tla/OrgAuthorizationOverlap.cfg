SPECIFICATION Spec
CONSTANTS
    Org = {o1}
    Task = {t1, t2, t3}
    MaxEpoch = 2
    MaxFaults = 1
    AutoRegister = TRUE
    Serial = FALSE
SYMMETRY Symmetry
INVARIANTS
    TypeOK
    SettledPairAgrees
    SourcesBounded
CHECK_DEADLOCK FALSE
