SPECIFICATION TSpec
CONSTANTS
    Org = {o1}
    Task = {t1, t2}
    MaxEpoch = 3
    MaxFaults = 1
    AutoRegister = TRUE
    Serial = TRUE
    MaxRecords = 4
    Limit = 2
    Integration = Integration
SYMMETRY Symmetry
INVARIANTS AuditTellsState ScanIsFair
CHECK_DEADLOCK FALSE
