SPECIFICATION FairSpec
CONSTANTS
    Org = {o1}
    Task = {t1, t2}
    MaxEpoch = 4
    MaxFaults = 2
    AutoRegister = TRUE
    Serial = TRUE
INVARIANTS
    OneSourceWhenSerial
    QuietIsInSync
PROPERTIES
    ImplementsConsentRegister
    Reconciles
CHECK_DEADLOCK FALSE
