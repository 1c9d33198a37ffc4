CONSTANTS
    i1 = i1  c1 = c1
    Instance = {i1, i2}
    Callback = {c1}
    Host <- HostOf
    EnvGrant = 1
    HasTarget = TRUE
    MaxGrants = 2
    MaxFaults = 2
SPECIFICATION FairSpec
INVARIANTS TypeOK ReadyIsBacked HooksBounded ReauthorizationStays
PROPERTIES ImplementsTokenCell StoredMakesReady
CHECK_DEADLOCK FALSE
