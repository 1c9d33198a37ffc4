CONSTANTS
    a1 = a1
    Agent = {a1, a2}
    Server = {s1, s2}
    Operator = {o1}
    Seed <- SeedOfAll
    SeedFile = TRUE
    MaxCommands = 1
    MaxFaults = 1
    MaxReads = 2
SPECIFICATION Spec
INVARIANTS TypeOK SettledIsExact NeverLeftEmpty SeedersAgree
PROPERTIES WedgedStays ImplementsCatalogRegister
CHECK_DEADLOCK FALSE
SYMMETRY Symmetry
