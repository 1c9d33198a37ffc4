CONSTANTS
    a1 = a1
    Agent = {a1, a2, a3}
    Server = {s1}
    Operator = {}
    Seed <- SeedOfAll
    SeedFile = TRUE
    MaxCommands = 0
    MaxFaults = 3
    MaxReads = 1
SPECIFICATION FairSpec
PROPERTY SeedingCompletes
CHECK_DEADLOCK FALSE
