CONSTANTS
    MaxRun = 1
    Template <- Templates
    Broken <- AllAreBroken
    GitMetadata = FALSE
    NoTask = NoTask
    MaxFaults = 0
SPECIFICATION Spec
INVARIANT RollbackRestores
CHECK_DEADLOCK FALSE
