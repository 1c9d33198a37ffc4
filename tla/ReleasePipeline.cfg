CONSTANTS
    MaxRun = 3
    Template <- Templates
    Broken <- SecondIsBroken
    GitMetadata = FALSE
    NoTask = NoTask
    MaxFaults = 1
SPECIFICATION FairSpec
INVARIANTS TypeOK VerifiesItself VerifiesTemplate DownUntilDeploy
PROPERTIES ImplementsReleaseLine RunsEnd
CHECK_DEADLOCK FALSE
