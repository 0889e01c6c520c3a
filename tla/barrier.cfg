SPECIFICATION FairSpec
CONSTANTS
    MaxThreads = 5
    Wrap = 8
INVARIANTS
    TypeOK
    CountExact
PROPERTIES
    StartsTogether
    MainGoesOn
CHECK_DEADLOCK FALSE
