SPECIFICATION FairSpec
CONSTANTS
    NumPids = 6
    Users = {2, 3}
    Started <- TwoUsers
    PageLines = 2
    MaxWrites = 1
INVARIANTS
    TypeOK
    PidUsedOnce
    ListIsExact
    CrashNeedsExit
PROPERTY CatEnds
CHECK_DEADLOCK FALSE
