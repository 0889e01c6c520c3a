SPECIFICATION TestFairSpec
CONSTANTS
    MaxKids = 2
    MaxFailed = 1
    NumPids = 8
    Users = {3, 6, 7}
    Started <- MainAndIntruder
    PageLines = 2
    MaxWrites = 2
INVARIANTS
    TestTypeOK
    CatListsChildren
    ListHoldsStill
    FilesAreOwn
 
CHECK_DEADLOCK FALSE
