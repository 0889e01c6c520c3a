SPECIFICATION FairSpec
CONSTANTS
    Marker = Marker
    Minors <- FourMinors
    Failures <- LoadOrProcFails
    MaxOpens = 1
INVARIANT TypeOK
INVARIANT UsersAreServed
INVARIANT DirectoryCounted
INVARIANT UnloadLeavesCaches
INVARIANT FailedLoadLeavesCache
PROPERTY DirectoryRemovedEmpty
 
CHECK_DEADLOCK FALSE
