SPECIFICATION FairSpec
CONSTANTS
    Tasks = {t1, t2}
    Files = {f1, f2}
    BufLen = 1
    Counts = {1}
    OpenModes <- WaitModes
    Offsets <- NoOffsets
    MaxOpens = 4
    IntHalf = 2
    NoTask = NoTask
    NoFile = NoFile
    NULL = NULL
    t1 = t1
    t2 = t2
    f1 = f1
    f2 = f2
INVARIANTS
    NoDanglingWaiter
    NoLostWakeup
PROPERTIES
    BlockedReaderWakes
    CallsReturn
    SignalInterruptsOpen
CHECK_DEADLOCK FALSE
