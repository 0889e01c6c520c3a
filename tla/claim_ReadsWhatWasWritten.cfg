SPECIFICATION Spec
CONSTANTS
    Tasks = {t1, t2}
    Files = {f1, f2}
    BufLen = 2
    Counts = {1}
    OpenModes <- ShellModes
    Offsets <- NoOffsets
    MaxOpens = 2
    IntHalf = 8
    NoTask = NoTask
    NoFile = NoFile
    NULL = NULL
    t1 = t1
    t2 = t2
    f1 = f1
    f2 = f2
INVARIANTS
    ReadsWhatWasWritten
CHECK_DEADLOCK FALSE
