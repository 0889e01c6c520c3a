SPECIFICATION Spec
CONSTANTS
    Tasks = {t1, t2}
    Files = {f1, f2}
    BufLen = 2
    Counts = {0, 1, 2}
    OpenModes <- PlainModes
    Offsets <- SeekOffsets
    MaxOpens = 2
    IntHalf = 8
    NoTask = NoTask
    NoFile = NoFile
    NULL = NULL
    t1 = t1
    t2 = t2
    f1 = f1
    f2 = f2
SYMMETRY Symmetry
INVARIANTS
    NoGapWithoutTruncation
CHECK_DEADLOCK FALSE
