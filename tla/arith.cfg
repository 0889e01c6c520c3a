SPECIFICATION Spec
CONSTANTS
    IntHalf = 6
    Reach = 30
INVARIANTS
    WriteStaysInBuffer
    WriteRefusesOnlyOverflow
    ReadDeliversTheRest
    SeekIsExact
CHECK_DEADLOCK FALSE
