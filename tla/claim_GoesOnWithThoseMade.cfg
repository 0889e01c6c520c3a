SPECIFICATION FairSpec
CONSTANTS
    MaxThreads = 2
    Wrap = 4
PROPERTY GoesOnWithThoseMade
CHECK_DEADLOCK FALSE
