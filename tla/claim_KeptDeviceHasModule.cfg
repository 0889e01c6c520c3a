SPECIFICATION Spec
CONSTANTS
    Marker = Marker
    Minors <- TwoMinors
    Failures <- LoadOrProcFails
    MaxOpens = 1
INVARIANT KeptDeviceHasModule
CHECK_DEADLOCK FALSE
