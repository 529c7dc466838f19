SPECIFICATION Spec
CONSTANTS
    Period = 1
    IoTimeout = 1
    EraseTicks = 2
    MaxSaves = 2
    MaxDebt = 1
    Frames = {1}
    MaxFaults = 2
    Reload = 4
INVARIANTS TypeOK HalIsFree WatchdogSparesSaves FaultReported
PROPERTIES MotorsStop
