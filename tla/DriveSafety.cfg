SPECIFICATION Spec
CONSTANTS
    Commands = {"T0", "T1", "T11", "T210", "other"}
    SpeedLevels = {100}
    PwmLevels = {255}
    OutputLevels = {7}
    SweepSteps <- MCSweepSteps
    RpmPerUnit = 2
    MaxDelta = 200
    Period = 2
    MaxLate = 1
    Timeout = 2
    SettleTicks = 1
    MeasureTicks = 1
    SendTicks = 1
    TickMod = 7
INVARIANTS TypeOK NoUnsupervisedMotion StandstillUnlessHeard FailsafeDeadline
