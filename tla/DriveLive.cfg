SPECIFICATION Spec
CONSTANTS
    Commands = {"T11", "T150"}
    SpeedLevels = {100}
    PwmLevels = {255}
    OutputLevels = {7}
    SweepSteps <- MCSweepSteps
    RpmPerUnit = 2
    MaxDelta = 200
    Period = 2
    MaxLate = 0
    Timeout = 8
    SettleTicks = 1
    MeasureTicks = 1
    SendTicks = 1
    TickMod = 11
PROPERTIES SilenceBringsStandstill FailsafeReported NotifyNotLost SweepSupervised
