SPECIFICATION Spec
CONSTANTS
    Commands = {"T1"}
    SpeedLevels = {100}
    PwmLevels = {255}
    OutputLevels = {7}
    SweepSteps <- MCSweepSteps
    RpmPerUnit = 2
    MaxDelta = 200
    Period = 2
    MaxLate = 0
    Timeout = 4
    SettleTicks = 1
    MeasureTicks = 1
    SendTicks = 1
    TickMod = 7
PROPERTIES FailsafeOnlyWhenSilent
