SPECIFICATION Spec
CONSTANTS
    Targets <- SmallTargets
    Pwms <- SmallPwms
    Speeds <- SmallSpeeds
    YawCorrections <- SmallYawCorrections
    PwmInputMax = 10
    PwmMax = 4
    RpmPerUnit = 2
    MaxDelta = 3
    Unit = 4
    Kf = 2
    Kp = 1
    Ki = 2
    Kd = 1
    IntegratorMax = 6
INVARIANTS TypeOK
PROPERTIES RampArrives LeavesRail
