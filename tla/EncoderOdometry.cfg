SPECIFICATION Spec
CONSTANTS
    TotalMod = 8
    Turning = {"left"}
    Ahead = 2
    MaxSlips = 1
INVARIANTS TypeOK OdometryBounded DeltaIsMotion
PROPERTIES MotionReported
