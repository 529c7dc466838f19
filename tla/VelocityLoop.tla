---------------------------- MODULE VelocityLoop ----------------------------
(***************************************************************************)
(* One wheel's control cycle: slew limiter, PID (pid.cpp), yaw correction  *)
(* and motor output.  The wheels run the same cycle and meet only in the   *)
(* yaw correction, which asks how far apart their targets are.             *)
(*                                                                         *)
(*  - Commands are single steps here; DriveControl takes them store by     *)
(*    store, and says when the failsafe fires.  Here it may at any cycle.  *)
(*  - The motor is not modelled: a cycle may measure any speed.            *)
(*  - Floats are exact: speeds are whole RPM, outputs are in 1/Unit of a   *)
(*    PWM step, and the fixed dt is part of Ki and Kd.  With the default   *)
(*    gains Unit is 1000, Kf 500, Kp 300, Ki 16, Kd 0, IntegratorMax 5000  *)
(*    and MaxDelta 8.                                                      *)
(***************************************************************************)
EXTENDS Integers

CONSTANTS
    Targets,          \* wheel targets the commands set
    Pwms,             \* direct outputs the commands set
    PwmInputMax,      \* 255
    PwmMax,           \* MOTOR_PWM_MAX_SPEED
    RpmPerUnit,       \* MOTOR_MAX_RPM / 100
    MaxDelta,         \* ACCEL_LIMIT_RPM_PER_S * dt
    Speeds,           \* speeds a cycle may measure
    YawCorrections,   \* YAW_CORRECTION_GAIN * gz, in 1/Unit
    Unit, Kp, Ki, Kd, Kf,
    IntegratorMax     \* integrator_max / dt

ASSUME LoopAssumption ==
    /\ PwmMax \in Nat /\ Targets \subseteq -PwmMax..PwmMax
    /\ PwmInputMax \in Nat \ {0} /\ Pwms \subseteq -PwmInputMax..PwmInputMax
    /\ RpmPerUnit \in Nat /\ MaxDelta \in Nat \ {0}
    /\ Speeds \subseteq Int /\ YawCorrections \subseteq Int
    /\ Unit \in Nat \ {0}
    /\ Kp \in Nat /\ Ki \in Nat /\ Kd \in Nat /\ Kf \in Nat
    /\ IntegratorMax \in Nat

OutputMax == PwmMax * Unit

VARIABLES
    \* ---- g_state
    target,
    straight,             \* the targets are closer than YAW_STRAIGHT_THRESHOLD
    direct_pwm_mode, pwm,
    command_received,
    pid_gains_pending,
    \* ---- control_task
    profiled,
    integrator,           \* in RPM times cycles
    prev_measurement, has_prev_measurement,
    last_output,
    \* ---- the motor driver
    motor                 \* the last motor_ctrl_set_speed

command_vars == <<target, straight, direct_pwm_mode, pwm, command_received>>
pid_vars == <<integrator, prev_measurement, has_prev_measurement, last_output>>
vars == <<command_vars, pid_gains_pending, profiled, pid_vars, motor>>

Clamp(x, lo, hi) == IF x < lo THEN lo ELSE IF x > hi THEN hi ELSE x

\* division as the code does it, towards zero
Truncated(x, unit) == IF x < 0 THEN -((-x) \div unit) ELSE x \div unit

-----------------------------------------------------------------------------
(* Commands *)

\* T:1, T:13: the other wheel's target may be near or far
SetVelocity ==
    /\ target' \in Targets
    /\ straight' \in BOOLEAN
    /\ direct_pwm_mode' = FALSE
    /\ command_received' = TRUE
    /\ UNCHANGED <<pwm, pid_gains_pending, profiled, pid_vars, motor>>

\* T:11
SetDirect ==
    /\ pwm' \in Pwms
    /\ direct_pwm_mode' = TRUE
    /\ command_received' = TRUE
    /\ UNCHANGED <<target, straight, pid_gains_pending, profiled, pid_vars,
                   motor>>

\* what T:0 and the failsafe have in common
ZeroSetpoints ==
    /\ target' = 0 /\ straight' = TRUE
    /\ pwm' = 0
    /\ direct_pwm_mode' = FALSE
    /\ command_received' = FALSE
    /\ motor' = 0

\* T:0
Stop ==
    /\ ZeroSetpoints
    /\ UNCHANGED <<pid_gains_pending, profiled, pid_vars>>

\* T:241, T:221, T:223: the gains are the same here, the PIDs start anew
SetGains ==
    /\ pid_gains_pending' = TRUE
    /\ UNCHANGED <<command_vars, profiled, pid_vars, motor>>

-----------------------------------------------------------------------------
(* The PID *)

\* pid_reset, and as much of pid_init
Fresh == [i |-> 0, prev |-> 0, has_prev |-> FALSE]

\* the PID at the beginning of a cycle, pending gains applied
Current ==
    IF pid_gains_pending THEN Fresh
    ELSE [i |-> integrator, prev |-> prev_measurement,
          has_prev |-> has_prev_measurement]

Derivative(pid, m) == IF pid.has_prev THEN -(m - pid.prev) ELSE 0

\* the output before it is clamped, with integrator i
Unsaturated(pid, sp, m, i) ==
    Kf * sp + Kp * (sp - m) + Ki * i + Kd * Derivative(pid, m)

\* Mutant of Frozen: whatever the error, the integrator stops at the rail.
FrozenAtRail(pid, sp, m) ==
    \/ Unsaturated(pid, sp, m, pid.i) >= OutputMax
    \/ Unsaturated(pid, sp, m, pid.i) <= -OutputMax

\* the output is at a rail, and the error would push it further
Frozen(pid, sp, m) ==
    \/ Unsaturated(pid, sp, m, pid.i) > OutputMax /\ sp - m > 0
    \/ Unsaturated(pid, sp, m, pid.i) < -OutputMax /\ sp - m < 0

Integrated(pid, sp, m) ==
    IF Frozen(pid, sp, m) THEN pid.i
    ELSE Clamp(pid.i + (sp - m), -IntegratorMax, IntegratorMax)

pid_compute(pid, sp, m) ==
    Clamp(Unsaturated(pid, sp, m, Integrated(pid, sp, m)),
          -OutputMax, OutputMax)

ResetPid ==
    /\ integrator' = 0
    /\ prev_measurement' = 0 /\ has_prev_measurement' = FALSE
    /\ last_output' = 0

-----------------------------------------------------------------------------
(* The control cycle *)

Failsafe ==
    /\ command_received
    /\ ZeroSetpoints
    /\ profiled' = 0
    /\ ResetPid
    /\ pid_gains_pending' = FALSE

Direct ==
    /\ direct_pwm_mode
    /\ motor' = Truncated(pwm * PwmMax, PwmInputMax)
    /\ profiled' = 0
    /\ ResetPid
    /\ pid_gains_pending' = FALSE
    /\ UNCHANGED command_vars

\* Mutant of Profile: half the way, in whole RPM.
ProfileHalfway(goal) ==
    profiled + Clamp((goal - profiled) \div 2, -MaxDelta, MaxDelta)

Profile(goal) ==
    profiled + Clamp(goal - profiled, -MaxDelta, MaxDelta)

\* Mutant of Command: the correction comes after the clamp.
CommandUnclamped(out, corr) ==
    Truncated(Clamp(out, -OutputMax, OutputMax) + corr, Unit)

\* the speed for the motor, yaw correction included
Command(out, corr) ==
    Truncated(Clamp(out + corr, -OutputMax, OutputMax), Unit)

Velocity ==
    /\ ~direct_pwm_mode
    /\ \E m \in Speeds,
          corr \in (IF straight THEN YawCorrections \cup {0} ELSE {0}) :
        LET sp == Profile(target * RpmPerUnit)
            out == pid_compute(Current, sp, m)
        IN  /\ profiled' = sp
            /\ integrator' = Integrated(Current, sp, m)
            /\ prev_measurement' = m /\ has_prev_measurement' = TRUE
            /\ last_output' = out
            /\ motor' = Command(out, corr)
    /\ pid_gains_pending' = FALSE
    /\ UNCHANGED command_vars

Cycle == Failsafe \/ Direct \/ Velocity

-----------------------------------------------------------------------------
(* The specification *)

Init ==
    /\ target = 0 /\ straight = TRUE
    /\ direct_pwm_mode = FALSE /\ pwm = 0
    /\ command_received = FALSE
    /\ pid_gains_pending = FALSE
    /\ profiled = 0
    /\ integrator = 0
    /\ prev_measurement = 0 /\ has_prev_measurement = FALSE
    /\ last_output = 0
    /\ motor = 0

SerialTask == SetVelocity \/ SetDirect \/ Stop \/ SetGains

Next == SerialTask \/ Cycle

\* The control cycle runs; the host owes nothing.
Spec == Init /\ [][Next]_vars /\ WF_vars(Cycle)
-----------------------------------------------------------------------------
(* Properties *)

\* Every variable keeps its type: with the integrator at its bound, a measured
\* speed out of range and a yaw correction on top, the motor driver still gets
\* a speed it takes (main.cpp:338-340).
TypeOK ==
    /\ target \in Targets \cup {0} /\ straight \in BOOLEAN
    /\ direct_pwm_mode \in BOOLEAN /\ pwm \in Pwms \cup {0}
    /\ command_received \in BOOLEAN
    /\ pid_gains_pending \in BOOLEAN
    /\ profiled \in -(PwmMax * RpmPerUnit)..(PwmMax * RpmPerUnit)
    /\ integrator \in -IntegratorMax..IntegratorMax
    /\ prev_measurement \in Speeds \cup {0}
    /\ has_prev_measurement \in BOOLEAN
    /\ last_output \in -OutputMax..OutputMax
    /\ motor \in -PwmMax..PwmMax

\* While a target stands, the profiled setpoint gets there, although failsafes,
\* direct PWM and new gains may have left it anywhere (main.cpp:312-318).
RampArrives ==
    \A t \in Targets \cup {0} :
        <>[](target = t /\ ~direct_pwm_mode)
            => <>[](profiled = t * RpmPerUnit)

\* A wheel that stays faster than its setpoint gets the output off the high
\* rail, and a slower one off the low rail: what the integrator gathered while
\* the output was saturated does not hold it there (pid.cpp:37-45).
LeavesRail ==
    \A m \in Speeds :
        /\ <>[](~direct_pwm_mode /\ prev_measurement = m /\ profiled < m)
              => <>[](last_output < OutputMax)
        /\ <>[](~direct_pwm_mode /\ prev_measurement = m /\ profiled > m)
              => <>[](last_output > -OutputMax)
=============================================================================
