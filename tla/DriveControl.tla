---------------------------- MODULE DriveControl ----------------------------
(***************************************************************************)
(* The command state of the robot and the two tasks that share it.         *)
(*                                                                         *)
(* serial_task (priority 6) turns host commands into plain stores on       *)
(* g_state; control_task (priority 9, one cycle every Period ticks) reads  *)
(* them, runs the heartbeat failsafe and drives the motors.  Nothing locks *)
(* g_state: control_task may preempt serial_task between any two stores.   *)
(*                                                                         *)
(*  - A control cycle is one action: control_task has the highest priority *)
(*    and while it waits for the I2C mutex nobody stores command state.    *)
(*  - A command is a list of groups of stores, the groups being separated  *)
(*    by calls into other translation units.  g_state is not volatile, so  *)
(*    the compiler may order the stores of one group as it likes: the      *)
(*    model performs them in any order, one step each.                     *)
(*  - The serial task runs only while the control task sleeps (due > 0).   *)
(***************************************************************************)
EXTENDS Integers, Sequences

CONSTANTS
    Commands,     \* the T-codes the host uses, a subset of CommandNames
    SpeedLevels,  \* targets a T:1 or T:13 can carry, -100..100 units
    PwmLevels,    \* raw duties a T:11 can carry, -255..255
    OutputLevels, \* what PID and yaw correction can give a wheel, -100..100
    SweepSteps,   \* the targets T:150 goes through
    RpmPerUnit,   \* RPM of one target unit (MOTOR_MAX_RPM / 100)
    MaxDelta,     \* largest change of the RPM setpoint in one cycle
    Period,       \* CONTROL_PERIOD_MS, in ticks
    MaxLate,      \* how many ticks a due control cycle can be held up
    Timeout,      \* HEARTBEAT_TIMEOUT_MS, in ticks
    SettleTicks,  \* settle time of one sweep step, in ticks
    MeasureTicks, \* the longest the INA219 reading after it takes, in ticks
    SendTicks,    \* the longest serial_send_line waits for room, in ticks
    TickMod       \* the tick counter is modulo TickMod (2^32 in the code)

CommandNames == {"T0", "T1", "T11", "T150", "T210", "other"}
MotionCommands == {"T1", "T11", "T150"}

Wheels == {"left", "right"}
Off == [w \in Wheels |-> 0]

ASSUME CommandAssumption ==
    /\ Commands \subseteq CommandNames
    /\ SpeedLevels \subseteq Int /\ PwmLevels \subseteq Int
    /\ SweepSteps \in Seq(Int) /\ Len(SweepSteps) > 0

\* Targets are clamped to full speed, -100..100 units (json_cmd.cpp:104, 144),
\* and so are the outputs of the velocity branch (main.cpp:338-339).
ASSUME RangeAssumption ==
    /\ SpeedLevels \subseteq -100..100
    /\ OutputLevels \subseteq -100..100
    /\ \A i \in 1..Len(SweepSteps) : SweepSteps[i] \in -100..100

ASSUME SetpointAssumption ==
    /\ RpmPerUnit \in Nat \ {0}
    /\ MaxDelta \in Nat \ {0}

\* A cycle is never held up for a whole period, the timeout is longer than the
\* heartbeat's own stores can take, and the tick counter can hold the greatest
\* age the failsafe lets a command reach.
ASSUME TimeAssumption ==
    /\ Period \in Nat /\ MaxLate \in Nat /\ MaxLate < Period
    /\ Timeout \in Nat /\ MaxLate < Timeout
    /\ SettleTicks \in Nat \ {0}
    /\ MeasureTicks \in Nat /\ SendTicks \in Nat
    /\ TickMod \in Nat /\ TickMod > Timeout + Period + MaxLate

VARIABLES
    \* ---- g_state, the command fields
    target,                  \* target_left, target_right
    pwm,                     \* pwm_left, pwm_right
    direct_pwm_mode,
    command_received,
    last_command_ms,
    sys_state,
    heartbeat_fault_notify,
    \* ---- control_task and the motor outputs
    profiled,                \* profiled_l, profiled_r: slewed RPM setpoints
    drive,                   \* the speeds motor_ctrl_set_speed gave the motors
    regulated,               \* ... and they are the output of the PIDs
    due,                     \* ticks until the next control cycle, <= 0: ready
    \* ---- serial_task
    pc,                      \* where it is
    op,                      \* the command in execution
    arg,                     \* the pair of speeds or duties it carries
    todo,                    \* the stores left in the present group
    now,                     \* the register that holds HAL_GetTick()
    sweep,                   \* the step of T:150
    delay,                   \* what is left of a delay or of a waiting call
    landed,                  \* a tick has landed in this stretch of stores
    \* ---- the environment
    tick,                    \* HAL_GetTick()
    host_alive,              \* the Jetson still sends
    silence                  \* history: ticks since the last motion command

command_vars == <<target, pwm, direct_pwm_mode, command_received,
                  last_command_ms, sys_state, heartbeat_fault_notify>>
control_vars == <<profiled, drive, regulated, due>>
serial_vars == <<pc, op, arg, todo, now, sweep, delay, landed>>
env_vars == <<tick, host_alive, silence>>
vars == <<command_vars, control_vars, serial_vars, env_vars>>

-----------------------------------------------------------------------------
(* Time *)

\* unsigned subtraction: how far tick a is behind tick b
Minus(b, a) == IF b >= a THEN b - a ELSE b - a + TickMod
Elapsed == Minus(tick, last_command_ms)

\* Control cycles the slew limiter needs to bring the fastest target, 100
\* units, to zero, and the longest a setpoint may outlast a motion command.
RampCycles == (100 * RpmPerUnit + MaxDelta - 1) \div MaxDelta
QuietBound == Timeout + (RampCycles + 1) * Period + 2 * MaxLate + 1

\* silence stops counting here
SilenceMax == QuietBound + 1

\* From the head of its loop to the acknowledgement of a command serial_task
\* runs straight-line code: at most one tick lands in a stretch of it while the
\* control task sleeps.  It takes longer only where it waits: in the settle
\* time and the INA219 reading of a sweep, in serial_send_line, which retries a
\* full USB queue with HAL_Delay, and in the queries, which may poll the I2C
\* devices for long.
Computing ==
    \/ pc \notin {"sleep", "notify", "settle", "reply"}
    \/ /\ delay = 0
       /\ \/ pc \in {"notify", "settle"}
          \/ pc = "reply" /\ op \in MotionCommands

\* SysTick: the control delay, the serial task's delay and the clock advance.
Tick ==
    /\ due > -MaxLate
    /\ (Computing /\ due > 0) => ~landed
    /\ tick' = (IF tick = TickMod - 1 THEN 0 ELSE tick + 1)
    /\ due' = due - 1
    /\ delay' = (IF delay > 0 THEN delay - 1 ELSE 0)
    /\ landed' = (landed \/ (Computing /\ due > 0))
    /\ pc' = (IF pc = "sleep" THEN "top" ELSE pc)
    /\ silence' = (IF silence < SilenceMax THEN silence + 1 ELSE silence)
    /\ UNCHANGED <<command_vars, profiled, drive, regulated, op, arg, todo,
                   now, sweep, host_alive>>

\* The Jetson dies, or its cable is pulled.
HostGoesSilent ==
    /\ host_alive
    /\ host_alive' = FALSE
    /\ UNCHANGED <<command_vars, control_vars, serial_vars, tick, silence>>

-----------------------------------------------------------------------------
(* control_task *)

Clamp(x, lo, hi) == IF x < lo THEN lo ELSE IF x > hi THEN hi ELSE x

\* C division truncates towards zero: small duties scale to a speed of 0.
Scale(p) == IF p >= 0 THEN (p * 100) \div 255 ELSE -((-p * 100) \div 255)

Slewed(w) == profiled[w] + Clamp(target[w] * RpmPerUnit - profiled[w],
                                 -MaxDelta, MaxDelta)

\* Mutants of HeartbeatLost: comparing ticks instead of their difference, and
\* sparing the direct mode.
HeartbeatLostNoWrap == command_received /\ tick > last_command_ms + Timeout
HeartbeatLostVelocityOnly ==
    command_received /\ ~direct_pwm_mode /\ Elapsed > Timeout

HeartbeatLost == command_received /\ Elapsed > Timeout

\* Mutant of NextWake: the period is added twice.
NextWakeTwice == due <= 0 /\ due' = due + 2 * Period

\* vTaskDelayUntil counts from the last wake-up, so lateness is caught up.
NextWake ==
    /\ due <= 0
    /\ due' = due + Period

Failsafe ==
    /\ NextWake
    /\ HeartbeatLost
    /\ drive' = Off
    /\ regulated' = FALSE
    /\ target' = Off
    /\ pwm' = Off
    /\ direct_pwm_mode' = FALSE
    /\ command_received' = FALSE
    /\ sys_state' = "IDLE"
    /\ heartbeat_fault_notify' = TRUE
    /\ profiled' = Off
    /\ UNCHANGED <<last_command_ms, serial_vars, env_vars>>

DirectCycle ==
    /\ NextWake
    /\ ~HeartbeatLost
    /\ direct_pwm_mode
    /\ drive' = [w \in Wheels |-> Scale(pwm[w])]
    /\ regulated' = FALSE
    /\ profiled' = Off
    /\ UNCHANGED <<command_vars, serial_vars, env_vars>>

\* The PIDs follow the slewed setpoints, and the yaw correction is added to
\* what they give: with integrators, a measured speed and a measured turn the
\* output may be any, a setpoint of zero included.
VelocityCycle ==
    /\ NextWake
    /\ ~HeartbeatLost
    /\ ~direct_pwm_mode
    /\ profiled' = [w \in Wheels |-> Slewed(w)]
    /\ drive' \in [Wheels -> OutputLevels]
    /\ regulated' = TRUE
    /\ UNCHANGED <<command_vars, serial_vars, env_vars>>

ControlCycle == Failsafe \/ DirectCycle \/ VelocityCycle

-----------------------------------------------------------------------------
(* serial_task *)

\* the stores of each command up to its first call, by field name
TargetField == [left |-> "target_left", right |-> "target_right"]
PwmField == [left |-> "pwm_left", right |-> "pwm_right"]
Targets == {"target_left", "target_right"}
Pwms == {"pwm_left", "pwm_right"}

\* Mutant of Stores: T:0 forgets the right wheel.
StoresHalfStop ==
    [T0   |-> {"target_left"} \cup Pwms \cup {"direct", "received", "state"},
     T1   |-> Targets \cup {"direct"},
     T11  |-> Pwms \cup {"direct"},
     T150 |-> Targets \cup {"direct"},
     T210 |-> {"state"}]

Stores ==
    [T0   |-> Targets \cup Pwms \cup {"direct", "received", "state"},
     T1   |-> Targets \cup {"direct"},
     T11  |-> Pwms \cup {"direct"},
     T150 |-> Targets \cup {"direct"},
     T210 |-> {"state"}]

\* T:150 has gone through its steps and only zeroes the targets.
SweepEnd == op = "T150" /\ sweep > Len(SweepSteps)

\* what follows the stores: T:0 calls motor_ctrl_set_speed, T:210 and the end
\* of the sweep reply, the motion commands feed the heartbeat
AfterStores ==
    IF op = "T0" THEN "motor_left"
    ELSE IF op = "T210" \/ SweepEnd THEN "reply"
    ELSE "feed"

\* a motion command ends with the feed, except T:150 (it settles) and T:11
\* (it acknowledges)
AfterFeed ==
    IF op = "T150" THEN "settle"
    ELSE IF op = "T11" THEN "reply"
    ELSE "top"

SerialRuns == due > 0

\* the longest the serial task waits at a place of the command in execution
LongestWait(place) ==
    IF place = "settle" THEN SettleTicks + MeasureTicks
    ELSE IF place = "reply" /\ op \in MotionCommands THEN SendTicks
    ELSE 0

\* the head of the loop: the T:999 notification, then the next line
Notify ==
    /\ SerialRuns
    /\ pc = "top"
    /\ heartbeat_fault_notify
    /\ heartbeat_fault_notify' = FALSE
    /\ pc' = "notify"
    /\ delay' = SendTicks
    /\ landed' = FALSE
    /\ UNCHANGED <<target, pwm, direct_pwm_mode, command_received,
                   last_command_ms, sys_state, control_vars, op, arg, todo,
                   now, sweep, env_vars>>

\* serial_send_line has returned, or there was nothing to notify
ToRead ==
    /\ SerialRuns
    /\ pc = "notify" \/ (pc = "top" /\ ~heartbeat_fault_notify)
    /\ pc' = "read"
    /\ delay' = 0
    /\ landed' = (landed /\ pc = "top")
    /\ UNCHANGED <<command_vars, control_vars, op, arg, todo, now, sweep,
                   env_vars>>

\* No complete line: take the next byte (or a line that is no valid command),
\* or yield until the next tick when there is none.
NoLine ==
    /\ SerialRuns
    /\ pc = "read"
    /\ pc' \in {"top", "sleep"}
    /\ landed' = FALSE
    /\ UNCHANGED <<command_vars, control_vars, op, arg, todo, now, sweep,
                   delay, env_vars>>

StartStores(o, a, fields) ==
    /\ pc' = "stores"
    /\ op' = o
    /\ arg' = a
    /\ todo' = fields

\* A complete line is dispatched: json_cmd_process_line.  The queries ("other")
\* store no command state: they only keep the task busy until they reply.
Dispatch ==
    /\ SerialRuns
    /\ pc = "read"
    /\ host_alive
    /\ \/ "T0" \in Commands /\ StartStores("T0", Off, Stores.T0)
       \/ "T210" \in Commands /\ StartStores("T210", Off, Stores.T210)
       \/ /\ "T1" \in Commands
          /\ \E a \in [Wheels -> SpeedLevels] : StartStores("T1", a, Stores.T1)
       \/ /\ "T11" \in Commands
          /\ \E a \in [Wheels -> PwmLevels] : StartStores("T11", a, Stores.T11)
       \/ /\ "T150" \in Commands
          /\ StartStores("T150", [w \in Wheels |-> SweepSteps[1]], Stores.T150)
       \/ /\ "other" \in Commands
          /\ pc' = "reply"
          /\ op' = "other"
          /\ UNCHANGED <<arg, todo>>
    /\ sweep' = (IF op' = "T150" THEN 1 ELSE 0)
    /\ silence' = (IF op' \in MotionCommands THEN 0 ELSE silence)
    /\ landed' = (landed /\ pc' # "reply")
    /\ UNCHANGED <<command_vars, control_vars, now, delay, tick, host_alive>>

\* one store of the present group; the last one ends the group
Stored(f) ==
    /\ SerialRuns
    /\ pc = "stores"
    /\ f \in todo
    /\ todo' = todo \ {f}
    /\ pc' = (IF todo' = {} THEN AfterStores ELSE pc)
    /\ delay' = LongestWait(pc')
    /\ landed' = (landed /\ pc' # "reply")

StoreTarget(w) ==
    /\ Stored(TargetField[w])
    /\ target' = [target EXCEPT ![w] = arg[w]]
    /\ UNCHANGED <<pwm, direct_pwm_mode, command_received, last_command_ms,
                   sys_state, heartbeat_fault_notify, control_vars, op, arg,
                   now, sweep, env_vars>>

StorePwm(w) ==
    /\ Stored(PwmField[w])
    /\ pwm' = [pwm EXCEPT ![w] = arg[w]]
    /\ UNCHANGED <<target, direct_pwm_mode, command_received, last_command_ms,
                   sys_state, heartbeat_fault_notify, control_vars, op, arg,
                   now, sweep, env_vars>>

StoreDirect ==
    /\ Stored("direct")
    /\ direct_pwm_mode' = (op = "T11")
    /\ UNCHANGED <<target, pwm, command_received, last_command_ms,
                   sys_state, heartbeat_fault_notify, control_vars, op, arg,
                   now, sweep, env_vars>>

Disarm ==
    /\ Stored("received")
    /\ command_received' = FALSE
    /\ UNCHANGED <<target, pwm, direct_pwm_mode, last_command_ms,
                   sys_state, heartbeat_fault_notify, control_vars, op, arg,
                   now, sweep, env_vars>>

StoreIdle ==
    /\ Stored("state")
    /\ sys_state' = "IDLE"
    /\ UNCHANGED <<target, pwm, direct_pwm_mode, command_received,
                   last_command_ms, heartbeat_fault_notify, control_vars, op,
                   arg, now, sweep, env_vars>>

\* T:0 calls motor_ctrl_set_speed(0, 0): left duty, then right duty.
StopLeft ==
    /\ SerialRuns
    /\ pc = "motor_left"
    /\ drive' = [drive EXCEPT !["left"] = 0]
    /\ pc' = "motor_right"
    /\ UNCHANGED <<command_vars, profiled, regulated, due, op, arg, todo, now,
                   sweep, delay, landed, env_vars>>

StopRight ==
    /\ SerialRuns
    /\ pc = "motor_right"
    /\ drive' = [drive EXCEPT !["right"] = 0]
    /\ pc' = "reply"
    /\ landed' = FALSE
    /\ UNCHANGED <<command_vars, profiled, regulated, due, op, arg, todo, now,
                   sweep, delay, env_vars>>

\* shared_state_feed_heartbeat: arm, then read the clock, then store what was
\* read and leave SYS_IDLE.
FeedReceived ==
    /\ SerialRuns
    /\ pc = "feed"
    /\ command_received' = TRUE
    /\ pc' = "clock"
    /\ UNCHANGED <<target, pwm, direct_pwm_mode, last_command_ms, sys_state,
                   heartbeat_fault_notify, control_vars, op, arg, todo, now,
                   sweep, delay, landed, env_vars>>

\* Mutant of FeedClock: a sweep arms the heartbeat without taking the time.
FeedClockNotInSweep ==
    /\ SerialRuns
    /\ pc = "clock"
    /\ now' = (IF op = "T150" THEN last_command_ms ELSE tick)
    /\ todo' = {"ms", "state"}
    /\ pc' = "fed"
    /\ UNCHANGED <<command_vars, control_vars, op, arg, sweep, delay, landed,
                   env_vars>>

FeedClock ==
    /\ SerialRuns
    /\ pc = "clock"
    /\ now' = tick
    /\ todo' = {"ms", "state"}
    /\ pc' = "fed"
    /\ UNCHANGED <<command_vars, control_vars, op, arg, sweep, delay, landed,
                   env_vars>>

\* the last store of the feed ends the command, or starts the sweep's delay
Fed(f) ==
    /\ SerialRuns
    /\ pc = "fed"
    /\ f \in todo
    /\ todo' = todo \ {f}
    /\ IF todo' # {}
       THEN UNCHANGED <<pc, op, arg, now, delay, landed>>
       ELSE /\ pc' = AfterFeed
            /\ now' = 0
            /\ landed' = FALSE
            /\ op' = (IF AfterFeed = "top" THEN "none" ELSE op)
            /\ arg' = (IF AfterFeed = "top" THEN Off ELSE arg)
            /\ delay' = LongestWait(AfterFeed)
    /\ UNCHANGED <<target, pwm, direct_pwm_mode, command_received,
                   heartbeat_fault_notify, control_vars, sweep, env_vars>>

FeedTime ==
    /\ Fed("ms")
    /\ last_command_ms' = now
    /\ UNCHANGED sys_state

FeedState ==
    /\ Fed("state")
    /\ sys_state' = (IF sys_state = "IDLE" THEN "RUNNING" ELSE sys_state)
    /\ UNCHANGED last_command_ms

\* T:150 after a settle time and a reading of the INA219: the next step, or
\* zero the targets
SweepNext ==
    /\ SerialRuns
    /\ pc = "settle"
    /\ delay <= MeasureTicks
    /\ delay' = 0
    /\ sweep' = sweep + 1
    /\ IF sweep < Len(SweepSteps)
       THEN /\ StartStores(op, [w \in Wheels |-> SweepSteps[sweep + 1]],
                           Stores.T150)
            /\ silence' = 0
       ELSE /\ StartStores(op, Off, Targets)
            /\ UNCHANGED silence
    /\ landed' = FALSE
    /\ UNCHANGED <<command_vars, control_vars, now, tick, host_alive>>

\* Mutant of Replied: the next line is read without going round the loop.
RepliedInner ==
    /\ SerialRuns
    /\ pc = "reply"
    /\ pc' = "read"
    /\ op' = "none"
    /\ arg' = Off
    /\ sweep' = 0
    /\ delay' = 0
    /\ landed' = FALSE
    /\ UNCHANGED <<command_vars, control_vars, todo, now, env_vars>>

\* serial_send_line and the rest of the command are over
Replied ==
    /\ SerialRuns
    /\ pc = "reply"
    /\ pc' = "top"
    /\ op' = "none"
    /\ arg' = Off
    /\ sweep' = 0
    /\ delay' = 0
    /\ landed' = FALSE
    /\ UNCHANGED <<command_vars, control_vars, todo, now, env_vars>>

SerialStep ==
    \/ Notify \/ ToRead \/ NoLine \/ Dispatch
    \/ \E w \in Wheels : StoreTarget(w) \/ StorePwm(w)
    \/ StoreDirect \/ Disarm \/ StoreIdle
    \/ StopLeft \/ StopRight
    \/ FeedReceived \/ FeedClock \/ FeedTime \/ FeedState
    \/ SweepNext \/ Replied

-----------------------------------------------------------------------------
(* The specification *)

\* shared_state_init has run, the tasks have just been created.  The tick is
\* wherever the initialisation (100 ms of delay and more) has brought it.
Init ==
    /\ target = Off
    /\ pwm = Off
    /\ direct_pwm_mode = FALSE
    /\ command_received = FALSE
    /\ last_command_ms = 0
    /\ sys_state = "IDLE"
    /\ heartbeat_fault_notify = FALSE
    /\ profiled = Off
    /\ drive = Off
    /\ regulated = FALSE
    /\ due = Period
    /\ pc = "top"
    /\ op = "none"
    /\ arg = Off
    /\ todo = {}
    /\ now = 0
    /\ sweep = 0
    /\ delay = 0
    /\ landed = FALSE
    /\ tick \in 0..(TickMod - 1)
    /\ host_alive = TRUE
    /\ silence = SilenceMax

Next == Tick \/ HostGoesSilent \/ ControlCycle \/ SerialStep

\* SysTick does not stop and FreeRTOS runs the ready task of highest priority.
\* The serial task is ready again and again with the control task asleep, and
\* then has the CPU: strong fairness.
Fairness ==
    /\ WF_vars(Tick)
    /\ WF_vars(ControlCycle)
    /\ SF_vars(SerialStep)

Spec == Init /\ [][Next]_vars /\ Fairness
-----------------------------------------------------------------------------
(* Properties *)

Fields == {"target_left", "target_right", "pwm_left", "pwm_right", "direct",
           "received", "state", "ms"}

\* Every variable keeps its type; the tick and the stored tick fit the counter
\* (shared_state.h, RobotState).
TypeOK ==
    /\ target \in [Wheels -> Int] /\ pwm \in [Wheels -> Int]
    /\ profiled \in [Wheels -> Int] /\ drive \in [Wheels -> Int]
    /\ arg \in [Wheels -> Int] /\ regulated \in BOOLEAN
    /\ direct_pwm_mode \in BOOLEAN /\ command_received \in BOOLEAN
    /\ heartbeat_fault_notify \in BOOLEAN
    /\ sys_state \in {"IDLE", "RUNNING"}
    /\ tick \in 0..(TickMod - 1) /\ last_command_ms \in 0..(TickMod - 1)
    /\ now \in 0..(TickMod - 1)
    /\ due \in (-MaxLate)..Period
    /\ pc \in {"top", "notify", "read", "sleep", "stores", "feed", "clock",
               "fed", "motor_left", "motor_right", "settle", "reply"}
    /\ op \in CommandNames \cup {"none"}
    /\ todo \subseteq Fields
    /\ sweep \in 0..(Len(SweepSteps) + 1)
    /\ delay \in 0..(SettleTicks + MeasureTicks + SendTicks)
    /\ landed \in BOOLEAN /\ host_alive \in BOOLEAN
    /\ silence \in 0..SilenceMax

Resting == pc \in {"top", "notify", "read", "sleep", "reply", "settle"}

\* No setpoint is left in force without the heartbeat guarding it: whenever the
\* serial task is between commands, a target or a direct duty other than zero
\* has command_received set, whatever control cycles (and failsafes) fell
\* between the stores of the commands before (json_cmd.cpp:84-197).
NoUnsupervisedMotion ==
    Resting /\ ~command_received =>
        target = Off /\ (direct_pwm_mode => pwm = Off)

\* The time of the last command is not yet that of the command in execution.
Feeding == pc = "clock" \/ (pc = "fed" /\ "ms" \in todo)

\* An armed heartbeat never gets older than the timeout, one period and the
\* delay of one cycle, and the modular difference never wraps into a young age
\* (main.cpp:244-249).
FailsafeDeadline ==
    command_received /\ ~Feeding => Elapsed <= Timeout + Period + MaxLate

\* Nobody asks for motion: the motors are off, or the PIDs hold the wheels at
\* a speed of zero.  What the integrators and the yaw correction do to a motor
\* in a standstill is VelocityLoop's.
Standstill == drive = Off \/ (regulated /\ profiled = Off)

\* The motors only follow a duty or a setpoint other than zero within a bounded
\* time of the last motion command, however the commands, the stop, the ramp
\* and the failsafe interleave (main.cpp:244-353, json_cmd.cpp:84-197).
StandstillUnlessHeard == silence > QuietBound => Standstill

\* A failsafe never fires while the notification of an earlier one is still
\* waiting, so the host is told of each one (main.cpp:260, 380-387).
NotifyNotLost == [][Failsafe => ~heartbeat_fault_notify]_vars

\* The sweep keeps the heartbeat fed: no failsafe fires during its settle time
\* (json_cmd.cpp:181-186).
SweepSupervised == [][Failsafe => pc # "settle"]_vars

Quiet ==
    Standstill /\ ~command_received /\ target = Off /\ ~direct_pwm_mode

\* Once the host has gone silent the robot is asked to stand still for good: no
\* stale setpoint, ramp or half-written command ever moves it again
\* (main.cpp:246-277).
SilenceBringsStandstill == ~host_alive ~> []Quiet

\* Every failsafe is reported to the host with a T:999 line, whatever commands
\* keep the serial task busy (main.cpp:379-387).
FailsafeReported == heartbeat_fault_notify ~> pc = "notify"

\* "Stop motors and reset PID state if Jetson goes silent" (main.cpp:247): the
\* failsafe fires only when no motion command came for the timeout.  The code
\* arms before it stores the time, so it does not hold.
FailsafeOnlyWhenSilent == [][Failsafe => silence > Timeout]_vars
=============================================================================
