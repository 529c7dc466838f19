------------------------- MODULE DriveControl_proofs -------------------------
(***************************************************************************)
(* Proofs about DriveControl: the type invariant, the supervision of every *)
(* setpoint, the deadline of the failsafe and its notification, how long   *)
(* motion is asked for after the last command, and when a failsafe can     *)
(* come early, for any commands, speeds, outputs of the PIDs, sweep and    *)
(* timing that satisfy the assumptions.                                    *)
(***************************************************************************)
EXTENDS DriveControl, TLAPS

-----------------------------------------------------------------------------
(* The inductive invariant *)

ZeroSetpoint == target = Off /\ (direct_pwm_mode => pwm = Off)
Supervised == command_received \/ ZeroSetpoint

\* Where the serial task is tells which command it executes and which stores
\* can be left.
Place ==
    /\ pc = "stores" =>
        /\ op \in {"T0", "T1", "T11", "T150", "T210"}
        /\ todo \subseteq (IF SweepEnd THEN Targets ELSE Stores[op])
    /\ pc \in {"feed", "clock", "fed"} => op \in MotionCommands /\ ~SweepEnd
    /\ pc = "fed" => todo \subseteq {"ms", "state"}
    /\ pc = "settle" => op = "T150" /\ ~SweepEnd
    /\ pc = "stores" /\ (op = "T0" \/ SweepEnd) => arg = Off

\* A stop, and the end of a sweep, have zeroed whatever they need not store
\* any more.
Zeroed ==
    /\ pc = "stores" /\ op = "T0" =>
        /\ \A w \in Wheels : TargetField[w] \notin todo => target[w] = 0
        /\ \A w \in Wheels : PwmField[w] \notin todo => pwm[w] = 0
        /\ "direct" \notin todo => ~direct_pwm_mode
    /\ pc \in {"motor_left", "motor_right"} => ZeroSetpoint

\* The heartbeat guards the setpoints except while a command writes them.
Guarded ==
    \/ Supervised
    \/ pc = "stores" /\ op \in {"T0", "T1", "T11", "T150"} /\ ~SweepEnd
    \/ pc = "feed"

\* An age and the time to the next cycle never add up to more than this.
AgeInv == command_received /\ ~Feeding => Elapsed + due <= Timeout + Period

\* The clock that was read for the heartbeat is at most one tick and one
\* delayed cycle old.
ReadInv ==
    pc = "fed" /\ "ms" \in todo =>
        /\ Minus(tick, now) <= 1 + MaxLate
        /\ due <= 0 => Minus(tick, now) <= 1 - due
        /\ ~landed => now = tick /\ due > 0

IInv == TypeOK /\ Place /\ Zeroed /\ Guarded /\ AgeInv /\ ReadInv

-----------------------------------------------------------------------------
(* The operators of the module *)

\* The zero setpoint is a setpoint.
LEMMA OffType == Off \in [Wheels -> Int]
BY DEF Off

\* The store of one wheel leaves a setpoint.
LEMMA WheelStoreType ==
    ASSUME NEW f \in [Wheels -> Int], NEW w \in Wheels, NEW v \in Int
    PROVE  [f EXCEPT ![w] = v] \in [Wheels -> Int]
OBVIOUS

\* The slewed setpoint and the scaled duty of a wheel are integers.
LEMMA SetpointType ==
    ASSUME TypeOK, NEW w \in Wheels
    PROVE  Slewed(w) \in Int /\ Scale(pwm[w]) \in Int
<1>1. target[w] \in Int /\ profiled[w] \in Int /\ pwm[w] \in Int
  BY DEF TypeOK
<1>2. target[w] * RpmPerUnit \in Int
  BY <1>1, SetpointAssumption
<1>3. Slewed(w) \in Int
  BY <1>1, <1>2, SetpointAssumption DEF Slewed, Clamp
<1>4. Scale(pwm[w]) \in Int
  BY <1>1 DEF Scale
<1> QED
  BY <1>3, <1>4

\* What the serial task waits at a place is a number of ticks.
LEMMA WaitType ==
    ASSUME NEW place
    PROVE  LongestWait(place) \in 0..(SettleTicks + MeasureTicks + SendTicks)
BY TimeAssumption DEF LongestWait

LEMMA DelayType ==
    /\ 0 \in 0..(SettleTicks + MeasureTicks + SendTicks)
    /\ SendTicks \in 0..(SettleTicks + MeasureTicks + SendTicks)
BY TimeAssumption

\* The bound of the history counter is a number.
LEMMA SilenceMaxType == SilenceMax \in Nat
<1>1. 100 * RpmPerUnit + MaxDelta - 1 \in Nat
  BY SetpointAssumption
<1>2. RampCycles \in Nat
  BY <1>1, SetpointAssumption DEF RampCycles
<1>3. /\ RampCycles * Period + Period \in Nat
      /\ (RampCycles + 1) * Period = RampCycles * Period + Period
  BY <1>2, TimeAssumption
<1> QED
  BY <1>3, TimeAssumption DEF SilenceMax, QuietBound
-----------------------------------------------------------------------------
(* Type correctness *)

\* Every step keeps the types.
LEMMA TypeStep ==
    ASSUME TypeOK, Place, [Next]_vars
    PROVE  TypeOK'
<1> USE DEF TypeOK, command_vars, control_vars, serial_vars, env_vars
<1>1. CASE Tick
  BY <1>1, SilenceMaxType, TimeAssumption DEF Tick
<1>2. CASE HostGoesSilent
  BY <1>2 DEF HostGoesSilent
<1>3. CASE Failsafe
  <2>1. due' \in (-MaxLate)..Period
    BY <1>3, TimeAssumption DEF Failsafe, NextWake
  <2> QED
    BY <1>3, <2>1, OffType DEF Failsafe
<1>4. CASE DirectCycle
  <2>1. due' \in (-MaxLate)..Period
    BY <1>4, TimeAssumption DEF DirectCycle, NextWake
  <2>2. drive' \in [Wheels -> Int]
    BY <1>4, SetpointType DEF DirectCycle
  <2> QED
    BY <1>4, <2>1, <2>2, OffType DEF DirectCycle
<1>5. CASE VelocityCycle
  <2>1. ASSUME NEW out \in [Wheels -> OutputLevels]
        PROVE  out \in [Wheels -> Int]
    <3>1. OutputLevels \subseteq Int
      BY RangeAssumption
    <3> QED
      BY <3>1
  <2>2. drive' \in [Wheels -> Int] /\ regulated' = TRUE
    BY <1>5, <2>1 DEF VelocityCycle
  <2>3. profiled' \in [Wheels -> Int] /\ due' \in (-MaxLate)..Period
    BY <1>5, SetpointType, TimeAssumption DEF VelocityCycle, NextWake
  <2> QED
    BY <1>5, <2>2, <2>3 DEF VelocityCycle
<1>6. CASE Notify
  BY <1>6, DelayType DEF Notify
<1>7. CASE ToRead
  BY <1>7, DelayType DEF ToRead
<1>8. CASE NoLine
  BY <1>8 DEF NoLine
<1>9. CASE Dispatch
  <2>1. sweep' \in 0..(Len(SweepSteps) + 1)
    BY <1>9, CommandAssumption DEF Dispatch
  <2>2. pc' \in {"stores", "reply"} /\ op' \in CommandNames
    BY <1>9 DEF Dispatch, StartStores, CommandNames
  <2>3. todo' \subseteq Fields
    BY <1>9 DEF Dispatch, StartStores, Stores, Targets, Pwms, Fields
  <2>4. arg' \in [Wheels -> Int]
    <3>1. ASSUME NEW a \in [Wheels -> SpeedLevels]
          PROVE  a \in [Wheels -> Int]
      BY CommandAssumption
    <3>2. ASSUME NEW a \in [Wheels -> PwmLevels]
          PROVE  a \in [Wheels -> Int]
      BY CommandAssumption
    <3>3. [w \in Wheels |-> SweepSteps[1]] \in [Wheels -> Int]
      BY CommandAssumption
    <3> QED
      BY <1>9, <3>1, <3>2, <3>3, OffType DEF Dispatch, StartStores
  <2>5. silence' \in 0..SilenceMax /\ landed' \in BOOLEAN
    BY <1>9, SilenceMaxType DEF Dispatch
  <2>6. UNCHANGED <<command_vars, control_vars, now, delay, tick, host_alive>>
    BY <1>9 DEF Dispatch
  <2> QED
    BY <2>1, <2>2, <2>3, <2>4, <2>5, <2>6
<1>10. CASE \E w \in Wheels : StoreTarget(w)
  BY <1>10, WaitType DEF StoreTarget, Stored, AfterStores, Place
<1>11. CASE \E w \in Wheels : StorePwm(w)
  BY <1>11, WaitType DEF StorePwm, Stored, AfterStores, Place
<1>12. CASE StoreDirect
  BY <1>12, WaitType DEF StoreDirect, Stored, AfterStores
<1>13. CASE Disarm
  BY <1>13, WaitType DEF Disarm, Stored, AfterStores
<1>14. CASE StoreIdle
  BY <1>14, WaitType DEF StoreIdle, Stored, AfterStores
<1>15. CASE StopLeft
  <2>1. "left" \in Wheels /\ "right" \in Wheels
    BY DEF Wheels
  <2>2. drive' \in [Wheels -> Int]
    BY <1>15, <2>1, WheelStoreType DEF StopLeft
  <2> QED
    BY <1>15, <2>2 DEF StopLeft
<1>16. CASE StopRight
  <2>1. "left" \in Wheels /\ "right" \in Wheels
    BY DEF Wheels
  <2>2. drive' \in [Wheels -> Int]
    BY <1>16, <2>1, WheelStoreType DEF StopRight
  <2> QED
    BY <1>16, <2>2 DEF StopRight
<1>17. CASE FeedReceived
  BY <1>17 DEF FeedReceived
<1>18. CASE FeedClock
  BY <1>18 DEF FeedClock, Fields
<1>19. CASE FeedTime
  <2>1. todo' \subseteq Fields /\ landed' \in BOOLEAN
    BY <1>19 DEF FeedTime, Fed
  <2>2. last_command_ms' \in 0..(TickMod - 1) /\ sys_state' = sys_state
    BY <1>19 DEF FeedTime, Fed
  <2>3. /\ pc' \in {"settle", "reply", "top"} \cup {pc}
        /\ op' \in CommandNames \cup {"none"}
        /\ delay' \in 0..(SettleTicks + MeasureTicks + SendTicks)
        /\ now' \in 0..(TickMod - 1)
    BY <1>19, TimeAssumption DEF FeedTime, Fed, AfterFeed, LongestWait
  <2>4. arg' \in [Wheels -> Int]
    BY <1>19, OffType DEF FeedTime, Fed
  <2>5. UNCHANGED <<target, pwm, direct_pwm_mode, command_received,
                    heartbeat_fault_notify, control_vars, sweep, env_vars>>
    BY <1>19 DEF FeedTime, Fed
  <2> QED
    BY <2>1, <2>2, <2>3, <2>4, <2>5
<1>20. CASE FeedState
  <2>1. todo' \subseteq Fields /\ landed' \in BOOLEAN
    BY <1>20 DEF FeedState, Fed
  <2>2. /\ sys_state' \in {"IDLE", "RUNNING"}
        /\ last_command_ms' = last_command_ms
    BY <1>20 DEF FeedState, Fed
  <2>3. /\ pc' \in {"settle", "reply", "top"} \cup {pc}
        /\ op' \in CommandNames \cup {"none"}
        /\ delay' \in 0..(SettleTicks + MeasureTicks + SendTicks)
        /\ now' \in 0..(TickMod - 1)
    BY <1>20, TimeAssumption DEF FeedState, Fed, AfterFeed, LongestWait
  <2>4. arg' \in [Wheels -> Int]
    BY <1>20, OffType DEF FeedState, Fed
  <2>5. UNCHANGED <<target, pwm, direct_pwm_mode, command_received,
                    heartbeat_fault_notify, control_vars, sweep, env_vars>>
    BY <1>20 DEF FeedState, Fed
  <2> QED
    BY <2>1, <2>2, <2>3, <2>4, <2>5
<1>21. CASE SweepNext
  <2>1. /\ op = "T150" /\ sweep \in 0..Len(SweepSteps)
        /\ Len(SweepSteps) \in Nat
    BY <1>21, CommandAssumption DEF SweepNext, Place, SweepEnd
  <2>2. sweep' \in 0..(Len(SweepSteps) + 1)
    BY <1>21, <2>1 DEF SweepNext
  <2>3. todo' \subseteq Fields
    BY <1>21 DEF SweepNext, StartStores, Stores, Targets, Fields
  <2>4. arg' \in [Wheels -> Int]
    <3>1. CASE sweep < Len(SweepSteps)
      <4>1. SweepSteps[sweep + 1] \in Int
        BY <2>1, <3>1, CommandAssumption
      <4> QED
        BY <1>21, <3>1, <4>1 DEF SweepNext, StartStores
    <3>2. CASE ~(sweep < Len(SweepSteps))
      BY <1>21, <3>2, OffType DEF SweepNext, StartStores
    <3> QED
      BY <3>1, <3>2
  <2>5. silence' \in 0..SilenceMax
    BY <1>21, SilenceMaxType DEF SweepNext
  <2>6. /\ pc' = "stores" /\ op' = op /\ landed' = FALSE /\ delay' = 0
        /\ UNCHANGED <<command_vars, control_vars, now, tick, host_alive>>
    BY <1>21 DEF SweepNext, StartStores
  <2> QED
    BY <2>2, <2>3, <2>4, <2>5, <2>6, DelayType
<1>22. CASE Replied
  <2>1. sweep' \in 0..(Len(SweepSteps) + 1)
    BY <1>22, CommandAssumption DEF Replied
  <2> QED
    BY <1>22, <2>1, OffType, DelayType DEF Replied
<1>23. CASE UNCHANGED vars
  BY <1>23 DEF vars, command_vars, control_vars, serial_vars, env_vars
<1> QED
  BY <1>1, <1>2, <1>3, <1>4, <1>5, <1>6, <1>7, <1>8, <1>9, <1>10, <1>11, <1>12,
     <1>13, <1>14, <1>15, <1>16, <1>17, <1>18, <1>19, <1>20, <1>21, <1>22,
     <1>23
     DEF Next, ControlCycle, SerialStep
-----------------------------------------------------------------------------
(* The other parts of the inductive invariant *)

\* Nothing happens to Place while the serial task stands still, or when it
\* goes where no command is half done.
LEMMA PlaceKept ==
    ASSUME Place,
           \/ UNCHANGED <<pc, op, arg, todo, sweep>>
           \/ pc' \in {"top", "notify", "read", "sleep", "reply", "motor_left",
                       "motor_right"}
    PROVE  Place'
BY DEF Place, SweepEnd

\* Every step keeps Place.
LEMMA PlaceStep ==
    ASSUME TypeOK, Place, [Next]_vars
    PROVE  Place'
<1> USE DEF command_vars, control_vars, serial_vars, env_vars
<1>1. CASE Tick
  <2>1. pc = "sleep" => pc' = "top"
    BY <1>1 DEF Tick
  <2>2. pc # "sleep" => UNCHANGED <<pc, op, arg, todo, sweep>>
    BY <1>1 DEF Tick
  <2> QED
    BY <2>1, <2>2, PlaceKept
<1>2. CASE HostGoesSilent
  BY <1>2, PlaceKept DEF HostGoesSilent
<1>3. CASE Failsafe
  BY <1>3, PlaceKept DEF Failsafe, NextWake
<1>4. CASE DirectCycle
  BY <1>4, PlaceKept DEF DirectCycle, NextWake
<1>5. CASE VelocityCycle
  BY <1>5, PlaceKept DEF VelocityCycle, NextWake
<1>6. CASE Notify
  BY <1>6, PlaceKept DEF Notify
<1>7. CASE ToRead
  BY <1>7, PlaceKept DEF ToRead
<1>8. CASE NoLine
  BY <1>8, PlaceKept DEF NoLine
<1>9. CASE Dispatch
  <2>1. Len(SweepSteps) \in Nat /\ Len(SweepSteps) > 0
    BY CommandAssumption
  <2>2. /\ pc' \in {"stores", "reply"}
        /\ op' = "T150" => sweep' = 1
        /\ pc' = "stores" => op' \in {"T0", "T1", "T11", "T150", "T210"}
    BY <1>9 DEF Dispatch, StartStores
  <2>3. ~SweepEnd'
    BY <2>1, <2>2 DEF SweepEnd
  <2>4. pc' = "stores" => todo' \subseteq Stores[op']
    BY <1>9 DEF Dispatch, StartStores, Stores
  <2>5. pc' = "stores" /\ op' = "T0" => arg' = Off
    BY <1>9 DEF Dispatch, StartStores
  <2> QED
    BY <2>2, <2>3, <2>4, <2>5 DEF Place
<1>10. CASE \E w \in Wheels : StoreTarget(w)
  BY <1>10, PlaceKept
     DEF StoreTarget, Stored, AfterStores, Place, SweepEnd, MotionCommands
<1>11. CASE \E w \in Wheels : StorePwm(w)
  BY <1>11, PlaceKept
     DEF StorePwm, Stored, AfterStores, Place, SweepEnd, MotionCommands
<1>12. CASE StoreDirect
  BY <1>12, PlaceKept
     DEF StoreDirect, Stored, AfterStores, Place, SweepEnd, MotionCommands
<1>13. CASE Disarm
  BY <1>13, PlaceKept
     DEF Disarm, Stored, AfterStores, Place, SweepEnd, MotionCommands
<1>14. CASE StoreIdle
  BY <1>14, PlaceKept
     DEF StoreIdle, Stored, AfterStores, Place, SweepEnd, MotionCommands
<1>15. CASE StopLeft
  BY <1>15, PlaceKept DEF StopLeft
<1>16. CASE StopRight
  BY <1>16, PlaceKept DEF StopRight
<1>17. CASE FeedReceived
  BY <1>17 DEF FeedReceived, Place, SweepEnd
<1>18. CASE FeedClock
  BY <1>18 DEF FeedClock, Place, SweepEnd
<1>19. CASE FeedTime
  BY <1>19 DEF FeedTime, Fed, Place, SweepEnd, AfterFeed, MotionCommands
<1>20. CASE FeedState
  BY <1>20 DEF FeedState, Fed, Place, SweepEnd, AfterFeed, MotionCommands
<1>21. CASE SweepNext
  <2>1. /\ op = "T150" /\ pc' = "stores" /\ op' = "T150"
        /\ sweep \in Nat /\ sweep' = sweep + 1 /\ Len(SweepSteps) \in Nat
    BY <1>21, CommandAssumption DEF SweepNext, StartStores, Place, TypeOK
  <2>2. CASE sweep < Len(SweepSteps)
    <3>1. ~SweepEnd' /\ todo' = Stores[op']
      BY <1>21, <2>1, <2>2 DEF SweepNext, StartStores, SweepEnd, Stores
    <3> QED
      BY <2>1, <3>1 DEF Place
  <2>3. CASE ~(sweep < Len(SweepSteps))
    <3>1. SweepEnd' /\ todo' = Targets /\ arg' = Off
      BY <1>21, <2>1, <2>3 DEF SweepNext, StartStores, SweepEnd
    <3> QED
      BY <2>1, <3>1 DEF Place
  <2> QED
    BY <2>2, <2>3
<1>22. CASE Replied
  BY <1>22, PlaceKept DEF Replied
<1>23. CASE UNCHANGED vars
  BY <1>23, PlaceKept DEF vars
<1> QED
  BY <1>1, <1>2, <1>3, <1>4, <1>5, <1>6, <1>7, <1>8, <1>9, <1>10, <1>11, <1>12,
     <1>13, <1>14, <1>15, <1>16, <1>17, <1>18, <1>19, <1>20, <1>21, <1>22,
     <1>23
     DEF Next, ControlCycle, SerialStep

\* Zeroed says nothing of a command other than a stop.
LEMMA ZeroedKept ==
    ASSUME Zeroed,
           \/ /\ UNCHANGED <<target, pwm, direct_pwm_mode, todo>>
              /\ pc' = "stores" /\ op' = "T0" => pc = "stores" /\ op = "T0"
              /\ pc' \in {"motor_left", "motor_right"} =>
                    pc \in {"motor_left", "motor_right"}
           \/ pc' \notin {"stores", "motor_left", "motor_right"}
           \/ pc' = "stores" /\ op' # "T0"
    PROVE  Zeroed'
BY DEF Zeroed, ZeroSetpoint

\* The stores are of different fields.
LEMMA FieldNames ==
    /\ \A v, w \in Wheels :
        /\ TargetField[v] = TargetField[w] => v = w
        /\ PwmField[v] = PwmField[w] => v = w
        /\ TargetField[v] # PwmField[w]
    /\ \A w \in Wheels :
        /\ TargetField[w] \in Targets /\ PwmField[w] \in Pwms
        /\ TargetField[w] \notin {"direct", "state"}
        /\ PwmField[w] \notin {"direct", "state"} \cup Targets
        /\ {TargetField[w], PwmField[w]}
              \cap {"direct", "received", "state"} = {}
    /\ {"direct", "received", "state"} \cap Targets = {}
BY DEF Wheels, TargetField, PwmField, Targets, Pwms

\* What the stores of a stop need not do any more has been done.
StopDone ==
    /\ \A w \in Wheels : TargetField[w] \notin todo => target[w] = 0
    /\ \A w \in Wheels : PwmField[w] \notin todo => pwm[w] = 0
    /\ "direct" \notin todo => ~direct_pwm_mode

\* A store of a stop keeps Zeroed if it keeps StopDone.
LEMMA ZeroedStored ==
    ASSUME NEW f, Stored(f), op' = op, Place, Zeroed, TypeOK',
           op = "T0" => StopDone'
    PROVE  Zeroed'
<1>1. CASE op # "T0"
  BY <1>1, ZeroedKept DEF Stored, AfterStores, Place
<1>2. CASE op = "T0"
  <2>1. pc' \in {"stores", "motor_left"} /\ (pc' = "motor_left" => todo' = {})
    BY <1>2 DEF Stored, AfterStores
  <2>2. todo' = {} => ZeroSetpoint'
    BY <1>2 DEF StopDone, ZeroSetpoint, TypeOK, Off
  <2> QED
    BY <1>2, <2>1, <2>2 DEF Zeroed, StopDone
<1> QED
  BY <1>1, <1>2

\* Every step keeps Zeroed.
LEMMA ZeroedStep ==
    ASSUME TypeOK, TypeOK', Place, Zeroed, [Next]_vars
    PROVE  Zeroed'
<1> USE DEF command_vars, control_vars, serial_vars, env_vars
<1>1. CASE Tick
  BY <1>1, ZeroedKept DEF Tick
<1>2. CASE HostGoesSilent
  BY <1>2, ZeroedKept DEF HostGoesSilent
<1>3. CASE Failsafe
  BY <1>3 DEF Failsafe, NextWake, Zeroed, ZeroSetpoint, Off
<1>4. CASE DirectCycle
  BY <1>4, ZeroedKept DEF DirectCycle, NextWake
<1>5. CASE VelocityCycle
  BY <1>5, ZeroedKept DEF VelocityCycle, NextWake
<1>6. CASE Notify
  BY <1>6, ZeroedKept DEF Notify
<1>7. CASE ToRead
  BY <1>7, ZeroedKept DEF ToRead
<1>8. CASE NoLine
  BY <1>8, ZeroedKept DEF NoLine
<1>9. CASE Dispatch
  BY <1>9
     DEF Dispatch, StartStores, Zeroed, Stores, Targets, Pwms, TargetField,
         PwmField, Wheels
<1>10. CASE \E w \in Wheels : StoreTarget(w)
  <2>1. PICK w \in Wheels : StoreTarget(w)
    BY <1>10
  <2>2. ASSUME op = "T0" PROVE StopDone'
    <3>1. StopDone /\ arg[w] = 0
      BY <2>1, <2>2 DEF StoreTarget, Stored, Zeroed, StopDone, Place, Off
    <3>2. /\ target' = [target EXCEPT ![w] = arg[w]]
          /\ todo' = todo \ {TargetField[w]}
          /\ pwm' = pwm /\ direct_pwm_mode' = direct_pwm_mode
          /\ target \in [Wheels -> Int]
      BY <2>1 DEF StoreTarget, Stored, TypeOK
    <3>3. \A v \in Wheels : TargetField[v] \notin todo' => target'[v] = 0
      BY <3>1, <3>2, FieldNames DEF StopDone
    <3>4. \A v \in Wheels : PwmField[v] \notin todo' => pwm'[v] = 0
      BY <3>1, <3>2, FieldNames DEF StopDone
    <3>5. "direct" \notin todo' => ~direct_pwm_mode'
      BY <3>1, <3>2, FieldNames DEF StopDone
    <3> QED
      BY <3>3, <3>4, <3>5 DEF StopDone
  <2> QED
    BY <2>1, <2>2, ZeroedStored DEF StoreTarget
<1>11. CASE \E w \in Wheels : StorePwm(w)
  <2>1. PICK w \in Wheels : StorePwm(w)
    BY <1>11
  <2>2. ASSUME op = "T0" PROVE StopDone'
    <3>1. StopDone /\ arg[w] = 0
      BY <2>1, <2>2 DEF StorePwm, Stored, Zeroed, StopDone, Place, Off
    <3>2. /\ pwm' = [pwm EXCEPT ![w] = arg[w]] /\ todo' = todo \ {PwmField[w]}
          /\ target' = target /\ direct_pwm_mode' = direct_pwm_mode
          /\ pwm \in [Wheels -> Int]
      BY <2>1 DEF StorePwm, Stored, TypeOK
    <3>3. \A v \in Wheels : PwmField[v] \notin todo' => pwm'[v] = 0
      BY <3>1, <3>2, FieldNames DEF StopDone
    <3>4. \A v \in Wheels : TargetField[v] \notin todo' => target'[v] = 0
      BY <3>1, <3>2, FieldNames DEF StopDone
    <3>5. "direct" \notin todo' => ~direct_pwm_mode'
      BY <3>1, <3>2, FieldNames DEF StopDone
    <3> QED
      BY <3>3, <3>4, <3>5 DEF StopDone
  <2> QED
    BY <2>1, <2>2, ZeroedStored DEF StorePwm
<1>12. CASE StoreDirect
  <2>1. op = "T0" => StopDone'
    BY <1>12, FieldNames
       DEF StoreDirect, Stored, Zeroed, StopDone, Targets, Pwms
  <2> QED
    BY <1>12, <2>1, ZeroedStored DEF StoreDirect
<1>13. CASE Disarm
  <2>1. op = "T0" => StopDone'
    BY <1>13, FieldNames DEF Disarm, Stored, Zeroed, StopDone, Targets, Pwms
  <2> QED
    BY <1>13, <2>1, ZeroedStored DEF Disarm
<1>14. CASE StoreIdle
  <2>1. op = "T0" => StopDone'
    BY <1>14, FieldNames DEF StoreIdle, Stored, Zeroed, StopDone, Targets, Pwms
  <2> QED
    BY <1>14, <2>1, ZeroedStored DEF StoreIdle
<1>15. CASE StopLeft
  BY <1>15, ZeroedKept DEF StopLeft
<1>16. CASE StopRight
  BY <1>16, ZeroedKept DEF StopRight
<1>17. CASE FeedReceived
  BY <1>17, ZeroedKept DEF FeedReceived
<1>18. CASE FeedClock
  BY <1>18, ZeroedKept DEF FeedClock
<1>19. CASE FeedTime
  BY <1>19, ZeroedKept DEF FeedTime, Fed, AfterFeed
<1>20. CASE FeedState
  BY <1>20, ZeroedKept DEF FeedState, Fed, AfterFeed
<1>21. CASE SweepNext
  BY <1>21, ZeroedKept DEF SweepNext, StartStores, Place
<1>22. CASE Replied
  BY <1>22, ZeroedKept DEF Replied
<1>23. CASE UNCHANGED vars
  BY <1>23, ZeroedKept DEF vars
<1> QED
  BY <1>1, <1>2, <1>3, <1>4, <1>5, <1>6, <1>7, <1>8, <1>9, <1>10, <1>11, <1>12,
     <1>13, <1>14, <1>15, <1>16, <1>17, <1>18, <1>19, <1>20, <1>21, <1>22,
     <1>23
     DEF Next, ControlCycle, SerialStep

\* T:210 and the end of a sweep arm nothing, and write no setpoint but zero.
LEMMA LastStores ==
    ASSUME Place, pc = "stores"
    PROVE  /\ op = "T210" => todo \subseteq {"state"}
           /\ SweepEnd => todo \subseteq Targets
BY DEF Place, SweepEnd, Stores

\* A store of a command keeps the setpoints guarded if those of a sweep's end
\* and of T:210 do.
LEMMA GuardedStored ==
    ASSUME NEW f, Stored(f), UNCHANGED <<op, sweep>>, Place, Zeroed', Guarded,
           op = "T210" \/ SweepEnd => (Supervised => Supervised')
    PROVE  Guarded'
<1>1. CASE op \in {"T1", "T11", "T150"} /\ ~SweepEnd
  BY <1>1 DEF Stored, AfterStores, SweepEnd, Guarded
<1>2. CASE op = "T0"
  <2>1. ~SweepEnd' /\ pc' \in {"stores", "motor_left"}
    BY <1>2 DEF Stored, AfterStores, SweepEnd
  <2> QED
    BY <1>2, <2>1 DEF Guarded, Supervised, Zeroed
<1>3. CASE op = "T210" \/ SweepEnd
  <2>1. Supervised
    BY <1>3 DEF Stored, Guarded, SweepEnd
  <2> QED
    BY <1>3, <2>1 DEF Guarded
<1> QED
  BY <1>1, <1>2, <1>3 DEF Stored, Place

\* Every step keeps the setpoints guarded.
LEMMA GuardedStep ==
    ASSUME TypeOK, Place, Zeroed', Guarded, [Next]_vars
    PROVE  Guarded'
<1> USE DEF command_vars, control_vars, serial_vars, env_vars, Guarded,
            Supervised, ZeroSetpoint, SweepEnd
<1>1. CASE Tick
  BY <1>1 DEF Tick
<1>2. CASE HostGoesSilent
  BY <1>2 DEF HostGoesSilent
<1>3. CASE Failsafe
  BY <1>3 DEF Failsafe, NextWake
<1>4. CASE DirectCycle
  BY <1>4 DEF DirectCycle, NextWake
<1>5. CASE VelocityCycle
  BY <1>5 DEF VelocityCycle, NextWake
<1>6. CASE Notify
  BY <1>6 DEF Notify
<1>7. CASE ToRead
  BY <1>7 DEF ToRead
<1>8. CASE NoLine
  BY <1>8 DEF NoLine
<1>9. CASE Dispatch
  BY <1>9 DEF Dispatch, StartStores
<1>10. CASE \E w \in Wheels : StoreTarget(w)
  <2>1. PICK w \in Wheels : StoreTarget(w)
    BY <1>10
  <2>2. ASSUME op = "T210" \/ SweepEnd, Supervised
        PROVE  Supervised'
    <3>1. SweepEnd /\ arg = Off
      BY <2>1, <2>2, FieldNames, LastStores DEF StoreTarget, Stored, Place
    <3>2. target = Off => target' = Off
      BY <2>1, <3>1 DEF StoreTarget, Off
    <3> QED
      BY <2>1, <2>2, <3>2 DEF StoreTarget
  <2> QED
    BY <2>1, <2>2, GuardedStored DEF StoreTarget
<1>11. CASE \E w \in Wheels : StorePwm(w)
  <2>1. PICK w \in Wheels : StorePwm(w)
    BY <1>11
  <2>2. ~(op = "T210" \/ SweepEnd)
    BY <2>1, FieldNames, LastStores DEF StorePwm, Stored
  <2> QED
    BY <2>1, <2>2, GuardedStored DEF StorePwm
<1>12. CASE StoreDirect
  <2>2. ~(op = "T210" \/ SweepEnd)
    BY <1>12, FieldNames, LastStores DEF StoreDirect, Stored
  <2> QED
    BY <1>12, <2>2, GuardedStored DEF StoreDirect
<1>13. CASE Disarm
  <2>2. ~(op = "T210" \/ SweepEnd)
    BY <1>13, FieldNames, LastStores DEF Disarm, Stored
  <2> QED
    BY <1>13, <2>2, GuardedStored DEF Disarm
<1>14. CASE StoreIdle
  <2>2. Supervised => Supervised'
    BY <1>14 DEF StoreIdle
  <2> QED
    BY <1>14, <2>2, GuardedStored DEF StoreIdle
<1>15. CASE StopLeft
  BY <1>15 DEF StopLeft, Zeroed
<1>16. CASE StopRight
  BY <1>16 DEF StopRight, Zeroed
<1>17. CASE FeedReceived
  BY <1>17 DEF FeedReceived
<1>18. CASE FeedClock
  BY <1>18 DEF FeedClock
<1>19. CASE FeedTime
  BY <1>19 DEF FeedTime, Fed
<1>20. CASE FeedState
  BY <1>20 DEF FeedState, Fed
<1>21. CASE SweepNext
  BY <1>21 DEF SweepNext, StartStores, Place
<1>22. CASE Replied
  BY <1>22 DEF Replied
<1>23. CASE UNCHANGED vars
  BY <1>23 DEF vars
<1> QED
  BY <1>1, <1>2, <1>3, <1>4, <1>5, <1>6, <1>7, <1>8, <1>9, <1>10, <1>11, <1>12,
     <1>13, <1>14, <1>15, <1>16, <1>17, <1>18, <1>19, <1>20, <1>21, <1>22,
     <1>23
     DEF Next, ControlCycle, SerialStep

\* The modular difference of two ticks is a number, zero for the same tick.
LEMMA MinusType ==
    ASSUME NEW a \in 0..(TickMod - 1), NEW b \in 0..(TickMod - 1)
    PROVE  Minus(b, a) \in Nat /\ Minus(b, b) = 0
BY TimeAssumption DEF Minus

\* A tick adds at most one to the difference.
LEMMA MinusTick ==
    ASSUME TypeOK, Tick, NEW a \in 0..(TickMod - 1)
    PROVE  /\ Minus(tick, a) \in Nat /\ Minus(tick', a) \in Nat
           /\ Minus(tick', a) <= Minus(tick, a) + 1
<1>1. tick \in 0..(TickMod - 1) /\ TickMod \in Nat
  BY TimeAssumption DEF TypeOK
<1>2. tick' = (IF tick = TickMod - 1 THEN 0 ELSE tick + 1)
  BY DEF Tick
<1> QED
  BY <1>1, <1>2 DEF Minus

\* AgeInv depends on the clock, the armed heartbeat and the cycle only.
LEMMA AgeKept ==
    ASSUME AgeInv, UNCHANGED <<tick, last_command_ms, due>>,
           command_received' => command_received \/ Feeding',
           Feeding => Feeding' \/ ~command_received'
    PROVE  AgeInv'
BY DEF AgeInv, Elapsed

\* ReadInv depends on the clock read, the tick and the cycle only.
LEMMA ReadKept ==
    ASSUME ReadInv, UNCHANGED <<tick, now, due, landed>>,
           pc' = "fed" /\ "ms" \in todo' => pc = "fed" /\ "ms" \in todo
    PROVE  ReadInv'
BY DEF ReadInv

\* ReadInv says nothing outside the heartbeat's stores.
LEMMA ReadAway == ASSUME pc' # "fed" PROVE ReadInv'
BY DEF ReadInv

\* Every step keeps the age bounded.
LEMMA AgeStep ==
    ASSUME TypeOK, AgeInv, ReadInv, [Next]_vars
    PROVE  AgeInv'
<1> USE DEF command_vars, control_vars, serial_vars, env_vars
<1>1. CASE Tick
  <2>1. /\ Elapsed \in Nat /\ Elapsed' \in Nat /\ Elapsed' <= Elapsed + 1
    <3>1. /\ last_command_ms \in 0..(TickMod - 1)
          /\ last_command_ms' = last_command_ms
      BY <1>1 DEF Tick, TypeOK
    <3> QED
      BY <1>1, <3>1, MinusTick DEF Elapsed
  <2>2. Feeding' = Feeding /\ command_received' = command_received
    BY <1>1 DEF Tick, Feeding
  <2>3. due' = due - 1 /\ due \in Int /\ Timeout + Period \in Int
    BY <1>1, TimeAssumption DEF Tick, TypeOK
  <2>4. /\ Elapsed + due \in Int /\ Elapsed' + (due - 1) \in Int
        /\ Elapsed' + (due - 1) <= Elapsed + due
    <3>1. ASSUME NEW e \in Nat, NEW f \in Nat, f <= e + 1, NEW d \in Int
          PROVE  e + d \in Int /\ f + (d - 1) \in Int /\ f + (d - 1) <= e + d
      BY <3>1
    <3> QED
      BY <2>1, <2>3, <3>1
  <2>6. CASE command_received /\ ~Feeding
    BY <2>2, <2>3, <2>4, <2>6 DEF AgeInv
  <2>7. CASE ~(command_received /\ ~Feeding)
    BY <2>2, <2>7 DEF AgeInv
  <2> QED
    BY <2>6, <2>7
<1>2. CASE HostGoesSilent
  BY <1>2, AgeKept DEF HostGoesSilent, Feeding
<1>3. CASE Failsafe
  BY <1>3 DEF Failsafe, NextWake, AgeInv
<1>4. CASE DirectCycle
  <2>1. command_received' => command_received /\ Elapsed <= Timeout
    BY <1>4, MinusType, TimeAssumption
       DEF DirectCycle, HeartbeatLost, Elapsed, TypeOK
  <2>2. /\ Elapsed' = Elapsed /\ due' = due + Period /\ due <= 0
        /\ Elapsed \in Nat
    BY <1>4, MinusType DEF DirectCycle, NextWake, Elapsed, TypeOK
  <2> QED
    BY <2>1, <2>2, TimeAssumption DEF AgeInv, TypeOK
<1>5. CASE VelocityCycle
  <2>1. command_received' => command_received /\ Elapsed <= Timeout
    BY <1>5, MinusType, TimeAssumption
       DEF VelocityCycle, HeartbeatLost, Elapsed, TypeOK
  <2>2. /\ Elapsed' = Elapsed /\ due' = due + Period /\ due <= 0
        /\ Elapsed \in Nat
    BY <1>5, MinusType DEF VelocityCycle, NextWake, Elapsed, TypeOK
  <2> QED
    BY <2>1, <2>2, TimeAssumption DEF AgeInv, TypeOK
<1>6. CASE Notify
  BY <1>6, AgeKept DEF Notify, Feeding
<1>7. CASE ToRead
  BY <1>7, AgeKept DEF ToRead, Feeding
<1>8. CASE NoLine
  BY <1>8, AgeKept DEF NoLine, Feeding
<1>9. CASE Dispatch
  BY <1>9, AgeKept DEF Dispatch, StartStores, Feeding
<1>10. CASE \E w \in Wheels : StoreTarget(w)
  BY <1>10, AgeKept DEF StoreTarget, Stored, Feeding, AfterStores
<1>11. CASE \E w \in Wheels : StorePwm(w)
  BY <1>11, AgeKept DEF StorePwm, Stored, Feeding, AfterStores
<1>12. CASE StoreDirect
  BY <1>12, AgeKept DEF StoreDirect, Stored, Feeding, AfterStores
<1>13. CASE Disarm
  BY <1>13, AgeKept DEF Disarm, Stored, Feeding, AfterStores
<1>14. CASE StoreIdle
  BY <1>14, AgeKept DEF StoreIdle, Stored, Feeding, AfterStores
<1>15. CASE StopLeft
  BY <1>15, AgeKept DEF StopLeft, Feeding
<1>16. CASE StopRight
  BY <1>16, AgeKept DEF StopRight, Feeding
<1>17. CASE FeedReceived
  BY <1>17, AgeKept DEF FeedReceived, Feeding
<1>18. CASE FeedClock
  BY <1>18, AgeKept DEF FeedClock, Feeding
<1>19. CASE FeedTime
  <2>1. Elapsed' = Minus(tick, now) /\ due' = due
    BY <1>19 DEF FeedTime, Fed, Elapsed
  <2>2. Elapsed' <= 1 + MaxLate /\ Elapsed' \in Nat
    BY <1>19, <2>1, MinusType DEF FeedTime, Fed, ReadInv, TypeOK
  <2> QED
    BY <2>1, <2>2, TimeAssumption DEF AgeInv, TypeOK
<1>20. CASE FeedState
  BY <1>20, AgeKept DEF FeedState, Fed, Feeding, AfterFeed
<1>21. CASE SweepNext
  BY <1>21, AgeKept DEF SweepNext, StartStores, Feeding
<1>22. CASE Replied
  BY <1>22, AgeKept DEF Replied, Feeding
<1>23. CASE UNCHANGED vars
  BY <1>23, AgeKept DEF vars, Feeding
<1> QED
  BY <1>1, <1>2, <1>3, <1>4, <1>5, <1>6, <1>7, <1>8, <1>9, <1>10, <1>11, <1>12,
     <1>13, <1>14, <1>15, <1>16, <1>17, <1>18, <1>19, <1>20, <1>21, <1>22,
     <1>23
     DEF Next, ControlCycle, SerialStep

\* Every step keeps the clock that was read fresh.
LEMMA ReadStep ==
    ASSUME TypeOK, ReadInv, [Next]_vars
    PROVE  ReadInv'
<1> USE DEF command_vars, control_vars, serial_vars, env_vars
<1>1. CASE Tick
  <2>1. CASE ~(pc = "fed" /\ "ms" \in todo)
    BY <1>1, <2>1 DEF Tick, ReadInv
  <2>2. CASE pc = "fed" /\ "ms" \in todo
    <3>1. /\ Minus(tick, now) \in Nat /\ Minus(tick', now) \in Nat
          /\ Minus(tick', now) <= Minus(tick, now) + 1 /\ Minus(now, now) = 0
      BY <1>1, MinusTick, MinusType DEF TypeOK
    <3>2. now' = now /\ due' = due - 1 /\ due > -MaxLate
      BY <1>1 DEF Tick
    <3>3. CASE due > 0
      <4>1. Minus(tick, now) = 0 /\ landed'
        BY <1>1, <2>2, <3>1, <3>3 DEF Tick, Computing, ReadInv
      <4> QED
        BY <3>1, <3>2, <3>3, <4>1, TimeAssumption DEF ReadInv, TypeOK
    <3>4. CASE ~(due > 0)
      <4>1. landed /\ landed' /\ Minus(tick, now) <= 1 - due
        BY <1>1, <2>2, <3>4, TimeAssumption DEF Tick, ReadInv, TypeOK
      <4> QED
        BY <3>1, <3>2, <3>4, <4>1, TimeAssumption DEF ReadInv, TypeOK
    <3> QED
      BY <3>3, <3>4
  <2> QED
    BY <2>1, <2>2
<1>2. CASE HostGoesSilent
  BY <1>2, ReadKept DEF HostGoesSilent
<1>3. CASE Failsafe
  BY <1>3, TimeAssumption DEF Failsafe, NextWake, ReadInv, TypeOK
<1>4. CASE DirectCycle
  BY <1>4, TimeAssumption DEF DirectCycle, NextWake, ReadInv, TypeOK
<1>5. CASE VelocityCycle
  BY <1>5, TimeAssumption DEF VelocityCycle, NextWake, ReadInv, TypeOK
<1>6. CASE Notify
  BY <1>6, ReadAway DEF Notify
<1>7. CASE ToRead
  BY <1>7, ReadAway DEF ToRead
<1>8. CASE NoLine
  BY <1>8, ReadAway DEF NoLine
<1>9. CASE Dispatch
  BY <1>9, ReadAway DEF Dispatch, StartStores
<1>10. CASE \E w \in Wheels : StoreTarget(w)
  BY <1>10, ReadAway DEF StoreTarget, Stored, AfterStores
<1>11. CASE \E w \in Wheels : StorePwm(w)
  BY <1>11, ReadAway DEF StorePwm, Stored, AfterStores
<1>12. CASE StoreDirect
  BY <1>12, ReadAway DEF StoreDirect, Stored, AfterStores
<1>13. CASE Disarm
  BY <1>13, ReadAway DEF Disarm, Stored, AfterStores
<1>14. CASE StoreIdle
  BY <1>14, ReadAway DEF StoreIdle, Stored, AfterStores
<1>15. CASE StopLeft
  BY <1>15, ReadAway DEF StopLeft
<1>16. CASE StopRight
  BY <1>16, ReadAway DEF StopRight
<1>17. CASE FeedReceived
  BY <1>17, ReadAway DEF FeedReceived
<1>18. CASE FeedClock
  <2>1. /\ now' = tick' /\ Minus(tick, tick) = 0 /\ due' = due /\ due > 0
        /\ tick' = tick
    BY <1>18, MinusType DEF FeedClock, SerialRuns, TypeOK
  <2> QED
    BY <2>1, TimeAssumption DEF ReadInv, TypeOK
<1>19. CASE FeedTime
  BY <1>19 DEF FeedTime, Fed, ReadInv, AfterFeed
<1>20. CASE FeedState
  BY <1>20 DEF FeedState, Fed, ReadInv, AfterFeed
<1>21. CASE SweepNext
  BY <1>21, ReadAway DEF SweepNext, StartStores
<1>22. CASE Replied
  BY <1>22, ReadAway DEF Replied
<1>23. CASE UNCHANGED vars
  BY <1>23, ReadKept DEF vars
<1> QED
  BY <1>1, <1>2, <1>3, <1>4, <1>5, <1>6, <1>7, <1>8, <1>9, <1>10, <1>11, <1>12,
     <1>13, <1>14, <1>15, <1>16, <1>17, <1>18, <1>19, <1>20, <1>21, <1>22,
     <1>23
     DEF Next, ControlCycle, SerialStep

-----------------------------------------------------------------------------
(* The theorems *)

\* The initial states satisfy the inductive invariant.
LEMMA InitInv == Init => IInv
<1> SUFFICES ASSUME Init PROVE IInv
  OBVIOUS
<1>1. TypeOK
  <2>1. /\ due \in (-MaxLate)..Period
        /\ delay \in 0..(SettleTicks + MeasureTicks + SendTicks)
        /\ last_command_ms \in 0..(TickMod - 1) /\ now \in 0..(TickMod - 1)
    BY DelayType, TimeAssumption DEF Init
  <2>2. sweep \in 0..(Len(SweepSteps) + 1)
    BY CommandAssumption DEF Init
  <2>3. silence \in 0..SilenceMax
    BY SilenceMaxType DEF Init
  <2> QED
    BY <2>1, <2>2, <2>3, OffType DEF Init, TypeOK
<1>2. Place /\ Zeroed /\ Guarded /\ AgeInv /\ ReadInv
  BY DEF Init, Place, Zeroed, Guarded, Supervised, ZeroSetpoint, AgeInv,
     ReadInv
<1> QED
  BY <1>1, <1>2 DEF IInv

\* Every step keeps it.
LEMMA NextInv == IInv /\ [Next]_vars => IInv'
<1> SUFFICES ASSUME IInv, [Next]_vars PROVE IInv'
  OBVIOUS
<1> USE DEF IInv
<1>1. TypeOK'
  BY TypeStep
<1>2. Place'
  BY PlaceStep
<1>3. Zeroed'
  BY <1>1, ZeroedStep
<1>4. Guarded'
  BY <1>3, GuardedStep
<1>5. AgeInv' /\ ReadInv'
  BY AgeStep, ReadStep
<1> QED
  BY <1>1, <1>2, <1>3, <1>4, <1>5

\* Each reachable state satisfies the inductive invariant.
THEOREM Invariance == Spec => []IInv
BY InitInv, NextInv, PTL DEF Spec

\* g_state, the tasks' variables and the tick keep their types.
THEOREM TypeCorrect == Spec => []TypeOK
<1>1. IInv => TypeOK
  BY DEF IInv
<1> QED
  BY <1>1, Invariance, PTL

\* Between two commands no setpoint is in force without the heartbeat guarding
\* it, for every command set, sweep and timing (json_cmd.cpp:84-197).
THEOREM SupervisedMotion == Spec => []NoUnsupervisedMotion
<1>1. IInv => NoUnsupervisedMotion
  BY DEF IInv, Guarded, Supervised, ZeroSetpoint, Resting, NoUnsupervisedMotion
<1> QED
  BY <1>1, Invariance, PTL

\* The failsafe meets its deadline, and the 32-bit clock's wrap never makes an
\* old command young, for every timing the assumptions allow
\* (main.cpp:244-249).
THEOREM DeadlineMet == Spec => []FailsafeDeadline
<1>1. ASSUME IInv PROVE FailsafeDeadline
  <2>1. Elapsed \in Nat /\ due \in Int /\ due >= -MaxLate
    BY <1>1, MinusType, TimeAssumption DEF IInv, TypeOK, Elapsed
  <2>2. command_received /\ ~Feeding => Elapsed + due <= Timeout + Period
    BY <1>1 DEF IInv, AgeInv
  <2> QED
    BY <2>1, <2>2, TimeAssumption DEF FailsafeDeadline
<1> QED
  BY <1>1, Invariance, PTL
-----------------------------------------------------------------------------
(* Notifications, and the sweep *)

\* The ticks that can land in a stretch of straight-line code; how old the time
\* stored can be, but for the stretch it is then in, at the end of the wait of
\* a sweep step, at the acknowledgement of a sweep, back at the head of the
\* loop; and how old it can get in the notification sent from there
Stretch == 1 + MaxLate
HoldTicks == SettleTicks + MeasureTicks
SettleBound == HoldTicks + MaxLate + Stretch
SweepBound == SettleBound + 2 * Stretch
LoopBound == SweepBound + SendTicks + MaxLate + Stretch
NotifyBound == LoopBound + SendTicks + MaxLate + 2 * Stretch

\* The time stored last was b ticks old when this stretch began.
Young(b) ==
    /\ Elapsed <= b + Stretch
    /\ due <= 0 => Elapsed <= b + 1 - due
    /\ ~landed => Elapsed <= b /\ due > 0

\* The time stored last was b ticks old when a wait of d ticks at most began,
\* which a stretch of straight-line code follows.
Waits(b, d) ==
    /\ delay <= d
    /\ IF delay > 0 THEN Elapsed <= b + (d - delay)
       ELSE /\ Elapsed <= b + d + MaxLate + Stretch
            /\ due <= 0 => Elapsed <= b + d + MaxLate + 1 - due
            /\ ~landed =>
                  /\ Elapsed <= b + d + MaxLate
                  /\ due <= 0 => Elapsed <= b + d - due

\* a command that has yet to store its time, and one that is not the first of
\* its sweep
Unfed == pc \in {"stores", "feed", "clock"} \/ (pc = "fed" /\ "ms" \in todo)
Sweeping == op = "T150" /\ sweep > 1 /\ Unfed

\* From a feed until its acknowledgement, and all through a sweep, the time
\* stored is young.
YoungInv ==
    /\ pc = "fed" /\ "ms" \notin todo => Young(0)
    /\ pc = "settle" => Waits(Stretch, HoldTicks)
    /\ Sweeping => Young(SettleBound + Stretch)
    /\ pc = "reply" /\ op = "T11" => Waits(Stretch, SendTicks)
    /\ pc = "reply" /\ op = "T150" => Waits(SweepBound, SendTicks)

\* A cycle that falls into straight-line code has used up its tick.
StretchInv ==
    /\ (pc \in {"read", "fed"} \/ Unfed) /\ due <= 0 => landed
    /\ pc \in {"motor_left", "motor_right"} => op = "T0"
    /\ op = "T150" => sweep > 0

YInv == YoungInv /\ StretchInv

\* where the heartbeat can be armed although a notification is waiting
Armed ==
    \/ pc \in {"clock", "fed", "settle"} \/ Sweeping
    \/ pc = "reply" /\ op \in {"T11", "T150"}
    \/ pc = "top" /\ Young(LoopBound)

\* While a notification waits the heartbeat is disarmed; or no cycle comes
\* before the time is stored; or that time is young.  None comes up while one
\* is being sent.
NotifyInv ==
    /\ heartbeat_fault_notify =>
          /\ pc # "notify"
          /\ pc = "read" \/ Unfed => (landed /\ due > 0) \/ Sweeping
          /\ command_received => Armed
    /\ pc = "notify" /\ command_received =>
          Waits(LoopBound + Stretch, SendTicks)

\* The bounds are numbers.
LEMMA Bounds ==
    /\ Stretch \in Nat /\ Stretch = 1 + MaxLate /\ Stretch > 0
    /\ HoldTicks \in Nat /\ SendTicks \in Nat /\ MaxLate \in Nat
    /\ HoldTicks = SettleTicks + MeasureTicks /\ HoldTicks > 0
    /\ SettleBound \in Nat /\ SettleBound = HoldTicks + MaxLate + Stretch
    /\ SweepBound \in Nat /\ SweepBound = SettleBound + 2 * Stretch
    /\ LoopBound \in Nat
    /\ LoopBound = SweepBound + SendTicks + MaxLate + Stretch
    /\ NotifyBound \in Nat
    /\ NotifyBound = LoopBound + SendTicks + MaxLate + 2 * Stretch
BY TimeAssumption
   DEF Stretch, HoldTicks, SettleBound, SweepBound, LoopBound, NotifyBound

\* ... and so are the ages in the invariant.
LEMMA Bases == SettleBound + Stretch \in Nat /\ LoopBound + Stretch \in Nat
BY Bounds

\* The age of the time stored is a number.
LEMMA ElapsedType == TypeOK => Elapsed \in Nat
BY MinusType DEF TypeOK, Elapsed

\* A tick ages the time by one at most.
LEMMA ElapsedTick ==
    ASSUME TypeOK, Tick
    PROVE  /\ Elapsed \in Nat /\ Elapsed' \in Nat /\ Elapsed' <= Elapsed + 1
<1>1. last_command_ms \in 0..(TickMod - 1)
  BY DEF TypeOK
<1>2. last_command_ms' = last_command_ms
  BY DEF Tick, command_vars
<1> QED
  BY <1>1, <1>2, MinusTick DEF Elapsed

\* A tick that lands in the stretch, or a late one, keeps the time young.
LEMMA YoungTick ==
    ASSUME TypeOK, Tick, Computing, NEW b \in Nat, Young(b)
    PROVE  Young(b)'
<1>1. /\ due \in Int /\ due' = due - 1 /\ due > -MaxLate
      /\ landed' = (landed \/ due > 0) /\ (due > 0 => ~landed)
      /\ landed \in BOOLEAN
  BY DEF Tick, TypeOK
<1>2. /\ Elapsed \in Nat /\ Elapsed' \in Nat /\ Elapsed' <= Elapsed + 1
  BY ElapsedTick
<1>3. /\ Elapsed <= b + Stretch
      /\ due <= 0 => Elapsed <= b + 1 - due
      /\ ~landed => Elapsed <= b /\ due > 0
  BY DEF Young
<1>4. Elapsed' <= b + Stretch
  BY <1>1, <1>2, <1>3, Bounds, TimeAssumption
<1>5. due' <= 0 => Elapsed' <= b + 1 - due'
  BY <1>1, <1>2, <1>3
<1>6. landed'
  BY <1>1, <1>3
<1> QED
  BY <1>4, <1>5, <1>6 DEF Young

\* A cycle takes no time.
LEMMA YoungCycle ==
    ASSUME TypeOK, NextWake, UNCHANGED <<tick, last_command_ms, landed>>,
           NEW b \in Nat, Young(b)
    PROVE  Young(b)'
<1>1. due' > 0 /\ due <= 0
  BY TimeAssumption DEF NextWake, TypeOK
<1>2. Elapsed' = Elapsed
  BY DEF Elapsed
<1>3. Elapsed <= b + Stretch /\ landed
  BY <1>1 DEF Young, TypeOK
<1> QED
  BY <1>1, <1>2, <1>3, TimeAssumption DEF Young, TypeOK, NextWake

\* A tick uses up a wait, or falls into the stretch that follows it.
LEMMA WaitTick ==
    ASSUME TypeOK, Tick, Computing <=> delay = 0,
           NEW b \in Nat, NEW d \in Nat, Waits(b, d)
    PROVE  Waits(b, d)'
<1>1. /\ due \in Int /\ due' = due - 1 /\ due > -MaxLate
      /\ landed \in BOOLEAN /\ delay \in Nat /\ delay <= d
      /\ delay' = (IF delay > 0 THEN delay - 1 ELSE 0)
  BY TimeAssumption DEF Tick, TypeOK, Waits
<1>2. /\ landed' = (landed \/ (delay = 0 /\ due > 0))
      /\ (delay = 0 /\ due > 0) => ~landed
  BY DEF Tick
<1>3. /\ Elapsed \in Nat /\ Elapsed' \in Nat /\ Elapsed' <= Elapsed + 1
  BY ElapsedTick
<1>4. CASE delay > 1
  <2>1. delay' = delay - 1 /\ delay' > 0 /\ Elapsed <= b + (d - delay)
    BY <1>1, <1>4 DEF Waits
  <2>2. Elapsed' <= b + (d - delay') /\ delay' <= d
    BY <1>1, <1>3, <2>1
  <2> QED
    BY <2>1, <2>2 DEF Waits
<1>5. CASE delay = 1
  <2>1. delay' = 0 /\ landed' = landed /\ Elapsed' <= b + d
    BY <1>1, <1>2, <1>3, <1>5 DEF Waits
  <2> QED
    BY <1>1, <1>3, <2>1, Bounds DEF Waits
<1>6. CASE delay = 0
  <2>1. /\ delay' = 0
        /\ Elapsed <= b + d + MaxLate + Stretch
        /\ due <= 0 => Elapsed <= b + d + MaxLate + 1 - due
        /\ ~landed => /\ Elapsed <= b + d + MaxLate
                      /\ due <= 0 => Elapsed <= b + d - due
    BY <1>1, <1>6 DEF Waits
  <2>2. CASE due > 0
    <3>1. landed' /\ ~landed /\ due' >= 0
      <4>1. due' >= 0
        BY <1>1, <2>2
      <4> QED
        BY <1>2, <1>6, <2>2, <4>1, Zenon
    <3>2. Elapsed' <= b + d + MaxLate + 1
      BY <1>3, <2>1, <3>1, Bounds
    <3> QED
      BY <1>1, <1>3, <2>1, <3>1, <3>2, Bounds DEF Waits
  <2>3. CASE due <= 0 /\ landed
    <3>1. landed' /\ Elapsed' <= b + d + MaxLate + 1 - due'
      <4>1. Elapsed' <= b + d + MaxLate + 1 - due'
        BY <1>1, <1>3, <2>1, <2>3, Bounds
      <4>2. landed'
        BY <1>2, <2>3, Zenon
      <4> QED
        BY <4>1, <4>2
    <3>2. Elapsed' <= b + d + MaxLate + Stretch
      BY <1>1, <1>3, <3>1, Bounds
    <3> QED
      BY <2>1, <3>1, <3>2 DEF Waits
  <2>4. CASE due <= 0 /\ ~landed
    <3>1. Elapsed' <= b + d - due'
      BY <1>1, <1>3, <2>1, <2>4
    <3> QED
      BY <1>1, <1>3, <2>1, <3>1, Bounds DEF Waits
  <2> QED
    BY <1>1, <2>2, <2>3, <2>4
<1> QED
  BY <1>1, <1>4, <1>5, <1>6

\* A cycle takes none of it.
LEMMA WaitCycle ==
    ASSUME TypeOK, NextWake,
           UNCHANGED <<tick, last_command_ms, landed, delay>>,
           NEW b \in Nat, NEW d \in Nat, Waits(b, d)
    PROVE  Waits(b, d)'
<1>1. due' > 0 /\ due <= 0 /\ due \in Int /\ due' \in Int
  BY TimeAssumption DEF NextWake, TypeOK
<1>2. Elapsed' = Elapsed /\ delay' = delay /\ landed' = landed
  BY DEF Elapsed
<1>3. ~(due' <= 0)
  BY <1>1
<1> QED
  BY <1>2, <1>3 DEF Waits

\* Where a wait begins, and how old the time stored can be at its end
LEMMA WaitStarts ==
    ASSUME due' \in Int, due' > 0, Elapsed' \in Nat,
           NEW b \in Nat, NEW d \in Nat, Elapsed' <= b, delay' = d
    PROVE  Waits(b, d)'
<1>1. /\ Elapsed' <= b + (d - delay') /\ Elapsed' <= b + d + MaxLate
      /\ Elapsed' <= b + d + MaxLate + Stretch /\ ~(due' <= 0)
      /\ delay' <= d
  BY Bounds
<1> QED
  BY <1>1, Zenon DEF Waits

LEMMA WaitEnds ==
    ASSUME TypeOK, NEW b \in Nat, NEW d \in Nat, Waits(b, d)
    PROVE  Elapsed \in Nat /\ Elapsed <= b + d + MaxLate + Stretch
<1>1. Elapsed \in Nat /\ delay \in Nat
  BY ElapsedType, TimeAssumption DEF TypeOK
<1> QED
  BY <1>1, Bounds DEF Waits

LEMMA WaitKept ==
    ASSUME UNCHANGED <<tick, last_command_ms, due, landed, delay>>,
           NEW b \in Nat, NEW d \in Nat, Waits(b, d)
    PROVE  Waits(b, d)'
<1>1. Elapsed' = Elapsed
  BY DEF Elapsed
<1> QED
  BY <1>1 DEF Waits

\* A step of serial_task that goes on with the stretch
LEMMA YoungKept ==
    ASSUME UNCHANGED <<tick, last_command_ms, due, landed>>,
           NEW b \in Nat, Young(b)
    PROVE  Young(b)'
BY DEF Young, Elapsed

\* ... and one that begins a new one
LEMMA YoungStarts ==
    ASSUME due' \in Int, due' > 0, Elapsed' \in Nat,
           NEW b \in Nat, Elapsed' <= b
    PROVE  Young(b)'
<1>1. Elapsed' <= b + Stretch
  BY Bounds
<1>2. due' <= 0 => Elapsed' <= b + 1 - due'
  OBVIOUS
<1>3. ~landed' => Elapsed' <= b /\ due' > 0
  OBVIOUS
<1> QED
  BY <1>1, <1>2, <1>3 DEF Young

\* What is young in these places stays so while serial_task stands still.
LEMMA YoungSame ==
    ASSUME YoungInv,
           UNCHANGED <<tick, last_command_ms, due, landed, pc, op, todo,
                       sweep, delay>>
    PROVE  YoungInv'
<1>1. Elapsed' = Elapsed /\ Unfed' = Unfed /\ Sweeping' = Sweeping
  BY DEF Elapsed, Unfed, Sweeping
<1>2. \A b \in Nat : Young(b) => Young(b)'
  BY YoungKept
<1>3. \A b, d \in Nat : Waits(b, d) => Waits(b, d)'
  BY WaitKept
<1> QED
  BY <1>1, <1>2, <1>3, Bounds, Bases DEF YoungInv

\* Elsewhere YoungInv says nothing.
LEMMA YoungAway ==
    ASSUME \/ pc' \in {"top", "notify", "read", "sleep", "motor_left",
                       "motor_right"}
           \/ pc' = "reply" /\ op' \notin {"T11", "T150"}
           \/ pc' \in {"stores", "feed", "clock"} /\ ~Sweeping'
    PROVE  YoungInv'
BY DEF YoungInv, Sweeping, Unfed

\* The stores of a command, and its arming, go on with the stretch.
LEMMA YoungGoesOn ==
    ASSUME YoungInv,
           UNCHANGED <<tick, last_command_ms, due, landed, op, sweep>>,
           pc \in {"stores", "feed", "clock"},
           \/ pc' \in {"stores", "feed", "clock"}
           \/ pc' = "fed" /\ "ms" \in todo'
    PROVE  YoungInv'
<1>1. Unfed /\ Unfed' /\ (Sweeping' => Sweeping)
  BY DEF Unfed, Sweeping
<1>2. Sweeping => Young(SettleBound + Stretch)'
  BY YoungKept, Bounds, Bases DEF YoungInv
<1> QED
  BY <1>1, <1>2 DEF YoungInv

\* The last store of a sweep is followed by its acknowledgement, the last one
\* of a motion command by the feed.
LEMMA YoungStored ==
    ASSUME NEW f, Stored(f), TypeOK, TypeOK', Place, YoungInv,
           UNCHANGED <<tick, last_command_ms, due, op, sweep>>
    PROVE  YoungInv'
<1>1. /\ pc = "stores" /\ due > 0 /\ due' = due
      /\ pc' = (IF todo' = {} THEN AfterStores ELSE pc)
      /\ landed' = (landed /\ pc' # "reply") /\ landed \in BOOLEAN
  BY DEF Stored, SerialRuns, TypeOK
<1>2. CASE pc' \in {"stores", "feed"}
  BY <1>1, <1>2, YoungGoesOn
<1>3. CASE pc' = "motor_left"
  BY <1>3, YoungAway
<1>4. CASE pc' = "reply" /\ op \in {"T11", "T150"}
  <2>1. SweepEnd /\ op = "T150"
    BY <1>1, <1>4 DEF AfterStores, SweepEnd
  <2>2. Sweeping
    BY <1>1, <2>1, CommandAssumption DEF SweepEnd, Sweeping, Unfed, TypeOK
  <2>3. Elapsed \in Nat /\ Elapsed' = Elapsed /\ due' \in Int
    BY ElapsedType DEF Elapsed, TypeOK
  <2>4. Elapsed' <= SweepBound
    BY <2>2, <2>3, Bounds DEF YoungInv, Young
  <2>6. delay' = SendTicks
    BY <1>4, <2>1 DEF Stored, LongestWait, MotionCommands
  <2>5. Waits(SweepBound, SendTicks)'
    BY <1>1, <2>3, <2>4, <2>6, WaitStarts, Bounds
  <2> QED
    BY <1>4, <2>1, <2>5 DEF YoungInv, Sweeping, Unfed
<1>5. CASE pc' = "reply" /\ op \notin {"T11", "T150"}
  BY <1>5, YoungAway
<1> QED
  BY <1>1, <1>2, <1>3, <1>4, <1>5 DEF AfterStores

\* After the feed the time stored is that of the command.
LEMMA YoungFed ==
    ASSUME NEW f, Fed(f), TypeOK, TypeOK', Place, "ms" \notin todo',
           Elapsed' <= Stretch, due <= 0 => Elapsed' <= 1 - due,
           ~landed => Elapsed' <= 0 /\ due > 0
    PROVE  YoungInv'
<1>1. /\ pc = "fed" /\ due > 0 /\ due' = due /\ due \in Int
      /\ Elapsed' \in Nat
  <2>1. Elapsed' \in Nat
    BY MinusType DEF TypeOK, Elapsed
  <2> QED
    BY <2>1 DEF Fed, SerialRuns, TypeOK, control_vars
<1>2. CASE todo' # {}
  <2>1. pc' = "fed" /\ landed' = landed
    BY <1>1, <1>2 DEF Fed
  <2>2. Young(0)'
    BY <1>1, <2>1, Bounds DEF Young
  <2> QED
    BY <2>1, <2>2 DEF YoungInv, Sweeping, Unfed
<1>3. CASE todo' = {}
  <2>1. /\ pc' = AfterFeed /\ landed' = FALSE
        /\ op' = (IF AfterFeed = "top" THEN "none" ELSE op)
        /\ delay' = LongestWait(AfterFeed)
    BY <1>3 DEF Fed
  <2>2. CASE op = "T150"
    <3>1. pc' = "settle" /\ delay' = HoldTicks
      BY <2>1, <2>2 DEF AfterFeed, LongestWait, HoldTicks
    <3>2. Waits(Stretch, HoldTicks)'
      BY <1>1, <3>1, WaitStarts, Bounds
    <3> QED
      BY <3>1, <3>2 DEF YoungInv, Sweeping, Unfed
  <2>3. CASE op = "T11"
    <3>1. pc' = "reply" /\ op' = "T11" /\ delay' = SendTicks
      BY <2>1, <2>3 DEF AfterFeed, LongestWait, MotionCommands
    <3>2. Waits(Stretch, SendTicks)'
      BY <1>1, <3>1, WaitStarts, Bounds
    <3> QED
      BY <3>1, <3>2 DEF YoungInv, Sweeping, Unfed
  <2>4. CASE op \notin {"T11", "T150"}
    BY <2>1, <2>4, YoungAway DEF AfterFeed
  <2> QED
    BY <2>2, <2>3, <2>4
<1> QED
  BY <1>2, <1>3

\* A tick in a wait, or in any stretch.
LEMMA YoungOneTick ==
    ASSUME TypeOK, YoungInv, Tick
    PROVE  YoungInv'
<1>1. /\ pc' = (IF pc = "sleep" THEN "top" ELSE pc)
      /\ UNCHANGED <<op, todo, sweep>>
  BY DEF Tick
<1>2. /\ pc = "fed" \/ Unfed => Computing
      /\ pc = "settle" => (Computing <=> delay = 0)
      /\ pc = "reply" /\ op \in {"T11", "T150"} => (Computing <=> delay = 0)
  BY DEF Computing, Unfed, MotionCommands
<1>3. /\ Sweeping' => Sweeping
      /\ pc' \in {"fed", "reply", "settle"} => pc' = pc
  BY <1>1 DEF Sweeping, Unfed
<1>4. \A b \in Nat : Computing /\ Young(b) => Young(b)'
  BY YoungTick
<1>5. \A b, d \in Nat :
          (Computing <=> delay = 0) /\ Waits(b, d) => Waits(b, d)'
  BY WaitTick
<1> QED
  BY <1>1, <1>2, <1>3, <1>4, <1>5, Bounds, Bases DEF YoungInv, Sweeping

\* A control cycle takes no time, and is not late by a period.
LEMMA YoungOneCycle ==
    ASSUME TypeOK, YoungInv, NextWake,
           UNCHANGED <<tick, last_command_ms, serial_vars>>
    PROVE  YoungInv'
<1>1. UNCHANGED <<pc, op, todo, sweep, delay, landed>>
  BY DEF serial_vars
<1>2. \A b \in Nat : Young(b) => Young(b)'
  BY <1>1, YoungCycle
<1>3. \A b, d \in Nat : Waits(b, d) => Waits(b, d)'
  BY <1>1, WaitCycle
<1>4. Sweeping' = Sweeping
  BY <1>1 DEF Sweeping, Unfed
<1> QED
  BY <1>1, <1>2, <1>3, <1>4, Bounds, Bases DEF YoungInv

\* Every step keeps the time young.
LEMMA YoungStep ==
    ASSUME TypeOK, TypeOK', Place, ReadInv, YoungInv, StretchInv, [Next]_vars
    PROVE  YoungInv'
<1> USE DEF command_vars, control_vars, serial_vars, env_vars
<1>1. CASE Tick
  BY <1>1, YoungOneTick
<1>2. CASE HostGoesSilent
  BY <1>2, YoungSame DEF HostGoesSilent
<1>3. CASE ControlCycle
  BY <1>3, YoungOneCycle
     DEF ControlCycle, Failsafe, DirectCycle, VelocityCycle
<1>4. CASE Notify \/ ToRead \/ NoLine \/ StopLeft
  BY <1>4, YoungAway DEF Notify, ToRead, NoLine, StopLeft
<1>5. CASE Dispatch
  <2>1. /\ pc' \in {"stores", "reply"} /\ ~(sweep' > 1)
        /\ pc' = "reply" => op' = "other"
    BY <1>5 DEF Dispatch, StartStores
  <2> QED
    BY <2>1, YoungAway DEF Sweeping
<1>6. ASSUME NEW w \in Wheels, StoreTarget(w) \/ StorePwm(w) PROVE YoungInv'
  BY <1>6, YoungStored DEF StoreTarget, StorePwm
<1>7. CASE StoreDirect \/ Disarm \/ StoreIdle
  BY <1>7, YoungStored DEF StoreDirect, Disarm, StoreIdle
<1>8. CASE StopRight
  BY <1>8, YoungAway DEF StopRight, StretchInv
<1>9. CASE FeedReceived
  BY <1>9, YoungGoesOn DEF FeedReceived
<1>10. CASE FeedClock
  BY <1>10, YoungGoesOn DEF FeedClock
<1>11. CASE FeedTime
  <2>1. Fed("ms") /\ "ms" \notin todo' /\ Elapsed' = Minus(tick, now)
    BY <1>11 DEF FeedTime, Fed, Elapsed
  <2>2. pc = "fed" /\ "ms" \in todo /\ Minus(now, now) = 0
    BY <1>11, MinusType DEF FeedTime, Fed, TypeOK
  <2>3. /\ Minus(tick, now) <= Stretch
        /\ due <= 0 => Minus(tick, now) <= 1 - due
        /\ ~landed => now = tick /\ due > 0
    BY <2>2 DEF ReadInv, Stretch
  <2>4. ~landed => Minus(tick, now) <= 0 /\ due > 0
    <3>1. ~landed => Minus(tick, now) = 0 /\ due > 0
      BY <2>2, <2>3
    <3> QED
      BY <3>1
  <2> QED
    BY <2>1, <2>3, <2>4, YoungFed
<1>12. CASE FeedState
  <2>1. /\ Fed("state") /\ Elapsed' = Elapsed /\ pc = "fed"
        /\ todo' = todo \ {"state"}
    BY <1>12 DEF FeedState, Fed, Elapsed
  <2>2. CASE "ms" \in todo
    <3>1. /\ UNCHANGED <<tick, last_command_ms, due, landed, pc, op, sweep>>
          /\ "ms" \in todo'
      BY <1>12, <2>1, <2>2 DEF FeedState, Fed
    <3>2. Sweeping' => Sweeping
      BY <2>1, <2>2, <3>1 DEF Sweeping, Unfed
    <3>3. Sweeping => Young(SettleBound + Stretch)'
      BY <3>1, YoungKept, Bases DEF YoungInv
    <3> QED
      BY <2>1, <3>1, <3>2, <3>3 DEF YoungInv
  <2>3. CASE "ms" \notin todo
    <3>1. Young(0) /\ "ms" \notin todo' /\ Elapsed \in Nat
      BY <2>1, <2>3, ElapsedType DEF YoungInv
    <3>2. /\ Elapsed <= Stretch
          /\ due <= 0 => Elapsed <= 1 - due
          /\ ~landed => Elapsed <= 0 /\ due > 0
      BY <3>1, Bounds DEF Young, TypeOK
    <3> QED
      BY <2>1, <3>1, <3>2, YoungFed
  <2> QED
    BY <2>2, <2>3
<1>13. CASE SweepNext
  <2>1. /\ pc = "settle" /\ pc' = "stores"
        /\ due' = due /\ due > 0 /\ Elapsed' = Elapsed
    BY <1>13 DEF SweepNext, SerialRuns, StartStores, Elapsed
  <2>2. Elapsed <= SettleBound + Stretch /\ Elapsed \in Nat /\ due \in Int
    <3>1. Waits(Stretch, HoldTicks)
      BY <2>1 DEF YoungInv
    <3>2. /\ Elapsed \in Nat
          /\ Elapsed <= Stretch + HoldTicks + MaxLate + Stretch
      BY <3>1, WaitEnds, Bounds
    <3>3. Elapsed <= SettleBound + Stretch
      BY <3>2, Bounds
    <3> QED
      BY <3>2, <3>3 DEF TypeOK
  <2>3. Young(SettleBound + Stretch)'
    <3>1. due' \in Int /\ due' > 0 /\ Elapsed' \in Nat
      BY <2>1, <2>2
    <3> QED
      BY <2>1, <2>2, <3>1, YoungStarts, Bases
  <2> QED
    BY <2>1, <2>3 DEF YoungInv
<1>14. CASE Replied
  BY <1>14, YoungAway DEF Replied
<1>15. CASE UNCHANGED vars
  BY <1>15, YoungSame DEF vars
<1> QED
  BY <1>1, <1>2, <1>3, <1>4, <1>5, <1>6, <1>7, <1>8, <1>9, <1>10, <1>11, <1>12,
     <1>13, <1>14, <1>15
     DEF Next, SerialStep

\* Every step of serial_task is taken with the control task asleep.
LEMMA StepAwake == SerialStep => due > 0 /\ due' = due
BY DEF SerialStep, Notify, ToRead, NoLine, Dispatch, StoreTarget, StorePwm,
       StoreDirect, Disarm, StoreIdle, Stored, StopLeft, StopRight,
       FeedReceived, FeedClock, FeedTime, FeedState, Fed, SweepNext, Replied,
       SerialRuns, control_vars

\* Every step keeps StretchInv.
LEMMA StretchStep ==
    ASSUME TypeOK, TypeOK', Place, StretchInv, [Next]_vars
    PROVE  StretchInv'
<1> USE DEF command_vars, control_vars, serial_vars, env_vars
<1>1. CASE Tick
  <2>1. /\ pc' = (IF pc = "sleep" THEN "top" ELSE pc)
        /\ UNCHANGED <<op, todo, sweep>>
        /\ landed' = (landed \/ (Computing /\ due > 0))
    BY <1>1 DEF Tick
  <2>2. Unfed' => Unfed
    BY <2>1 DEF Unfed
  <2>3. pc \in {"read", "fed"} \/ Unfed => Computing
    BY DEF Computing, Unfed
  <2>4. pc' \in {"read", "fed"} \/ Unfed' => landed'
    <3>1. due > 0 \/ due <= 0
      BY DEF TypeOK
    <3> QED
      BY <2>1, <2>2, <2>3, <3>1 DEF StretchInv
  <2> QED
    BY <2>1, <2>4 DEF StretchInv
<1>2. CASE HostGoesSilent \/ UNCHANGED vars
  BY <1>2 DEF HostGoesSilent, vars, StretchInv, Unfed
<1>3. CASE ControlCycle
  <2>1. due' > 0 /\ UNCHANGED serial_vars /\ due' \in Int
    BY <1>3, TimeAssumption
       DEF ControlCycle, Failsafe, DirectCycle, VelocityCycle, NextWake, TypeOK
  <2> QED
    BY <2>1 DEF StretchInv
<1>4. CASE SerialStep
  <2>1. ~(due' <= 0)
    BY <1>4, StepAwake DEF TypeOK
  <2>2. pc' \in {"motor_left", "motor_right"} => op' = "T0"
    BY <1>4
       DEF SerialStep, Notify, ToRead, NoLine, Dispatch, StartStores,
           StoreTarget, StorePwm, StoreDirect, Disarm, StoreIdle, Stored,
           AfterStores, StopLeft, StopRight, FeedReceived, FeedClock, FeedTime,
           FeedState, Fed, AfterFeed, SweepNext, Replied, StretchInv
  <2>3. op' = "T150" => sweep' > 0
    <3>1. CASE Dispatch
      BY <3>1 DEF Dispatch
    <3>2. CASE SweepNext
      BY <3>2 DEF SweepNext, TypeOK
    <3>3. CASE Replied
      BY <3>3 DEF Replied
    <3>4. CASE FeedTime \/ FeedState
      BY <3>4 DEF FeedTime, FeedState, Fed, StretchInv
    <3>5. CASE ~(Dispatch \/ SweepNext \/ Replied \/ FeedTime \/ FeedState)
      BY <1>4, <3>5
         DEF SerialStep, Notify, ToRead, NoLine, StoreTarget, StorePwm,
             StoreDirect, Disarm, StoreIdle, StopLeft, StopRight, FeedReceived,
             FeedClock, StretchInv
    <3> QED
      BY <3>1, <3>2, <3>3, <3>4, <3>5
  <2> QED
    BY <2>1, <2>2, <2>3 DEF StretchInv
<1> QED
  BY <1>1, <1>2, <1>3, <1>4 DEF Next

\* The stores of a command take no notification along that they should not.
LEMMA NotifyStored ==
    ASSUME NEW f, Stored(f), Place, NotifyInv, TypeOK,
           UNCHANGED <<op, sweep, due, heartbeat_fault_notify>>,
           command_received' => command_received
    PROVE  NotifyInv'
<1> SUFFICES ASSUME heartbeat_fault_notify
             PROVE  /\ Unfed' => (landed' /\ due' > 0) \/ Sweeping'
                    /\ command_received' => Armed'
  BY DEF NotifyInv, Stored, AfterStores
<1>1. /\ pc = "stores"
      /\ pc' = (IF todo' = {} THEN AfterStores ELSE pc)
      /\ landed' = (landed /\ pc' # "reply")
  BY DEF Stored
<1>2. /\ (landed /\ due > 0) \/ Sweeping
      /\ command_received => Sweeping
  BY <1>1 DEF NotifyInv, Unfed, Armed
<1>3. CASE pc' \in {"stores", "feed"}
  <2>1. Sweeping => Sweeping'
    BY <1>3 DEF Sweeping, Unfed
  <2> QED
    BY <1>1, <1>2, <1>3, <2>1 DEF Armed
<1>4. CASE pc' = "motor_left"
  <2>1. ~Sweeping
    BY <1>1, <1>4 DEF AfterStores, Sweeping
  <2> QED
    BY <1>2, <1>4, <2>1 DEF Unfed
<1>5. CASE pc' = "reply"
  <2>1. Sweeping => op' = "T150"
    BY DEF Sweeping
  <2> QED
    BY <1>2, <1>5, <2>1 DEF Unfed, Armed
<1> QED
  BY <1>1, <1>3, <1>4, <1>5 DEF AfterStores

\* Every step keeps NotifyInv.
LEMMA NotifyStep ==
    ASSUME NotifyBound <= Timeout,
           TypeOK, TypeOK', Place, ReadInv, YoungInv, StretchInv, NotifyInv,
           [Next]_vars
    PROVE  NotifyInv'
<1> USE DEF command_vars, control_vars, serial_vars, env_vars
<1>1. CASE Tick
  <2>1. /\ pc' = (IF pc = "sleep" THEN "top" ELSE pc)
        /\ UNCHANGED <<op, todo, sweep, command_received,
                       heartbeat_fault_notify>>
        /\ (Computing /\ due > 0) => ~landed
    BY <1>1 DEF Tick
  <2>2. (Unfed' <=> Unfed) /\ (Sweeping' <=> Sweeping)
    BY <2>1 DEF Unfed, Sweeping
  <2>3. /\ pc \in {"read", "top"} \/ Unfed => Computing
        /\ pc = "notify" => (Computing <=> delay = 0)
    BY DEF Computing, Unfed
  <2>4. heartbeat_fault_notify /\ (pc' = "read" \/ Unfed') => Sweeping'
    BY <2>1, <2>2, <2>3 DEF NotifyInv
  <2>5. ASSUME heartbeat_fault_notify, command_received PROVE Armed'
    <3>1. Armed /\ pc' = pc
      BY <2>1, <2>5 DEF NotifyInv, Armed, Sweeping, Unfed
    <3>2. pc = "top" /\ Young(LoopBound) => Young(LoopBound)'
      BY <1>1, <2>3, YoungTick, Bounds
    <3> QED
      BY <2>1, <2>2, <3>1, <3>2 DEF Armed
  <2>6. ASSUME pc = "notify", command_received
        PROVE  Waits(LoopBound + Stretch, SendTicks)'
    <3>1. Waits(LoopBound + Stretch, SendTicks) /\ (Computing <=> delay = 0)
      BY <2>3, <2>6 DEF NotifyInv
    <3> QED
      BY <1>1, <3>1, WaitTick, Bounds, Bases
  <2>7. pc' = "notify" => pc = "notify"
    BY <2>1
  <2> QED
    BY <2>1, <2>4, <2>5, <2>6, <2>7 DEF NotifyInv
<1>2. CASE HostGoesSilent \/ UNCHANGED vars
  <2>1. UNCHANGED <<command_vars, control_vars, serial_vars, tick>>
    BY <1>2 DEF HostGoesSilent, vars
  <2>2. /\ (Unfed' <=> Unfed) /\ (Sweeping' <=> Sweeping)
        /\ \A b \in Nat : Young(b) => Young(b)'
        /\ \A b, d \in Nat : Waits(b, d) => Waits(b, d)'
    BY <2>1, YoungKept, WaitKept DEF Unfed, Sweeping
  <2> QED
    BY <2>1, <2>2, Bases, Bounds DEF NotifyInv, Armed
<1>3. CASE Failsafe
  <2>1. /\ ~command_received' /\ due' > 0 /\ due <= 0
        /\ UNCHANGED serial_vars
    BY <1>3, TimeAssumption DEF Failsafe, NextWake, TypeOK
  <2>2. pc = "read" \/ Unfed => landed
    BY <2>1 DEF StretchInv
  <2>3. command_received /\ Elapsed \in Nat /\ Elapsed > Timeout
    BY <1>3, ElapsedType DEF Failsafe, HeartbeatLost
  <2>4. pc # "notify"
    <3> SUFFICES ASSUME pc = "notify" PROVE FALSE
      OBVIOUS
    <3>1. Waits(LoopBound + Stretch, SendTicks)
      BY <2>3 DEF NotifyInv
    <3>2. Elapsed <= LoopBound + Stretch + SendTicks + MaxLate + Stretch
      BY <3>1, WaitEnds, Bounds, Bases
    <3> QED
      BY <2>3, <3>2, Bounds, TimeAssumption
  <2> QED
    BY <2>1, <2>2, <2>4 DEF NotifyInv, Unfed
<1>4. CASE DirectCycle \/ VelocityCycle
  <2>1. /\ UNCHANGED <<command_vars, serial_vars, tick>> /\ NextWake
        /\ due <= 0 /\ ~(due > 0)
    BY <1>4 DEF DirectCycle, VelocityCycle, NextWake, TypeOK
  <2>2. /\ (Unfed' <=> Unfed) /\ (Sweeping' <=> Sweeping)
        /\ \A b \in Nat : Young(b) => Young(b)'
        /\ \A b, d \in Nat : Waits(b, d) => Waits(b, d)'
    BY <2>1, YoungCycle, WaitCycle DEF Unfed, Sweeping
  <2> QED
    BY <2>1, <2>2, Bases, Bounds DEF NotifyInv, Armed
<1>5. CASE Notify
  <2>1. /\ ~heartbeat_fault_notify' /\ pc = "top" /\ heartbeat_fault_notify
        /\ delay' = SendTicks /\ due' = due /\ due > 0 /\ due \in Int
        /\ command_received' = command_received /\ Elapsed' = Elapsed
    BY <1>5 DEF Notify, SerialRuns, Elapsed, TypeOK
  <2>2. ASSUME command_received
        PROVE  Waits(LoopBound + Stretch, SendTicks)'
    <3>1. Young(LoopBound) /\ Elapsed \in Nat
      BY <2>1, <2>2, ElapsedType DEF NotifyInv, Armed, Sweeping, Unfed
    <3>2. Elapsed' <= LoopBound + Stretch /\ Elapsed' \in Nat
      BY <2>1, <3>1 DEF Young
    <3>3. due' \in Int /\ due' > 0
      BY <2>1
    <3> QED
      BY <2>1, <3>2, <3>3, WaitStarts, Bounds, Bases
  <2> QED
    BY <2>1, <2>2 DEF NotifyInv
<1>6. CASE ToRead
  BY <1>6 DEF ToRead, NotifyInv, Armed, Unfed, Sweeping
<1>7. CASE NoLine
  BY <1>7 DEF NoLine, NotifyInv, Armed, Unfed, Sweeping
<1>8. CASE Dispatch
  <2>1. /\ pc = "read" /\ pc' \in {"stores", "reply"} /\ due' = due
        /\ landed' = (landed /\ pc' # "reply")
        /\ UNCHANGED command_vars
    BY <1>8 DEF Dispatch, StartStores
  <2>2. ~Sweeping /\ ~Armed
    BY <2>1 DEF Sweeping, Unfed, Armed
  <2> QED
    BY <2>1, <2>2 DEF NotifyInv, Unfed
<1>9. ASSUME NEW w \in Wheels, StoreTarget(w) \/ StorePwm(w) PROVE NotifyInv'
  BY <1>9, NotifyStored DEF StoreTarget, StorePwm
<1>10. CASE StoreDirect \/ Disarm \/ StoreIdle
  BY <1>10, NotifyStored DEF StoreDirect, Disarm, StoreIdle
<1>11. CASE StopLeft \/ StopRight
  BY <1>11 DEF StopLeft, StopRight, NotifyInv, Armed, Unfed, Sweeping
<1>12. CASE FeedReceived \/ FeedClock
  <2>1. /\ pc \in {"feed", "clock"} /\ Unfed /\ Unfed'
        /\ pc' \in {"clock", "fed"}
        /\ UNCHANGED <<due, landed, op, sweep, heartbeat_fault_notify>>
    BY <1>12 DEF FeedReceived, FeedClock, Unfed
  <2> QED
    BY <2>1 DEF NotifyInv, Armed, Sweeping
<1>13. CASE FeedTime \/ FeedState
  <2>1. /\ pc = "fed" /\ due' = due /\ due > 0 /\ due' \in Int
        /\ todo' \subseteq todo
        /\ UNCHANGED <<sweep, command_received, heartbeat_fault_notify>>
    BY <1>13 DEF FeedTime, FeedState, Fed, SerialRuns, TypeOK
  <2>2. CASE todo' # {}
    <3>1. UNCHANGED <<pc, op, landed>>
      BY <1>13, <2>2 DEF FeedTime, FeedState, Fed
    <3>2. Unfed' => Unfed /\ (Sweeping => Sweeping')
      BY <2>1, <3>1 DEF Unfed, Sweeping
    <3> QED
      BY <2>1, <3>1, <3>2 DEF NotifyInv, Armed
  <2>3. CASE todo' = {}
    <3>1. /\ pc' = AfterFeed
          /\ op' = (IF AfterFeed = "top" THEN "none" ELSE op)
      BY <1>13, <2>3 DEF FeedTime, FeedState, Fed
    <3>2. CASE pc' \in {"settle", "reply"}
      BY <3>1, <3>2 DEF NotifyInv, Armed, Unfed, AfterFeed
    <3>3. CASE pc' = "top"
      <4>1. Elapsed' <= Stretch /\ Elapsed' \in Nat
        <5>1. Elapsed' \in Nat
          BY MinusType DEF TypeOK, Elapsed
        <5>2. CASE FeedTime
          <6>1. /\ "ms" \in todo /\ Elapsed' = Minus(tick, now)
            BY <5>2 DEF FeedTime, Fed, Elapsed
          <6> QED
            BY <2>1, <5>1, <6>1, Bounds DEF ReadInv
        <5>3. CASE FeedState
          <6>1. "ms" \notin todo /\ Elapsed' = Elapsed
            BY <2>3, <5>3 DEF FeedState, Fed, Elapsed
          <6> QED
            BY <2>1, <5>1, <6>1, Bounds DEF YoungInv, Young
        <5> QED
          BY <1>13, <5>1, <5>2, <5>3
      <4>2. Young(LoopBound)'
        <5>1. Elapsed' <= LoopBound
          BY <4>1, Bounds
        <5> QED
          BY <2>1, <4>1, <5>1, YoungStarts, Bounds
      <4> QED
        BY <3>3, <4>2 DEF NotifyInv, Armed, Unfed
    <3> QED
      BY <3>1, <3>2, <3>3 DEF AfterFeed
  <2> QED
    BY <2>2, <2>3
<1>14. CASE SweepNext
  <2>1. /\ pc = "settle" /\ pc' = "stores" /\ op' = op
        /\ sweep' = sweep + 1
    BY <1>14 DEF SweepNext, StartStores
  <2>2. Sweeping'
    BY <2>1 DEF Place, StretchInv, Sweeping, Unfed, TypeOK
  <2> QED
    BY <2>1, <2>2 DEF NotifyInv, Armed
<1>15. CASE Replied
  <2>1. /\ pc = "reply" /\ pc' = "top" /\ due' = due /\ due > 0 /\ due \in Int
        /\ UNCHANGED command_vars /\ Elapsed' = Elapsed /\ Elapsed \in Nat
    BY <1>15, ElapsedType DEF Replied, SerialRuns, Elapsed, TypeOK
  <2>2. ASSUME Armed PROVE Armed'
    <3>1. op \in {"T11", "T150"}
      BY <2>1, <2>2 DEF Armed, Sweeping, Unfed
    <3>2. Elapsed <= LoopBound
      <4>1. CASE op = "T11"
        <5>1. Waits(Stretch, SendTicks)
          BY <2>1, <4>1 DEF YoungInv
        <5> QED
          BY <5>1, WaitEnds, Bounds
      <4>2. CASE op = "T150"
        <5>1. Waits(SweepBound, SendTicks)
          BY <2>1, <4>2 DEF YoungInv
        <5> QED
          BY <5>1, WaitEnds, Bounds
      <4> QED
        BY <3>1, <4>1, <4>2
    <3>3. Young(LoopBound)'
      <4>1. due' \in Int /\ due' > 0 /\ Elapsed' \in Nat
        BY <2>1
      <4> QED
        BY <2>1, <3>2, <4>1, YoungStarts, Bounds
    <3> QED
      BY <2>1, <3>3 DEF Armed
  <2> QED
    BY <2>1, <2>2 DEF NotifyInv, Unfed
<1> QED
  BY <1>1, <1>2, <1>3, <1>4, <1>5, <1>6, <1>7, <1>8, <1>9, <1>10, <1>11, <1>12,
     <1>13, <1>14, <1>15
     DEF Next, ControlCycle, SerialStep

\* The time stored is young in all reachable states.
LEMMA YoungAlways == Spec => []YInv
<1>1. Init => YInv
  BY TimeAssumption DEF Init, YInv, YoungInv, StretchInv, Sweeping, Unfed
<1>2. IInv /\ IInv' /\ YInv /\ [Next]_vars => YInv'
  BY YoungStep, StretchStep DEF IInv, YInv
<1> QED
  BY <1>1, <1>2, Invariance, PTL DEF Spec

\* With a timeout longer than it can get in a notification, none comes up while
\* one is being sent.
LEMMA NotifyAlways ==
    ASSUME NotifyBound <= Timeout
    PROVE  Spec => []NotifyInv
<1>1. Init => NotifyInv
  BY DEF Init, NotifyInv
<1>2. /\ IInv /\ IInv' /\ YInv /\ NotifyInv /\ [Next]_vars
      => NotifyInv'
  BY NotifyStep DEF IInv, YInv
<1> QED
  BY <1>1, <1>2, Invariance, YoungAlways, PTL DEF Spec

\* When a failsafe fires the time stored is old.
LEMMA FailsafeOld ==
    ASSUME TypeOK, Failsafe
    PROVE  /\ command_received /\ ~(due > 0)
           /\ Elapsed \in Nat /\ Elapsed > Timeout
BY ElapsedType DEF Failsafe, NextWake, HeartbeatLost, TypeOK

\* With a timeout longer than a settle time, a reading and two stretches no
\* failsafe fires in the wait of a sweep, for any sweep, lateness and clock
\* (json_cmd.cpp:181-186).
THEOREM SweepIsFed ==
    ASSUME SettleBound + Stretch <= Timeout
    PROVE  Spec => SweepSupervised
<1>1. IInv /\ YInv /\ [Next]_vars => [Failsafe => pc # "settle"]_vars
  <2> SUFFICES ASSUME IInv, YInv, Failsafe, pc = "settle" PROVE FALSE
    OBVIOUS
  <2>1. Elapsed \in Nat /\ Elapsed > Timeout
    BY FailsafeOld DEF IInv
  <2>2. Waits(Stretch, HoldTicks)
    BY DEF YInv, YoungInv
  <2>3. Elapsed <= Stretch + HoldTicks + MaxLate + Stretch
    BY <2>2, WaitEnds, Bounds DEF IInv
  <2> QED
    BY <2>1, <2>3, Bounds, TimeAssumption
<1> QED
  BY <1>1, Invariance, YoungAlways, PTL DEF Spec, SweepSupervised

\* With a timeout longer than a settle time, what follows it to the next turn
\* of the loop and the notification sent from there, each failsafe gets a
\* notification of its own, wherever in a command it falls, the one that a feed
\* half done provokes included (main.cpp:260, 380-387).
THEOREM EachIsNotified ==
    ASSUME NotifyBound <= Timeout
    PROVE  Spec => NotifyNotLost
<1>1. /\ IInv /\ YInv /\ NotifyInv /\ [Next]_vars
      => [Failsafe => ~heartbeat_fault_notify]_vars
  <2> SUFFICES ASSUME IInv, YInv, NotifyInv, Failsafe, heartbeat_fault_notify
               PROVE  FALSE
    OBVIOUS
  <2>1. /\ Elapsed \in Nat /\ Elapsed > Timeout
        /\ command_received /\ ~(due > 0)
    BY FailsafeOld DEF IInv
  <2>2. ~(Elapsed <= NotifyBound) /\ TypeOK
    BY <2>1, Bounds, TimeAssumption DEF IInv
  <2>3. Armed
    BY <2>1 DEF NotifyInv
  <2>4. \A b \in Nat : Young(b) => Elapsed <= b + Stretch
    BY DEF Young
  <2>5. ~Young(0) /\ ~Young(SettleBound + Stretch) /\ ~Young(LoopBound)
    BY <2>1, <2>2, <2>4, Bounds, Bases
  <2>6. ~Sweeping
    BY <2>5 DEF YInv, YoungInv
  <2>7. ~Unfed
    BY <2>1, <2>6 DEF NotifyInv
  <2>8. pc # "fed" /\ pc # "clock"
    BY <2>5, <2>7 DEF YInv, YoungInv, Unfed
  <2>9. /\ ~Waits(Stretch, HoldTicks) /\ ~Waits(Stretch, SendTicks)
        /\ ~Waits(SweepBound, SendTicks)
    <3>1. \A b, d \in Nat :
              Waits(b, d) => Elapsed <= b + d + MaxLate + Stretch
      BY <2>2, WaitEnds
    <3>2. Waits(Stretch, HoldTicks) =>
              Elapsed <= Stretch + HoldTicks + MaxLate + Stretch
      BY <3>1, Bounds
    <3>3. Waits(Stretch, SendTicks) =>
              Elapsed <= Stretch + SendTicks + MaxLate + Stretch
      BY <3>1, Bounds
    <3>4. Waits(SweepBound, SendTicks) =>
              Elapsed <= SweepBound + SendTicks + MaxLate + Stretch
      BY <3>1, Bounds
    <3> QED
      BY <2>1, <2>2, <3>2, <3>3, <3>4, Bounds
  <2> QED
    BY <2>3, <2>5, <2>6, <2>8, <2>9 DEF Armed, YInv, YoungInv
<1> QED
  BY <1>1, Invariance, YoungAlways, NotifyAlways, PTL
     DEF Spec, NotifyNotLost
-----------------------------------------------------------------------------
(* The inductive invariant, on top of IInv *)

Speeds == (-100)..100
MaxRpm == 100 * RpmPerUnit

\* Setpoints never leave the range of the motors.
SpeedInv ==
    /\ \A w \in Wheels : target[w] \in Speeds
    /\ \A w \in Wheels : profiled[w] \in (-MaxRpm)..MaxRpm
    /\ pc = "stores" /\ op # "T11" => \A w \in Wheels : arg[w] \in Speeds

\* A motion command has been dispatched and has not armed the heartbeat.
Writing ==
    \/ pc = "stores" /\ op \in MotionCommands /\ ~SweepEnd
    \/ pc = "feed"

\* Until its time is stored, a motion command is at most one tick and one
\* delayed cycle old.
FreshInv ==
    Writing \/ Feeding =>
        /\ silence <= 1 + MaxLate
        /\ due <= 0 => silence <= 1 - due
        /\ ~landed => silence = 0 /\ due > 0

\* The silence is hardly longer than the age of an armed heartbeat.
HeardInv == command_received /\ ~Feeding => silence <= Elapsed + (1 + MaxLate)

\* The silence and the time to the next cycle, while the heartbeat is armed
ArmedBound == (Timeout + Period) + (1 + MaxLate)

\* A stop that has disarmed the heartbeat: one more cycle may drive the old
\* setpoint before the rest of it is zeroed.
StopInv ==
    /\ pc = "stores" /\ op = "T0"
    /\ \/ silence + due <= ArmedBound
       \/ landed /\ due > 0 /\ silence + due <= ArmedBound + Period

LandedInv == pc = "stores" /\ op = "T0" /\ due <= 0 => landed

\* k cycles bring the ramp to zero, and they are over in time.
RampsIn(k) ==
    /\ \A w \in Wheels :
        profiled[w] <= k * MaxDelta /\ -(k * MaxDelta) <= profiled[w]
    /\ silence + due + k * Period
           <= ArmedBound + Period + RampCycles * Period

\* With nobody to feed the heartbeat no motion is asked for, or ramps down.
AtRest == profiled = Off /\ (drive = Off \/ regulated)
Ramp == AtRest \/ \E k \in 1..RampCycles : RampsIn(k)
Silent == ZeroSetpoint /\ Ramp

QuietInv == command_received \/ Writing \/ StopInv \/ Silent

QInv == SpeedInv /\ FreshInv /\ HeardInv /\ LandedInv /\ QuietInv

-----------------------------------------------------------------------------
(* Arithmetic *)

\* What the division leaves is less than the divisor.
LEMMA Quotient ==
    ASSUME NEW x \in Nat, NEW d \in Nat \ {0}
    PROVE  x \div d \in Nat /\ x < (x \div d) * d + d
OBVIOUS

\* The ramp takes RampCycles from full speed to zero.
LEMMA FullRamp ==
    /\ MaxRpm \in Nat /\ RampCycles \in Nat \ {0}
    /\ RampCycles * MaxDelta \in Nat /\ MaxRpm <= RampCycles * MaxDelta
<1>1. MaxRpm \in Nat \ {0} /\ MaxDelta \in Nat \ {0}
  BY SetpointAssumption DEF MaxRpm
<1>2. MaxRpm + MaxDelta - 1 \in Nat
  BY <1>1
<1>3. RampCycles = (MaxRpm + MaxDelta - 1) \div MaxDelta
  BY DEF RampCycles, MaxRpm
<1>4. /\ RampCycles \in Nat
      /\ MaxRpm + MaxDelta - 1 < RampCycles * MaxDelta + MaxDelta
  BY <1>1, <1>2, <1>3, Quotient
<1>5. RampCycles * MaxDelta \in Nat
  BY <1>1, <1>4
<1>6. MaxRpm <= RampCycles * MaxDelta
  BY <1>1, <1>4, <1>5
<1>7. RampCycles # 0
  BY <1>1, <1>6
<1> QED
  BY <1>1, <1>4, <1>5, <1>6, <1>7

\* The bound of the silence, multiplied out
LEMMA BoundSum ==
    /\ RampCycles * Period \in Nat /\ Period <= RampCycles * Period
    /\ QuietBound = ArmedBound + RampCycles * Period + MaxLate
    /\ ArmedBound \in Nat
<1>1. RampCycles \in Nat \ {0} /\ Period \in Nat
  BY FullRamp, TimeAssumption
<1>2. /\ RampCycles * Period \in Nat /\ Period <= RampCycles * Period
      /\ (RampCycles + 1) * Period = RampCycles * Period + Period
  BY <1>1
<1> QED
  BY <1>2, TimeAssumption DEF QuietBound, ArmedBound

\* A target in units is a setpoint within full speed.
LEMMA GoalBound ==
    ASSUME NEW t \in Speeds
    PROVE  t * RpmPerUnit \in (-MaxRpm)..MaxRpm
<1>1. t \in Int /\ -100 <= t /\ t <= 100 /\ RpmPerUnit \in Nat
  BY SetpointAssumption DEF Speeds
<1>2. t * RpmPerUnit \in Int /\ MaxRpm = 100 * RpmPerUnit
  BY <1>1 DEF MaxRpm
<1>3. t * RpmPerUnit <= 100 * RpmPerUnit
  BY <1>1
<1>4. (-100) * RpmPerUnit <= t * RpmPerUnit
  BY <1>1
<1> QED
  BY <1>1, <1>2, <1>3, <1>4

\* One multiple less is one period, or one step of the ramp, less.
LEMMA OneLess ==
    ASSUME NEW k \in Int, NEW d \in Int
    PROVE  k * d \in Int /\ (k - 1) * d \in Int /\ (k - 1) * d = k * d - d
OBVIOUS
-----------------------------------------------------------------------------
(* Every step keeps the setpoints in range *)

\* SpeedInv speaks of the setpoints and of the arguments to store.
LEMMA SpeedKept ==
    ASSUME SpeedInv, UNCHANGED <<target, profiled>>,
           pc' = "stores" /\ op' # "T11" =>
               pc = "stores" /\ op # "T11" /\ arg' = arg
    PROVE  SpeedInv'
BY DEF SpeedInv

\* The profiled setpoint at rest, and one on its way to a target, are in range.
LEMMA SlewBound ==
    ASSUME TypeOK, SpeedInv, NEW w \in Wheels
    PROVE  Slewed(w) \in (-MaxRpm)..MaxRpm
<1>1. /\ target[w] \in Speeds /\ profiled[w] \in (-MaxRpm)..MaxRpm
      /\ MaxRpm \in Nat /\ MaxDelta \in Nat
  BY FullRamp, SetpointAssumption DEF SpeedInv
<1>2. target[w] * RpmPerUnit \in (-MaxRpm)..MaxRpm
  BY <1>1, GoalBound
<1> DEFINE goal == target[w] * RpmPerUnit
<1>3. goal \in (-MaxRpm)..MaxRpm
  BY <1>2
<1>4. Slewed(w) = profiled[w] + Clamp(goal - profiled[w], -MaxDelta, MaxDelta)
  BY DEF Slewed
<1> HIDE DEF goal
<1> QED
  BY <1>1, <1>3, <1>4 DEF Clamp

\* Every step keeps them in range.
LEMMA SpeedStep ==
    ASSUME TypeOK, Place, SpeedInv, [Next]_vars
    PROVE  SpeedInv'
<1> USE DEF command_vars, control_vars, serial_vars, env_vars
<1>a. \A w \in Wheels : Off[w] \in Speeds /\ Off[w] \in (-MaxRpm)..MaxRpm
  BY FullRamp DEF Off, Speeds
<1>1. CASE Tick
  BY <1>1, SpeedKept DEF Tick
<1>2. CASE HostGoesSilent
  BY <1>2, SpeedKept DEF HostGoesSilent
<1>3. CASE Failsafe
  BY <1>3, <1>a DEF Failsafe, SpeedInv
<1>4. CASE DirectCycle
  BY <1>4, <1>a DEF DirectCycle, SpeedInv
<1>5. CASE VelocityCycle
  <2>1. \A w \in Wheels : profiled'[w] \in (-MaxRpm)..MaxRpm
    BY <1>5, SlewBound DEF VelocityCycle
  <2> QED
    BY <1>5, <2>1 DEF VelocityCycle, SpeedInv
<1>6. CASE Notify
  BY <1>6, SpeedKept DEF Notify
<1>7. CASE ToRead
  BY <1>7, SpeedKept DEF ToRead
<1>8. CASE NoLine
  BY <1>8, SpeedKept DEF NoLine
<1>9. CASE Dispatch
  <2>1. pc' = "stores" /\ op' # "T11" => \A w \in Wheels : arg'[w] \in Speeds
    <3>1. ASSUME NEW a \in [Wheels -> SpeedLevels]
          PROVE  \A w \in Wheels : a[w] \in Speeds
      BY RangeAssumption DEF Speeds
    <3>2. SweepSteps[1] \in Speeds
      BY CommandAssumption, RangeAssumption DEF Speeds
    <3>3. \A w \in Wheels : [v \in Wheels |-> SweepSteps[1]][w] \in Speeds
      BY <3>2
    <3> QED
      BY <1>9, <1>a, <3>1, <3>3 DEF Dispatch, StartStores
  <2> QED
    BY <1>9, <2>1 DEF Dispatch, SpeedInv
<1>10. CASE \E w \in Wheels : StoreTarget(w)
  <2>1. PICK w \in Wheels : StoreTarget(w)
    BY <1>10
  <2>2. op # "T11"
    BY <2>1, FieldNames
       DEF StoreTarget, Stored, Place, Stores, Pwms, SweepEnd, Targets
  <2>3. arg[w] \in Speeds
    BY <2>1, <2>2 DEF StoreTarget, Stored, SpeedInv
  <2>4. \A v \in Wheels : target'[v] \in Speeds
    BY <2>1, <2>3 DEF StoreTarget, SpeedInv, TypeOK
  <2> QED
    BY <2>1, <2>2, <2>4 DEF StoreTarget, Stored, SpeedInv
<1>11. CASE \E w \in Wheels : StorePwm(w)
  BY <1>11, SpeedKept DEF StorePwm, Stored
<1>12. CASE StoreDirect
  BY <1>12, SpeedKept DEF StoreDirect, Stored
<1>13. CASE Disarm
  BY <1>13, SpeedKept DEF Disarm, Stored
<1>14. CASE StoreIdle
  BY <1>14, SpeedKept DEF StoreIdle, Stored
<1>15. CASE StopLeft
  BY <1>15, SpeedKept DEF StopLeft
<1>16. CASE StopRight
  BY <1>16, SpeedKept DEF StopRight
<1>17. CASE FeedReceived
  BY <1>17, SpeedKept DEF FeedReceived
<1>18. CASE FeedClock
  BY <1>18, SpeedKept DEF FeedClock
<1>19. CASE FeedTime
  BY <1>19, SpeedKept DEF FeedTime, Fed, AfterFeed
<1>20. CASE FeedState
  BY <1>20, SpeedKept DEF FeedState, Fed, AfterFeed
<1>21. CASE SweepNext
  <2>1. \A w \in Wheels : arg'[w] \in Speeds
    <3>1. CASE sweep < Len(SweepSteps)
      <4>1. sweep + 1 \in 1..Len(SweepSteps)
        BY <3>1, CommandAssumption DEF TypeOK
      <4>2. SweepSteps[sweep + 1] \in Speeds
        BY <4>1, RangeAssumption DEF Speeds
      <4> QED
        BY <1>21, <3>1, <4>2 DEF SweepNext, StartStores
    <3>2. CASE ~(sweep < Len(SweepSteps))
      BY <1>21, <3>2, <1>a DEF SweepNext, StartStores
    <3> QED
      BY <3>1, <3>2
  <2> QED
    BY <1>21, <2>1 DEF SweepNext, SpeedInv
<1>22. CASE Replied
  BY <1>22, SpeedKept DEF Replied
<1>23. CASE UNCHANGED vars
  BY <1>23, SpeedKept DEF vars
<1> QED
  BY <1>1, <1>2, <1>3, <1>4, <1>5, <1>6, <1>7, <1>8, <1>9, <1>10, <1>11, <1>12,
     <1>13, <1>14, <1>15, <1>16, <1>17, <1>18, <1>19, <1>20, <1>21, <1>22,
     <1>23
     DEF Next, ControlCycle, SerialStep
-----------------------------------------------------------------------------
(* Every step keeps the silence of a fresh command, and the age of one *)

\* FreshInv speaks of the silence, the next cycle and the tick that landed.
LEMMA FreshKept ==
    ASSUME FreshInv, UNCHANGED <<silence, due, landed>>,
           Writing' \/ Feeding' => Writing \/ Feeding
    PROVE  FreshInv'
BY DEF FreshInv

\* FreshInv says nothing where no motion command is dispatched or fed.
LEMMA FreshAway == ASSUME ~(Writing' \/ Feeding') PROVE FreshInv'
BY DEF FreshInv

\* A store leaves a fresh command fresh.
LEMMA FreshStored ==
    ASSUME NEW f, Stored(f), UNCHANGED <<op, sweep, silence, due>>, Place,
           FreshInv
    PROVE  FreshInv'
<1>1. Writing' => Writing
  BY DEF Stored, Writing, AfterStores, SweepEnd, Place, MotionCommands
<1>3. Writing' => (landed => landed')
  BY DEF Stored, Writing
<1>2. ~Feeding'
  BY DEF Stored, AfterStores, Feeding
<1> QED
  BY <1>1, <1>2, <1>3 DEF FreshInv

\* Every step keeps a fresh command fresh.
LEMMA FreshStep ==
    ASSUME TypeOK, Place, FreshInv, [Next]_vars
    PROVE  FreshInv'
<1> USE DEF command_vars, control_vars, serial_vars, env_vars
<1>1. CASE Tick
  <2>1. CASE ~(Writing \/ Feeding)
    BY <1>1, <2>1, FreshAway DEF Tick, Writing, Feeding, SweepEnd
  <2>2. CASE Writing \/ Feeding
    <3>1. /\ due' = due - 1 /\ due > -MaxLate /\ due \in Int
          /\ silence \in Nat /\ silence' \in Nat /\ silence' <= silence + 1
      BY <1>1, SilenceMaxType DEF Tick, TypeOK
    <3>2. Computing
      BY <2>2 DEF Writing, Feeding, Computing
    <3>3. CASE due > 0
      <4>1. ~landed
        BY <1>1, <3>2, <3>3 DEF Tick
      <4>2. silence = 0
        BY <2>2, <4>1 DEF FreshInv
      <4>3. landed'
        BY <1>1, <3>2, <3>3 DEF Tick
      <4> QED
        BY <3>1, <3>3, <4>2, <4>3, TimeAssumption DEF FreshInv
    <3>4. CASE ~(due > 0)
      <4>1. due <= 0
        BY <3>1, <3>4
      <4>2. silence <= 1 - due
        BY <2>2, <4>1 DEF FreshInv
      <4>3. landed
        BY <2>2, <3>4 DEF FreshInv
      <4>4. landed'
        BY <1>1, <4>3 DEF Tick
      <4> QED
        BY <3>1, <4>1, <4>2, <4>4, TimeAssumption DEF FreshInv
    <3> QED
      BY <3>3, <3>4
  <2> QED
    BY <2>1, <2>2
<1>2. CASE HostGoesSilent
  BY <1>2, FreshKept DEF HostGoesSilent, Writing, Feeding, SweepEnd
<1>3. CASE ControlCycle
  <2>1. /\ UNCHANGED <<pc, op, sweep, todo, landed, silence>>
        /\ due <= 0 /\ due' = due + Period
    BY <1>3
       DEF ControlCycle, Failsafe, DirectCycle, VelocityCycle, NextWake
  <2>2. Writing' = Writing /\ Feeding' = Feeding
    BY <2>1 DEF Writing, Feeding, SweepEnd
  <2>3. due > -Period /\ due \in Int /\ silence \in Int
    BY TimeAssumption, SilenceMaxType DEF TypeOK
  <2> QED
    BY <2>1, <2>2, <2>3, TimeAssumption DEF FreshInv
<1>6. CASE Notify
  BY <1>6, FreshAway DEF Notify, Writing, Feeding
<1>7. CASE ToRead
  BY <1>7, FreshAway DEF ToRead, Writing, Feeding
<1>8. CASE NoLine
  BY <1>8, FreshAway DEF NoLine, Writing, Feeding
<1>9. CASE Dispatch
  <2>1. ~Feeding' /\ pc' # "feed" /\ due' = due /\ due > 0
    BY <1>9 DEF Dispatch, StartStores, Feeding, SerialRuns
  <2>2. Writing' => silence' = 0
    BY <1>9 DEF Dispatch, Writing, StartStores
  <2> QED
    BY <2>1, <2>2, TimeAssumption DEF FreshInv, TypeOK
<1>10. CASE \E w \in Wheels : StoreTarget(w)
  BY <1>10, FreshStored DEF StoreTarget
<1>11. CASE \E w \in Wheels : StorePwm(w)
  BY <1>11, FreshStored DEF StorePwm
<1>12. CASE StoreDirect
  BY <1>12, FreshStored DEF StoreDirect
<1>13. CASE Disarm
  BY <1>13, FreshStored DEF Disarm
<1>14. CASE StoreIdle
  BY <1>14, FreshStored DEF StoreIdle
<1>15. CASE StopLeft
  BY <1>15, FreshAway DEF StopLeft, Writing, Feeding
<1>16. CASE StopRight
  BY <1>16, FreshAway DEF StopRight, Writing, Feeding
<1>17. CASE FeedReceived
  BY <1>17, FreshKept DEF FeedReceived, Writing, Feeding
<1>18. CASE FeedClock
  BY <1>18, FreshKept DEF FeedClock, Writing, Feeding
<1>19. CASE FeedTime
  BY <1>19, FreshAway DEF FeedTime, Fed, AfterFeed, Writing, Feeding
<1>20. CASE FeedState
  <2>1. CASE todo' = {}
    BY <1>20, <2>1, FreshAway DEF FeedState, Fed, AfterFeed, Writing, Feeding
  <2>2. CASE todo' # {}
    BY <1>20, <2>2, FreshKept DEF FeedState, Fed, Writing, Feeding
  <2> QED
    BY <2>1, <2>2
<1>21. CASE SweepNext
  <2>1. /\ ~Feeding' /\ pc' = "stores" /\ due' = due /\ due > 0
        /\ op = "T150" /\ sweep \in Nat /\ Len(SweepSteps) \in Nat
    BY <1>21, CommandAssumption
       DEF SweepNext, StartStores, Feeding, SerialRuns, Place, TypeOK
  <2>2. Writing' => silence' = 0
    BY <1>21, <2>1 DEF SweepNext, Writing, StartStores, SweepEnd
  <2> QED
    BY <2>1, <2>2, TimeAssumption DEF FreshInv, TypeOK
<1>22. CASE Replied
  BY <1>22, FreshAway DEF Replied, Writing, Feeding
<1>23. CASE UNCHANGED vars
  BY <1>23, FreshKept DEF vars, Writing, Feeding, SweepEnd
<1> QED
  BY <1>1, <1>2, <1>3, <1>6, <1>7, <1>8, <1>9, <1>10, <1>11, <1>12,
     <1>13, <1>14, <1>15, <1>16, <1>17, <1>18, <1>19, <1>20, <1>21, <1>22,
     <1>23
     DEF Next, SerialStep

\* A tick makes the age of an armed heartbeat one more: it does not wrap.
LEMMA TickAge ==
    ASSUME TypeOK, AgeInv, Tick, command_received, ~Feeding
    PROVE  Elapsed \in Nat /\ Elapsed' = Elapsed + 1
<1>1. /\ tick \in 0..(TickMod - 1) /\ last_command_ms \in 0..(TickMod - 1)
      /\ last_command_ms' = last_command_ms /\ TickMod \in Nat
      /\ tick' = (IF tick = TickMod - 1 THEN 0 ELSE tick + 1)
  BY TimeAssumption DEF TypeOK, Tick, command_vars
<1>2. Elapsed \in Nat
  BY <1>1, MinusType DEF Elapsed
<1>3. Elapsed + due <= Timeout + Period /\ due > -MaxLate /\ due \in Int
  BY DEF AgeInv, Tick, TypeOK
<1>4. Elapsed + 1 < TickMod
  BY <1>2, <1>3, TimeAssumption
<1>5. /\ Elapsed = (IF tick >= last_command_ms THEN tick - last_command_ms
                    ELSE tick - last_command_ms + TickMod)
      /\ Elapsed' = (IF tick' >= last_command_ms THEN tick' - last_command_ms
                     ELSE tick' - last_command_ms + TickMod)
  BY <1>1 DEF Elapsed, Minus
<1> QED
  BY <1>1, <1>2, <1>4, <1>5

\* HeardInv speaks of the silence and of an armed heartbeat's clock.
LEMMA HeardKept ==
    ASSUME HeardInv, UNCHANGED <<tick, last_command_ms>>,
           silence \in Nat, silence' \in {0, silence}, Elapsed \in Nat,
           command_received' => command_received \/ Feeding',
           Feeding => Feeding' \/ ~command_received'
    PROVE  HeardInv'
<1>1. Elapsed' = Elapsed
  BY DEF Elapsed
<1> QED
  BY <1>1, TimeAssumption DEF HeardInv

\* Every step keeps the silence close to the age.
LEMMA HeardStep ==
    ASSUME TypeOK, AgeInv, FreshInv, HeardInv, [Next]_vars
    PROVE  HeardInv'
<1> USE DEF command_vars, control_vars, serial_vars, env_vars
<1>a. silence \in Nat /\ Elapsed \in Nat
  BY SilenceMaxType, MinusType DEF TypeOK, Elapsed
<1>1. CASE Tick
  <2>1. silence' \in Nat /\ silence' <= silence + 1
    BY <1>1, <1>a, SilenceMaxType DEF Tick
  <2>2. command_received' = command_received /\ Feeding' = Feeding
    BY <1>1 DEF Tick, Feeding
  <2>3. CASE command_received /\ ~Feeding
    <3>1. Elapsed' = Elapsed + 1
      BY <1>1, <2>3, TickAge
    <3> QED
      BY <1>a, <2>1, <2>2, <2>3, <3>1, TimeAssumption DEF HeardInv
  <2>4. CASE ~(command_received /\ ~Feeding)
    BY <2>2, <2>4 DEF HeardInv
  <2> QED
    BY <2>3, <2>4
<1>2. CASE HostGoesSilent
  BY <1>2, <1>a, HeardKept DEF HostGoesSilent, Feeding
<1>3. CASE ControlCycle
  <2>1. /\ UNCHANGED <<pc, todo, tick, last_command_ms, silence>>
        /\ command_received' => command_received
    BY <1>3
       DEF ControlCycle, Failsafe, DirectCycle, VelocityCycle, NextWake
  <2> QED
    BY <1>a, <2>1, HeardKept DEF Feeding
<1>6. CASE Notify
  BY <1>6, <1>a, HeardKept DEF Notify, Feeding
<1>7. CASE ToRead
  BY <1>7, <1>a, HeardKept DEF ToRead, Feeding
<1>8. CASE NoLine
  BY <1>8, <1>a, HeardKept DEF NoLine, Feeding
<1>9. CASE Dispatch
  BY <1>9, <1>a, HeardKept DEF Dispatch, StartStores, Feeding
<1>10. CASE \E w \in Wheels : StoreTarget(w)
  BY <1>10, <1>a, HeardKept DEF StoreTarget, Stored, Feeding, AfterStores
<1>11. CASE \E w \in Wheels : StorePwm(w)
  BY <1>11, <1>a, HeardKept DEF StorePwm, Stored, Feeding, AfterStores
<1>12. CASE StoreDirect
  BY <1>12, <1>a, HeardKept DEF StoreDirect, Stored, Feeding, AfterStores
<1>13. CASE Disarm
  BY <1>13, <1>a, HeardKept DEF Disarm, Stored, Feeding, AfterStores
<1>14. CASE StoreIdle
  BY <1>14, <1>a, HeardKept DEF StoreIdle, Stored, Feeding, AfterStores
<1>15. CASE StopLeft
  BY <1>15, <1>a, HeardKept DEF StopLeft, Feeding
<1>16. CASE StopRight
  BY <1>16, <1>a, HeardKept DEF StopRight, Feeding
<1>17. CASE FeedReceived
  BY <1>17, <1>a, HeardKept DEF FeedReceived, Feeding
<1>18. CASE FeedClock
  BY <1>18, <1>a, HeardKept DEF FeedClock, Feeding
<1>19. CASE FeedTime
  <2>1. silence <= 1 + MaxLate /\ silence' = silence
    BY <1>19 DEF FeedTime, Fed, FreshInv, Feeding
  <2>2. Elapsed' \in Nat
    <3>1. Elapsed' = Minus(tick, now)
      BY <1>19 DEF FeedTime, Fed, Elapsed
    <3> QED
      BY <3>1, MinusType DEF TypeOK
  <2>3. silence' <= Elapsed' + (1 + MaxLate)
    <3>1. ASSUME NEW e \in Nat, NEW s \in Nat, s <= 1 + MaxLate
          PROVE  s <= e + (1 + MaxLate)
      BY <3>1, TimeAssumption
    <3> QED
      BY <1>a, <2>1, <2>2, <3>1
  <2> QED
    BY <2>3 DEF HeardInv
<1>20. CASE FeedState
  BY <1>20, <1>a, HeardKept DEF FeedState, Fed, Feeding, AfterFeed
<1>21. CASE SweepNext
  BY <1>21, <1>a, HeardKept DEF SweepNext, StartStores, Feeding
<1>22. CASE Replied
  BY <1>22, <1>a, HeardKept DEF Replied, Feeding
<1>23. CASE UNCHANGED vars
  BY <1>23, <1>a, HeardKept DEF vars, Feeding
<1> QED
  BY <1>1, <1>2, <1>3, <1>6, <1>7, <1>8, <1>9, <1>10, <1>11, <1>12,
     <1>13, <1>14, <1>15, <1>16, <1>17, <1>18, <1>19, <1>20, <1>21, <1>22,
     <1>23
     DEF Next, SerialStep
-----------------------------------------------------------------------------
(* Every step keeps the setpoints quiet in time *)

\* A control cycle runs when it is due, and the next one is then ahead.
LEMMA CycleDue ==
    ASSUME TypeOK, ControlCycle
    PROVE  due <= 0 /\ due' = due + Period /\ due' > 0
<1>1. due <= 0 /\ due' = due + Period
  BY DEF ControlCycle, Failsafe, DirectCycle, VelocityCycle, NextWake
<1>2. due \in Int /\ -MaxLate <= due
  BY TimeAssumption DEF TypeOK
<1> QED
  BY <1>1, <1>2, TimeAssumption

\* Every step keeps a tick that let a cycle become due in mind.
LEMMA LandedStep ==
    ASSUME TypeOK, LandedInv, [Next]_vars
    PROVE  LandedInv'
<1>1. CASE Tick
  <2>1. pc' = "stores" /\ op' = "T0" => pc = "stores" /\ op = "T0"
    BY <1>1 DEF Tick, serial_vars
  <2>2. pc = "stores" => Computing
    BY DEF Computing
  <2>3. pc = "stores" /\ op = "T0" => landed'
    <3>1. CASE due > 0
      BY <1>1, <2>2, <3>1 DEF Tick
    <3>2. CASE ~(due > 0)
      <4>1. due <= 0
        BY <3>2 DEF TypeOK
      <4> QED
        BY <1>1, <4>1 DEF Tick, LandedInv
    <3> QED
      BY <3>1, <3>2
  <2> QED
    BY <2>1, <2>3 DEF LandedInv
<1>2. CASE HostGoesSilent \/ UNCHANGED vars
  BY <1>2 DEF HostGoesSilent, vars, control_vars, serial_vars, LandedInv
<1>3. CASE ControlCycle
  <2>1. due' \in Int /\ due' > 0
    BY <1>3, CycleDue, TimeAssumption DEF TypeOK
  <2> QED
    BY <2>1 DEF LandedInv
<1>4. CASE SerialStep
  <2>1. due' \in Int /\ due' > 0
    BY <1>4, StepAwake DEF TypeOK
  <2> QED
    BY <2>1 DEF LandedInv
<1> QED
  BY <1>1, <1>2, <1>3, <1>4 DEF Next

\* With full speed to ramp down from, and the time of a stop, the ramp is over
\* in time.
OneStop == silence + due <= ArmedBound + Period
LEMMA RampBegins == TypeOK /\ SpeedInv /\ OneStop => Ramp
<1> SUFFICES ASSUME TypeOK, SpeedInv, OneStop PROVE Ramp
  OBVIOUS
<1>1. /\ RampCycles \in 1..RampCycles
      /\ RampCycles * MaxDelta \in Nat /\ RampCycles * Period \in Nat
      /\ MaxRpm \in Nat /\ MaxRpm <= RampCycles * MaxDelta
  BY FullRamp, BoundSum
<1>2. \A w \in Wheels : profiled[w] \in (-MaxRpm)..MaxRpm
  BY DEF SpeedInv
<1>3. ASSUME NEW w \in Wheels
      PROVE  /\ profiled[w] <= RampCycles * MaxDelta
             /\ -(RampCycles * MaxDelta) <= profiled[w]
  <2>1. profiled[w] \in Int /\ profiled[w] <= MaxRpm /\ -MaxRpm <= profiled[w]
    BY <1>1, <1>2
  <2> QED
    BY <1>1, <2>1
<1>4. /\ silence + due \in Int /\ ArmedBound + Period \in Int
  BY SilenceMaxType, TimeAssumption, BoundSum DEF TypeOK
<1>5. silence + due + RampCycles * Period
          <= ArmedBound + Period + RampCycles * Period
  BY <1>1, <1>4 DEF OneStop
<1>6. RampsIn(RampCycles)
  BY <1>3, <1>5 DEF RampsIn
<1> QED
  BY <1>1, <1>6 DEF Ramp

\* A ramp goes on when nothing but the motors' outputs changes, towards zero.
LEMMA RampKept ==
    ASSUME Ramp, UNCHANGED <<profiled, silence, due>>, AtRest => AtRest'
    PROVE  Ramp'
BY DEF Ramp, RampsIn

\* The silence while the heartbeat is armed
LEMMA ArmedSilence ==
    ASSUME TypeOK, AgeInv, HeardInv, command_received, ~Feeding
    PROVE  silence + due <= ArmedBound
<1>1. silence \in Nat /\ Elapsed \in Nat /\ due \in Int
  BY SilenceMaxType, MinusType DEF TypeOK, Elapsed
<1>2. Elapsed + due <= Timeout + Period /\ silence <= Elapsed + (1 + MaxLate)
  BY DEF AgeInv, HeardInv
<1> QED
  BY <1>1, <1>2, TimeAssumption DEF ArmedBound

\* A cycle with no motion asked for keeps it so, or takes the ramp a
\* step further.
LEMMA CycleSilent ==
    ASSUME TypeOK, Silent, DirectCycle \/ VelocityCycle
    PROVE  Silent'
<1>1. target = Off /\ (direct_pwm_mode => pwm = Off) /\ Ramp
  BY DEF Silent, ZeroSetpoint
<1>2. ZeroSetpoint'
  BY <1>1 DEF DirectCycle, VelocityCycle, command_vars, ZeroSetpoint
<1>3. CASE DirectCycle
  <2>1. \A w \in Wheels : Scale(pwm[w]) = 0
    BY <1>1, <1>3 DEF DirectCycle, Off, Scale
  <2>2. AtRest'
    BY <1>3, <2>1 DEF DirectCycle, AtRest, Off
  <2> QED
    BY <1>2, <2>2 DEF Silent, Ramp
<1>4. CASE VelocityCycle
  <2>1. ASSUME NEW w \in Wheels
        PROVE  /\ profiled'[w] = profiled[w]
                      + Clamp(0 - profiled[w], -MaxDelta, MaxDelta)
               /\ profiled[w] \in Int
    <3>1. target[w] * RpmPerUnit = 0
      BY <1>1, SetpointAssumption DEF Off
    <3> QED
      BY <1>4, <3>1 DEF VelocityCycle, Slewed, TypeOK
  <2>2. regulated' /\ profiled' = [w \in Wheels |-> profiled'[w]]
    BY <1>4 DEF VelocityCycle
  <2>3. CASE AtRest
    <3>1. \A w \in Wheels : profiled'[w] = 0
      BY <2>1, <2>3, SetpointAssumption DEF AtRest, Off, Clamp
    <3>2. AtRest'
      BY <2>2, <3>1 DEF AtRest, Off
    <3> QED
      BY <1>2, <3>2 DEF Silent, Ramp
  <2>4. CASE ~AtRest
    <3>1. PICK k \in 1..RampCycles : RampsIn(k)
      BY <1>1, <2>4 DEF Ramp
    <3>2. k \in Nat /\ k >= 1 /\ k <= RampCycles /\ RampCycles \in Nat
      BY <3>1, FullRamp
    <3>3. /\ k * MaxDelta \in Nat /\ (k - 1) * MaxDelta \in Int
          /\ (k - 1) * MaxDelta = k * MaxDelta - MaxDelta
          /\ MaxDelta \in Nat
      BY <3>2, OneLess, SetpointAssumption
    <3>4. /\ k * Period \in Nat /\ (k - 1) * Period \in Int
          /\ (k - 1) * Period = k * Period - Period
          /\ Period \in Nat
      BY <3>2, OneLess, TimeAssumption
    <3>5. CASE k = 1
      <4>1. k * MaxDelta = MaxDelta
        BY <3>5, SetpointAssumption
      <4>2. ASSUME NEW w \in Wheels PROVE profiled'[w] = 0
        <5>1. profiled[w] <= MaxDelta /\ -MaxDelta <= profiled[w]
          BY <3>1, <4>1 DEF RampsIn
        <5> QED
          BY <2>1, <3>3, <5>1 DEF Clamp
      <4>3. AtRest'
        BY <2>2, <4>2 DEF AtRest, Off
      <4> QED
        BY <1>2, <4>3 DEF Silent, Ramp
    <3>6. CASE k # 1
      <4>1. k - 1 \in 1..RampCycles
        BY <3>2, <3>6
      <4>2. ASSUME NEW w \in Wheels
            PROVE  /\ profiled'[w] <= (k - 1) * MaxDelta
                   /\ -((k - 1) * MaxDelta) <= profiled'[w]
        <5> DEFINE top == k * MaxDelta
        <5>1. /\ profiled[w] <= top /\ -top <= profiled[w]
              /\ top \in Nat /\ (k - 1) * MaxDelta = top - MaxDelta
          BY <3>1, <3>3 DEF RampsIn
        <5>2. top >= 2 * MaxDelta
          <6>1. (k - 1) * MaxDelta >= MaxDelta
            BY <4>1, <3>2, <3>3
          <6> QED
            BY <3>3, <6>1
        <5> HIDE DEF top
        <5>3. /\ profiled'[w] <= top - MaxDelta
              /\ -(top - MaxDelta) <= profiled'[w]
          BY <2>1, <3>3, <5>1, <5>2 DEF Clamp
        <5> QED
          BY <5>1, <5>3
      <4>3. silence + due + k * Period
                <= ArmedBound + Period + RampCycles * Period
        BY <3>1 DEF RampsIn
      <4>4. /\ silence' = silence /\ due' = due + Period
            /\ silence \in Int /\ due \in Int
        BY <1>4, SilenceMaxType
           DEF VelocityCycle, NextWake, env_vars, TypeOK
      <4>5. silence' + due' + (k - 1) * Period
                <= ArmedBound + Period + RampCycles * Period
        BY <3>4, <4>3, <4>4, BoundSum
      <4>6. RampsIn(k - 1)'
        BY <4>2, <4>5 DEF RampsIn
      <4> QED
        BY <1>2, <4>1, <4>6 DEF Silent, Ramp
    <3> QED
      BY <3>5, <3>6
  <2> QED
    BY <2>3, <2>4
<1> QED
  BY <1>3, <1>4

\* A tick that leaves the setpoints alone keeps the ramp in time.
LEMMA TickSilent ==
    ASSUME TypeOK, Tick, Silent
    PROVE  Silent'
<1>1. ZeroSetpoint'
  BY DEF Tick, Silent, ZeroSetpoint, command_vars
<1>2. /\ silence \in Int /\ silence' \in Int /\ silence' <= silence + 1
      /\ due \in Int /\ due' = due - 1
  BY SilenceMaxType DEF Tick, TypeOK
<1>3. UNCHANGED <<profiled, drive, regulated>>
  BY DEF Tick
<1>4. CASE AtRest
  BY <1>1, <1>3, <1>4 DEF Silent, Ramp, AtRest
<1>5. CASE ~AtRest
  <2>1. PICK k \in 1..RampCycles : RampsIn(k)
    BY <1>5 DEF Silent, Ramp
  <2>2. k * Period \in Int
    BY <2>1, TimeAssumption
  <2>3. silence' + due' + k * Period
            <= ArmedBound + Period + RampCycles * Period
    BY <1>2, <2>1, <2>2, BoundSum, TimeAssumption DEF RampsIn
  <2>4. RampsIn(k)'
    BY <1>3, <2>1, <2>3 DEF RampsIn
  <2> QED
    BY <1>1, <2>1, <2>4 DEF Silent, Ramp
<1> QED
  BY <1>4, <1>5

\* Between commands, steps that store no command leave the setpoints alone.
LEMMA QuietKept ==
    ASSUME QuietInv, pc \notin {"stores", "feed"},
           UNCHANGED <<target, pwm, direct_pwm_mode, command_received,
                       profiled, silence, due>>,
           AtRest => AtRest'
    PROVE  QuietInv'
<1>1. CASE command_received
  BY <1>1 DEF QuietInv
<1>2. CASE ~command_received
  <2>1. Silent
    BY <1>2 DEF QuietInv, Writing, StopInv
  <2>2. Ramp'
    BY <2>1, RampKept DEF Silent
  <2> QED
    BY <2>1, <2>2 DEF Silent, ZeroSetpoint, QuietInv
<1> QED
  BY <1>1, <1>2

\* A store of a command leaves the setpoints guarded, or quiet in time, if the
\* commands that zero the setpoints do.
LEMMA QuietStored ==
    ASSUME TypeOK, TypeOK', Place, Zeroed', SpeedInv', AgeInv, HeardInv,
           QuietInv, NEW f, Stored(f),
           UNCHANGED <<op, sweep, profiled, drive, regulated, silence, due>>,
           command_received => command_received' \/ op = "T0",
           ~Writing /\ ZeroSetpoint => ZeroSetpoint'
    PROVE  QuietInv'
<1>1. pc = "stores" /\ ~Feeding
  BY DEF Stored, Feeding
<1>2. CASE Writing
  <2>1. Writing'
    BY <1>2 DEF Stored, Writing, AfterStores, SweepEnd, MotionCommands
  <2> QED
    BY <2>1 DEF QuietInv
<1>3. CASE ~Writing /\ Silent
  <2>1. ZeroSetpoint'
    BY <1>3 DEF Silent
  <2>2. Ramp'
    BY <1>3, RampKept DEF Silent, AtRest
  <2> QED
    BY <2>1, <2>2 DEF Silent, QuietInv
<1>4. CASE ~Writing /\ ~Silent /\ command_received /\ command_received'
  BY <1>4 DEF QuietInv
<1>5. CASE op = "T0"
           /\ (StopInv \/ (command_received /\ ~command_received'))
  <2>1. silence + due <= ArmedBound
           \/ (landed /\ due > 0 /\ silence + due <= ArmedBound + Period)
    BY <1>1, <1>5, ArmedSilence DEF StopInv
  <2>2. CASE pc' = "stores"
    <3>1. landed => landed'
      BY <2>2 DEF Stored
    <3>2. StopInv'
      BY <1>5, <2>1, <2>2, <3>1 DEF StopInv
    <3> QED
      BY <3>2 DEF QuietInv
  <2>3. CASE pc' # "stores"
    <3>1. pc' = "motor_left"
      BY <1>5, <2>3 DEF Stored, AfterStores
    <3>2. ZeroSetpoint'
      BY <3>1 DEF Zeroed
    <3>3. OneStop'
      <4>1. silence + due \in Int /\ ArmedBound \in Nat /\ Period \in Nat
        BY SilenceMaxType, BoundSum, TimeAssumption DEF TypeOK
      <4>2. silence + due <= ArmedBound + Period
        BY <2>1, <4>1
      <4> QED
        BY <4>2 DEF OneStop
    <3>4. TypeOK' /\ SpeedInv' /\ OneStop' => Ramp'
      BY RampBegins, PTL
    <3> QED
      BY <3>2, <3>3, <3>4 DEF Silent, QuietInv
  <2> QED
    BY <2>2, <2>3
<1> QED
  BY <1>1, <1>2, <1>3, <1>4, <1>5 DEF QuietInv, StopInv

\* A command that is not writing new setpoints zeroes them, or stores none.
LEMMA NotWriting ==
    ASSUME Place, pc = "stores", ~Writing
    PROVE  \/ op = "T0" /\ arg = Off
           \/ SweepEnd /\ op = "T150" /\ arg = Off /\ todo \subseteq Targets
           \/ op = "T210" /\ todo \subseteq {"state"}
<1>1. op \in {"T0", "T210"} \/ SweepEnd
  BY DEF Place, Writing, MotionCommands
<1> QED
  BY <1>1, LastStores DEF Place, SweepEnd

\* Every step keeps the setpoints guarded, or quiet in time.
LEMMA QuietStep ==
    ASSUME TypeOK, TypeOK', Place, Zeroed', SpeedInv', AgeInv, HeardInv,
           LandedInv, QuietInv, [Next]_vars
    PROVE  QuietInv'
<1> USE DEF command_vars, control_vars, serial_vars, env_vars
<1>1. CASE Tick
  <2>1. /\ command_received' = command_received
        /\ UNCHANGED <<op, sweep>> /\ (pc \in {"stores", "feed"} => pc' = pc)
    BY <1>1 DEF Tick
  <2>2. CASE command_received \/ Writing
    BY <2>1, <2>2 DEF QuietInv, Writing, SweepEnd
  <2>3. CASE StopInv
    <3>0. Computing /\ pc' = "stores" /\ op' = "T0"
      BY <2>1, <2>3 DEF StopInv, Computing
    <3>1. due > 0 => ~landed
      BY <1>1, <3>0 DEF Tick
    <3>2. /\ silence \in Int /\ silence' \in Int /\ silence' <= silence + 1
          /\ due \in Int /\ due' = due - 1
      BY <1>1, SilenceMaxType DEF Tick, TypeOK
    <3>3. silence + due <= ArmedBound
      BY <2>3, <3>1 DEF StopInv
    <3>4. silence' + due' <= ArmedBound
      <4>1. ArmedBound \in Int
        BY BoundSum
      <4>2. ASSUME NEW s \in Int, NEW t \in Int, NEW d \in Int, NEW a \in Int,
                   t <= s + 1, s + d <= a
            PROVE  t + (d - 1) <= a
        BY <4>2
      <4> QED
        BY <3>2, <3>3, <4>1, <4>2
    <3> QED
      BY <3>0, <3>4 DEF StopInv, QuietInv
  <2>4. CASE Silent
    BY <1>1, <2>4, TickSilent DEF QuietInv
  <2> QED
    BY <2>2, <2>3, <2>4 DEF QuietInv
<1>2. CASE HostGoesSilent \/ UNCHANGED vars
  BY <1>2
     DEF HostGoesSilent, vars, QuietInv, Writing, SweepEnd, StopInv, Silent,
         ZeroSetpoint, Ramp, AtRest, RampsIn
<1>3. CASE Failsafe
  BY <1>3
     DEF Failsafe, QuietInv, Silent, ZeroSetpoint, Ramp, AtRest
<1>4. CASE DirectCycle \/ VelocityCycle
  <2>1. ControlCycle
    BY <1>4 DEF ControlCycle
  <2>2. /\ due <= 0 /\ due' = due + Period /\ due' > 0
        /\ due \in Int /\ Period \in Nat
    BY <2>1, CycleDue, TimeAssumption DEF TypeOK
  <2>3. UNCHANGED <<command_vars, serial_vars, env_vars>>
    BY <1>4 DEF DirectCycle, VelocityCycle
  <2>4. CASE command_received \/ Writing
    BY <2>3, <2>4 DEF QuietInv, Writing, SweepEnd
  <2>5. CASE StopInv
    <3>1. landed /\ silence + due <= ArmedBound
      BY <2>2, <2>5 DEF StopInv, LandedInv
    <3>2. silence \in Int
      BY SilenceMaxType DEF TypeOK
    <3>3. silence' + due' <= ArmedBound + Period
      BY <2>2, <2>3, <3>1, <3>2, BoundSum
    <3> QED
      BY <2>2, <2>3, <2>5, <3>1, <3>3 DEF StopInv, QuietInv
  <2>6. CASE Silent
    BY <1>4, <2>6, CycleSilent DEF QuietInv
  <2> QED
    BY <2>4, <2>5, <2>6 DEF QuietInv
<1>6. CASE Notify
  BY <1>6, QuietKept DEF Notify, AtRest
<1>7. CASE ToRead
  BY <1>7, QuietKept DEF ToRead, AtRest
<1>8. CASE NoLine
  BY <1>8, QuietKept DEF NoLine, AtRest
<1>9. CASE Dispatch
  <2>1. CASE op' \in MotionCommands
    <3>1. pc' = "stores" /\ sweep' \in {0, 1} /\ (sweep' = 1 => op' = "T150")
      BY <1>9, <2>1 DEF Dispatch, StartStores, MotionCommands
    <3>2. ~SweepEnd'
      BY <3>1, CommandAssumption DEF SweepEnd
    <3> QED
      BY <2>1, <3>1, <3>2 DEF QuietInv, Writing
  <2>2. CASE op' \notin MotionCommands
    BY <1>9, <2>2, QuietKept DEF Dispatch, AtRest
  <2> QED
    BY <2>1, <2>2
<1>10. CASE \E w \in Wheels : StoreTarget(w)
  <2>1. PICK w \in Wheels : StoreTarget(w)
    BY <1>10
  <2>2. ASSUME ~Writing, ZeroSetpoint PROVE ZeroSetpoint'
    <3>1. arg = Off
      BY <2>1, <2>2, NotWriting, FieldNames DEF StoreTarget, Stored
    <3>2. target' = Off
      BY <2>1, <2>2, <3>1 DEF StoreTarget, ZeroSetpoint, Off
    <3> QED
      BY <2>1, <2>2, <3>2 DEF StoreTarget, ZeroSetpoint
  <2> QED
    BY <2>1, <2>2, QuietStored DEF StoreTarget
<1>11. CASE \E w \in Wheels : StorePwm(w)
  <2>1. PICK w \in Wheels : StorePwm(w)
    BY <1>11
  <2>2. ASSUME ~Writing, ZeroSetpoint PROVE ZeroSetpoint'
    <3>1. arg = Off
      BY <2>1, <2>2, NotWriting, FieldNames DEF StorePwm, Stored
    <3>2. pwm = Off => pwm' = Off
      BY <2>1, <2>2, <3>1 DEF StorePwm, Off
    <3> QED
      BY <2>1, <2>2, <3>2 DEF StorePwm, ZeroSetpoint
  <2> QED
    BY <2>1, <2>2, QuietStored DEF StorePwm
<1>12. CASE StoreDirect
  <2>1. ASSUME ~Writing, ZeroSetpoint PROVE ZeroSetpoint'
    <3>1. op # "T11"
      BY <1>12, <2>1, NotWriting DEF StoreDirect, Stored
    <3> QED
      BY <1>12, <2>1, <3>1 DEF StoreDirect, ZeroSetpoint
  <2> QED
    BY <1>12, <2>1, QuietStored DEF StoreDirect
<1>13. CASE Disarm
  <2>1. op = "T0"
    BY <1>13
       DEF Disarm, Stored, Place, Stores, Targets, Pwms, SweepEnd
  <2> QED
    BY <1>13, <2>1, QuietStored DEF Disarm, ZeroSetpoint
<1>14. CASE StoreIdle
  BY <1>14, QuietStored DEF StoreIdle, ZeroSetpoint
<1>15. CASE StopLeft
  <2>1. AtRest => AtRest'
    BY <1>15 DEF StopLeft, AtRest, Off
  <2> QED
    BY <1>15, <2>1, QuietKept DEF StopLeft
<1>16. CASE StopRight
  <2>1. AtRest => AtRest'
    BY <1>16 DEF StopRight, AtRest, Off
  <2> QED
    BY <1>16, <2>1, QuietKept DEF StopRight
<1>17. CASE FeedReceived
  BY <1>17 DEF FeedReceived, QuietInv
<1>18. CASE FeedClock
  BY <1>18, QuietKept DEF FeedClock, AtRest
<1>19. CASE FeedTime
  BY <1>19, QuietKept DEF FeedTime, Fed, AtRest
<1>20. CASE FeedState
  BY <1>20, QuietKept DEF FeedState, Fed, AtRest
<1>21. CASE SweepNext
  <2>1. op = "T150" /\ sweep \in Nat /\ Len(SweepSteps) \in Nat
    BY <1>21, CommandAssumption DEF SweepNext, Place, TypeOK
  <2>2. CASE sweep < Len(SweepSteps)
    <3>1. /\ pc' = "stores" /\ op' = "T150" /\ sweep' = sweep + 1
      BY <1>21, <2>1 DEF SweepNext, StartStores
    <3>2. ~SweepEnd'
      BY <2>1, <2>2, <3>1 DEF SweepEnd
    <3> QED
      BY <3>1, <3>2 DEF QuietInv, Writing, MotionCommands
  <2>3. CASE ~(sweep < Len(SweepSteps))
    BY <1>21, <2>3, QuietKept DEF SweepNext, AtRest
  <2> QED
    BY <2>2, <2>3
<1>22. CASE Replied
  BY <1>22, QuietKept DEF Replied, AtRest
<1> QED
  BY <1>1, <1>2, <1>3, <1>4, <1>6, <1>7, <1>8, <1>9, <1>10, <1>11, <1>12,
     <1>13, <1>14, <1>15, <1>16, <1>17, <1>18, <1>19, <1>20, <1>21, <1>22
     DEF Next, ControlCycle, SerialStep

-----------------------------------------------------------------------------
(* The theorem *)

\* The robot starts at rest.
LEMMA InitQuiet == Init => QInv
<1> SUFFICES ASSUME Init PROVE QInv
  OBVIOUS
<1>1. SpeedInv
  BY FullRamp DEF Init, SpeedInv, Off, Speeds
<1>2. FreshInv /\ HeardInv /\ LandedInv
  BY DEF Init, FreshInv, HeardInv, LandedInv, Writing, Feeding
<1>3. QuietInv
  BY DEF Init, QuietInv, Silent, ZeroSetpoint, Ramp, AtRest
<1> QED
  BY <1>1, <1>2, <1>3 DEF QInv

\* Every step keeps QInv.
LEMMA NextQuiet == IInv /\ IInv' /\ QInv /\ [Next]_vars => QInv'
<1> SUFFICES ASSUME IInv, IInv', QInv, [Next]_vars PROVE QInv'
  OBVIOUS
<1> USE DEF IInv, QInv
<1>1. SpeedInv'
  BY SpeedStep
<1>2. FreshInv' /\ HeardInv'
  BY FreshStep, HeardStep
<1>3. LandedInv'
  BY LandedStep
<1>4. QuietInv'
  BY <1>1, QuietStep
<1> QED
  BY <1>1, <1>2, <1>3, <1>4

\* In a state that satisfies both, motion that is asked for was heard of.
LEMMA QuietEnough == IInv /\ QInv => StandstillUnlessHeard
<1> SUFFICES ASSUME IInv, QInv, ~Standstill PROVE ~(silence > QuietBound)
  BY DEF StandstillUnlessHeard
<1>1. /\ silence \in Nat /\ due \in Int /\ -MaxLate <= due
      /\ MaxLate \in Nat /\ Period \in Nat
  BY SilenceMaxType, TimeAssumption DEF IInv, TypeOK
<1>2. /\ RampCycles * Period \in Nat /\ Period <= RampCycles * Period
      /\ QuietBound = ArmedBound + RampCycles * Period + MaxLate
      /\ ArmedBound \in Nat /\ 1 + MaxLate <= ArmedBound
  BY BoundSum, TimeAssumption DEF ArmedBound
<1>3. CASE Writing \/ Feeding
  <2>1. silence <= 1 + MaxLate
    BY <1>3 DEF QInv, FreshInv
  <2> QED
    BY <1>1, <1>2, <2>1
<1>4. CASE command_received /\ ~Feeding
  <2>1. silence + due <= ArmedBound
    BY <1>4, ArmedSilence DEF IInv, QInv
  <2> QED
    BY <1>1, <1>2, <2>1
<1>5. CASE StopInv
  <2>1. \/ silence + due <= ArmedBound
        \/ due > 0 /\ silence + due <= ArmedBound + Period
    BY <1>5 DEF StopInv
  <2> QED
    BY <1>1, <1>2, <2>1
<1>6. CASE Silent
  <2>1. PICK k \in 1..RampCycles : RampsIn(k)
    BY <1>6 DEF Silent, Ramp, AtRest, Standstill
  <2>2. k * Period \in Nat /\ Period <= k * Period
    BY <1>1, <2>1
  <2>3. silence + due + k * Period
            <= ArmedBound + Period + RampCycles * Period
    BY <2>1 DEF RampsIn
  <2>4. silence + due <= ArmedBound + RampCycles * Period
    BY <1>1, <1>2, <2>2, <2>3
  <2> QED
    BY <1>1, <1>2, <2>4
<1> QED
  BY <1>3, <1>4, <1>5, <1>6 DEF QInv, QuietInv

\* The motors follow a duty or a setpoint other than zero for a bounded time
\* after the last motion command, for every command set, ramp, sweep and
\* timing and whatever the PIDs and the yaw correction put out, whatever cycles
\* fall between the stores of a command or a stop (main.cpp:244-353,
\* json_cmd.cpp:84-197).
THEOREM QuietInTime == Spec => []StandstillUnlessHeard
<1>1. Init /\ [][Next]_vars /\ []IInv => []QInv
  BY InitQuiet, NextQuiet, PTL
<1> QED
  BY <1>1, QuietEnough, Invariance, PTL DEF Spec

-----------------------------------------------------------------------------
(* What makes a failsafe fire early *)

\* While no motion command is under way the silence is no shorter than the age
\* of an armed heartbeat; the clock read for it was read after the command.
SinceInv ==
    /\ command_received /\ ~Feeding /\ ~Writing =>
           Elapsed <= silence \/ silence = SilenceMax
    /\ pc = "fed" /\ "ms" \in todo =>
           Minus(tick, now) <= silence \/ silence = SilenceMax

\* A failsafe that fires although a motion command came within the timeout
\* falls between the first store of such a command and the store of its time
\* (shared_state.cpp:66-72, json_cmd.cpp:101-160).
EarlyOnlyMidCommand ==
    [][Failsafe => silence > Timeout \/ Writing \/ Feeding]_vars

\* SinceInv speaks of the clock, the silence and where a command is.
LEMMA SinceKept ==
    ASSUME SinceInv, UNCHANGED <<tick, last_command_ms, now, silence>>,
           command_received' => command_received \/ Feeding' \/ Writing',
           Feeding => Feeding' \/ Writing' \/ ~command_received',
           Writing => Writing' \/ Feeding' \/ ~command_received',
           pc' = "fed" /\ "ms" \in todo' => pc = "fed" /\ "ms" \in todo
    PROVE  SinceInv'
<1>1. Elapsed' = Elapsed /\ SilenceMax' = SilenceMax
  BY DEF Elapsed, Minus, SilenceMax, QuietBound, RampCycles
<1>2. Minus(tick, now)' = Minus(tick, now)
  BY DEF Minus
<1> QED
  BY <1>1, <1>2 DEF SinceInv

\* A store of a command keeps it: a motion command goes on to its feed.
LEMMA SinceStored ==
    ASSUME SinceInv, Place, NEW f \in Fields, Stored(f),
           UNCHANGED <<op, sweep, tick, last_command_ms, now, silence>>,
           command_received' => command_received
    PROVE  SinceInv'
<1>1. /\ pc = "stores" /\ op \in {"T0", "T1", "T11", "T150", "T210"}
      /\ pc' \in {"stores", AfterStores}
  BY DEF Stored, Place
<1>2. ~Feeding /\ pc' # "fed"
  BY <1>1 DEF Feeding, AfterStores
<1>3. Writing => Writing'
  BY <1>1 DEF Writing, AfterStores, MotionCommands, SweepEnd
<1> QED
  BY <1>2, <1>3, SinceKept

\* A tick makes the silence longer, and an age by one at most.
LEMMA SinceTick ==
    ASSUME TypeOK, SinceInv, Tick
    PROVE  SinceInv'
<1>1. /\ last_command_ms \in 0..(TickMod - 1) /\ now \in 0..(TickMod - 1)
      /\ silence \in Nat /\ SilenceMax \in Nat /\ silence <= SilenceMax
  BY SilenceMaxType DEF TypeOK
<1>2. silence' = IF silence < SilenceMax THEN silence + 1 ELSE silence
  BY DEF Tick
<1>3. UNCHANGED <<command_received, last_command_ms, op, todo, now, sweep>>
  BY DEF Tick, command_vars
<1>4. Feeding' = Feeding /\ Writing' = Writing
      /\ (pc' = "fed") = (pc = "fed")
  BY <1>3 DEF Tick, Feeding, Writing, SweepEnd
<1>5. SilenceMax' = SilenceMax
  BY DEF SilenceMax, QuietBound, RampCycles
<1>6. ASSUME NEW a \in 0..(TickMod - 1),
             Minus(tick, a) <= silence \/ silence = SilenceMax
      PROVE  Minus(tick', a) <= silence' \/ silence' = SilenceMax
  <2>1. /\ Minus(tick, a) \in Nat /\ Minus(tick', a) \in Nat
        /\ Minus(tick', a) <= Minus(tick, a) + 1
    BY MinusTick
  <2> QED
    BY <1>1, <1>2, <1>6, <2>1
<1>7. Elapsed = Minus(tick, last_command_ms)
      /\ Elapsed' = Minus(tick', last_command_ms)
      /\ Minus(tick, now)' = Minus(tick', now)
  BY <1>3 DEF Elapsed, Minus
<1> QED
  BY <1>1, <1>3, <1>4, <1>5, <1>6, <1>7 DEF SinceInv

\* Every step keeps the silence no shorter than the age.
LEMMA SinceStep ==
    ASSUME TypeOK, Place, SinceInv, [Next]_vars
    PROVE  SinceInv'
<1> USE DEF command_vars, control_vars, serial_vars, env_vars
<1>1. CASE Tick
  BY <1>1, SinceTick
<1>2. CASE HostGoesSilent
  BY <1>2, SinceKept DEF HostGoesSilent, Feeding, Writing, SweepEnd
<1>3. CASE ControlCycle
  <2>1. /\ UNCHANGED <<pc, op, todo, sweep, now, tick, last_command_ms,
                       silence>>
        /\ command_received' => command_received
    BY <1>3
       DEF ControlCycle, Failsafe, DirectCycle, VelocityCycle, NextWake
  <2> QED
    BY <2>1, SinceKept DEF Feeding, Writing, SweepEnd
<1>6. CASE Notify
  BY <1>6, SinceKept DEF Notify, Feeding, Writing
<1>7. CASE ToRead
  BY <1>7, SinceKept DEF ToRead, Feeding, Writing
<1>8. CASE NoLine
  BY <1>8, SinceKept DEF NoLine, Feeding, Writing
<1>9. CASE Dispatch
  <2>1. /\ pc = "read" /\ pc' \in {"stores", "reply"}
        /\ UNCHANGED <<tick, last_command_ms, now, command_received>>
    BY <1>9 DEF Dispatch, StartStores
  <2>2. CASE op' \in MotionCommands
    <3>1. pc' = "stores" /\ sweep' \in {0, 1} /\ 1 <= Len(SweepSteps)
      BY <1>9, <2>2, CommandAssumption
         DEF Dispatch, StartStores, MotionCommands
    <3>2. op' # "T150" \/ ~(sweep' > Len(SweepSteps))
      BY <3>1, CommandAssumption
    <3>3. Writing'
      BY <2>2, <3>1, <3>2 DEF Writing, SweepEnd
    <3> QED
      BY <2>1, <3>3 DEF SinceInv
  <2>3. CASE op' \notin MotionCommands
    <3>1. silence' = silence
      BY <1>9, <2>3 DEF Dispatch
    <3> QED
      BY <2>1, <3>1, SinceKept DEF Feeding, Writing
  <2> QED
    BY <2>2, <2>3
<1>10. CASE \E w \in Wheels : StoreTarget(w)
  <2>1. PICK w \in Wheels : StoreTarget(w)
    BY <1>10
  <2> QED
    BY <2>1, FieldNames, SinceStored DEF StoreTarget, Fields, Wheels,
       TargetField
<1>11. CASE \E w \in Wheels : StorePwm(w)
  <2>1. PICK w \in Wheels : StorePwm(w)
    BY <1>11
  <2> QED
    BY <2>1, FieldNames, SinceStored DEF StorePwm, Fields, Wheels, PwmField
<1>12. CASE StoreDirect
  BY <1>12, SinceStored DEF StoreDirect, Fields
<1>13. CASE Disarm
  BY <1>13, SinceStored DEF Disarm, Fields
<1>14. CASE StoreIdle
  BY <1>14, SinceStored DEF StoreIdle, Fields
<1>15. CASE StopLeft
  BY <1>15, SinceKept DEF StopLeft, Feeding, Writing
<1>16. CASE StopRight
  BY <1>16, SinceKept DEF StopRight, Feeding, Writing
<1>17. CASE FeedReceived
  BY <1>17, SinceKept DEF FeedReceived, Feeding, Writing
<1>18. CASE FeedClock
  <2>1. /\ Feeding' /\ now' = tick /\ tick' = tick
    BY <1>18 DEF FeedClock, Feeding
  <2>2. silence' \in Nat
    BY <1>18, SilenceMaxType DEF FeedClock, TypeOK
  <2>3. Minus(tick, now)' = 0
    <3>1. Minus(tick, tick) = 0
      BY MinusType DEF TypeOK
    <3> QED
      BY <2>1, <3>1 DEF Minus
  <2> QED
    BY <2>1, <2>2, <2>3 DEF SinceInv
<1>19. CASE FeedTime
  <2>1. /\ pc = "fed" /\ "ms" \in todo /\ "ms" \notin todo'
        /\ last_command_ms' = now /\ tick' = tick /\ silence' = silence
    BY <1>19 DEF FeedTime, Fed
  <2>2. Elapsed' = Minus(tick, now) /\ SilenceMax' = SilenceMax
    BY <2>1 DEF Elapsed, Minus, SilenceMax, QuietBound, RampCycles
  <2> QED
    BY <2>1, <2>2 DEF SinceInv
<1>20. CASE FeedState
  <2>1. /\ pc = "fed" /\ todo' = todo \ {"state"}
        /\ UNCHANGED <<tick, last_command_ms, silence, command_received>>
        /\ (pc' = "fed" /\ now' = now) \/ todo' = {}
    BY <1>20 DEF FeedState, Fed
  <2>2. CASE "ms" \in todo
    BY <2>1, <2>2, SinceKept DEF Feeding, Writing
  <2>3. CASE "ms" \notin todo
    <3>1. ~Feeding /\ ~Writing /\ "ms" \notin todo'
      BY <2>1, <2>3 DEF Feeding, Writing
    <3>2. Elapsed' = Elapsed /\ SilenceMax' = SilenceMax
      BY <2>1 DEF Elapsed, Minus, SilenceMax, QuietBound, RampCycles
    <3> QED
      BY <2>1, <3>1, <3>2 DEF SinceInv
  <2> QED
    BY <2>2, <2>3
<1>21. CASE SweepNext
  <2>1. /\ pc = "settle" /\ pc' = "stores" /\ op' = op /\ op = "T150"
        /\ sweep' = sweep + 1 /\ sweep \in Nat /\ Len(SweepSteps) \in Nat
        /\ UNCHANGED <<tick, last_command_ms, now, command_received>>
    BY <1>21, CommandAssumption DEF SweepNext, StartStores, Place, TypeOK
  <2>2. CASE sweep < Len(SweepSteps)
    <3>1. Writing'
      BY <2>1, <2>2 DEF Writing, SweepEnd, MotionCommands
    <3> QED
      BY <2>1, <3>1 DEF SinceInv
  <2>3. CASE ~(sweep < Len(SweepSteps))
    <3>1. silence' = silence
      BY <1>21, <2>3 DEF SweepNext
    <3> QED
      BY <2>1, <3>1, SinceKept DEF Feeding, Writing
  <2> QED
    BY <2>2, <2>3
<1>22. CASE Replied
  BY <1>22, SinceKept DEF Replied, Feeding, Writing
<1>23. CASE UNCHANGED vars
  BY <1>23, SinceKept DEF vars, Feeding, Writing, SweepEnd
<1> QED
  BY <1>1, <1>2, <1>3, <1>6, <1>7, <1>8, <1>9, <1>10, <1>11, <1>12,
     <1>13, <1>14, <1>15, <1>16, <1>17, <1>18, <1>19, <1>20, <1>21, <1>22,
     <1>23
     DEF Next, SerialStep

\* The one way the failsafe can fire although a motion command came within the
\* timeout is a control cycle between the dispatch of such a command and the
\* store of its time: either the heartbeat is armed already and its time is old
\* (shared_state.cpp:67-68), or the one before it has expired meanwhile.
THEOREM EarlyFailsafe == Spec => EarlyOnlyMidCommand
<1>1. Init => SinceInv
  BY DEF Init, SinceInv
<1>2. Init /\ [][Next]_vars /\ []IInv => []SinceInv
  <2>1. IInv /\ SinceInv /\ [Next]_vars => SinceInv'
    BY SinceStep DEF IInv
  <2> QED
    BY <1>1, <2>1, PTL
<1>3. IInv /\ SinceInv /\ [Next]_vars =>
          [Failsafe => silence > Timeout \/ Writing \/ Feeding]_vars
  <2> SUFFICES ASSUME IInv, SinceInv, Failsafe, ~Writing, ~Feeding
               PROVE  silence > Timeout
    OBVIOUS
  <2>1. command_received /\ Elapsed \in Nat /\ Elapsed > Timeout
    BY FailsafeOld DEF IInv
  <2>2. Elapsed <= silence \/ silence = SilenceMax
    BY <2>1 DEF SinceInv
  <2>3. silence \in Nat /\ SilenceMax \in Nat
    BY SilenceMaxType DEF IInv, TypeOK
  <2>4. SilenceMax > Timeout
    <3>1. QuietBound = ArmedBound + RampCycles * Period + MaxLate
          /\ RampCycles * Period \in Nat
      BY BoundSum
    <3> QED
      BY <3>1, TimeAssumption DEF SilenceMax, ArmedBound
  <2> QED
    BY <2>1, <2>2, <2>3, <2>4, TimeAssumption
<1> QED
  BY <1>2, <1>3, Invariance, PTL DEF Spec, EarlyOnlyMidCommand
==============================================================================
