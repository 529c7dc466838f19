------------------------- MODULE VelocityLoop_proofs -------------------------
(***************************************************************************)
(* The type invariant of VelocityLoop for every gain, ramp, measured speed *)
(* and yaw correction: no arithmetic of the PID, of the correction or of   *)
(* the scaling of a direct duty takes an output out of its range.  Then    *)
(* what each cycle does for the ramp and for a full integrator.            *)
(***************************************************************************)
EXTENDS VelocityLoop, TLAPS

-----------------------------------------------------------------------------
(* Arithmetic *)

\* A clamped value is within the bounds.
LEMMA Clamped ==
    ASSUME NEW x \in Int, NEW b \in Nat
    PROVE  Clamp(x, -b, b) \in (-b)..b
BY DEF Clamp

\* The quotient of a value that is at most n units is at most n.
LEMMA QuotientBound ==
    ASSUME NEW x \in Nat, NEW n \in Nat, NEW u \in Nat \ {0}, x <= n * u
    PROVE  x \div u \in 0..n
<1>1. /\ x \div u \in Nat /\ (x \div u) * u <= x
  OBVIOUS
<1>2. (x \div u) * u <= n * u
  <2>1. (x \div u) * u \in Nat /\ n * u \in Nat
    BY <1>1
  <2> QED
    BY <1>1, <2>1
<1>3. ASSUME NEW q \in Nat, q * u <= n * u PROVE q <= n
  <2>1. CASE q > n
    <3>1. q >= n + 1
      BY <2>1
    <3>2. q * u >= n * u + u
      BY <3>1
    <3> QED
      BY <1>3, <3>2
  <2> QED
    BY <2>1
<1> QED
  BY <1>1, <1>2, <1>3

\* Truncated towards zero, a value within n units is within n.
LEMMA TruncatedBound ==
    ASSUME NEW x \in Int, NEW n \in Nat, NEW u \in Nat \ {0},
           x <= n * u, -(n * u) <= x
    PROVE  Truncated(x, u) \in (-n)..n
<1>1. n * u \in Nat
  OBVIOUS
<1>2. CASE x < 0
  <2>1. -x \in Nat /\ -x <= n * u
    BY <1>1, <1>2
  <2>2. (-x) \div u \in 0..n
    BY <2>1, QuotientBound
  <2> QED
    BY <1>2, <2>2 DEF Truncated
<1>3. CASE ~(x < 0)
  <2>1. x \in Nat
    BY <1>3
  <2>2. x \div u \in 0..n
    BY <2>1, QuotientBound
  <2> QED
    BY <1>3, <2>2 DEF Truncated
<1> QED
  BY <1>2, <1>3

\* A factor within b, times n, is within n times b.
LEMMA ProductBound ==
    ASSUME NEW b \in Nat, NEW x \in (-b)..b, NEW n \in Nat
    PROVE  x * n \in (-(b * n))..(b * n)
<1>1. x \in Int /\ -b <= x /\ x <= b
  OBVIOUS
<1>2. x * n \in Int /\ b * n \in Nat
  BY <1>1
<1>3. x * n <= b * n
  BY <1>1
<1>4. -(b * n) <= x * n
  BY <1>1
<1> QED
  BY <1>2, <1>3, <1>4

-----------------------------------------------------------------------------
(* The operators of the module *)

\* The range of the PID's output and of the profiled setpoint
LEMMA Ranges ==
    /\ OutputMax \in Nat /\ PwmMax * RpmPerUnit \in Nat
BY LoopAssumption DEF OutputMax

\* A reset of the PID, and standing still, are in range.
LEMMA ZeroInRange ==
    /\ 0 \in (-IntegratorMax)..IntegratorMax /\ 0 \in (-PwmMax)..PwmMax
    /\ 0 \in (-OutputMax)..OutputMax
    /\ 0 \in (-(PwmMax * RpmPerUnit))..(PwmMax * RpmPerUnit)
BY LoopAssumption, Ranges

\* The state of the PID at the beginning of a cycle
PidType ==
    [i : (-IntegratorMax)..IntegratorMax, prev : Int, has_prev : BOOLEAN]

LEMMA CurrentType == TypeOK => Current \in PidType
<1> SUFFICES ASSUME TypeOK PROVE Current \in PidType
  OBVIOUS
<1>1. /\ integrator \in (-IntegratorMax)..IntegratorMax
      /\ 0 \in (-IntegratorMax)..IntegratorMax
  BY LoopAssumption DEF TypeOK
<1>2. prev_measurement \in Int /\ has_prev_measurement \in BOOLEAN
  BY LoopAssumption DEF TypeOK
<1> QED
  BY <1>1, <1>2 DEF Current, Fresh, PidType

\* What the PID puts together is a number, whatever is measured.
LEMMA UnsaturatedType ==
    ASSUME NEW pid \in PidType, NEW sp \in Int, NEW m \in Int, NEW i \in Int
    PROVE  Unsaturated(pid, sp, m, i) \in Int
<1>1. Derivative(pid, m) \in Int
  BY DEF Derivative, PidType
<1>2. Kf \in Int /\ Kp \in Int /\ Ki \in Int /\ Kd \in Int
  BY LoopAssumption
<1>3. /\ Kf * sp \in Int /\ Kp * (sp - m) \in Int /\ Ki * i \in Int
      /\ Kd * Derivative(pid, m) \in Int
  BY <1>1, <1>2
<1> QED
  BY <1>3 DEF Unsaturated

\* The integrator stays within its bound.
LEMMA IntegratedType ==
    ASSUME NEW pid \in PidType, NEW sp \in Int, NEW m \in Int
    PROVE  Integrated(pid, sp, m) \in (-IntegratorMax)..IntegratorMax
<1>1. pid.i \in (-IntegratorMax)..IntegratorMax /\ pid.i + (sp - m) \in Int
  BY LoopAssumption DEF PidType
<1>2. Clamp(pid.i + (sp - m), -IntegratorMax, IntegratorMax)
          \in (-IntegratorMax)..IntegratorMax
  BY <1>1, Clamped, LoopAssumption
<1> QED
  BY <1>1, <1>2 DEF Integrated

\* The output of the PID is in range.
LEMMA OutputType ==
    ASSUME NEW pid \in PidType, NEW sp \in Int, NEW m \in Int
    PROVE  pid_compute(pid, sp, m) \in (-OutputMax)..OutputMax
<1>1. Integrated(pid, sp, m) \in Int
  BY IntegratedType, LoopAssumption
<1>2. Unsaturated(pid, sp, m, Integrated(pid, sp, m)) \in Int
  BY <1>1, UnsaturatedType
<1> QED
  BY <1>2, Clamped, Ranges DEF pid_compute

\* What the motor driver gets is in range, yaw correction included.
LEMMA CommandType ==
    ASSUME NEW out \in (-OutputMax)..OutputMax, NEW corr \in Int
    PROVE  Command(out, corr) \in (-PwmMax)..PwmMax
<1>1. out + corr \in Int /\ OutputMax \in Nat
  BY Ranges
<1> DEFINE c == Clamp(out + corr, -OutputMax, OutputMax)
<1>2. c \in (-OutputMax)..OutputMax
  BY <1>1, Clamped
<1>3. Command(out, corr) = Truncated(c, Unit)
  BY DEF Command
<1> HIDE DEF c
<1>4. c \in Int /\ c <= PwmMax * Unit /\ -(PwmMax * Unit) <= c
  BY <1>1, <1>2 DEF OutputMax
<1> QED
  BY <1>3, <1>4, TruncatedBound, LoopAssumption

\* So is a direct duty, scaled.
LEMMA DirectType ==
    ASSUME NEW p \in (-PwmInputMax)..PwmInputMax
    PROVE  Truncated(p * PwmMax, PwmInputMax) \in (-PwmMax)..PwmMax
<1>1. PwmMax \in Nat /\ PwmInputMax \in Nat \ {0} /\ PwmInputMax \in Nat
  BY LoopAssumption
<1>2. p * PwmMax \in (-(PwmInputMax * PwmMax))..(PwmInputMax * PwmMax)
  BY <1>1, ProductBound
<1>3. /\ PwmInputMax * PwmMax \in Nat
      /\ PwmMax * PwmInputMax = PwmInputMax * PwmMax
  BY <1>1
<1> DEFINE x == p * PwmMax
           b == PwmMax * PwmInputMax
<1>4. x \in (-b)..b /\ b \in Nat
  BY <1>2, <1>3
<1> HIDE DEF x, b
<1>5. x \in Int /\ x <= b /\ -b <= x
  BY <1>4
<1> USE DEF x, b
<1> QED
  BY <1>1, <1>5, TruncatedBound

\* The profiled setpoint never leaves the range of the targets.
LEMMA ProfileType ==
    ASSUME TypeOK, NEW t \in Targets \cup {0}
    PROVE  Profile(t * RpmPerUnit)
               \in (-(PwmMax * RpmPerUnit))..(PwmMax * RpmPerUnit)
<1>1. /\ PwmMax \in Nat /\ RpmPerUnit \in Nat /\ MaxDelta \in Nat
      /\ t \in (-PwmMax)..PwmMax
  BY LoopAssumption
<1> DEFINE top == PwmMax * RpmPerUnit
           goal == t * RpmPerUnit
<1>2. goal \in (-top)..top /\ top \in Nat
  BY <1>1, ProductBound
<1>3. profiled \in (-top)..top
  BY DEF TypeOK
<1> HIDE DEF top, goal
<1>4. Profile(goal) \in (-top)..top
  BY <1>1, <1>2, <1>3 DEF Profile, Clamp
<1> USE DEF top, goal
<1> QED
  BY <1>4

-----------------------------------------------------------------------------
(* Type correctness *)

\* The first state is typed, and
LEMMA InitType == Init => TypeOK
BY ZeroInRange DEF Init, TypeOK

\* every branch of a cycle keeps the type.
LEMMA TypeStep == TypeOK /\ [Next]_vars => TypeOK'
<1> SUFFICES ASSUME TypeOK, [Next]_vars PROVE TypeOK'
  OBVIOUS
<1> USE DEF command_vars, pid_vars
<1>1. CASE SetVelocity
  BY <1>1 DEF SetVelocity, TypeOK
<1>2. CASE SetDirect
  BY <1>2 DEF SetDirect, TypeOK
<1>3. CASE Stop
  BY <1>3, ZeroInRange DEF Stop, ZeroSetpoints, TypeOK
<1>4. CASE SetGains
  BY <1>4 DEF SetGains, TypeOK
<1>5. CASE Failsafe
  BY <1>5, ZeroInRange
     DEF Failsafe, ZeroSetpoints, ResetPid, TypeOK
<1>6. CASE Direct
  <2>1. pwm \in (-PwmInputMax)..PwmInputMax
    BY LoopAssumption DEF TypeOK
  <2>2. motor' \in (-PwmMax)..PwmMax
    BY <1>6, <2>1, DirectType DEF Direct
  <2> QED
    BY <1>6, <2>2, ZeroInRange DEF Direct, ResetPid, TypeOK
<1>7. CASE Velocity
  <2>1. PICK m \in Speeds,
             corr \in (IF straight THEN YawCorrections \cup {0} ELSE {0}) :
          LET sp == Profile(target * RpmPerUnit)
              out == pid_compute(Current, sp, m)
          IN  /\ profiled' = sp
              /\ integrator' = Integrated(Current, sp, m)
              /\ prev_measurement' = m /\ has_prev_measurement' = TRUE
              /\ last_output' = out
              /\ motor' = Command(out, corr)
    BY <1>7 DEF Velocity
  <2>2. m \in Int /\ corr \in Int
    BY <2>1, LoopAssumption
  <2>3. /\ profiled' \in (-(PwmMax * RpmPerUnit))..(PwmMax * RpmPerUnit)
        /\ profiled' = Profile(target * RpmPerUnit)
    BY <2>1, ProfileType DEF TypeOK
  <2>4. profiled' \in Int
    BY <2>3, Ranges
  <2>5. integrator' \in (-IntegratorMax)..IntegratorMax
    BY <2>1, <2>2, <2>3, <2>4, CurrentType, IntegratedType
  <2>6. last_output' \in (-OutputMax)..OutputMax
    BY <2>1, <2>2, <2>3, <2>4, CurrentType, OutputType
  <2>7. motor' \in (-PwmMax)..PwmMax
    BY <2>1, <2>2, <2>6, CommandType
  <2>8. prev_measurement' \in Speeds /\ has_prev_measurement' = TRUE
    BY <2>1
  <2>9. pid_gains_pending' = FALSE /\ UNCHANGED command_vars
    BY <1>7 DEF Velocity
  <2> QED
    BY <2>3, <2>5, <2>6, <2>7, <2>8, <2>9 DEF TypeOK
<1>8. CASE UNCHANGED vars
  BY <1>8 DEF vars, TypeOK
<1> QED
  BY <1>1, <1>2, <1>3, <1>4, <1>5, <1>6, <1>7, <1>8
     DEF Next, SerialTask, Cycle

\* With any gains, any measured speed and any yaw correction the integrator,
\* the output and the speed the motor driver gets stay within their limits, and
\* so does a scaled direct duty (pid.cpp:23-52, main.cpp:280-340).
THEOREM InRange == Spec => []TypeOK
BY InitType, TypeStep, PTL DEF Spec

-----------------------------------------------------------------------------
(* How many cycles RampArrives and LeavesRail take *)

\* The profiled setpoint is at most k cycles from its target.
Within(k) ==
    /\ target * RpmPerUnit - profiled <= k * MaxDelta
    /\ profiled - target * RpmPerUnit <= k * MaxDelta

\* While a target stands no step takes the profiled setpoint further from it,
\* and every cycle takes it one cycle nearer, a failsafe included
\* (main.cpp:244-266, main.cpp:312-318).
RampNearer ==
    [][~direct_pwm_mode /\ target' = target =>
          \A k \in Nat : /\ Within(k) => Within(k)'
                         /\ Cycle /\ Within(k + 1) => Within(k)']_vars

\* With these gains the feed-forward alone does not exceed the rail, and the
\* error counts: the default ones (astra_config.h:88-93) are among them.
GainsFit == Kf * RpmPerUnit <= Unit /\ Kp > 0 /\ PwmMax > 0

\* A wheel measured faster than its setpoint, twice the same, is off the high
\* rail or one cycle nearer to it: the integrator has lost at least one, frozen
\* or not.  A slower one is off the low rail or nearer to it (pid.cpp:37-57).
RailNearer ==
    [][Velocity /\ ~pid_gains_pending /\ has_prev_measurement
            /\ prev_measurement' = prev_measurement =>
          /\ profiled' < prev_measurement' =>
                 last_output' < OutputMax \/ integrator' <= integrator - 1
          /\ profiled' > prev_measurement' =>
                 \/ last_output' > -OutputMax
                 \/ integrator' >= integrator + 1]_vars

\* One clamped step towards a goal makes one cycle less.
LEMMA StepNearer ==
    ASSUME NEW p \in Int, NEW goal \in Int, NEW d \in Nat, NEW b \in Nat,
           goal - p <= b + d, p - goal <= b + d
    PROVE  LET q == p + Clamp(goal - p, -d, d)
           IN  /\ goal - q <= b /\ q - goal <= b
               /\ goal - p <= b => goal - q <= b
BY DEF Clamp

\* A step of the ramp keeps the distance it has, or shortens it by a cycle.
LEMMA ProfileNearer ==
    ASSUME TypeOK, NEW k \in Nat
    PROVE  LET goal == target * RpmPerUnit
               q == Profile(goal)
           IN  /\ Within(k) =>
                      goal - q <= k * MaxDelta /\ q - goal <= k * MaxDelta
               /\ Within(k + 1) =>
                      goal - q <= k * MaxDelta /\ q - goal <= k * MaxDelta
<1> DEFINE goal == target * RpmPerUnit
           b == k * MaxDelta
<1>1. /\ target \in Int /\ RpmPerUnit \in Int /\ MaxDelta \in Nat
      /\ PwmMax * RpmPerUnit \in Nat
  BY LoopAssumption, Ranges DEF TypeOK
<1>2. goal \in Int /\ b \in Nat /\ profiled \in Int
  BY <1>1 DEF TypeOK
<1>3. (k + 1) * MaxDelta = b + MaxDelta
  BY <1>1
<1>4. /\ Within(k) <=> goal - profiled <= b /\ profiled - goal <= b
      /\ Within(k + 1) <=> /\ goal - profiled <= b + MaxDelta
                           /\ profiled - goal <= b + MaxDelta
  BY <1>3 DEF Within
<1>5. Profile(goal)
          = profiled + Clamp(goal - profiled, -MaxDelta, MaxDelta)
  BY DEF Profile
<1> HIDE DEF goal, b
<1>6. ASSUME goal - profiled <= b + MaxDelta, profiled - goal <= b + MaxDelta
      PROVE  goal - Profile(goal) <= b /\ Profile(goal) - goal <= b
  BY <1>1, <1>2, <1>5, <1>6, StepNearer
<1>7. Within(k) \/ Within(k + 1) =>
          goal - Profile(goal) <= b /\ Profile(goal) - goal <= b
  BY <1>1, <1>2, <1>4, <1>6
<1> USE DEF goal, b
<1> QED
  BY <1>7

\* From any state RampArrives takes at most as many cycles as it takes to cross
\* the distance at MaxDelta each: what is left to TLC is that cycles happen.
THEOREM RampClosesIn == Spec => RampNearer
<1>1. TypeOK /\ [Next]_vars =>
          [~direct_pwm_mode /\ target' = target =>
              \A k \in Nat : /\ Within(k) => Within(k)'
                             /\ Cycle /\ Within(k + 1) => Within(k)']_vars
  <2> SUFFICES ASSUME TypeOK, Next, ~direct_pwm_mode, target' = target,
                      NEW k \in Nat
               PROVE  /\ Within(k) => Within(k)'
                      /\ Cycle /\ Within(k + 1) => Within(k)'
    BY DEF vars
  <2>1. ASSUME Cycle PROVE Within(k) \/ Within(k + 1) => Within(k)'
    <3>1. CASE Failsafe
      <4>1. target' = 0 /\ profiled' = 0
        BY <3>1 DEF Failsafe, ZeroSetpoints
      <4>2. target' * RpmPerUnit = 0 /\ k * MaxDelta \in Nat
        BY <4>1, LoopAssumption
      <4> QED
        BY <4>1, <4>2 DEF Within
    <3>2. CASE Velocity
      <4>1. profiled' = Profile(target * RpmPerUnit)
        BY <3>2 DEF Velocity
      <4> QED
        BY <4>1, ProfileNearer DEF Within
    <3> QED
      BY <2>1, <3>1, <3>2 DEF Cycle, Direct
  <2>2. CASE SetVelocity \/ SetDirect \/ Stop \/ SetGains
    <3>1. profiled' = profiled
      BY <2>2 DEF SetVelocity, SetDirect, Stop, SetGains
    <3> QED
      BY <2>1, <3>1 DEF Within
  <2> QED
    BY <2>1, <2>2 DEF Next, SerialTask
<1> QED
  BY <1>1, InRange, PTL DEF Spec, RampNearer

\* The feed-forward of a setpoint in range is within the rails.
LEMMA FeedForward ==
    ASSUME GainsFit,
           NEW sp \in (-(PwmMax * RpmPerUnit))..(PwmMax * RpmPerUnit)
    PROVE  Kf * sp \in (-OutputMax)..OutputMax
<1> DEFINE top == PwmMax * RpmPerUnit
           fit == Kf * RpmPerUnit
<1>1. /\ Kf \in Nat /\ RpmPerUnit \in Nat /\ PwmMax \in Nat /\ Unit \in Nat
      /\ top \in Nat /\ sp \in Int
  BY LoopAssumption, Ranges
<1>2. Kf * sp = sp * Kf /\ Kf * sp \in Int
  BY <1>1
<1>3. sp * Kf \in (-(top * Kf))..(top * Kf)
  <2> HIDE DEF top
  <2>1. sp \in (-top)..top
    BY DEF top
  <2> QED
    BY <1>1, <2>1, ProductBound
<1>4. top * Kf = PwmMax * fit /\ fit \in Nat
  BY <1>1
<1>5. PwmMax * fit <= PwmMax * Unit
  <2>1. fit <= Unit
    BY DEF GainsFit
  <2> HIDE DEF fit
  <2>2. PICK d \in Nat : Unit = fit + d
    <3>1. Unit - fit \in Nat /\ Unit = fit + (Unit - fit)
      BY <1>1, <1>4, <2>1
    <3> QED
      BY <3>1
  <2>3. PwmMax * Unit = PwmMax * fit + PwmMax * d /\ PwmMax * d \in Nat
    BY <1>1, <1>4, <2>2
  <2>4. PwmMax * fit \in Nat
    BY <1>1, <1>4
  <2> QED
    BY <2>3, <2>4
<1> DEFINE a == sp * Kf
           b == top * Kf
<1>6. a \in (-b)..b /\ b <= OutputMax /\ OutputMax \in Nat
  BY <1>3, <1>4, <1>5, Ranges DEF OutputMax
<1>7. a \in Int /\ b \in Int /\ Kf * sp = a
  BY <1>1, <1>2
<1> HIDE DEF a, b
<1>8. a \in (-OutputMax)..OutputMax
  BY <1>6, <1>7
<1> QED
  BY <1>7, <1>8

\* With the integrator empty, a wheel too fast is off the high rail and a wheel
\* too slow off the low one.
LEMMA EmptyOffRail ==
    ASSUME GainsFit,
           NEW sp \in (-(PwmMax * RpmPerUnit))..(PwmMax * RpmPerUnit),
           NEW m \in Int, NEW pid \in PidType, Derivative(pid, m) = 0
    PROVE  /\ sp < m => Unsaturated(pid, sp, m, -IntegratorMax) < OutputMax
           /\ sp > m => Unsaturated(pid, sp, m, IntegratorMax) > -OutputMax
<1> DEFINE ff == Kf * sp
           pp == Kp * (sp - m)
           ii == Ki * IntegratorMax
           neg == Ki * (-IntegratorMax)
           dd == Kd * Derivative(pid, m)
<1>1. /\ Kp \in Nat /\ Kp > 0 /\ Ki \in Nat /\ Kd \in Nat
      /\ IntegratorMax \in Nat /\ OutputMax \in Nat /\ sp \in Int
  BY LoopAssumption, Ranges DEF GainsFit
<1>2. ff \in (-OutputMax)..OutputMax
  BY FeedForward
<1>3. ii \in Nat /\ neg = -ii /\ dd = 0
  BY <1>1
<1>4. pp \in Int /\ (sp < m => pp < 0) /\ (sp > m => pp > 0)
  BY <1>1
<1>5. /\ Unsaturated(pid, sp, m, -IntegratorMax) = ff + pp + neg + dd
      /\ Unsaturated(pid, sp, m, IntegratorMax) = ff + pp + ii + dd
  BY DEF Unsaturated
<1> HIDE DEF ff, pp, ii, neg, dd
<1> QED
  BY <1>1, <1>2, <1>3, <1>4, <1>5

\* What is measured twice has no difference.
LEMMA Cancels ==
    ASSUME NEW m \in Int
    PROVE  -(m - m) = 0
<1>1. ASSUME NEW z \in Int, z <= 0, z >= 0
      PROVE  -z \in Int /\ -z <= 0 /\ -z >= 0
  BY <1>1
<1>2. ASSUME NEW z \in Int, z <= 0, z >= 0 PROVE z = 0
  BY <1>2
<1>3. m - m \in Int /\ m - m <= 0 /\ m - m >= 0
  OBVIOUS
<1> QED
  BY <1>1, <1>2, <1>3

\* The same measurement twice has no derivative.
LEMMA NoDerivative ==
    ASSUME NEW pid \in PidType, NEW m \in Int, pid.prev = m
    PROVE  Derivative(pid, m) = 0
<1>1. -(m - m) = 0
  BY Cancels
<1>2. -(m - pid.prev) = -(m - m)
  BY Zenon
<1> QED
  BY <1>1, <1>2, Zenon DEF Derivative

\* One call of the PID leaves the rail or takes from the integrator.
LEMMA ComputeNearer ==
    ASSUME GainsFit,
           NEW sp \in (-(PwmMax * RpmPerUnit))..(PwmMax * RpmPerUnit),
           NEW m \in Int, NEW pid \in PidType, Derivative(pid, m) = 0
    PROVE  /\ sp < m => \/ pid_compute(pid, sp, m) < OutputMax
                        \/ Integrated(pid, sp, m) <= pid.i - 1
           /\ sp > m => \/ pid_compute(pid, sp, m) > -OutputMax
                        \/ Integrated(pid, sp, m) >= pid.i + 1
<1> DEFINE u == Unsaturated(pid, sp, m, pid.i)
           i == Integrated(pid, sp, m)
           v == Unsaturated(pid, sp, m, i)
<1>1. /\ pid.i \in (-IntegratorMax)..IntegratorMax /\ sp \in Int
      /\ IntegratorMax \in Nat /\ OutputMax \in Nat /\ OutputMax > 0
  <2>1. PwmMax \in Nat \ {0} /\ Unit \in Nat \ {0}
    BY LoopAssumption DEF GainsFit
  <2>2. PwmMax * Unit \in Nat \ {0}
    BY <2>1
  <2> QED
    BY <2>2, LoopAssumption, Ranges DEF PidType, OutputMax
<1>2. i \in Int /\ u \in Int /\ v \in Int
  BY <1>1, IntegratedType, UnsaturatedType
<1>3. pid_compute(pid, sp, m) = Clamp(v, -OutputMax, OutputMax)
  BY DEF pid_compute
<1>4. CASE Frozen(pid, sp, m)
  <2>1. v = u
    BY <1>4 DEF Integrated
  <2>2. \/ u > OutputMax /\ sp - m > 0
        \/ u < -OutputMax /\ sp - m < 0
    BY <1>4 DEF Frozen
  <2> HIDE DEF u, v, i
  <2> QED
    BY <1>1, <1>2, <1>3, <2>1, <2>2 DEF Clamp
<1>5. CASE ~Frozen(pid, sp, m)
  <2>1. i = Clamp(pid.i + (sp - m), -IntegratorMax, IntegratorMax)
    BY <1>5 DEF Integrated
  <2>2. /\ i = -IntegratorMax /\ sp < m => v < OutputMax
        /\ i = IntegratorMax /\ sp > m => v > -OutputMax
    BY EmptyOffRail
  <2> HIDE DEF u, v, i
  <2>3. /\ sp < m => i = -IntegratorMax \/ i <= pid.i - 1
        /\ sp > m => i = IntegratorMax \/ i >= pid.i + 1
    BY <1>1, <2>1 DEF Clamp
  <2> QED
    BY <1>1, <1>2, <1>3, <2>2, <2>3 DEF Clamp, i
<1> QED
  BY <1>4, <1>5

\* So LeavesRail takes at most 2 * IntegratorMax + 1 cycles, the time it takes
\* to unwind a full integrator: what is left to TLC is that cycles happen.
THEOREM RailUnwinds ==
    ASSUME GainsFit
    PROVE  Spec => RailNearer
<1>1. TypeOK /\ [Next]_vars =>
          [Velocity /\ ~pid_gains_pending /\ has_prev_measurement
                /\ prev_measurement' = prev_measurement =>
              /\ profiled' < prev_measurement' =>
                     last_output' < OutputMax \/ integrator' <= integrator - 1
              /\ profiled' > prev_measurement' =>
                     \/ last_output' > -OutputMax
                     \/ integrator' >= integrator + 1]_vars
  <2> SUFFICES ASSUME TypeOK, Velocity, ~pid_gains_pending,
                      has_prev_measurement,
                      prev_measurement' = prev_measurement
               PROVE  /\ profiled' < prev_measurement' =>
                             \/ last_output' < OutputMax
                             \/ integrator' <= integrator - 1
                      /\ profiled' > prev_measurement' =>
                             \/ last_output' > -OutputMax
                             \/ integrator' >= integrator + 1
    BY DEF vars
  <2> DEFINE sp == Profile(target * RpmPerUnit)
             m == prev_measurement
  <2>1. /\ profiled' = sp /\ integrator' = Integrated(Current, sp, m)
        /\ last_output' = pid_compute(Current, sp, m)
    BY DEF Velocity
  <2>2. m \in Int
    BY LoopAssumption DEF TypeOK
  <2>3. sp \in (-(PwmMax * RpmPerUnit))..(PwmMax * RpmPerUnit)
    BY ProfileType DEF TypeOK
  <2>4. Current \in PidType /\ Current.i = integrator
    BY CurrentType DEF Current
  <2>5. Derivative(Current, m) = 0
    <3>1. Current.prev = m
      BY DEF Current
    <3> QED
      BY <2>2, <2>4, <3>1, NoDerivative
  <2> HIDE DEF sp, m
  <2>6. /\ sp < m => \/ pid_compute(Current, sp, m) < OutputMax
                     \/ Integrated(Current, sp, m) <= integrator - 1
        /\ sp > m => \/ pid_compute(Current, sp, m) > -OutputMax
                     \/ Integrated(Current, sp, m) >= integrator + 1
    BY <2>2, <2>3, <2>4, <2>5, ComputeNearer
  <2> QED
    BY <2>1, <2>6 DEF m
<1> QED
  BY <1>1, InRange, PTL DEF Spec, RailNearer
==============================================================================
