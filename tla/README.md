# A verification project for the Astra base firmware

TLA+ models of the firmware in `src/` (STM32F411, FreeRTOS, motor control over
USB CDC), model-checked with TLC on small instances, with the central safety
properties proved for every value of the constants with TLAPS.

- [The system](#the-system): components, state, interactions, what is hard
- [The modules](#the-modules): how state and actions correspond to the code
- [The runs](#the-runs): questions, bounds, what they show
- [Fairness](#fairness)
- [The proofs](#the-proofs)
- [What the models show of the code](#what-the-models-show-of-the-code)
- [What is not modelled](#what-is-not-modelled)
- [Plan](#plan)

Every `file:line` refers to `src/src/` unless it starts with another directory.

## The system

One Cortex-M4 core, three tasks with preemptive priorities, and interrupts.

| Actor | Runs | Does |
|---|---|---|
| `control_task`, priority 9 | every 20 ms (`vTaskDelayUntil`) | watchdog, PID gains, encoders, IMU (I2C), heartbeat failsafe, slew limiter, PIDs, motor outputs |
| `serial_task`, priority 6 | when a byte is there, else polls each ms | T:999 notification, reads lines, dispatches T-codes |
| `telemetry_task`, priority 2 | every `fb_interval_ms` | current sensor (I2C), T:1001 |
| OTG_FS interrupt | USB events | receive ring, transmit completions, port open and close, reset |
| EXTI interrupts | encoder edges | quadrature counts |
| SysTick | every ms | HAL and FreeRTOS ticks |

### Inventory

| Component | State | Operations | Talks to | Hard behaviour | What makes it correct |
|---|---|---|---|---|---|
| Command state (`shared_state`, the motion commands of `json_cmd`) | targets, duties, `direct_pwm_mode`, `command_received`, `last_command_ms`, `sys_state`, `heartbeat_fault_notify` | T:0, T:1, T:11, T:13, T:150, T:210, feed | control cycle through unlocked `g_state` | preemption between any two stores, reordering by the compiler | no setpoint in force without a heartbeat; the state reported is the state |
| Control cycle (`main.cpp` 203-355, `motor_ctrl`) | profiled setpoints, PIDs, motor outputs, its wake-up time | failsafe, direct cycle, velocity cycle | reads and clears the command state | tick wrap, lateness, stale heartbeat | failsafe in time, no setpoint outlasts a silent host or a stop |
| USB transmit path (`usbd_cdc_if.c`, `serial_send_line`) | transmit ring, `tx_in_flight`, `tx_buf`, port state | send, kick, completion, port open/close, reset | two tasks, USB interrupt | kick against completion, suspend, port toggled under a kick, shared static buffer | a byte queue: nothing lost, repeated, reordered; no lost wake-up |
| USB receive path (`CDC_Receive_FS`, `serial_read_line`) | receive ring, line buffer | receive, read byte, end line | interrupt and `serial_task` | full ring, overlong line, host restart | a line that arrives whole is dispatched as sent |
| Encoders (`encoder.cpp`) | counts, last quadrature state, totals, RPM | edge, update | EXTI and `control_task`, telemetry | edge between snapshot and clear | each edge counted once |
| Velocity PID (`pid.cpp`) | integrator, last measurement, flags | init, compute, reset | control cycle | saturation, gain change | output and integrator bounded, integrator never winds into the rail |
| I2C bus (`i2c_bus`, `imu`, `ina219`) | mutex, HAL state, offsets, filter | read, write, T:127, T:128, T:160, update, calibrate | all three tasks | re-initialisation outside the mutex, stuck bus, an IMU update in two tasks | one transaction at a time, bounded blocking of control |
| Configuration and gains (`config_store`, T:220-223, T:241) | flash sector, gains, `pid_gains_pending` | save, load, reset, set, apply | `serial_task` to `control_task` | power loss between words, torn gains | a stored configuration is whole or rejected |
| Fault records and watchdog (`stm32f4xx_it.cpp`, hooks in `main.cpp`) | backup registers, `fault_flags`, the watchdog's counter | capture, boot, refresh, T:201, T:210 | watchdog, reset | fault during a capture, reset between stores | a valid record describes one fault; the watchdog resets a board that halted, and no other |
| USB device library (`lib/STM32_USB_Device`, `usbd_conf.c`) | device state, endpoint 0, class handle, line coding | setup, data and status stages, reset, suspend, resume | OTG_FS interrupt, `usbd_cdc_if.c` | a request given up half way, reset and suspension at any point, packet boundaries | every request is answered or refused, and what the host is told is so |
| Telemetry (T:1001) | sequence number, last totals | publish | transmit path | totals read while they change | deltas add up to the total |

The hazards of this code, each at the line where it bites, are listed in
`PROJECT.json` with the properties that would catch it.

## The modules

| Module | Models | Uses |
|---|---|---|
| `DriveControl` | command state, `serial_task`'s motion commands, `control_task`'s cycle, SysTick, the host's silence | |
| `MCDriveControl` | a sweep for TLC | `DriveControl` |
| `DriveControl_proofs` | its inductive invariants and theorems | `DriveControl` |
| `ByteFifo` | abstract: a bounded byte queue | |
| `CdcTx` | the transmit path, two sending tasks, the USB interrupt | implements `ByteFifo` |
| `CdcTx_proofs` | types, bytes in flight, wake-ups, its refinement | `CdcTx` |
| `RxLine` | the receive path and line assembly | implements `ByteFifo` |
| `MCRxLine` | what the host sends, for TLC | `RxLine` |
| `RxLine_proofs` | types, its refinement, whole lines | `RxLine` |
| `Encoder` | edge interrupts, `encoder_update`, the tick deltas of T:1001 | |
| `Encoder_proofs` | its inductive invariant and theorems, arithmetic modulo a width | `Encoder` |
| `ConfigStore` | PID gains and the flash sector: T:220, T:221, T:223, T:241, the hand-over, resets | |
| `MCConfigStore` | words of real gains, for TLC | `ConfigStore` |
| `ConfigStore_proofs` | its inductive invariant and theorems | `ConfigStore` |
| `VelocityLoop` | one wheel: slew limiter, PID, yaw correction, output | |
| `MCVelocityLoop` | small numbers, for TLC | `VelocityLoop` |
| `VelocityLoop_proofs` | the ranges of its numbers, what each cycle does for the ramp and the integrator | `VelocityLoop` |
| `UsbStates` | abstract: the device states of chapter 9 of the USB specification | |
| `UsbDevice` | control transfers, requests, the CDC class, bus events | implements `UsbStates` |
| `MCUsbDevice` | the requests of an enumeration and of a serial driver, for TLC | `UsbDevice` |
| `UsbDevice_proofs` | its invariants, its refinement, its control transfers | `UsbDevice` |
| `I2cBus` | the three tasks, the mutex, transactions, an erase, the watchdog's counter | |
| `FaultRecords` | handlers, backup registers, resets, boot, T:201, T:210 | |
| `Board` | both together, from power-on to reset | `I2cBus`, `FaultRecords` |
| `Board_proofs` | its inductive invariants and theorems | `Board` |

### DriveControl

The variables carry the names of the fields of `g_state` and of
`control_task`'s locals. `pc`, `op`, `arg`, `todo`, `now`, `sweep` and `delay`
say where `serial_task` is. `due` counts the ticks to the next control cycle,
zero or less when it is ready. `drive` is what the last call of
`motor_ctrl_set_speed` gave each motor. In the velocity branch that is any of
`OutputLevels`, whatever the setpoint: the integrators, the measured speeds and
the yaw correction may drive a wheel whose setpoint is zero, at any time after a
stop or a failsafe (`main.cpp:320-340`). `regulated` remembers that the outputs
came from that branch, and `Standstill` says what a stop can promise: the motors
are off, or the PIDs regulate both wheels to a speed of zero.

Grain of atomicity, and why:

- **A control cycle is one action** (`Failsafe`, `DirectCycle`,
  `VelocityCycle`). The task has the highest priority. It blocks only for the
  I2C mutex, before it reads the command state, and `serial_task` can hold that
  mutex, or run meanwhile, without losing the grain: the cycle's reads all come
  after.
- **Each store of a command is one action**, because the cycle may preempt
  between any two. `g_state` is not volatile and the build optimises (`-Os`,
  no link-time optimisation), so the stores between two calls may happen in any
  order: `todo` is the set of those left, and any may be next. The calls
  (`shared_state_feed_heartbeat`, `HAL_GetTick`, `motor_ctrl_set_speed`) keep
  their order. `Stores` is the table of groups; `AfterStores` and `AfterFeed`
  say what follows.
- **Time.** `Tick` is SysTick. `serial_task` runs while the control task sleeps
  (`due > 0`). Between the head of its loop and an acknowledgement it executes
  some microseconds of straight-line code, so at most one tick lands in such a
  stretch while it runs (`landed`). Where it waits, `delay` bounds the ticks
  (`LongestWait`): the settle time and the INA219 reading of a sweep
  (`SettleTicks`, `MeasureTicks`), and `serial_send_line`, which retries a full
  queue with up to fifty `HAL_Delay(1)` (`SendTicks`, `serial_cmd.cpp:102-105`),
  in the notification and in the acknowledgement of T:11 and T:150. Waiting for
  a line and the queries take any time. A due cycle may be held up `MaxLate`
  ticks, less than a period (flash, interrupts, a mutex).

T:13 differs from T:1 only in how it computes the targets, so "T1" stands for
both. The commands that store no command state are "other".

### ByteFifo, CdcTx

`CdcTx` keeps `usbd_cdc_if.c`'s names. A section with interrupts masked is one
action, and so is an interrupt handler. In a task, `CDC_KickTransmit_FS` is six
steps (`KickTest` before the lock, `KickLock`, `KickSet`, `KickPacket`,
`KickStart`, `KickFail`), as the interrupt may come between any two of them; in
a handler it is one (`KickInHandler`). `serial_task` preempts `telemetry_task`
anywhere and then runs until its line is sent, because `HAL_Delay` spins
(`Runs`). The vendored class driver is modelled as far as this file relies on
it: `TxState`, the buffer pointer and length, the transfer, and the handle that
is freed by a reset and zeroed by a new configuration. `DataIn` is the end of a
transfer, after the empty packet that one of a multiple of 64 bytes needs.

`Fifo` maps the ring's content to `queue` and what the host received to
`received`; `IsFifo` says that every step is an `Accept`, a `Take` or a stutter.

### RxLine

One call of `CDC_Receive_FS` is one action (`HostSends`): the part of the packet
that has room goes in, the rest is `lost`. `serial_read_line` is two: `Fetch`
reads the byte, and `TakeCR`, `TakeNewline` or `TakeChar` gives the slot back
and handles it, the interrupt being free to come between. A line is a line
number with positions for characters, a carriage return and a newline.
`HostRestarts` abandons the rest of a line. `Finished` is only there for the
bounded number of lines. `taken` and `lost` are history.

### Encoder

An edge and its interrupt are one action (`Edge`); the interrupts have one
priority and do not nest. `encoder_update` is five: the counts are volatile, so
each is read and cleared in the order of the source, and an edge may come
between any two. `telemetry_task` reads a total once per wheel (`Publish`), the
two wheels with control cycles in between. `wheel`, `origin` and `reported` are
the world: how far the wheel has turned, the phase in which it started, and what
a host has that adds up the deltas. All are numbers modulo `TotalMod`, as int32
is modulo 2^32.

### ConfigStore

Each store of a gain and each word of flash is one action; a cycle's hand-over
(`TakeGains`) is one, as nothing of lower priority runs meanwhile. `Reset` may
come at any step and leaves only the sector, which an interrupted erase leaves
partly erased in any way. A word that is being programmed is written or not. The
six IMU offsets are one word: T:220 always saves them as zero.

`Reorders` says whether the compiler, `g_state` not being volatile, has put the
store of the flag before stores of gains. `saved` and `answer` are history.

### VelocityLoop

One wheel. The other one takes part only in the question whether the targets are
close together (`straight`). `Failsafe`, `Direct` and `Velocity` are the
branches of a cycle, with the pending gains applied first (`Current`). Floats
are exact integers: speeds in RPM, outputs in 1/`Unit` of a PWM step, `dt` part
of `Ki` and `Kd`. `Truncated` is the cast to an integer and C's division. The
motor is the environment: a cycle may measure any of `Speeds`. When commands and
failsafe come is `DriveControl`'s matter; here they may come at any time.

### UsbDevice, UsbStates

The variables are those of `USBD_HandleTypeDef`, of the class handle and of
`usbd_cdc_if.c`, as far as this build uses them: `dev_state`, `dev_old_state`,
`dev_config`, `ep0_state`, the lengths of endpoint 0 (`ep0`), `hcdc` (is there a
handle?), `CmdOpCode`, `CmdLength`, `TxState`, `LineCoding`. An action is an
event on the bus with its whole interrupt handler: `Begin` is a SETUP packet,
and `SetupStage` with the operators under it the dispatch through
`USBD_LL_SetupStage`, `USBD_StdDevReq`, `USBD_StdItfReq`, `USBD_StdEPReq` and
`USBD_CDC_Setup`; `InPacket` and `OutPacket` are a packet of endpoint 0;
`DataIn`, `DataOut` the bulk endpoints; `Reset`, `Suspend`, `Resume` the bus.
`TransmitPacket` is the one call from a task.

The host (`xfer`) sends any request of `Requests` at any time, so it may give up
a transfer half way, and otherwise follows its stages; `HostAssumption` keeps
its requests to what the standards define. The hardware cuts answers
into packets and clears stalls and armed endpoints as the HAL does. Data is an
item and a length: `<<"descriptor", 256>>`, 18. `UsbStates` is the device as a
host may think of it: address, configured or not, suspended or not; the mapping
looks through `SUSPENDED` at `dev_old_state`.

`CdcTx` keeps its own, smaller view of the class (a transfer is one step);
`ShortPacketEnds` and `ClassIffConfigured` say that the library keeps to it.

### I2cBus, FaultRecords, Board

`I2cBus` is about time and priority. `pc` says where each task is: asleep,
running, about to take the mutex, in the four steps of `i2c_read_registers`, in
T:127 before either of its two HAL calls (`Scan`, `DeInit`, `ReInit`), in T:210
between its two stores. A transaction that begins while the HAL is down is
refused (`Call`), one that was in progress polls to its end. `Runs` is the
scheduler: the ready task with the highest priority, the
owner of the mutex having the priority of those who wait for it. Code takes no
time except where it polls the HAL, computes for long, or waits; a transaction
ends when the device answers or refuses, at any time up to `IoTimeout`. `Erase`
is T:220: while the flash is erased nothing is executed (`Stall`) and SysTick
does not count, but the watchdog's clock (`wdt`) does. The next line may be
another T:220 at once, any number of times: `saves` is history and counts up to
`MaxSaves`, which is far enough to say whether the erases can have taken as long
as the watchdog allows. `CycleBegins` is the top of `control_task`'s loop: the
refresh, the next wake-up, the IMU's read.

`FaultRecords` has the phases of the board: `boot`, `init` (before
`HAL_IWDG_Init`), `run`, `capture`, `halted`. A handler's stores to the backup
registers are one action each (the four registers of the stack frame are one
value), so that a reset may come between any two. What resets and boot do to
memory, reset flags and registers is the rest of the module. `IwdgInit` may find
that `HAL_IWDG_Init` fails: the board goes on, and the watchdog, which that call
had already started, is `unattended`; it may run out at some time or never
count. `pending`, `last` and `torn` are history: is a record begun and not cleared, which, and was it
finished?

`Board` composes the two: a fault in whatever runs halts the tasks
(`TasksLost`), only the watchdog's clock goes on (`HaltTime`), and at `Reload` it
resets the chip (`Bite`); one that nobody refreshes may do so at any time
(`StrayBite`).

## The runs

| Run | Checks | Bounds |
|---|---|---|
| `DriveSafety` | `TypeOK`, `NoUnsupervisedMotion`, `StandstillUnlessHeard`, `FailsafeDeadline` | T:0, T:1, T:11, T:210, queries; period 2, lateness 1, timeout 2 ticks, clock modulo 7, waits of 1 |
| `DriveLive` | `SilenceBringsStandstill`, `FailsafeReported`, `NotifyNotLost`, `SweepSupervised` | T:11, T:150; period 2, lateness 0, timeout 8, clock modulo 11, waits of 1 |
| `DriveSpuriousFailsafe` | `FailsafeOnlyWhenSilent`, violated | T:1 |
| `CdcPipe` | `IsFifo`, `QueueDrains` | ring 7, chunk 2, lines of 3 bytes, 2 per task, one retry, suspension |
| `CdcPort` | `TypeOK`, `InFlightQueued`, `QueueServed` | ring 5, chunk 2, lines of 3; the port toggled and the bus reset at will |
| `CdcTxBuf` | `LineSentIsLineGiven`, violated | ring 5 |
| `RxLines` | `TypeOK`, `LineIntact`, `IsFifo`, `LineDispatched` | ring 4, line buffer 3, caller's buffer 2, packets of 2, three lines |
| `EncoderOdometry` | `TypeOK`, `OdometryBounded`, `DeltaIsMotion`, `MotionReported` | totals modulo 8, the left wheel turns, 2 edges between packets, one between snapshot and clearing |
| `ConfigSave` | `TypeOK`, `GainsTakeEffect`, `GainsWhole`, `AnswerHolds`, `SectorNeverMixed` | the defaults and two other sets of gains, words of 16 bits |
| `VelocityPid` | `TypeOK`, `RampArrives`, `LeavesRail` | output 4, 2 RPM per unit, ramp 3 RPM a cycle, three targets, duties, speeds and yaw corrections |
| `UsbControl` | `TypeOK`, `ClassIffConfigured`, `Answerable`, `HostNotDeceived`, `ShortPacketEnds`, `IsUsbStates` | 48 requests, two codings, transfers of 10 and 64 bytes, packets of 64 |
| `Board` | `TypeOK`, `HalIsFree`, `WatchdogSparesSaves`, `FaultReported`, `MotorsStop` | period 1, transaction 1, erase 2, saves counted to 2, reload 4, one tick of debt; two faults |

Why the bounds are enough for the questions:

- *Time scale.* The code has 20 ms, 3000 ms and 500 ms. What the properties
  depend on is in the safety run that the tick wraps while commands are live and
  that a cycle may be late, in the live run that the timeout is longer than a
  step of the sweep and what follows it to the end of a notification. The
  modulus is within one of the least the assumption allows, so every distance
  from the wrap occurs at every point of a command; the tick starts anywhere.
  The proofs then cover every scale, the real one included.
- *Setpoints and outputs.* The models only tell zero from nonzero and ramping
  from steady. One nonzero level per wheel pair is enough, and `MaxDelta` makes
  the ramp one cycle; `VelocityPid` has ramps of several. `OutputLevels` holds
  one value other than zero: whenever the velocity branch ran, both motors are
  driven. An output of zero could only help, since `drive` is read by
  `Standstill` alone, which an idle wheel makes easier to satisfy.
- *Rings.* Ring and line lengths have no common factor with the chunk, so a
  line wraps at every offset, a chunk ends at the end of the ring, and two lines
  fill the ring: the retry and the full ring occur. Two lines per task give a
  transfer under which both tasks queue.
- *Receive.* The three scripts hold a line that fits, one that is truncated and
  one that overflows, in each order, with packets beyond the free space, so a
  cut, a splice and a recovery all occur.

- *Encoders.* With totals modulo 8 and at most two edges on their way, totals,
  wheel and sums wrap at every point of an update. The wheels share no state
  but the program counters, and their code is the same, so one turns.
- *Gains.* The words are the upper halves of the real ones (magic number and
  floats), so their sum wraps as it does in the code. One set differs from the
  defaults in few words and one in many. Whether a mixture can have the right
  sum depends on the words, as the checksum is additive: for these sets it notices
  every erased part (`ChecksumNotices`).
- *PID.* The numbers keep the code's proportions: the feed-forward alone reaches
  the rail at full speed, the integrator 75 % of it (80 % in the code), the ramp
  takes several cycles, and the measured speeds lie below, within and above what
  a target asks for.
- *USB.* The requests take every branch of the dispatch at least once, with
  lengths below, at and above what the answer has, and an answer of exactly one
  packet: the product name has 31 characters in the run, 21 in the build, so
  that the empty packet after a full one occurs on endpoint 0 too.
- *Board.* A transaction is as long as a period, so control_task may be late
  behind one and then has its own. `ReloadAssumption` is as weak as can be: with a
  reload value of two transactions TLC finds the watchdog run out by them alone.
  One save is spared (a period and an erase take 3 of the 4 ticks), two in a row
  are not, and both occur. Two faults give a capture over an older record,
  complete or torn.

Named bounds: `Ahead` and `MaxSlips` (edges), `MaxLines`, `MaxRetries` (50 in
the code), `SilenceMax` (a saturating history counter), `TickMod` (2^32),
`MaxDebt` (ticks `control_task` catches up), `MaxSaves` (where the history counter
`saves` saturates; it limits no T:220), `MaxFaults`. `wdt` stops counting at
`Reload`, where the watchdog resets the chip. A deadlock is an error in every run.

Commands are left out of a run only when its property does not depend on them:
T:150 adds states to `DriveSafety` without adding a way to write a setpoint, and
T:0, T:1 and T:210 to `DriveLive`; the theorems cover all commands together.
`NotifyNotLost` depends on the timeout being longer than a step of the sweep, its
waits and the cycles in between: with a cycle held up longer, which a stuck I2C
bus can cause, a second failsafe may overtake the notification. `QueueServed` is
checked without suspension, for which it does not hold; `QueueDrains` therefore
speaks of bytes that are queued and served. `GainsTakeEffect` is checked with
`Reorders` false; with true TLC finds it violated, and the other properties of
`ConfigSave` hold.

Each property of a passing run has a mutant in `PROJECT.json`: the definition
with a plausible bug (`...NoWrap`, `...HalfStop`, `KickLockTwice`, ...), kept
before the definition it changes, which makes TLC find the property violated.

## Fairness

- `DriveControl`: weak fairness of `Tick` (SysTick does not stop) and of
  `ControlCycle` (highest priority). Strong fairness of `SerialStep`:
  `serial_task` is preempted again and again but has the CPU whenever the
  control task sleeps, being second in priority.
- `CdcTx`: weak fairness of each task's steps, the host configures the device,
  and reads an open port. Nothing is assumed of the host's opening or closing
  the port, nor of anyone sending a line.
- `RxLine`: weak fairness of `serial_task`. The host owes nothing.
- `Encoder`: weak fairness of `encoder_update` (every period, highest priority),
  strong fairness of `telemetry_task`, which is preempted again and again but
  gets the processor whenever the others sleep.
- `VelocityLoop`: weak fairness of the control cycle.
- `Board`: weak fairness of a handler's stores and its loop (`Capturing`: with
  interrupts off nothing else runs), of the watchdog's clock on a halted board
  and of its reset. Nothing is assumed of the tasks, nor of anyone pressing the
  button.
- `ConfigStore`, `UsbDevice`: none; they have only safety properties.

## The proofs

`DriveControl_proofs` proves, for every set of commands, speeds, sweep, period,
lateness, timeout and tick modulus that satisfy `CommandAssumption`,
`SetpointAssumption` and `TimeAssumption`:

- `TypeCorrect`: `Spec => []TypeOK`
- `SupervisedMotion`: `Spec => []NoUnsupervisedMotion`
- `DeadlineMet`: `Spec => []FailsafeDeadline`
- `SweepIsFed`: `SettleBound + Stretch <= Timeout` implies
  `Spec => SweepSupervised`
- `EachIsNotified`: `NotifyBound <= Timeout` implies `Spec => NotifyNotLost`

None of the first three is inductive: a setpoint is supervised *because* of where
`serial_task` stands, and the age of the heartbeat is bounded *because* of when
the next cycle comes. `IInv` adds what is missing:

- `Place`: where the task stands tells the command it executes and bounds the
  stores it has left;
- `Zeroed`: a T:0 has zeroed whatever it need not store any more, whatever
  cycles fell in between, so that it may disarm;
- `Guarded`: the setpoints are zero or the heartbeat is armed, except while a
  command writes them and has yet to feed;
- `AgeInv`: `Elapsed + due <= Timeout + Period`. A tick adds one to the age and
  takes one from `due`; a cycle adds a period, but only to an age the failsafe
  let pass. With `TickMod` larger than the sum the difference never wraps;
- `ReadInv`: the clock `serial_task` has read but not stored is at most one tick
  and one delayed cycle old.

The last two are about time and need, beside `IInv`, how long the straight-line
code of a command and its waits last. A `Stretch` is one tick with the cycle it
may be late by (`1 + MaxLate`). `SettleBound` is a settle time with its reading, a
late cycle and a stretch; `NotifyBound` adds the acknowledgement of the sweep and
the notification after it, each with the time `serial_send_line` may wait. With
500 ms to settle, two readings that run into their timeouts (400 ms), a full USB
queue (each of the fifty `HAL_Delay(1)` is one or two ticks) and cycles late by
nearly a period they come to less than 1300 ms, against a timeout of 3000 ms. The
invariants are

- `YoungInv`: from a feed to its acknowledgement, and all through a sweep, the
  stored time is young: `Young(b)` says that it was at most `b` ticks old when
  the stretch began, `Waits(b, d)` that it was when a wait of `d` ticks did;
- `StretchInv`: a cycle that falls into straight-line code has used up its tick,
  so no second cycle comes before the time is stored;
- `NotifyInv`: while a notification waits the heartbeat is disarmed, or no cycle
  comes before the time is stored, or that time is young.

The same module proves `QuietInTime`, `Spec => []StandstillUnlessHeard`, from
`IInv` and `RangeAssumption` (targets lie in -100..100), for any outputs of the
PIDs and the yaw correction: it bounds how long a motor follows a duty or a
setpoint other than zero, not how long it may be driven. Its invariant `QInv`
relates the host's silence to the device's clocks:

- `FreshInv` and `HeardInv`: a command that has not fed yet is hardly older than
  a tick, so the silence is hardly longer than the age of the heartbeat;
- `LandedInv`, `StopInv`: a T:0 that has disarmed may let one more cycle drive
  what it has yet to zero;
- `QuietInv`: with nobody to feed, the robot is at a `Standstill` or `k` cycles
  bring the ramp to zero (`RampsIn(k)`), `k` at most `RampCycles`, and they are over in
  time. Each cycle lowers `k` by one (`SlewBound`).

Its last theorem bounds the finding of `DriveSpuriousFailsafe`.
`EarlyFailsafe`, `Spec => EarlyOnlyMidCommand`: a failsafe that fires although
a motion command came within the timeout falls between the dispatch of such a
command and the store of its time. `SinceInv` says why: outside that stretch the
age of an armed heartbeat is no more than the silence, and a clock that has been
read but not stored was read after the command.

`CdcTx_proofs` proves, for every ring, chunk and line size (`SizeAssumption`):

- `TypeCorrect`: `Spec => []TypeOK`
- `InFlight`: `Spec => []InFlightQueued`, from the arithmetic of the ring
  (`ChunkQueued`, `TailMoved`, `HeadMoved`) and `RingInv`, whatever the host
  does to the port and the bus;
- `NoLostWakeup`: `~Suspends` implies `Spec => []QueueServed`, from `WakeInv`.
  A claim (`ClaimInv`) and a busy endpoint (`BusyInv`) have a transfer or a task
  that will start one, so the test of `TxState` before the lock never turns away
  the last one who would have served the queue (`ServedInv`);
- `AnswersIntact`: `Spec => AnswerSentIsAnswerGiven`, which bounds the finding of
  `CdcTxBuf`: of the tasks that share `tx_buf` `serial_task` never loses a line;
- `PipeIsFifo`: `~Toggles` and `~Resets` imply `Spec => IsFifo`, suspension
  included. `OneClaim` says that from its claim to its completion one chunk is on
  its way, the task's or the endpoint's, and that it is the one at the tail, so
  that a completion takes what the host received. `Unconfigured` says that
  nothing has happened before the host configures the device, when the handle is
  zeroed once.

`RxLine_proofs` proves, for any sizes, packets and lines (`RxAssumption`):

- `TypeCorrect`: `Spec => []TypeOK`
- `RingIsFifo`: `Spec => IsFifo`
- `LinesIntact`: `Spec => []LineIntact`, from `LInv`. `GapInv`: between two
  bytes that follow each other in what was taken, queued or is still to come,
  only lost bytes are missing. `ReadInv`: of a line that came whole so far,
  `rx_buffer` holds exactly the characters taken since its first. `LineInv`: so it
  was with every line dispatched.

`VelocityLoop_proofs` proves `InRange`, `Spec => []TypeOK`, for any gains, speeds
and corrections (`LoopAssumption`): bounds of products and truncated quotients
(`ProductBound`, `TruncatedBound`) carry the limits from the target through
profile, PID and sum to the motor driver. Two more theorems are the steps of its
liveness properties, for every size; that cycles happen is left to fairness:

- `RampClosesIn`, `Spec => RampNearer`: while a target stands no step takes the
  profiled setpoint away from it, and each cycle takes it `MaxDelta` nearer or
  there (`Within(k + 1)` becomes `Within(k)`), failsafes included;
- `RailUnwinds`: `GainsFit` implies `Spec => RailNearer`. A wheel measured twice
  the same, and faster than its setpoint, is off the high rail after the cycle or
  the integrator has lost at least one, so that it takes at most
  `2 * IntegratorMax + 1` cycles; likewise below. `GainsFit` (the feed-forward
  of full speed does not exceed the rail, `Kp` is positive) holds of the default
  gains, and with equality for the first part: `0.5 * 200` is 100. T:241 accepts
  gains of which it does not hold, and then the output may stay at the rail with
  an empty integrator.

`UsbDevice_proofs` proves, for any set of requests, packet size and strings
(`RequestAssumption`, `DeviceAssumption`):

- `ClassLifecycle`: `Spec => []ClassIffConfigured`
- `Refines`: `Spec => IsUsbStates`
- `EmptyPacketEnds`: `Spec => ShortPacketEnds`

and, for the requests a host may send as far as the standards go
(`HostAssumption`: those of chapter 9 are no class requests, those that set
something carry no data, those that read something ask for it):

- `TypeCorrect`: `Spec => []TypeOK`
- `NeverDies`: `Spec => []Answerable`
- `NoDeceit`: `Spec => []HostNotDeceived`

The first two need what a suspended device remembers (`Remembers`): the state it
goes back to is the one the class was set up for. The third adds `TotalInv`: the
endpoint is armed with the transfer the class takes to be under way. The last
three come from `PipeInv`, which names the stages of a control transfer and says
what endpoint 0 holds in each: `Unanswered` (refused or ignored), `Receiving`,
`Acknowledging`, `Answering` (with what is sent, armed and left of the answer
adding up to its length, or its empty packet armed), `Acknowledged`, `Over`. Each
handler of a SETUP packet leads to one of them, whatever stage the transfer it
cuts off was in, since `Parsed` forgets it; each packet leads to the next.
Without `HostAssumption` the library does not hold: a SET_CONFIGURATION with a
data stage, say, is acknowledged at once and its data never taken.

`Board_proofs` proves, for any times that satisfy `BusAssumption` and
`ReloadAssumption` (the reload value exceeds two transactions; 3 s against twice
0.2 s), any number of faults and any frames (`FaultAssumption`). `BusAssumption`
asks of `MaxSaves` only that `saves` counts far enough; no assumption limits the
T:220s.

- `Typed`: `Spec => []TypeOK`
- `MutexGuardsHal`: `Spec => []HalIsFree`: no two transactions at a time, and
  who calls finds the HAL ready but between the two HAL calls of T:127
- `WatchdogQuiet`: `Spec => []WatchdogSparesSaves`: without a fault the watchdog
  runs out only if the erases since `control_task` last woke up add up, with a
  period, to its reload value
- `FaultTold`: `Spec => []FaultReported`

`BusInv` bounds the watchdog's clock at every place of `control_task`: asleep it
wakes up by `Allowed`, a period and the erases so far; waiting for the mutex
(`WhileWaiting`) the owner has one transaction left, since with the inherited
priority nothing preempts it (`OwnerFirst`, `ControlFirst`) and it does not take
the mutex again before control; then (`WhileReading`) comes control's own. So the
clock reaches `Reload` by saves only (`NoBite`). `Mutex` and `HalInv` say that a HAL
that is not ready has its transaction in progress, or T:127 half done.
`RecordInv` holds across resets at any
point: what a capture has stored so far (`CaptureInv`), what T:201 would show
(`DumpInv`), what the flag says on a board that runs (`FlagInv`).

`ConfigStore_proofs` proves, for all gains and any size of a word
(`WordAssumption`):

- `TypeCorrect`: `Spec => []TypeOK`, checksums included
- `TakeEffect`: `~Reorders` implies `Spec => []GainsTakeEffect`
- `AnswersHold`: `Spec => []AnswerHolds`

Its `IInv` adds to the type what a command in progress knows: `Applied`, the
PIDs run with what the flag does not announce, while no command stores gains;
`Saving`, a save writes the record of the gains it took and its first `done`
words are in the sector, so that all eight make the sector the record; `Kept`,
what was answered ok still loads. A record loads because its checksum does not
depend on the checksum (`SameSum`, `RecordRight`).

The two properties that depend on the words saved are proved under the condition
they need, `ChecksumNotices`: no record of a gain set, with some of its words
erased, has the right checksum again.

- `WholeGains`: `ChecksumNotices` implies `Spec => []GainsWhole`
- `SectorUnmixed`: `ChecksumNotices` implies `Spec => SectorNeverMixed`
- `OneWordNoticed`: a single erased word the checksum always notices, for all
  gains and any size of a word.

`WInv` adds to `IInv` that `pid` is a set somebody gave, or its stored part the one
being given (`PidWhole`), and that the sector is always a `Remnant` of one record
(`SectorOfOne`): an erase takes words away, a save adds words of its own to an
erased sector, and neither mixes two records. Then only the checksum is between such a
remnant and T:221. The condition is about the gains and not about the code: the
checksum is a sum, so for a few sets the differences of several words cancel
out. It holds of the sets of the run `ConfigSave`, where resets cut erases and
saves short anywhere, and of the 32-bit words of a build with the default gains.
None of the three needs the order of stores: `Reorders` may be true.

`Encoder_proofs` proves, for any width of the totals that is a multiple of four,
any number of edges ahead and of lost ones (`EncoderAssumption`):

- `TypeCorrect`: `Spec => []TypeOK`
- `DifferencesAreMotion`: `Spec => []DeltaIsMotion`
- `Odometry`: `Spec => []OdometryBounded`

`IInv` (`Invariance`) has three parts: the type; `PlaceInv`, a snapshot is there
only while `encoder_update` has yet to add it; and per wheel `WheelInv`. No count
outgrows the edges ahead and those slipping (`Bounded`); the difference the next
packet takes is what was collected since the last; and the wheel has not moved yet
(`Unmoved`) or is `Tracked`: what is reported, collected and counted adds up to
what the wheel has turned but for a `Drift`, at most two for the first edge and
one for each slip, the edges between a copy and its clearing (`Slipping`)
counted as they slip. All sums are congruences modulo
the width (`Congruent` and its lemmas); `Signed` picks the representative of
least magnitude, which is why the width has to exceed twice the bound.

The assumptions are evaluated by TLC in every run of a module that extends
theirs. Only model-checked is liveness, which is out of the prover's reach:
`SilenceBringsStandstill`, `FailsafeReported`, `QueueDrains`, `LineDispatched`,
`MotionReported`, `RampArrives`, `LeavesRail`, `MotorsStop`. Of some of them the
proofs have the part that is safety: `QuietInTime` is the bounded form of
`SilenceBringsStandstill`, `NoLostWakeup` says that a queue has someone to drain it,
`RampClosesIn` and `RailUnwinds` are the steps of `RampArrives` and `LeavesRail`.

## What the models show of the code

Two runs end in a counterexample, a disagreement between a comment and what
the code does:

- `FailsafeOnlyWhenSilent`. After a failsafe or at boot the heartbeat is
  disarmed and `last_command_ms` is old. The next motion command arms it
  (`shared_state.cpp:67`) before it stores the time (`:68`). A control cycle in
  between sees an armed heartbeat with an old time: it stops the robot, zeroes
  the new setpoint and reports a heartbeat fault to a host that has just sent.
  Storing the time first would close the window. `EarlyFailsafe` proves that
  there is no other: an early failsafe falls into the execution of a motion
  command.
- `LineSentIsLineGiven`. `tx_buf` in `serial_send_line` is shared by two tasks:
  a telemetry line that is copied but not yet queued is overwritten by the line
  of `serial_task`, which is then sent twice. `AnswersIntact` proves that the
  reverse does not happen.

Two more disagreements are in the statement of a property that holds: the
property makes an exception of exactly what the comment denies, and TLC reaches
the states of that exception in the run `Board`.

- `WatchdogSparesSaves`. `astra_config.h:129` says of `control_task`: "feeds it
  every 20 ms, so normal operation never trips it." T:220 erases a sector, during
  which nothing is executed, `control_task` included, and SysTick does not count.
  `serial_task` goes from one line to the next without yielding
  (`main.cpp:389-399`), so T:220s that wait in the receive ring erase back to
  back, and some of them, of about a second each, take longer than the 3 s of the
  watchdog, which resets a board that drives. One T:220 between two cycles is
  spared, and so is any wait for the bus.
- `HalIsFree`. "Mutex guards all HAL I2C calls" (`i2c_bus.cpp:9`), but T:127 calls
  `HAL_I2C_DeInit` and `HAL_I2C_Init` without it (`json_cmd.cpp:154-157`). It may
  do so under a transaction of telemetry, which then runs into its timeout; and
  between the two calls `control_task` may find the mutex free and the peripheral
  down, so that its read of the IMU is refused (`HalIsDown`). Nothing worse comes
  of it: two transactions never meet, and who calls after T:127 is done finds the
  HAL ready.

Seen while modelling, without a comment that says otherwise:

- A port closed and opened again (DTR) while a task is between claim and
  transfer lets it transmit the old chunk, or clear a newer claim: bytes are
  repeated. Hence `IsFifo` is checked with the port left open.
- A line queued just before a suspension waits for the next send after it.
- A received line that follows a cut one is glued to it; the tail of an overlong
  line is dispatched as a line. `LineIntact` says that the reader is in step
  again after the next newline.
- An edge between the snapshot of a count and its clearing is lost
  (`encoder.cpp:58-61`), and the first edge after the start may be counted wrong
  by up to two, as the previous state is taken to be 00. The totals are not
  "monotonically increasing" (`shared_state.h:36`): they decrease in reverse.
- A cycle that takes the gains of one T:241 while the next is storing its own
  runs with a mixture of both until the next cycle; if the compiler stores the
  flag first, the new gains may never take effect.
- T:220 erases before it writes: a reset in between loses the old configuration,
  which T:221 then refuses. Nothing is loaded at boot. `astra_config.h:148` says
  T:220 saves the IMU calibration; the offsets saved are always zero.
- With targets of zero, after T:0 or a failsafe, the velocity branch still runs
  (`main.cpp:304-340`): the integrators and the yaw correction drive the motors of
  a robot that rolls or is turned, for as long as it is. `StandstillUnlessHeard` and
  `SilenceBringsStandstill` therefore speak of the setpoint (`Standstill`); that the
  motors are off can be said of the direct mode only.
- T:210 reports `SYS_IDLE` while the robot drives, until the next motion command.
- T:0 calls `motor_ctrl_set_speed(0, 0)`, but the profiled setpoint is local to
  `control_task` and stays: the next cycle drives again and ramps down.
- With a stuck bus `imu_update` takes longer than a period. `control_task` then
  never sleeps, and the other tasks do not run at all: no command gets through.
- If `HAL_IWDG_Init` fails, the board goes on without refreshing the watchdog
  (`main.cpp:139-142`). If the hardware does not count either, a hard fault leaves
  the motors driven for ever: `hardfault_capture` does not stop them
  (`stm32f4xx_it.cpp:58-60`). `MotorsStop` is about the boards whose watchdog is
  refreshed; TLC reaches a halted, unattended board that drives.
- The flags for a stack overflow and a failed allocation never reach the host:
  the hooks set them in memory and halt. After the reset every record is
  `FAULT_HARDFAULT`, and only the type in T:201 tells.
- A record torn by a reset has `valid` true and the rest of an older one. The
  counter `BKP5R` is never cleared, not "on clean boot" as `astra_config.h:136`
  has it.
- A fault before `HAL_IWDG_Init`, a failed allocation of the I2C mutex
  (`i2c_bus.cpp:27`) among them, halts the board for good, motors off.
- T:160 calls `imu_update` from `serial_task` while `control_task` does the same;
  neither the offsets nor the filter's state has a lock.
- The USB library ignores some requests altogether, neither answering nor
  refusing (`Ignored`); the host has to time out. GET_STATUS and GET_INTERFACE
  of the class are sent from variables of a function that has returned
  (`usbd_cdc.c:481`, `:493`): the answer is `Junk`.
- As VBUS is not sensed (`usbd_conf.c:69`), unplugging is a suspension: the port
  stays open. `USBD_CDC_Init` leaves an endpoint halted that was.

## What is not modelled

- Number formats, JSON parsing and formatting, CRC: no property depends on them.
- Clocks, pins, timers: straight-line configuration.
- FreeRTOS and the HAL are not in the repository; the models state what they
  assume of them (priorities and their inheritance, ticks, polling with a
  timeout, packets of endpoint 0), marked external.
- Of the USB library what this build does not compile or call: high speed,
  composite devices, isochronous callbacks, `USBD_DeInit`, `USBD_Stop`,
  disconnection. Commands of the class are at most one packet long, and no host
  asks for a line coding of no bytes (`RequestAssumption`).
- The contents of descriptors, beyond their lengths.
- What the IMU and the current sensor measure, the filter and the calibration:
  numbers no other state depends on but the yaw correction, which is an input of
  `VelocityLoop`.
- The host tools.
- The motor and the speed computed from the encoder counts: `VelocityLoop` takes
  any measured speed.
- Rounding of floats: `VelocityLoop` computes exactly.

## Plan

Modelled: every part of the firmware that keeps state of its own but for the IMU
filter. Worth doing next, in this order:

1. Compositions: `Encoder`'s deltas over a transmit path that drops packets;
   `DriveControl` with the outputs of `VelocityLoop`, for what a stopped robot's
   motors do, and with `Board`'s time, for cycles that come late by more than a
   period.
2. `imu_update` in two tasks: does the yaw integrate each stretch of time once?
