------------------------------- MODULE I2cBus -------------------------------
(***************************************************************************)
(* The three tasks and what they wait for: the I2C mutex of i2c_bus.cpp    *)
(* with its priority inheritance, the polled transactions of the HAL, the  *)
(* control period, an erase of the flash the code runs from, and the       *)
(* watchdog that only control_task refreshes.                              *)
(*                                                                         *)
(*  - FreeRTOS (external) runs the ready task of highest priority; who     *)
(*    holds the mutex has the priority of those who wait for it.           *)
(*  - Code takes no time, except: a transaction polls until it is over or  *)
(*    has timed out; serial_task and telemetry_task may compute for long   *)
(*    ("run"), serial_task for as long as bytes come.                      *)
(*  - While the flash is erased nothing is executed, not even SysTick: the *)
(*    watchdog, which has a clock of its own, goes on.                     *)
(***************************************************************************)
EXTENDS Integers

CONSTANTS
    Period,      \* CONTROL_PERIOD_MS, in ticks
    IoTimeout,   \* of a HAL transaction, in ticks
    EraseTicks,  \* the longest erase of a sector
    Reload,      \* IWDG_RELOAD_VAL, in ticks
    MaxSaves,    \* saves counts up to here, a bound
    MaxDebt      \* how many ticks control_task catches up, a bound

\* saves counts far enough to tell whether the erases, with a period, can have
\* taken as long as the watchdog allows.
ASSUME BusAssumption ==
    /\ Period \in Nat \ {0} /\ IoTimeout \in Nat
    /\ EraseTicks \in Nat /\ MaxDebt \in Nat
    /\ Reload \in Nat \ {0}
    /\ MaxSaves \in Nat /\ Period + MaxSaves * EraseTicks >= Reload

Tasks == {"control", "serial", "telemetry"}
Prio == [t \in Tasks |->
            IF t = "control" THEN 9 ELSE IF t = "serial" THEN 6 ELSE 2]

VARIABLES
    pc,      \* where each task is; "clear": between the stores of T:210,
             \* "deinit", "init": before each of the HAL calls of T:127
    owner,   \* of s_i2c_mutex
    State,   \* hi2c1.State
    io,      \* ticks since the transaction in progress began
    due,     \* ticks until control_task is to wake up
    stall,   \* ticks of an erase to come
    saves,   \* history: T:220s since control_task last woke up
    wdt      \* ticks since then, and so since HAL_IWDG_Refresh

bus_vars == <<pc, owner, State, io, due, stall, saves, wdt>>

-----------------------------------------------------------------------------
(* Scheduling *)

Waits(t) == pc[t] = "take" /\ owner \notin {"nobody", t}

Ready(t) ==
    /\ pc[t] = "sleep" => t = "control" /\ due <= 0
    /\ ~Waits(t)

\* Mutant of Reaches: a mutex without priority inheritance.
ReachesOwn(t, p) == Prio[t] >= p

\* the priority of t is at least p
Reaches(t, p) ==
    Prio[t] >= p \/ (t = owner /\ \E u \in Tasks : Waits(u) /\ Prio[u] >= p)

Runs(t) ==
    /\ stall = 0
    /\ Ready(t)
    /\ \A u \in Tasks \ {t} : Ready(u) =>
          \E v \in Tasks : Reaches(t, Prio[v]) /\ ~Reaches(u, Prio[v])

At(t, place) == Runs(t) /\ pc[t] = place
Goto(t, place) == pc' = [pc EXCEPT ![t] = place]

-----------------------------------------------------------------------------
(* i2c_write_registers, i2c_read_registers *)

Take(t) ==
    /\ At(t, "take")
    /\ owner' = t
    /\ Goto(t, "call")
    /\ UNCHANGED <<State, io, due, stall, saves, wdt>>

\* a HAL that is not ready refuses at once
Call(t) ==
    /\ At(t, "call")
    /\ io' = 0
    /\ \/ State = "READY" /\ State' = "BUSY" /\ Goto(t, "io")
       \/ State # "READY" /\ Goto(t, "give") /\ UNCHANGED State
    /\ UNCHANGED <<owner, due, stall, saves, wdt>>

\* done, refused by the device, or timed out
Return(t) ==
    /\ At(t, "io")
    /\ State' = "READY" /\ io' = 0
    /\ Goto(t, "give")
    /\ UNCHANGED <<owner, due, stall, saves, wdt>>

\* Mutant of Give: the mutex is given before the transaction.
GiveEarly(t) ==
    /\ \/ At(t, "give") /\ Goto(t, "run")
       \/ At(t, "call") /\ owner = t /\ UNCHANGED pc
    /\ owner' = "nobody"
    /\ UNCHANGED <<State, io, due, stall, saves, wdt>>

Give(t) ==
    /\ At(t, "give")
    /\ owner' = "nobody"
    /\ Goto(t, "run")
    /\ UNCHANGED <<State, io, due, stall, saves, wdt>>

-----------------------------------------------------------------------------
(* control_task *)

\* Mutant of CycleBegins: the next wake-up is moved on twice.
CycleBeginsTwice ==
    /\ At("control", "sleep")
    /\ wdt' = 0 /\ saves' = 0
    /\ due' = due + 2 * Period
    /\ Goto("control", "take")
    /\ UNCHANGED <<owner, State, io, stall>>

\* vTaskDelayUntil returns: the watchdog is refreshed, then imu_update reads.
CycleBegins ==
    /\ At("control", "sleep")
    /\ wdt' = 0 /\ saves' = 0
    /\ due' = due + Period
    /\ Goto("control", "take")
    /\ UNCHANGED <<owner, State, io, stall>>

CycleEnds ==
    /\ At("control", "run")
    /\ Goto("control", "sleep")
    /\ UNCHANGED <<owner, State, io, due, stall, saves, wdt>>

-----------------------------------------------------------------------------
(* serial_task and telemetry_task *)

Others == {"serial", "telemetry"}

Wake(t) ==
    /\ pc[t] = "sleep" /\ stall = 0
    /\ Goto(t, "run")
    /\ UNCHANGED <<owner, State, io, due, stall, saves, wdt>>

\* vTaskDelay, or a read of a sensor: T:128, T:150, T:160, T:200, telemetry
Proceed(t) ==
    /\ At(t, "run")
    /\ \E place \in {"sleep", "take"} : Goto(t, place)
    /\ UNCHANGED <<owner, State, io, due, stall, saves, wdt>>

\* T:127 looks at the state of the peripheral without the mutex ...
Scan ==
    /\ At("serial", "run")
    /\ Goto("serial", IF State = "READY" THEN "take" ELSE "deinit")
    /\ UNCHANGED <<owner, State, io, due, stall, saves, wdt>>

\* ... takes it down, be it under a transaction, which then polls until it
\* times out and leaves it ready ...
DeInit ==
    /\ At("serial", "deinit")
    /\ State' = "RESET"
    /\ Goto("serial", "init")
    /\ UNCHANGED <<owner, io, due, stall, saves, wdt>>

\* ... and, unless control_task comes in between, brings it up at once.
ReInit ==
    /\ At("serial", "init")
    /\ State' = "READY"
    /\ Goto("serial", "take")
    /\ UNCHANGED <<owner, io, due, stall, saves, wdt>>

\* T:220 erases the sector, and the next line may be another
Erase ==
    /\ At("serial", "run")
    /\ saves' = IF saves < MaxSaves THEN saves + 1 ELSE saves
    /\ stall' \in 1..EraseTicks
    /\ UNCHANGED <<pc, owner, State, io, due, wdt>>

-----------------------------------------------------------------------------
(* Time *)

\* SysTick: not before the running task, if it has control_task's priority,
\* has come to its next wait, and not before a poll has seen its timeout.
Tick ==
    /\ stall = 0
    /\ \A t \in Tasks : Runs(t) =>
          IF pc[t] = "io" THEN io < IoTimeout
          ELSE ~Reaches(t, Prio["control"])
    /\ due' = IF due > -MaxDebt THEN due - 1 ELSE due
    /\ io' = IF io < IoTimeout /\ \E t \in Tasks : pc[t] = "io"
             THEN io + 1 ELSE io
    /\ wdt' = IF wdt < Reload THEN wdt + 1 ELSE wdt
    /\ UNCHANGED <<pc, owner, State, stall, saves>>

Stall ==
    /\ stall > 0
    /\ stall' = stall - 1
    /\ wdt' = IF wdt < Reload THEN wdt + 1 ELSE wdt
    /\ UNCHANGED <<pc, owner, State, io, due, saves>>

-----------------------------------------------------------------------------
(* i2c_bus_init, and the tasks as vTaskStartScheduler finds them *)
Started == [t \in Tasks |-> IF t = "control" THEN "sleep" ELSE "run"]

BusInit ==
    /\ pc = Started
    /\ owner = "nobody" /\ State = "READY" /\ io = 0
    /\ due = Period /\ stall = 0 /\ saves = 0 /\ wdt = 0

\* what the tasks were at when the board halted, nobody sees again
TasksLost ==
    /\ pc' = Started
    /\ owner' = "nobody" /\ State' = "READY" /\ io' = 0
    /\ due' = Period /\ stall' = 0 /\ saves' = 0

\* a reset stops the watchdog
BusRestart == TasksLost /\ wdt' = 0

\* a step of a task that leaves the motors alone
BusStep ==
    \/ \E t \in Tasks : Take(t) \/ Call(t) \/ Return(t) \/ Give(t)
    \/ CycleBegins
    \/ \E t \in Others : Wake(t) \/ Proceed(t)
    \/ Scan \/ DeInit \/ ReInit \/ Erase

Places ==
    {"sleep", "run", "take", "call", "io", "give", "deinit", "init", "clear"}

BusTypeOK ==
    /\ pc \in [Tasks -> Places]
    /\ owner \in Tasks \cup {"nobody"}
    /\ State \in {"READY", "BUSY", "RESET"}
    /\ io \in 0..IoTimeout
    /\ due \in (-MaxDebt)..Period
    /\ stall \in 0..EraseTicks /\ saves \in 0..MaxSaves
    /\ wdt \in 0..Reload

\* T:127 has taken the peripheral down and not yet brought it up.
HalIsDown == pc["serial"] = "init"

\* The mutex keeps the HAL to one task, although T:127 resets the peripheral
\* without the mutex, under a transaction or not: no two transactions are ever
\* in progress, and who has the mutex finds the HAL ready unless T:127 is half
\* done (i2c_bus.cpp:9-24, json_cmd.cpp:154-157).
HalIsFree ==
    \A t \in Tasks :
        /\ pc[t] = "call" => State = "READY" \/ HalIsDown
        /\ pc[t] = "io" => \A u \in Tasks \ {t} : pc[u] # "io"
=============================================================================
