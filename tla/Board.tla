------------------------------- MODULE Board -------------------------------
(***************************************************************************)
(* The board from power-on to reset: the tasks of I2cBus run until a fault *)
(* of FaultRecords halts them or the watchdog resets the chip.             *)
(***************************************************************************)
EXTENDS I2cBus, FaultRecords

\* 3 s, against 0.2 s for a transaction
ASSUME ReloadAssumption == Reload > 2 * IoTimeout

vars == <<bus_vars, fault_vars>>

\* the watchdog has not been refreshed in time
Expired == hiwdg = "enabled" /\ wdt = Reload

TasksRun == phase = "run" /\ ~Expired

\* main, up to vTaskStartScheduler
Boot == (SharedStateInit \/ IwdgInit) /\ UNCHANGED bus_vars

Step == TasksRun /\ BusStep /\ UNCHANGED fault_vars

Drive == TasksRun /\ CycleEnds /\ SetMotors

\* T:210
Clear ==
    /\ TasksRun
    /\ \/ At("serial", "run") /\ Goto("serial", "clear") /\ ClearFlags
       \/ At("serial", "clear") /\ Goto("serial", "run") /\ ClearMagic
    /\ UNCHANGED <<owner, State, io, due, stall, saves, wdt>>

Time ==
    /\ TasksRun
    /\ Tick \/ Stall
    /\ UNCHANGED fault_vars

\* Mutant of HaltTime: the loop of the handler refreshes the watchdog.
HaltTimeRefreshed ==
    /\ phase = "halted" /\ hiwdg = "enabled" /\ wdt < Reload
    /\ wdt' = 0
    /\ UNCHANGED <<pc, owner, State, io, due, stall, saves, fault_vars>>

\* on a halted board only the watchdog's clock goes on
HaltTime ==
    /\ phase = "halted" /\ hiwdg = "enabled" /\ wdt < Reload
    /\ wdt' = wdt + 1
    /\ UNCHANGED <<pc, owner, State, io, due, stall, saves, fault_vars>>

\* a fault in whatever runs; while the flash is erased nothing does
Fails ==
    /\ stall = 0 /\ ~Expired
    /\ HardFault \/ Hook \/ Lockup
    /\ TasksLost
    /\ UNCHANGED wdt

Capturing == (Store \/ Halt) /\ UNCHANGED bus_vars

Bite == Expired /\ WatchdogReset /\ BusRestart

\* a watchdog that nobody refreshes runs out at some time, if it counts
StrayBite == hiwdg = "unattended" /\ WatchdogReset /\ BusRestart

Init == BusInit /\ FaultInit

Next ==
    \/ Boot \/ Step \/ Drive \/ Clear \/ Time
    \/ Fails \/ Capturing \/ HaltTime \/ Bite \/ StrayBite
    \/ (Button \/ PowerCycle) /\ BusRestart

\* The handlers come to their loop, and the watchdog's clock runs.
Fairness ==
    /\ WF_vars(Capturing)
    /\ WF_vars(HaltTime)
    /\ WF_vars(Bite)

Spec == Init /\ [][Next]_vars /\ Fairness
-----------------------------------------------------------------------------
(* Properties *)

\* Every variable keeps its type.
TypeOK == BusTypeOK /\ FaultTypeOK

\* A watchdog that control_task refreshes runs out only after a fault, or when
\* the erases of T:220s sent back to back add up, with a period, to its reload
\* value; not because control_task waits for a bus that a task of lower
\* priority holds until its time runs out, and then for its own transaction
\* (i2c_bus.cpp:49-70, main.cpp:222-226, config_store.cpp:22-34).
WatchdogSparesSaves ==
    Expired => phase = "halted" \/ Period + saves * EraseTicks >= Reload

Settled == phase = "run" /\ pc["serial"] # "clear"

\* After any number of resets the host is told of the last fault until T:210
\* or a loss of power clears it: the flag, valid, and, if the record was
\* written to its end, its type and registers; and of none if there is none
\* (stm32f4xx_it.cpp:46-57, shared_state.cpp:18-21, json_cmd.cpp:375-410).
FaultReported ==
    Settled =>
        /\ pending <=> Valid
        /\ pending <=> "hardfault" \in fault_flags
        /\ pending /\ ~torn => Dump = last

\* A board that a fault has halted does not drive its motors for ever: the
\* timers go on by themselves until the watchdog resets the chip, unless
\* HAL_IWDG_Init had failed (stm32f4xx_it.cpp:58-60, main.cpp:136-142).
MotorsStop == phase = "halted" /\ hiwdg # "unattended" ~> ~driving
=============================================================================
