---------------------------- MODULE FaultRecords ----------------------------
(***************************************************************************)
(* What a fault leaves behind: hardfault_capture and the FreeRTOS hooks    *)
(* write the backup registers store by store and halt the board, a reset   *)
(* restarts it, shared_state_init turns what it finds into fault flags,    *)
(* T:201 shows the record and T:210 clears it.                             *)
(*                                                                         *)
(*  - The backup registers and the reset flag survive a reset, memory does *)
(*    not; only a loss of power clears the registers.                      *)
(*  - The four registers of the stack frame are one value.                 *)
(*  - The board may be reset by its button at any time.                    *)
(***************************************************************************)
EXTENDS Integers, Sequences

CONSTANTS
    Frames,     \* stack frames of hard faults
    MaxFaults   \* bound: faults since power-on

ASSUME FaultAssumption == MaxFaults \in Nat /\ 0 \notin Frames

Kinds == {"hardfault", "stack_overflow", "malloc_failed"}

VARIABLES
    phase,        \* boot: before shared_state_init; init: before
                  \* HAL_IWDG_Init; run; capture: a handler at work; halted
    hiwdg,        \* the watchdog: off; enabled: control_task refreshes it;
                  \* unattended: HAL_IWDG_Init has failed
    IWDGRST,      \* the reset flag of the RCC
    fault_flags,  \* of g_state
    BKP,          \* the backup registers
    fault,        \* what is being captured
    stored,       \* how many of its stores are done
    driving,      \* do the timers drive the motors?
    pending,      \* history: is a record begun and not yet cleared,
    last,         \* which one was begun last,
    torn          \* and was it left unfinished?

record_vars == <<BKP, stored, pending, last, torn>>
fault_vars ==
    <<phase, hiwdg, IWDGRST, fault_flags, fault, driving, record_vars>>

NoFault == [kind |-> "hardfault", frame |-> 0]
Fault == [kind : Kinds, frame : Frames \cup {0}]

\* HF_BKP_MAGIC_VAL in BKP0R
Valid == BKP.magic

\* what T:201 shows
Dump == [kind |-> BKP.type, frame |-> BKP.frame]

-----------------------------------------------------------------------------
(* The handlers *)

Capture(f) ==
    /\ BKP.count < MaxFaults
    /\ phase' = "capture" /\ fault' = f /\ stored' = 0
    /\ UNCHANGED <<hiwdg, IWDGRST, BKP, pending, last, torn>>

HardFault ==
    /\ phase \in {"boot", "init", "run"}
    /\ \E f \in Frames : Capture([kind |-> "hardfault", frame |-> f])
    /\ UNCHANGED <<fault_flags, driving>>

\* vApplicationStackOverflowHook, called by the scheduler;
\* vApplicationMallocFailedHook, by xSemaphoreCreateMutex and xTaskCreate
Hook ==
    /\ \E k \in {"stack_overflow", "malloc_failed"} :
          /\ phase = "run" \/ (phase = "init" /\ k = "malloc_failed")
          /\ Capture([kind |-> k, frame |-> 0])
          /\ fault_flags' = fault_flags \cup {k}
    /\ driving' = FALSE

\* The stack pointer is bad: hardfault_capture itself faults and the core
\* locks up.
Lockup ==
    /\ phase \in {"boot", "init", "run"}
    /\ phase' = "halted"
    /\ UNCHANGED <<hiwdg, IWDGRST, fault_flags, fault, driving, record_vars>>

Order == <<"magic", "frame", "count", "type">>

\* Mutant of Written: the hooks leave the type to the reader.
WrittenUntyped(register) ==
    CASE register = "magic" -> TRUE
      [] register = "frame" -> fault.frame
      [] register = "count" -> BKP.count + 1
      [] register = "type" ->
            IF fault.frame = 0 THEN BKP.type ELSE fault.kind

Written(register) ==
    CASE register = "magic" -> TRUE
      [] register = "frame" -> fault.frame
      [] register = "count" -> BKP.count + 1
      [] register = "type" -> fault.kind

Store ==
    /\ phase = "capture" /\ stored < Len(Order)
    /\ stored' = stored + 1
    /\ BKP' = [BKP EXCEPT ![Order[stored']] = Written(Order[stored'])]
    /\ pending' = TRUE /\ last' = fault /\ torn' = (stored' < Len(Order))
    /\ UNCHANGED <<phase, hiwdg, IWDGRST, fault_flags, fault, driving>>

Halt ==
    /\ phase = "capture" /\ stored = Len(Order)
    /\ phase' = "halted"
    /\ UNCHANGED <<hiwdg, IWDGRST, fault_flags, fault, driving, record_vars>>

-----------------------------------------------------------------------------
(* Resets, and what main does before the scheduler runs *)

Restart ==
    /\ phase' = "boot" /\ hiwdg' = "off"
    /\ fault_flags' = {} /\ driving' = FALSE
    /\ fault' = NoFault /\ stored' = 0

WatchdogReset ==
    /\ hiwdg # "off"
    /\ Restart
    /\ IWDGRST' = TRUE
    /\ UNCHANGED <<BKP, pending, last, torn>>

Button ==
    /\ Restart
    /\ UNCHANGED <<IWDGRST, BKP, pending, last, torn>>

NoRecord ==
    [magic |-> FALSE, frame |-> 0, count |-> 0, type |-> "hardfault"]

PowerCycle ==
    /\ Restart
    /\ IWDGRST' = FALSE /\ BKP' = NoRecord
    /\ pending' = FALSE /\ last' = NoFault /\ torn' = FALSE

SharedStateInit ==
    /\ phase = "boot"
    /\ phase' = "init"
    /\ fault_flags' = {k \in {"iwdg_reset", "hardfault"} :
                          IF k = "hardfault" THEN Valid ELSE IWDGRST}
    /\ IWDGRST' = FALSE
    /\ UNCHANGED <<hiwdg, fault, driving, record_vars>>

\* If HAL_IWDG_Init fails the board goes on, with g_watchdog_enabled false: it
\* has started the hardware, which may or may not count, and nobody refreshes
\* it.
IwdgInit ==
    /\ phase = "init"
    /\ phase' = "run" /\ hiwdg' \in {"enabled", "unattended"}
    /\ UNCHANGED <<IWDGRST, fault_flags, fault, driving, record_vars>>

-----------------------------------------------------------------------------
(* While the tasks run *)

\* T:210, whose two steps control_task and a reset may part
ClearFlags ==
    /\ phase = "run"
    /\ fault_flags' = {}
    /\ UNCHANGED <<phase, hiwdg, IWDGRST, fault, driving, record_vars>>

ClearMagic ==
    /\ phase = "run"
    /\ BKP' = [BKP EXCEPT !.magic = FALSE]
    /\ pending' = FALSE /\ torn' = FALSE
    /\ UNCHANGED <<phase, hiwdg, IWDGRST, fault_flags, fault, driving, stored,
                   last>>

\* motor_ctrl_set_speed at the end of a control cycle
SetMotors ==
    /\ phase = "run"
    /\ driving' \in BOOLEAN
    /\ UNCHANGED <<phase, hiwdg, IWDGRST, fault_flags, fault, record_vars>>

\* the board is switched on for the first time
FaultInit ==
    /\ phase = "boot" /\ hiwdg = "off" /\ IWDGRST = FALSE
    /\ fault_flags = {} /\ driving = FALSE
    /\ BKP = NoRecord /\ fault = NoFault /\ stored = 0
    /\ pending = FALSE /\ last = NoFault /\ torn = FALSE

FaultTypeOK ==
    /\ phase \in {"boot", "init", "run", "capture", "halted"}
    /\ hiwdg \in {"off", "enabled", "unattended"}
    /\ {IWDGRST, driving, pending, torn} \subseteq BOOLEAN
    /\ fault_flags \subseteq Kinds \cup {"iwdg_reset"}
    /\ BKP \in [magic : BOOLEAN, frame : Frames \cup {0},
                count : 0..MaxFaults, type : Kinds]
    /\ fault \in Fault /\ last \in Fault
    /\ stored \in 0..Len(Order)
=============================================================================
