----------------------------- MODULE ConfigStore -----------------------------
(***************************************************************************)
(* The PID gains: serial_task sets them (T:241), resets them (T:223),      *)
(* saves them to flash (T:220) and loads them (T:221); control_task takes  *)
(* them over at its next cycle.                                            *)
(*                                                                         *)
(*  - control_task preempts serial_task between any two stores.  Its own   *)
(*    take-over is one action: nothing of a lower priority runs meanwhile. *)
(*  - g_state is not volatile: with Reorders the compiler has put the      *)
(*    store of the flag before others.  Which of the four gains goes first *)
(*    makes no difference and is left out.                                 *)
(*  - A reset (power, watchdog, fault) may come at any step.  Only the     *)
(*    flash survives it; nothing is loaded at boot.                        *)
(*  - A word of flash is its upper half, so that sums fit TLC's integers.  *)
(*    The six IMU offsets, always zero in a saved record, are one word.    *)
(***************************************************************************)
EXTENDS Naturals, Sequences

CONSTANTS
    WordMod,          \* 2^32
    CONFIG_MAGIC,
    CONFIG_VERSION,
    Defaults,         \* PID_KP, PID_KI, PID_KD, PID_KF
    HostGains,        \* the gains a host sets
    Reorders          \* may the flag be stored before the gains?

Gains == {"kp", "ki", "kd", "kf"}
GainSets == HostGains \cup {Defaults}
Word == 0..(WordMod - 1)
Erased == WordMod - 1

ASSUME WordAssumption ==
    /\ WordMod \in Nat \ {0}
    /\ CONFIG_MAGIC \in Word \ {Erased} /\ CONFIG_VERSION \in Word
    /\ GainSets \subseteq [Gains -> Word]
    /\ Reorders \in BOOLEAN

VARIABLES
    \* ---- g_state
    pid,              \* pid_kp .. pid_kf
    pid_gains_pending,
    \* ---- control_task
    active,           \* the gains in pid_left and pid_right
    \* ---- serial_task
    pc,
    new,              \* the gains it is storing, or the record it is saving
    done,             \* how many stores, or words, it has made
    \* ---- the flash sector
    flash,
    \* ---- history
    answer,           \* to the last T:220
    saved             \* the gains T:220 was to save

serial_vars == <<pc, new, done>>
vars == <<pid, pid_gains_pending, active, serial_vars, flash, answer, saved>>

-----------------------------------------------------------------------------
(* ConfigData *)

GainOrder == <<"kp", "ki", "kd", "kf">>
FieldOrder ==
    <<"magic", "version", "kp", "ki", "kd", "kf", "imu", "checksum">>
Fields == {FieldOrder[i] : i \in DOMAIN FieldOrder}

\* Mutant of calc_checksum: the last gain is left out.
calc_checksum_Short(cfg) ==
    (cfg.magic + cfg.version + cfg.kp + cfg.ki + cfg.kd + cfg.imu) % WordMod

\* Mutant of calc_checksum: the sum is wider than its word.
calc_checksum_Wide(cfg) ==
    cfg.magic + cfg.version + cfg.kp + cfg.ki + cfg.kd + cfg.kf + cfg.imu

calc_checksum(cfg) ==
    (cfg.magic + cfg.version + cfg.kp + cfg.ki + cfg.kd + cfg.kf + cfg.imu)
        % WordMod

\* the record config_store_save writes for gains g
Unsummed(g) ==
    [f \in Fields |-> IF f = "magic" THEN CONFIG_MAGIC
                      ELSE IF f = "version" THEN CONFIG_VERSION
                      ELSE IF f \in Gains THEN g[f] ELSE 0]
Record(g) ==
    [f \in Fields |-> IF f = "checksum" THEN calc_checksum(Unsummed(g))
                      ELSE Unsummed(g)[f]]

GainsOf(cfg) == [g \in Gains |-> cfg[g]]

\* Mutant of Loads: the sum is not compared.
LoadsUnchecked(cfg) ==
    cfg.magic = CONFIG_MAGIC /\ cfg.version = CONFIG_VERSION

\* config_store_load accepts it
Loads(cfg) ==
    /\ cfg.magic = CONFIG_MAGIC /\ cfg.version = CONFIG_VERSION
    /\ cfg.checksum = calc_checksum(cfg)

-----------------------------------------------------------------------------
(* Setting gains: T:241, T:221 and T:223 *)

Nothing == [g \in {} |-> 0]

StartStoring(gains) ==
    /\ pc = "idle"
    /\ pc' = "store"
    /\ new' = gains
    /\ done' = 0
    /\ UNCHANGED <<pid, pid_gains_pending, active, flash, answer, saved>>

SetGains == \E gains \in HostGains : StartStoring(gains)
ResetGains == StartStoring(Defaults)

\* a sector that does not load stores nothing
LoadGains == Loads(flash) /\ StartStoring(GainsOf(flash))

\* A command that has stored its flag ends with the last gain.
StoreGain ==
    /\ pc \in {"store", "flagged"}
    /\ done < Len(GainOrder)
    /\ pid' = [pid EXCEPT ![GainOrder[done + 1]] = new[GainOrder[done + 1]]]
    /\ done' = done + 1
    /\ IF pc = "flagged" /\ done' = Len(GainOrder)
       THEN pc' = "idle" /\ new' = Nothing
       ELSE UNCHANGED <<pc, new>>
    /\ UNCHANGED <<pid_gains_pending, active, flash, answer, saved>>

\* pid_gains_pending := flag
StoreFlag(flag) ==
    /\ pc = "store"
    /\ done = Len(GainOrder) \/ Reorders
    /\ pid_gains_pending' = flag
    /\ IF done = Len(GainOrder)
       THEN pc' = "idle" /\ new' = Nothing
       ELSE pc' = "flagged" /\ UNCHANGED new
    /\ UNCHANGED <<pid, active, done, flash, answer, saved>>

\* Mutant of StorePending: T:223 forgets the flag.
StorePendingUnlessReset == StoreFlag(pid_gains_pending \/ new # Defaults)

StorePending == StoreFlag(TRUE)

\* control_task initialises both PIDs
TakeGains ==
    /\ pid_gains_pending
    /\ pid_gains_pending' = FALSE
    /\ active' = pid
    /\ UNCHANGED <<pid, serial_vars, flash, answer, saved>>

-----------------------------------------------------------------------------
(* config_store_save: T:220 *)

StartSaving ==
    /\ pc = "idle"
    /\ pc' = "erase"
    /\ new' = Record(pid)
    /\ done' = 0
    /\ saved' = pid
    /\ answer' = "none"
    /\ UNCHANGED <<pid, pid_gains_pending, active, flash>>

Answer(a) ==
    /\ pc' = "idle"
    /\ new' = Nothing
    /\ answer' = a
    /\ UNCHANGED <<pid, pid_gains_pending, active, done, saved>>

\* what an erase that is not completed leaves
PartlyErased ==
    {[f \in Fields |-> IF f \in gone THEN Erased ELSE flash[f]] :
        gone \in SUBSET Fields}

EraseSector ==
    /\ pc = "erase"
    /\ flash' = [f \in Fields |-> Erased]
    /\ pc' = "program"
    /\ UNCHANGED <<pid, pid_gains_pending, active, new, done, answer, saved>>

EraseFails ==
    /\ pc = "erase"
    /\ flash' \in PartlyErased
    /\ Answer("failed")

\* one word after the other
ProgramWord ==
    /\ pc = "program"
    /\ done < Len(FieldOrder)
    /\ flash' = [flash EXCEPT ![FieldOrder[done + 1]] =
                    new[FieldOrder[done + 1]]]
    /\ done' = done + 1
    /\ UNCHANGED <<pid, pid_gains_pending, active, pc, new, answer, saved>>

\* Mutant of ProgramFails: the failure is not reported.
ProgramFailsUnseen ==
    /\ pc = "program"
    /\ done < Len(FieldOrder)
    /\ UNCHANGED flash
    /\ Answer("ok")

ProgramFails ==
    /\ pc = "program"
    /\ done < Len(FieldOrder)
    /\ UNCHANGED flash
    /\ Answer("failed")

Saved ==
    /\ pc = "program"
    /\ done = Len(FieldOrder)
    /\ UNCHANGED flash
    /\ Answer("ok")

-----------------------------------------------------------------------------
(* Reset and the specification *)

\* An erase under way is left undone; a word is programmed or not.
Reset ==
    /\ pid' = Defaults
    /\ pid_gains_pending' = FALSE
    /\ active' = Defaults
    /\ pc' = "idle"
    /\ new' = Nothing
    /\ done' = 0
    /\ flash' \in IF pc = "erase" THEN PartlyErased ELSE {flash}
    /\ answer' = IF pc \in {"erase", "program"} THEN "cut" ELSE answer
    /\ UNCHANGED saved

\* a board whose sector was never written
Init ==
    /\ pid = Defaults
    /\ pid_gains_pending = FALSE
    /\ active = Defaults
    /\ pc = "idle"
    /\ new = Nothing
    /\ done = 0
    /\ flash = [f \in Fields |-> Erased]
    /\ answer = "none"
    /\ saved = Defaults

SerialTask ==
    \/ SetGains \/ ResetGains \/ LoadGains \/ StoreGain \/ StorePending
    \/ StartSaving \/ EraseSector \/ EraseFails \/ ProgramWord \/ ProgramFails
    \/ Saved

Next == SerialTask \/ TakeGains \/ Reset

Spec == Init /\ [][Next]_vars
-----------------------------------------------------------------------------
(* Properties *)

\* Every variable keeps its type.
TypeOK ==
    /\ pid \in [Gains -> Word] /\ active \in [Gains -> Word]
    /\ pid_gains_pending \in BOOLEAN
    /\ pc \in {"idle", "store", "flagged", "erase", "program"}
    /\ new \in [Gains -> Word] \cup [Fields -> Word] \cup {Nothing}
    /\ done \in 0..Len(FieldOrder)
    /\ flash \in [Fields -> Word]
    /\ answer \in {"none", "ok", "failed", "cut"}
    /\ saved \in [Gains -> Word]

\* Between commands the PIDs run with the gains T:240 reports, or will from the
\* next cycle on (json_cmd.cpp:476): a cycle that takes over the gains of one
\* command while the next one is storing its own does not swallow them, as long
\* as the flag is stored last.
GainsTakeEffect ==
    pc = "idle" /\ ~pid_gains_pending => active = pid

\* Whatever step of a save power fails or the flash refuses, and however often,
\* T:221 and T:241 leave a set of gains that somebody gave as a whole, never
\* one put together from a sector half erased or half written
\* (config_store.cpp:34-64).
GainsWhole ==
    pc = "idle" => pid \in GainSets

\* After T:220 has answered ok the sector loads, and gives the gains that were
\* saved, through every reset until the next T:220.
AnswerHolds ==
    answer = "ok" /\ pc # "erase" => Loads(flash) /\ GainsOf(flash) = saved

\* A save that fails or is cut short never makes the sector load with anything
\* but the gains it was to save: whatever of the old record an erase leaves, it
\* is not taken for a record (config_store.cpp:57-64).
SectorNeverMixed ==
    [][Loads(flash') => flash' = flash \/ GainsOf(flash') = saved]_vars

-----------------------------------------------------------------------------
(* What the last two properties rest on *)

\* the sector with the record of g, the words in gone erased or not yet written
Remnant(g, gone) ==
    [f \in Fields |-> IF f \in gone THEN Erased ELSE Record(g)[f]]

\* The sum of the words (config_store.cpp:7-13) notices that words are erased.
\* One erased word it always notices; for a few sets of gains the differences
\* of several words cancel out.
ChecksumNotices ==
    \A g \in GainSets, gone \in SUBSET Fields :
        Loads(Remnant(g, gone)) => Remnant(g, gone) = Record(g)
=============================================================================
