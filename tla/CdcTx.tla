------------------------------- MODULE CdcTx -------------------------------
(***************************************************************************)
(* The transmit path of the USB CDC port: serial_send_line, CDC_Transmit_FS*)
(* and CDC_KickTransmit_FS, run by two tasks, and the USB interrupt that   *)
(* completes transfers, opens and closes the port and configures the       *)
(* device.                                                                 *)
(*                                                                         *)
(*  - serial_task preempts telemetry_task anywhere and then runs until it  *)
(*    has sent its line: HAL_Delay spins.                                  *)
(*  - The interrupt preempts both, except between irq_save and             *)
(*    irq_restore: such a section is one action here, and so is each       *)
(*    handler of the interrupt.                                            *)
(*  - A transfer, its zero-length packet included, is one action: the host *)
(*    takes it and the completion interrupt runs.                          *)
(*  - tx_drop_count, a diagnostic, is left out.                            *)
(***************************************************************************)
EXTENDS Integers, Sequences

CONSTANTS
    TxSize,      \* APP_TX_DATA_SIZE
    ChunkSize,   \* CDC_TX_CHUNK_SIZE
    LineLen,     \* bytes of a line, its newline included
    MaxLines,    \* bound: how many lines each task sends
    MaxRetries,  \* how often serial_send_line retries (50 in the code)
    Suspends,    \* may the host suspend the bus,
    Toggles,     \* close the port
    Resets       \* or reset the bus?

ASSUME SizeAssumption ==
    /\ TxSize \in Nat \ {0} /\ ChunkSize \in Nat \ {0}
    /\ LineLen \in Nat \ {0} /\ LineLen < TxSize
    /\ MaxLines \in Nat /\ MaxRetries \in Nat
    /\ {Suspends, Toggles, Resets} \subseteq BOOLEAN

Tasks == {"telemetry", "serial"}
LineIds == Tasks \X (1..MaxLines)
Bytes == LineIds \X (1..LineLen)
NoByte == <<>>
BytesOf(line) == [i \in 1..LineLen |-> <<line, i>>]

VARIABLES
    \* ---- the transmit ring of usbd_cdc_if.c
    ring,            \* UserTxBufferFS
    tx_head, tx_tail,
    tx_in_flight,
    cdc_port_open,
    \* ---- the USB device library
    dev_state,       \* configured, suspended, or not configured: default
    TxState,         \* hcdc->TxState
    TxBuffer,        \* hcdc->TxBuffer, as an offset into the ring
    TxLength,
    transfer,        \* what the endpoint transmits: <<offset, length>> or none
    \* ---- the tasks
    tx_buf,          \* serial_send_line's static buffer: the line it holds
    pc,
    sent,            \* number of the line each task sends, or has sent
    retry,
    kick,            \* the tail and the chunk CDC_KickTransmit_FS works on
    \* ---- the host
    host             \* history: bytes received since the port was configured

ring_vars == <<ring, tx_head, tx_tail, tx_in_flight>>
class_vars == <<TxState, TxBuffer, TxLength, transfer>>
task_vars == <<tx_buf, pc, sent, retry, kick>>
vars == <<ring_vars, class_vars, task_vars, cdc_port_open, dev_state, host>>

NoTransfer == <<>>
NoKick == [tail |-> 0, chunk |-> 0]

-----------------------------------------------------------------------------
(* The ring *)

Used(head, tail) == IF head >= tail THEN head - tail ELSE TxSize - tail + head
Free(head, tail) == (TxSize - 1) - Used(head, tail)

\* Mutant of Wrap: off by one.
WrapLate(i) == IF i > TxSize THEN i - TxSize ELSE i

Wrap(i) == IF i >= TxSize THEN i - TxSize ELSE i

Least(a, b) == IF a < b THEN a ELSE b

\* Mutant of Chunk: the end of the ring is forgotten.
ChunkAround(head, tail) == Least(ChunkSize, Used(head, tail))

\* the longest run of queued bytes that neither wraps nor exceeds a chunk
Chunk(head, tail) == Least(ChunkSize, Least(Used(head, tail), TxSize - tail))

Content(off, len) == [i \in 1..len |-> ring[Wrap(off + i - 1)]]
Queue == Content(tx_tail, Used(tx_head, tx_tail))

Configured == dev_state = "configured"

-----------------------------------------------------------------------------
(* serial_send_line and CDC_Transmit_FS *)

Runs(t) == t = "serial" \/ pc["serial"] = "idle"
At(t, label) == Runs(t) /\ pc[t] = label
Goto(t, label) == pc' = [pc EXCEPT ![t] = label]

\* back from serial_send_line: its locals are gone
Return(t) ==
    /\ Goto(t, "idle")
    /\ retry' = [retry EXCEPT ![t] = 0]
    /\ kick' = [kick EXCEPT ![t] = NoKick]

\* the line is copied into the static buffer
SendLine(t) ==
    /\ At(t, "idle")
    /\ sent[t] < MaxLines
    /\ sent' = [sent EXCEPT ![t] = @ + 1]
    /\ tx_buf' = <<t, sent'[t]>>
    /\ Goto(t, "check")
    /\ UNCHANGED <<ring_vars, class_vars, retry, kick, cdc_port_open,
                   dev_state, host>>

\* the device must be configured: tested before the lock
CheckState(t) ==
    /\ At(t, "check")
    /\ Goto(t, IF Configured THEN "enqueue" ELSE "delay")
    /\ UNCHANGED <<ring_vars, class_vars, tx_buf, sent, retry, kick,
                   cdc_port_open, dev_state, host>>

\* with interrupts masked: the whole of tx_buf goes into the ring
Enqueue(t) ==
    /\ At(t, "enqueue")
    /\ LineLen <= Free(tx_head, tx_tail)
    /\ ring' = [i \in DOMAIN ring |->
                    LET n == Wrap(i + TxSize - tx_head)
                    IN  IF n < LineLen THEN <<tx_buf, n + 1>> ELSE ring[i]]
    /\ tx_head' = Wrap(tx_head + LineLen)
    /\ Goto(t, "kick")
    /\ UNCHANGED <<tx_tail, tx_in_flight, class_vars, tx_buf, sent, retry,
                   kick, cdc_port_open, dev_state, host>>

RingFull(t) ==
    /\ At(t, "enqueue")
    /\ LineLen > Free(tx_head, tx_tail)
    /\ Goto(t, "delay")
    /\ UNCHANGED <<ring_vars, class_vars, tx_buf, sent, retry, kick,
                   cdc_port_open, dev_state, host>>

\* HAL_Delay(1), then the next try; after the last one the line is lost
Delay(t) ==
    /\ At(t, "delay")
    /\ IF retry[t] < MaxRetries
       THEN /\ retry' = [retry EXCEPT ![t] = @ + 1]
            /\ Goto(t, "check")
            /\ UNCHANGED kick
       ELSE Return(t)
    /\ UNCHANGED <<ring_vars, class_vars, tx_buf, sent, cdc_port_open,
                   dev_state, host>>

-----------------------------------------------------------------------------
(* CDC_KickTransmit_FS in a task *)

\* tested before the lock: nothing to do for a busy endpoint
KickTest(t) ==
    /\ At(t, "kick")
    /\ IF Configured /\ TxState = 0
       THEN Goto(t, "lock") /\ UNCHANGED <<retry, kick>>
       ELSE Return(t)
    /\ UNCHANGED <<ring_vars, class_vars, tx_buf, sent, cdc_port_open,
                   dev_state, host>>

\* Mutant of KickLock: tx_in_flight is not tested.
KickLockTwice(t) ==
    /\ At(t, "lock")
    /\ IF tx_head # tx_tail
       THEN /\ kick' = [kick EXCEPT ![t] =
                           [tail |-> tx_tail,
                            chunk |-> Chunk(tx_head, tx_tail)]]
            /\ tx_in_flight' = Chunk(tx_head, tx_tail)
            /\ Goto(t, "set")
            /\ UNCHANGED retry
       ELSE Return(t) /\ UNCHANGED tx_in_flight
    /\ UNCHANGED <<ring, tx_head, tx_tail, class_vars, tx_buf, sent,
                   cdc_port_open, dev_state, host>>

\* with interrupts masked: claim the next chunk
KickLock(t) ==
    /\ At(t, "lock")
    /\ IF tx_in_flight = 0 /\ tx_head # tx_tail
       THEN /\ kick' = [kick EXCEPT ![t] =
                           [tail |-> tx_tail,
                            chunk |-> Chunk(tx_head, tx_tail)]]
            /\ tx_in_flight' = Chunk(tx_head, tx_tail)
            /\ Goto(t, "set")
            /\ UNCHANGED retry
       ELSE Return(t) /\ UNCHANGED tx_in_flight
    /\ UNCHANGED <<ring, tx_head, tx_tail, class_vars, tx_buf, sent,
                   cdc_port_open, dev_state, host>>

\* USBD_CDC_SetTxBuffer: does nothing when the class has gone
KickSet(t) ==
    /\ At(t, "set")
    /\ IF dev_state # "default"
       THEN TxBuffer' = kick[t].tail /\ TxLength' = kick[t].chunk
       ELSE UNCHANGED <<TxBuffer, TxLength>>
    /\ Goto(t, "packet")
    /\ UNCHANGED <<ring_vars, TxState, transfer, tx_buf, sent, retry, kick,
                   cdc_port_open, dev_state, host>>

\* USBD_CDC_TransmitPacket: claim the endpoint
KickPacket(t) ==
    /\ At(t, "packet")
    /\ IF dev_state # "default" /\ TxState = 0
       THEN TxState' = 1 /\ Goto(t, "start")
       ELSE UNCHANGED TxState /\ Goto(t, "fail")
    /\ UNCHANGED <<ring_vars, TxBuffer, TxLength, transfer, tx_buf, sent,
                   retry, kick, cdc_port_open, dev_state, host>>

\* ... and USBD_LL_Transmit what the handle holds now
KickStart(t) ==
    /\ At(t, "start")
    /\ transfer' = (IF dev_state # "default" THEN <<TxBuffer, TxLength>>
                    ELSE transfer)
    /\ Return(t)
    /\ UNCHANGED <<ring_vars, TxState, TxBuffer, TxLength, tx_buf, sent,
                   cdc_port_open, dev_state, host>>

\* the transfer was refused: the claim is given up
KickFail(t) ==
    /\ At(t, "fail")
    /\ tx_in_flight' = 0
    /\ Return(t)
    /\ UNCHANGED <<ring, tx_head, tx_tail, class_vars, tx_buf, sent,
                   cdc_port_open, dev_state, host>>

TaskStep(t) ==
    \/ CheckState(t) \/ Enqueue(t) \/ RingFull(t) \/ Delay(t)
    \/ KickTest(t) \/ KickLock(t) \/ KickSet(t) \/ KickPacket(t)
    \/ KickStart(t) \/ KickFail(t)

-----------------------------------------------------------------------------
(* The USB interrupt *)

\* CDC_KickTransmit_FS in a handler, which nothing interrupts: from the given
\* values of TxState, transfer, tx_in_flight and tx_tail on
KickInHandler(state, running, flight, tail) ==
    LET chunk == Chunk(tx_head, tail) IN
    IF state = 0 /\ flight = 0 /\ tx_head # tail
    THEN /\ tx_in_flight' = chunk
         /\ TxBuffer' = tail /\ TxLength' = chunk
         /\ TxState' = 1
         /\ transfer' = <<tail, chunk>>
    ELSE /\ tx_in_flight' = flight
         /\ TxState' = state
         /\ transfer' = running
         /\ UNCHANGED <<TxBuffer, TxLength>>

\* what CDC_TransmitCplt_FS takes for the length of the finished transfer
SentLength ==
    IF TxLength = 0 \/ TxLength > tx_in_flight THEN tx_in_flight ELSE TxLength

\* Mutant of Completed: the next chunk is left to the tasks.
CompletedNoKick ==
    /\ tx_tail' = Wrap(tx_tail + SentLength)
    /\ tx_in_flight' = 0 /\ TxState' = 0 /\ transfer' = NoTransfer
    /\ UNCHANGED <<TxBuffer, TxLength>>

\* USBD_CDC_DataIn and CDC_TransmitCplt_FS
Completed ==
    /\ tx_tail' = Wrap(tx_tail + SentLength)
    /\ KickInHandler(0, NoTransfer, 0, tx_tail')

\* The host takes what the endpoint transmits.  This is the end of a transfer:
\* if it fills its last packet, the second interrupt, after the empty packet
\* that USBD_CDC_DataIn has sent at the first (UsbDevice, ShortPacketEnds).
DataIn ==
    /\ Configured
    /\ transfer # NoTransfer
    /\ host' = host \o Content(transfer[1], transfer[2])
    /\ Completed
    /\ UNCHANGED <<ring, tx_head, task_vars, cdc_port_open, dev_state>>

\* CDC_SET_CONTROL_LINE_STATE: DTR
OpenPort ==
    /\ Configured
    /\ cdc_port_open' = TRUE
    /\ KickInHandler(TxState, transfer, tx_in_flight, tx_tail)
    /\ UNCHANGED <<ring, tx_head, tx_tail, task_vars, dev_state, host>>

ClearRing == tx_head' = 0 /\ tx_tail' = 0 /\ tx_in_flight' = 0

ClosePort ==
    /\ Toggles
    /\ Configured
    /\ cdc_port_open' = FALSE
    /\ ClearRing
    /\ UNCHANGED <<ring, class_vars, task_vars, dev_state, host>>

Suspend ==
    /\ Suspends
    /\ Configured
    /\ dev_state' = "suspended"
    /\ UNCHANGED <<ring_vars, class_vars, task_vars, cdc_port_open, host>>

Resume ==
    /\ dev_state = "suspended"
    /\ dev_state' = "configured"
    /\ UNCHANGED <<ring_vars, class_vars, task_vars, cdc_port_open, host>>

\* bus reset: CDC_DeInit_FS, and the class handle is freed
BusReset ==
    /\ Resets
    /\ dev_state # "default"
    /\ dev_state' = "default"
    /\ cdc_port_open' = FALSE
    /\ ClearRing
    /\ transfer' = NoTransfer
    /\ UNCHANGED <<ring, TxState, TxBuffer, TxLength, task_vars, host>>

\* SET_CONFIGURATION: a zeroed class handle, CDC_Init_FS
Configure ==
    /\ dev_state = "default"
    /\ dev_state' = "configured"
    /\ cdc_port_open' = FALSE
    /\ ClearRing
    /\ TxState' = 0 /\ TxBuffer' = 0 /\ TxLength' = 0
    /\ host' = <<>>
    /\ UNCHANGED <<ring, transfer, task_vars>>

Interrupt ==
    \/ DataIn \/ OpenPort \/ ClosePort \/ Suspend \/ Resume \/ BusReset
    \/ Configure

-----------------------------------------------------------------------------
(* The specification *)

\* serial_init has run; the host has yet to configure the device.
Init ==
    /\ ring = [i \in 0..(TxSize - 1) |-> NoByte]
    /\ tx_head = 0 /\ tx_tail = 0 /\ tx_in_flight = 0
    /\ cdc_port_open = FALSE
    /\ dev_state = "default"
    /\ TxState = 0 /\ TxBuffer = 0 /\ TxLength = 0
    /\ transfer = NoTransfer
    /\ tx_buf = <<>>
    /\ pc = [t \in Tasks |-> "idle"]
    /\ sent = [t \in Tasks |-> 0]
    /\ retry = [t \in Tasks |-> 0]
    /\ kick = [t \in Tasks |-> NoKick]
    /\ host = <<>>

Next == Interrupt \/ \E t \in Tasks : SendLine(t) \/ TaskStep(t)

\* The tasks run, the host configures the device and reads an open port.
Fairness ==
    /\ \A t \in Tasks : WF_vars(TaskStep(t))
    /\ WF_vars(Configure)
    /\ WF_vars(DataIn /\ cdc_port_open)

Spec == Init /\ [][Next]_vars /\ Fairness
-----------------------------------------------------------------------------
(* Properties *)

\* Every variable keeps its type (usbd_cdc_if.c:30-35).
TypeOK ==
    /\ ring \in [0..(TxSize - 1) -> Bytes \cup {NoByte}]
    /\ tx_head \in 0..(TxSize - 1) /\ tx_tail \in 0..(TxSize - 1)
    /\ tx_in_flight \in 0..ChunkSize
    /\ cdc_port_open \in BOOLEAN
    /\ dev_state \in {"configured", "suspended", "default"}
    /\ TxState \in {0, 1}
    /\ TxBuffer \in 0..(TxSize - 1) /\ TxLength \in 0..ChunkSize
    /\ transfer \in {NoTransfer} \cup ((0..(TxSize - 1)) \X (0..ChunkSize))
    /\ tx_buf \in LineIds \cup {<<>>}
    /\ pc \in [Tasks -> {"idle", "check", "enqueue", "delay", "kick", "lock",
                         "set", "packet", "start", "fail"}]
    /\ sent \in [Tasks -> 0..MaxLines]
    /\ retry \in [Tasks -> 0..MaxRetries]
    /\ kick \in [Tasks -> [tail : 0..(TxSize - 1), chunk : 0..ChunkSize]]
    /\ host \in Seq(Bytes \cup {NoByte})

\* The bytes in flight are queued bytes that do not wrap, so that a completion
\* never moves the tail past the head, however the port is closed, reopened or
\* reset under a task that works on a chunk (usbd_cdc_if.c:92-112, 214-231).
InFlightQueued ==
    /\ tx_in_flight <= Used(tx_head, tx_tail)
    /\ tx_tail + tx_in_flight <= TxSize

Kicking(t) == pc[t] \in {"kick", "lock", "set", "packet", "start", "fail"}

\* a transfer is going on, whose completion goes on with the queue, or a task
\* is about to start one
Served == transfer # NoTransfer \/ \E t \in Tasks : Kicking(t)

\* No wake-up is lost: queued bytes on a configured device are served, although
\* a kick tests TxState before it takes the lock (usbd_cdc_if.c:74-112).  A
\* suspension breaks this.
QueueServed == Configured /\ tx_head # tx_tail => Served

\* What is queued and served leaves the queue, unless the port is closed or the
\* bus suspended meanwhile (usbd_cdc_if.c:214-234).
QueueDrains ==
    tx_head # tx_tail /\ Served
        ~> tx_head = tx_tail \/ ~cdc_port_open \/ ~Configured

\* While the port stays open the transmit path is a bounded byte queue,
\* whatever the two tasks and the interrupt do to each other: no byte is lost,
\* repeated, reordered or overwritten while in flight
\* (usbd_cdc_if.c:65-113, 214-292).
Fifo == INSTANCE ByteFifo WITH
    Inputs <- {BytesOf(line) : line \in LineIds},
    Capacity <- TxSize - 1,
    MaxTake <- ChunkSize,
    queue <- Queue,
    received <- host
IsFifo == Fifo!Spec

\* "Copies the string into a static buffer and transmits via USB CDC"
\* (serial_cmd.cpp:89): the line a call transmits is the line it was given.
\* serial_task overwrites the buffer of a preempted telemetry_task.
LineSentIsLineGiven ==
    [][\A t \in Tasks : Enqueue(t) => tx_buf = <<t, sent[t]>>]_vars
=============================================================================
