------------------------------- MODULE RxLine -------------------------------
(***************************************************************************)
(* The receive path of the USB CDC port: CDC_Receive_FS puts the bytes of  *)
(* a packet into ring_buf, serial_task takes them out one by one, puts     *)
(* lines together (serial_read_line) and dispatches them.                  *)
(*                                                                         *)
(*  - The interrupt preempts serial_task between any two accesses to the   *)
(*    ring; a call of CDC_Receive_FS is one action.                        *)
(*  - Nothing holds the host back: the endpoint is armed again at once,    *)
(*    and bytes without room in the ring are dropped.                      *)
(*  - The host program may stop anywhere in a line and start again with a  *)
(*    new one.  Neither the ring nor the half line is cleared then.        *)
(*  - rx_drop_count, a diagnostic, is left out.                            *)
(***************************************************************************)
EXTENDS Integers, Sequences

CONSTANTS
    RingSize,     \* SERIAL_RING_SIZE
    BufferSize,   \* SERIAL_BUFFER_SIZE, the size of rx_buffer
    OutSize,      \* size of the buffer serial_task passes
    PacketSize,   \* most bytes of one USB packet
    MaxLines,     \* bound: how many lines the host sends
    Scripts       \* what the host sends: the lengths of its lines

ASSUME RxAssumption ==
    /\ RingSize \in Nat /\ RingSize > 1
    /\ BufferSize \in Nat \ {0} /\ OutSize \in Nat \ {0}
    /\ PacketSize \in Nat \ {0} /\ MaxLines \in Nat
    /\ Scripts \subseteq [1..MaxLines -> Nat]

VARIABLES
    \* ---- shared by the interrupt and serial_task
    ring_buf,
    ring_head, ring_tail,
    \* ---- serial_task
    pc,
    ch,              \* the byte it has taken
    rx_buffer,       \* the rx_index characters of the line so far
    line,            \* the line it dispatches
    \* ---- the host
    line_len,        \* how many characters each line has
    sent,            \* the line it sends, and how much of it
    lost,            \* history: bytes dropped or never sent
    taken            \* history: bytes taken from the ring

task_vars == <<pc, ch, rx_buffer, line>>
vars == <<ring_buf, ring_head, ring_tail, task_vars, line_len, sent, lost,
          taken>>

-----------------------------------------------------------------------------
(* The bytes: <<line, position>>, a line ending with a CR and a newline *)

Lines == 1..MaxLines
CRPos(k) == line_len[k] + 1
NLPos(k) == line_len[k] + 2
Newline(k) == <<k, NLPos(k)>>
BytesOf(k) == {<<k, i>> : i \in 1..NLPos(k)}
Payload(k) == [i \in 1..line_len[k] |-> <<k, i>>]

NoByte == <<>>

Wrap(i) == IF i >= RingSize THEN i - RingSize ELSE i
Used(head, tail) ==
    IF head >= tail THEN head - tail ELSE RingSize - tail + head
Free == (RingSize - 1) - Used(ring_head, ring_tail)
Queue ==
    [i \in 1..Used(ring_head, ring_tail) |-> ring_buf[Wrap(ring_tail + i - 1)]]

-----------------------------------------------------------------------------
(* CDC_Receive_FS *)

\* n bytes from the host's position on, all of one line
Packet(k, i, n) == [j \in 1..n |-> <<k, i + j>>]

\* the bytes that have room go in, the rest are dropped
Receive(packet, room) ==
    LET n == IF Len(packet) <= room THEN Len(packet) ELSE room
        slot(i) == Wrap(i + RingSize - ring_head)
    IN  /\ ring_buf' = [i \in DOMAIN ring_buf |->
                            IF slot(i) < n THEN packet[slot(i) + 1]
                            ELSE ring_buf[i]]
        /\ ring_head' = Wrap(ring_head + n)
        /\ lost' = lost \cup {packet[j] : j \in (n + 1)..Len(packet)}

\* Mutant of CDC_Receive_FS: the ring may be filled to the last byte.
CDC_Receive_FS_Full(packet) == Receive(packet, Free + 1)

CDC_Receive_FS(packet) == Receive(packet, Free)

Advanced(k, i) == IF i < NLPos(k) THEN <<k, i>> ELSE <<k + 1, 0>>

HostSends ==
    /\ sent[1] \in Lines
    /\ \E n \in 1..PacketSize :
        /\ sent[2] + n <= NLPos(sent[1])
        /\ CDC_Receive_FS(Packet(sent[1], sent[2], n))
        /\ sent' = Advanced(sent[1], sent[2] + n)
    /\ UNCHANGED <<ring_tail, task_vars, line_len, taken>>

\* The host program is restarted in the middle of a line.
HostRestarts ==
    /\ sent[1] \in Lines
    /\ sent[2] > 0
    /\ sent' = <<sent[1] + 1, 0>>
    /\ lost' = lost \cup {<<sent[1], i>> : i \in (sent[2] + 1)..NLPos(sent[1])}
    /\ UNCHANGED <<ring_buf, ring_head, ring_tail, task_vars, line_len, taken>>

-----------------------------------------------------------------------------
(* serial_read_line and serial_task *)

\* Mutant of Fetch: the newest byte waits for the next one.
FetchButLast ==
    /\ pc = "test"
    /\ Used(ring_head, ring_tail) > 1
    /\ ch' = ring_buf[ring_tail]
    /\ pc' = "advance"
    /\ UNCHANGED <<ring_buf, ring_head, ring_tail, rx_buffer, line, line_len,
                   sent, lost, taken>>

\* There is a byte: read it.  (When there is none the task yields for a tick.)
Fetch ==
    /\ pc = "test"
    /\ ring_head # ring_tail
    /\ ch' = ring_buf[ring_tail]
    /\ pc' = "advance"
    /\ UNCHANGED <<ring_buf, ring_head, ring_tail, rx_buffer, line, line_len,
                   sent, lost, taken>>

\* ... and give its slot back
Advance ==
    /\ pc = "advance"
    /\ ring_tail' = Wrap(ring_tail + 1)
    /\ taken' = Append(taken, ch)
    /\ ch' = NoByte
    /\ UNCHANGED <<ring_buf, ring_head, line_len, sent, lost>>

\* a carriage return is discarded
TakeCR ==
    /\ Advance
    /\ ch[2] = CRPos(ch[1])
    /\ pc' = "test"
    /\ UNCHANGED <<rx_buffer, line>>

Truncated(s) == SubSeq(s, 1, IF Len(s) < OutSize THEN Len(s) ELSE OutSize - 1)

\* Mutant of TakeNewline: the index is not reset.
TakeNewlineKeeping ==
    /\ Advance
    /\ ch[2] = NLPos(ch[1])
    /\ line' = Truncated(rx_buffer)
    /\ pc' = "dispatch"
    /\ UNCHANGED rx_buffer

\* a newline ends the line, which the task dispatches
TakeNewline ==
    /\ Advance
    /\ ch[2] = NLPos(ch[1])
    /\ line' = Truncated(rx_buffer)
    /\ rx_buffer' = <<>>
    /\ pc' = "dispatch"

\* Mutant of TakeChar: the terminator gets no room.
TakeCharTight ==
    /\ Advance
    /\ ch[2] <= line_len[ch[1]]
    /\ rx_buffer' = (IF Len(rx_buffer) < BufferSize THEN Append(rx_buffer, ch)
                     ELSE <<>>)
    /\ pc' = "test"
    /\ UNCHANGED line

\* any other byte joins the line, or begins a new one when there is no room
TakeChar ==
    /\ Advance
    /\ ch[2] <= line_len[ch[1]]
    /\ rx_buffer' = (IF Len(rx_buffer) + 1 < BufferSize
                     THEN Append(rx_buffer, ch)
                     ELSE <<>>)
    /\ pc' = "test"
    /\ UNCHANGED line

\* json_cmd_process_line returns, after however long
Dispatched ==
    /\ pc = "dispatch"
    /\ pc' = "test"
    /\ line' = <<>>
    /\ UNCHANGED <<ring_buf, ring_head, ring_tail, ch, rx_buffer, line_len,
                   sent, lost, taken>>

SerialTask == Fetch \/ TakeCR \/ TakeNewline \/ TakeChar \/ Dispatched

-----------------------------------------------------------------------------
(* The specification *)

Init ==
    /\ ring_buf = [i \in 0..(RingSize - 1) |-> NoByte]
    /\ ring_head = 0 /\ ring_tail = 0
    /\ pc = "test"
    /\ ch = NoByte
    /\ rx_buffer = <<>> /\ line = <<>>
    /\ line_len \in Scripts
    /\ sent = <<1, 0>>
    /\ lost = {}
    /\ taken = <<>>

\* The host has sent its last line, and the task has dispatched what it got.
Finished ==
    /\ sent[1] \notin Lines
    /\ pc = "test"
    /\ ring_head = ring_tail
    /\ UNCHANGED vars

Next == HostSends \/ HostRestarts \/ SerialTask \/ Finished

\* serial_task runs and every command ends; the host owes nothing.
Spec == Init /\ [][Next]_vars /\ WF_vars(SerialTask)
-----------------------------------------------------------------------------
(* Properties *)

Bytes == UNION {BytesOf(k) : k \in Lines}
Chars == UNION {{<<k, i>> : i \in 1..line_len[k]} : k \in Lines}

\* Every variable keeps its type: rx_index leaves room for the terminator in
\* rx_buffer, and the dispatched line for its own (serial_cmd.cpp:72-85).
TypeOK ==
    /\ ring_buf \in [0..(RingSize - 1) -> Bytes \cup {NoByte}]
    /\ ring_head \in 0..(RingSize - 1) /\ ring_tail \in 0..(RingSize - 1)
    /\ pc \in {"test", "advance", "dispatch"}
    /\ ch \in Bytes \cup {NoByte}
    /\ rx_buffer \in Seq(Chars) /\ Len(rx_buffer) < BufferSize
    /\ line \in Seq(Chars) /\ Len(line) < OutSize
    /\ line_len \in Scripts
    /\ sent \in (1..(MaxLines + 1)) \X Nat
    /\ lost \subseteq Bytes
    /\ taken \in Seq(Bytes)

Positions == UNION {0..(script[k] + 1) : script \in Scripts, k \in Lines}
\* "Single-producer / single-consumer on Cortex-M4 - volatile indices suffice"
\* (serial_cmd.cpp:28): although the interrupt fills the ring between any two
\* steps of the task, what gets into the ring comes out once and in order.
Fifo == INSTANCE ByteFifo WITH
    Inputs <- {Packet(k, i, n) :
                  k \in Lines, i \in Positions, n \in 1..PacketSize},
    Capacity <- RingSize - 1,
    MaxTake <- 1,
    queue <- Queue,
    received <- taken
IsFifo == Fifo!Spec

\* A line that arrived whole, after a newline that arrived, is dispatched as it
\* was sent if it fits, however many lines before it were cut, spliced or too
\* long: the reader is back in step at every newline (serial_cmd.cpp:72-84).
Current == taken[Len(taken)][1]
Whole(k) ==
    /\ BytesOf(k) \cap lost = {}
    /\ k > 1 => Newline(k - 1) \notin lost
LineIntact ==
    pc = "dispatch" /\ Whole(Current) =>
        LET n == line_len[Current] IN
        /\ n < OutSize /\ n < BufferSize => line = Payload(Current)
        /\ OutSize <= n /\ n < BufferSize =>
              line = SubSeq(Payload(Current), 1, OutSize - 1)

\* A newline that got into the ring ends a line that is dispatched, although
\* the host need not send anything any more (main.cpp:389-398).
LineDispatched ==
    \A k \in Lines :
        (\E i \in DOMAIN Queue : Queue[i] = Newline(k))
            ~> (pc = "dispatch" /\ Current = k)
=============================================================================
