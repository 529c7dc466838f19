---------------------------- MODULE RxLine_proofs ----------------------------
(***************************************************************************)
(* Proofs about RxLine for any sizes of the ring, the buffers, the packets *)
(* and the lines: its type invariant, that the ring is a queue although    *)
(* the interrupt fills it under the task that empties it, and that a line  *)
(* which arrives whole is dispatched as it was sent.                       *)
(***************************************************************************)
EXTENDS RxLine, SequenceTheorems, TLAPS

-----------------------------------------------------------------------------
(* The inductive invariants *)

U == Used(ring_head, ring_tail)
Slot(j) == ring_buf[Wrap(ring_tail + j - 1)]

\* The slots between tail and head hold bytes, and the task has read the first
\* of them when it is about to give its slot back.
QueueInv ==
    /\ \A j \in 1..U : Slot(j) \in Bytes
    /\ pc = "advance" => U > 0 /\ ch = Slot(1)

\* The position of the host is a byte of the line it sends.
SentInv == sent[1] \in Lines => sent[2] < NLPos(sent[1])

TInv == TypeOK /\ QueueInv /\ SentInv

\* the order in which the host sends its bytes
Before(a, b) == a[1] < b[1] \/ (a[1] = b[1] /\ a[2] < b[2])

\* Whatever the host was to send between two bytes is gone.
Gap(a, b, gone) ==
    \A k \in Lines : \A i \in 1..NLPos(k) :
        Before(a, <<k, i>>) /\ Before(<<k, i>>, b) => <<k, i>> \in gone

\* the last byte taken, and the next one to come in
LastTaken == IF taken = <<>> THEN <<0, 0>> ELSE taken[Len(taken)]
NextSent == <<sent[1], sent[2] + 1>>

\* the bytes before and after the j-th boundary of the queue
Left(j) == IF j = 1 THEN LastTaken ELSE Slot(j - 1)
Right(j) == IF j = U + 1 THEN NextSent ELSE Slot(j)

\* The bytes taken, those in the ring and those to come follow each other, with
\* only lost bytes between them.
GapInv ==
    \A j \in 1..(U + 1) :
        Before(Left(j), Right(j)) /\ Gap(Left(j), Right(j), lost)

Prefix(k, n) == [j \in 1..n |-> <<k, j>>]
Fits(k) == line_len[k] < BufferSize

\* The characters of a whole line are in rx_buffer as far as they were taken.
ReadInv ==
    /\ taken = <<>> => rx_buffer = <<>>
    /\ \A k \in Lines :
        /\ LastTaken = Newline(k) => rx_buffer = <<>>
        /\ Whole(k) /\ Fits(k) =>
            /\ LastTaken = <<k, CRPos(k)>> => rx_buffer = Payload(k)
            /\ \A i \in 1..line_len[k] :
                LastTaken = <<k, i>> => rx_buffer = Prefix(k, i)

\* The line in dispatch is that of the newline taken last.
LineInv ==
    pc = "dispatch" =>
        /\ taken # <<>>
        /\ Whole(Current) /\ Fits(Current) =>
              line = Truncated(Payload(Current))

LInv == GapInv /\ ReadInv /\ LineInv
-----------------------------------------------------------------------------
(* Bytes *)

\* A byte is a position in a line.
LEMMA ByteForm ==
    /\ \A k \in Lines : \A i \in 1..NLPos(k) : <<k, i>> \in Bytes
    /\ \A b \in Bytes :
        b[1] \in Lines /\ b[2] \in 1..NLPos(b[1]) /\ b = <<b[1], b[2]>>
BY DEF Bytes, BytesOf

\* A byte before the CR is a character.
LEMMA CharForm ==
    \A k \in Lines : \A i \in 1..line_len[k] : <<k, i>> \in Chars
BY DEF Chars

\* The lengths of the lines are numbers.
LEMMA LineLength ==
    ASSUME line_len \in Scripts, NEW k \in Lines
    PROVE  line_len[k] \in Nat /\ NLPos(k) \in Nat /\ CRPos(k) \in Nat
           /\ k \in Nat
BY RxAssumption DEF Lines, NLPos, CRPos

\* An empty slot is no byte.
LEMMA NoByteIsNone == NoByte \notin Bytes
BY ByteForm DEF NoByte

-----------------------------------------------------------------------------
(* The arithmetic of the ring *)

Index == 0..(RingSize - 1)

\* The queue never fills the ring.
LEMMA UsedType ==
    ASSUME NEW h \in Index, NEW t \in Index
    PROVE  Used(h, t) \in Index /\ (Used(h, t) = 0 <=> h = t)
BY RxAssumption DEF Used, Index

\* The length of the queue is a number.
LEMMA QueueLength == TypeOK => U \in Nat
<1> SUFFICES ASSUME TypeOK PROVE U \in Nat
  OBVIOUS
<1>1. ring_head \in Index /\ ring_tail \in Index
  BY DEF TypeOK, Index
<1>2. U \in Index
  BY <1>1, UsedType DEF U
<1> QED
  BY <1>2, RxAssumption DEF Index

\* An index that has passed the end of the ring by less than a round is wrapped
\* into it.
LEMMA WrapType ==
    ASSUME NEW i \in 0..(2 * RingSize - 1)
    PROVE  Wrap(i) \in Index
BY RxAssumption DEF Wrap, Index

\* n more bytes at the head
LEMMA HeadMoved ==
    ASSUME NEW h \in Index, NEW t \in Index,
           NEW n \in Nat, n <= (RingSize - 1) - Used(h, t)
    PROVE  Wrap(h + n) \in Index /\ Used(Wrap(h + n), t) = Used(h, t) + n
BY RxAssumption DEF Wrap, Used, Index

\* one byte less at the tail
LEMMA TailMoved ==
    ASSUME NEW h \in Index, NEW t \in Index, h # t
    PROVE  Wrap(t + 1) \in Index /\ Used(h, Wrap(t + 1)) = Used(h, t) - 1
BY RxAssumption DEF Wrap, Used, Index

\* The next byte is in the next slot.
LEMMA NextSlot ==
    ASSUME NEW t \in Index, NEW j \in 1..(RingSize - 1)
    PROVE  Wrap(Wrap(t + 1) + j - 1) = Wrap(t + (j + 1) - 1)
BY RxAssumption DEF Wrap, Index

\* How far a slot of the queue is from the head, the way CDC_Receive_FS counts:
\* the queued bytes are out of its reach, the new ones follow them.
LEMMA SlotFromHead ==
    ASSUME NEW h \in Index, NEW t \in Index
    PROVE  /\ \A j \in 1..Used(h, t) :
                /\ Wrap(t + j - 1) \in Index
                /\ Wrap(Wrap(t + j - 1) + RingSize - h)
                       >= RingSize - Used(h, t)
           /\ \A j \in 1..((RingSize - 1) - Used(h, t)) :
                /\ Wrap(t + (Used(h, t) + j) - 1) \in Index
                /\ Wrap(Wrap(t + (Used(h, t) + j) - 1) + RingSize - h) = j - 1
<1>1. h \in Int /\ 0 <= h /\ h < RingSize /\ t \in Int /\ 0 <= t
      /\ t < RingSize /\ RingSize \in Int /\ RingSize > 1
  BY RxAssumption DEF Index
<1>2. ASSUME NEW j \in 1..Used(h, t)
      PROVE  /\ Wrap(t + j - 1) \in Index
             /\ Wrap(Wrap(t + j - 1) + RingSize - h) >= RingSize - Used(h, t)
  BY <1>1, <1>2 DEF Wrap, Used, Index
<1>3. ASSUME NEW j \in 1..((RingSize - 1) - Used(h, t))
      PROVE  /\ Wrap(t + (Used(h, t) + j) - 1) \in Index
             /\ Wrap(Wrap(t + (Used(h, t) + j) - 1) + RingSize - h) = j - 1
  BY <1>1, <1>3 DEF Wrap, Used, Index
<1> QED
  BY <1>2, <1>3

-----------------------------------------------------------------------------
(* The queue in the ring *)

\* how many bytes of a packet get in
Fit(packet) == IF Len(packet) <= Free THEN Len(packet) ELSE Free

\* A packet goes behind the queue, as far as it fits; the queue stays as it is.
LEMMA Received ==
    ASSUME TypeOK, NEW packet, Len(packet) \in Nat,
           \A j \in 1..Len(packet) : packet[j] \in Bytes,
           CDC_Receive_FS(packet), ring_tail' = ring_tail
    PROVE  /\ Fit(packet) \in Nat /\ Fit(packet) <= Free
           /\ Fit(packet) <= Len(packet)
           /\ ring_head' \in Index
           /\ ring_buf' \in [Index -> Bytes \cup {NoByte}]
           /\ U \in Index /\ U' = U + Fit(packet)
           /\ \A j \in 1..U : Slot(j)' = Slot(j)
           /\ \A i \in (U + 1)..(U + Fit(packet)) :
                  Slot(i)' = packet[i - U]
<1> DEFINE n == Fit(packet)
           slot(i) == Wrap(i + RingSize - ring_head)
<1>1. /\ ring_head \in Index /\ ring_tail \in Index
      /\ ring_buf \in [Index -> Bytes \cup {NoByte}]
  BY DEF TypeOK, Index
<1>2. U \in Index /\ Free = (RingSize - 1) - U /\ Free \in Nat
  <2>1. U \in Index /\ Free = (RingSize - 1) - U
    BY <1>1, UsedType DEF U, Free
  <2> QED
    BY <2>1, RxAssumption DEF Index
<1>3. n \in Nat /\ n <= Free /\ n <= Len(packet)
  BY <1>2 DEF Fit
<1>4. /\ ring_head' = Wrap(ring_head + n)
      /\ ring_buf' = [i \in Index |-> IF slot(i) < n THEN packet[slot(i) + 1]
                                      ELSE ring_buf[i]]
  BY <1>1 DEF CDC_Receive_FS, Receive, Fit
<1> HIDE DEF n
<1>5. ring_head' \in Index /\ U' = U + n
  BY <1>1, <1>2, <1>3, <1>4, HeadMoved DEF U
<1>6. ASSUME NEW i \in Index, slot(i) < n
      PROVE  packet[slot(i) + 1] \in Bytes
  <2>1. slot(i) \in Nat
    BY <1>1, RxAssumption DEF Wrap, Index
  <2>2. slot(i) + 1 \in 1..Len(packet)
    BY <1>3, <1>6, <2>1
  <2> QED
    BY <2>2
<1>7. ring_buf' \in [Index -> Bytes \cup {NoByte}]
  BY <1>1, <1>4, <1>6
<1>8. ASSUME NEW j \in 1..U PROVE Slot(j)' = Slot(j)
  <2>1. /\ Wrap(ring_tail + j - 1) \in Index
        /\ slot(Wrap(ring_tail + j - 1)) >= RingSize - U
    BY <1>1, SlotFromHead DEF U
  <2>2. ~(slot(Wrap(ring_tail + j - 1)) < n)
    <3>1. slot(Wrap(ring_tail + j - 1)) \in Nat
      BY <1>1, <2>1, RxAssumption DEF Wrap, Index
    <3>2. n < RingSize - U /\ U \in Nat /\ RingSize \in Nat
      BY <1>2, <1>3, RxAssumption DEF Index
    <3> QED
      BY <1>3, <2>1, <3>1, <3>2
  <2> QED
    BY <1>4, <2>1, <2>2 DEF Slot
<1>9. ASSUME NEW i \in (U + 1)..(U + n) PROVE Slot(i)' = packet[i - U]
  <2>1. /\ i \in Nat /\ i - U \in 1..((RingSize - 1) - U)
        /\ U + (i - U) = i /\ (i - U) - 1 < n /\ ((i - U) - 1) + 1 = i - U
    BY <1>2, <1>3, RxAssumption DEF Index
  <2>2. /\ Wrap(ring_tail + i - 1) \in Index
        /\ slot(Wrap(ring_tail + i - 1)) = (i - U) - 1
    BY <1>1, <2>1, SlotFromHead DEF U
  <2>3. Slot(i)' = ring_buf'[Wrap(ring_tail + i - 1)]
    BY DEF Slot
  <2> QED
    BY <1>4, <2>1, <2>2, <2>3
<1> QED
  BY <1>2, <1>3, <1>5, <1>7, <1>8, <1>9 DEF n

\* The task takes the first byte of the queue.
LEMMA TookByte ==
    ASSUME TypeOK, QueueInv, Advance
    PROVE  /\ U \in Index /\ U > 0 /\ U' = U - 1
           /\ ring_head' = ring_head /\ ring_tail' \in Index
           /\ ring_buf' = ring_buf
           /\ ch = Slot(1) /\ ch \in Bytes /\ taken' = Append(taken, ch)
           /\ \A j \in 1..(U - 1) : Slot(j)' = Slot(j + 1)
<1>1. /\ pc = "advance" /\ ring_tail' = Wrap(ring_tail + 1)
      /\ taken' = Append(taken, ch)
      /\ UNCHANGED <<ring_buf, ring_head>>
      /\ ring_head \in Index /\ ring_tail \in Index
  BY DEF Advance, TypeOK, Index
<1>2. U > 0 /\ ch = Slot(1) /\ U \in Index
  BY <1>1, UsedType DEF QueueInv, U
<1>3. ch \in Bytes
  <2>1. 1 \in 1..U
    BY <1>2 DEF Index
  <2> QED
    BY <1>2, <2>1 DEF QueueInv
<1>4. ring_head # ring_tail
  BY <1>1, <1>2, UsedType DEF U, Index
<1>5. U' = U - 1 /\ ring_tail' \in Index
  BY <1>1, <1>4, TailMoved DEF U
<1>6. ASSUME NEW j \in 1..(U - 1) PROVE Slot(j)' = Slot(j + 1)
  <2>1. j \in 1..(RingSize - 1)
    BY <1>2, RxAssumption DEF Index
  <2>2. Wrap(ring_tail' + j - 1) = Wrap(ring_tail + (j + 1) - 1)
    BY <1>1, <2>1, NextSlot
  <2> QED
    BY <1>1, <2>2 DEF Slot
<1> QED
  BY <1>1, <1>2, <1>3, <1>5, <1>6

\* The bytes of a packet
LEMMA PacketBytes ==
    ASSUME line_len \in Scripts, NEW k \in Lines, NEW i \in Nat,
           NEW n \in 1..PacketSize, i + n <= NLPos(k)
    PROVE  /\ Len(Packet(k, i, n)) = n /\ n \in Nat
           /\ \A j \in 1..n : /\ Packet(k, i, n)[j] = <<k, i + j>>
                              /\ Packet(k, i, n)[j] \in Bytes
<1>1. n \in Nat
  BY RxAssumption
<1>3. Len(Packet(k, i, n)) = n
  BY <1>1 DEF Packet
<1>4. ASSUME NEW j \in 1..n
      PROVE  Packet(k, i, n)[j] = <<k, i + j>> /\ <<k, i + j>> \in Bytes
  <2>1. i + j \in 1..NLPos(k)
    BY <1>1, LineLength
  <2> QED
    BY <2>1, ByteForm DEF Packet
<1> QED
  BY <1>1, <1>3, <1>4

\* The bytes are the same as long as the lines are.
LEMMA SameBytes ==
    ASSUME line_len' = line_len
    PROVE  /\ Bytes' = Bytes /\ Chars' = Chars
           /\ \A k : NLPos(k)' = NLPos(k) /\ CRPos(k)' = CRPos(k)
BY DEF Bytes, BytesOf, NLPos, CRPos, Chars

-----------------------------------------------------------------------------
(* Type correctness *)

\* The initial states are typed, and nothing is queued.
LEMMA InitType == Init => TInv
<1> SUFFICES ASSUME Init PROVE TInv
  OBVIOUS
<1>1. Used(0, 0) = 0 /\ 0 \in Index
  BY RxAssumption DEF Used, Index
<1>2. TypeOK
  <2>1. 0 \in 0..(RingSize - 1)
    BY <1>1 DEF Index
  <2>2. <<1, 0>> \in (1..(MaxLines + 1)) \X Nat
    BY RxAssumption
  <2>3. /\ <<>> \in Seq(Chars) /\ <<>> \in Seq(Bytes) /\ Len(<<>>) = 0
        /\ 0 < BufferSize /\ 0 < OutSize
    BY RxAssumption
  <2> QED
    BY <2>1, <2>2, <2>3 DEF Init, TypeOK
<1>3. QueueInv
  <2>1. U = 0 /\ pc # "advance"
    BY <1>1 DEF Init, U
  <2> QED
    BY <2>1 DEF QueueInv
<1>4. SentInv
  <2>1. sent[2] = 0 /\ sent[1] = 1
    BY DEF Init
  <2>2. sent[1] \in Lines => NLPos(sent[1]) > 0
    BY LineLength DEF Init, NLPos
  <2> QED
    BY <2>1, <2>2 DEF SentInv
<1> QED
  BY <1>2, <1>3, <1>4 DEF TInv

\* The host sends a packet.
LEMMA SendType ==
    ASSUME TInv, HostSends
    PROVE  TInv'
<1> USE DEF TInv
<1>1. PICK n \in 1..PacketSize :
         /\ sent[1] \in Lines
         /\ sent[2] + n <= NLPos(sent[1])
         /\ CDC_Receive_FS(Packet(sent[1], sent[2], n))
         /\ sent' = Advanced(sent[1], sent[2] + n)
  BY DEF HostSends
<1>2. UNCHANGED <<ring_tail, pc, ch, rx_buffer, line, line_len, taken>>
  BY DEF HostSends, task_vars
<1> DEFINE k == sent[1]
           packet == Packet(sent[1], sent[2], n)
<1>3. k \in Lines /\ sent[2] \in Nat /\ line_len \in Scripts
  BY <1>1 DEF TypeOK
<1>4. /\ Len(packet) = n /\ n \in Nat
      /\ \A j \in 1..n : packet[j] \in Bytes
  BY <1>1, <1>3, PacketBytes
<1> HIDE DEF packet
<1>5. /\ Fit(packet) \in Nat /\ Fit(packet) <= Free
      /\ Fit(packet) <= n
      /\ ring_head' \in Index
      /\ ring_buf' \in [Index -> Bytes \cup {NoByte}]
      /\ U \in Index /\ U' = U + Fit(packet)
      /\ \A j \in 1..U : Slot(j)' = Slot(j)
      /\ \A i \in (U + 1)..(U + Fit(packet)) : Slot(i)' = packet[i - U]
  BY <1>1, <1>2, <1>4, Received DEF packet
<1>6. Bytes' = Bytes /\ Chars' = Chars
  BY <1>2, SameBytes
<1>7. lost' \subseteq Bytes
  <2>1. lost' = lost \cup {packet[j] : j \in (Fit(packet) + 1)..Len(packet)}
    BY <1>1 DEF CDC_Receive_FS, Receive, Fit, packet
  <2> QED
    BY <1>4, <1>5, <2>1 DEF TypeOK
<1>8. sent' \in (1..(MaxLines + 1)) \X Nat
  <2>1. k \in 1..(MaxLines + 1) /\ k + 1 \in 1..(MaxLines + 1)
    BY <1>3, RxAssumption DEF Lines
  <2> QED
    BY <1>1, <1>3, <1>4, <2>1 DEF Advanced
<1>9. TypeOK'
  BY <1>2, <1>5, <1>6, <1>7, <1>8 DEF TypeOK, Index
<1>10. QueueInv'
  <2>1. ASSUME NEW j \in 1..U' PROVE Slot(j)' \in Bytes
    <3>1. CASE j <= U
      <4>1. j \in 1..U
        BY <1>5, <3>1 DEF Index
      <4> QED
        BY <1>5, <4>1 DEF QueueInv
    <3>2. CASE ~(j <= U)
      <4>1. /\ j \in (U + 1)..(U + Fit(packet)) /\ j - U \in 1..n
        BY <1>4, <1>5, <3>2 DEF Index
      <4> QED
        BY <1>4, <1>5, <4>1
    <3> QED
      BY <3>1, <3>2
  <2>2. pc' = "advance" => U' > 0 /\ ch' = Slot(1)'
    <3>1. ASSUME pc = "advance" PROVE U' > 0 /\ ch' = Slot(1)'
      <4>1. U > 0 /\ ch = Slot(1)
        BY <3>1 DEF QueueInv
      <4>2. 1 \in 1..U /\ U' > 0
        BY <1>5, <4>1 DEF Index
      <4> QED
        BY <1>2, <1>5, <4>1, <4>2
    <3> QED
      BY <1>2, <3>1
  <2> QED
    BY <1>6, <2>1, <2>2 DEF QueueInv
<1>11. SentInv'
  <2>1. CASE sent[2] + n < NLPos(k)
    BY <1>1, <1>2, <1>3, <1>4, <2>1, LineLength
       DEF Advanced, SentInv, NLPos
  <2>2. CASE ~(sent[2] + n < NLPos(k))
    <3>1. sent' = <<k + 1, 0>>
      BY <1>1, <2>2 DEF Advanced
    <3>2. \A l \in Lines : 0 < NLPos(l)'
      BY <1>2, <1>3, LineLength DEF NLPos
    <3> QED
      BY <3>1, <3>2 DEF SentInv
  <2> QED
    BY <2>1, <2>2
<1> QED
  BY <1>9, <1>10, <1>11

\* The host program is restarted.
LEMMA RestartType ==
    ASSUME TInv, HostRestarts
    PROVE  TInv'
<1> USE DEF TInv
<1>1. /\ sent[1] \in Lines /\ sent' = <<sent[1] + 1, 0>>
      /\ lost' = lost \cup {<<sent[1], i>> :
                                i \in (sent[2] + 1)..NLPos(sent[1])}
      /\ UNCHANGED <<ring_buf, ring_head, ring_tail, pc, ch, rx_buffer, line,
                     line_len, taken>>
  BY DEF HostRestarts, task_vars
<1>2. Bytes' = Bytes /\ Chars' = Chars
  BY <1>1, SameBytes
<1>3. sent[2] \in Nat /\ line_len \in Scripts
  BY DEF TypeOK
<1>4. sent' \in (1..(MaxLines + 1)) \X Nat
  BY <1>1, RxAssumption DEF Lines
<1>5. lost' \subseteq Bytes
  <2>1. \A i \in (sent[2] + 1)..NLPos(sent[1]) : i \in 1..NLPos(sent[1])
    BY <1>1, <1>3, LineLength
  <2> QED
    BY <1>1, <2>1, ByteForm DEF TypeOK
<1>6. TypeOK'
  BY <1>1, <1>2, <1>4, <1>5 DEF TypeOK
<1>7. U' = U /\ \A j : Slot(j)' = Slot(j)
  BY <1>1 DEF U, Slot
<1>8. QueueInv'
  BY <1>1, <1>2, <1>7 DEF QueueInv
<1>9. SentInv'
  <2>1. \A l \in Lines : 0 < NLPos(l)'
    BY <1>1, <1>3, LineLength DEF NLPos
  <2> QED
    BY <1>1, <2>1 DEF SentInv
<1> QED
  BY <1>6, <1>8, <1>9

\* The task reads the first byte.
LEMMA FetchType ==
    ASSUME TInv, Fetch
    PROVE  TInv'
<1> USE DEF TInv
<1>1. /\ ring_head # ring_tail /\ ch' = ring_buf[ring_tail]
      /\ pc' = "advance"
      /\ UNCHANGED <<ring_buf, ring_head, ring_tail, rx_buffer, line,
                     line_len, sent, lost, taken>>
  BY DEF Fetch
<1>2. Bytes' = Bytes /\ Chars' = Chars /\ \A k : NLPos(k)' = NLPos(k)
  BY <1>1, SameBytes
<1>3. ring_head \in Index /\ ring_tail \in Index
  BY DEF TypeOK, Index
<1>4. U \in Index /\ U > 0
  BY <1>1, <1>3, UsedType DEF U, Index
<1>5. Slot(1) = ring_buf[ring_tail]
  <2>1. Wrap(ring_tail + 1 - 1) = ring_tail
    BY <1>3, RxAssumption DEF Wrap, Index
  <2> QED
    BY <2>1 DEF Slot
<1>6. TypeOK'
  <2>1. ch' \in Bytes \cup {NoByte}
    BY <1>1, <1>3 DEF TypeOK, Index
  <2> QED
    BY <1>1, <1>2, <2>1 DEF TypeOK
<1>7. U' = U /\ \A j : Slot(j)' = Slot(j)
  BY <1>1 DEF U, Slot
<1>8. QueueInv'
  BY <1>1, <1>2, <1>4, <1>5, <1>7 DEF QueueInv
<1> QED
  BY <1>1, <1>2, <1>6, <1>8 DEF SentInv

\* A truncated line has room for its terminator.
LEMMA TruncatedType ==
    ASSUME NEW S, NEW s \in Seq(S)
    PROVE  Truncated(s) \in Seq(S) /\ Len(Truncated(s)) < OutSize
<1>1. OutSize \in Nat \ {0} /\ Len(s) \in Nat
  BY RxAssumption
<1>2. CASE Len(s) < OutSize
  <2>1. Truncated(s) = SubSeq(s, 1, Len(s))
    BY <1>2 DEF Truncated
  <2> QED
    BY <1>1, <1>2, <2>1
<1>3. CASE ~(Len(s) < OutSize)
  <2>1. Truncated(s) = SubSeq(s, 1, OutSize - 1)
    BY <1>3 DEF Truncated
  <2> QED
    BY <1>1, <1>3, <2>1
<1> QED
  BY <1>2, <1>3

\* The task gives the slot back, and puts the byte where it belongs.
LEMMA AdvanceType ==
    ASSUME TInv, TakeCR \/ TakeNewline \/ TakeChar
    PROVE  TInv'
<1> USE DEF TInv
<1>1. Advance
  BY DEF TakeCR, TakeNewline, TakeChar
<1>2. /\ U \in Index /\ U > 0 /\ U' = U - 1
      /\ ring_head' = ring_head /\ ring_tail' \in Index
      /\ ring_buf' = ring_buf
      /\ ch = Slot(1) /\ ch \in Bytes /\ taken' = Append(taken, ch)
      /\ \A j \in 1..(U - 1) : Slot(j)' = Slot(j + 1)
  BY <1>1, TookByte
<1>3. ch' = NoByte /\ UNCHANGED <<line_len, sent, lost>>
  BY <1>1 DEF Advance
<1>4. Bytes' = Bytes /\ Chars' = Chars /\ \A k : NLPos(k)' = NLPos(k)
  BY <1>3, SameBytes
<1>5. /\ rx_buffer' \in Seq(Chars) /\ Len(rx_buffer') < BufferSize
      /\ line' \in Seq(Chars) /\ Len(line') < OutSize
      /\ pc' \in {"test", "dispatch"}
  <2>0. /\ <<>> \in Seq(Chars) /\ Len(<<>>) = 0 /\ BufferSize > 0
        /\ BufferSize \in Nat
        /\ rx_buffer \in Seq(Chars) /\ Len(rx_buffer) < BufferSize
        /\ line \in Seq(Chars) /\ Len(line) < OutSize
    BY RxAssumption DEF TypeOK
  <2>1. CASE TakeCR
    BY <2>0, <2>1 DEF TakeCR
  <2>2. CASE TakeNewline
    BY <2>0, <2>2, TruncatedType DEF TakeNewline
  <2>3. CASE TakeChar
    <3>1. ch \in Chars
      <4>1. /\ ch[1] \in Lines /\ ch[2] \in 1..NLPos(ch[1])
            /\ ch = <<ch[1], ch[2]>>
        BY <1>2, ByteForm
      <4>2. ch[2] \in 1..line_len[ch[1]]
        BY <2>3, <4>1, LineLength DEF TakeChar, TypeOK
      <4> QED
        BY <4>1, <4>2, CharForm
    <3>2. CASE Len(rx_buffer) + 1 < BufferSize
      <4>1. rx_buffer' = Append(rx_buffer, ch)
        BY <2>3, <3>2 DEF TakeChar
      <4>2. /\ Append(rx_buffer, ch) \in Seq(Chars)
            /\ Len(Append(rx_buffer, ch)) = Len(rx_buffer) + 1
        BY <2>0, <3>1
      <4> QED
        BY <2>0, <2>3, <3>2, <4>1, <4>2 DEF TakeChar
    <3>3. CASE ~(Len(rx_buffer) + 1 < BufferSize)
      BY <2>0, <2>3, <3>3 DEF TakeChar
    <3> QED
      BY <3>2, <3>3
  <2> QED
    BY <2>1, <2>2, <2>3
<1>6. TypeOK'
  <2>1. taken' \in Seq(Bytes)
    BY <1>2 DEF TypeOK
  <2> QED
    BY <1>2, <1>3, <1>4, <1>5, <2>1 DEF TypeOK, Index
<1>7. QueueInv'
  <2>1. ASSUME NEW j \in 1..U' PROVE Slot(j)' \in Bytes
    <3>1. j \in 1..(U - 1) /\ j + 1 \in 1..U
      BY <1>2 DEF Index
    <3> QED
      BY <1>2, <3>1 DEF QueueInv
  <2> QED
    BY <1>4, <1>5, <2>1 DEF QueueInv
<1> QED
  BY <1>3, <1>4, <1>6, <1>7 DEF SentInv

\* Every step keeps the types.
LEMMA TypeStep == TInv /\ [Next]_vars => TInv'
<1> SUFFICES ASSUME TInv, [Next]_vars PROVE TInv'
  OBVIOUS
<1>1. CASE HostSends
  BY <1>1, SendType
<1>2. CASE HostRestarts
  BY <1>2, RestartType
<1>3. CASE Fetch
  BY <1>3, FetchType
<1>4. CASE TakeCR \/ TakeNewline \/ TakeChar
  BY <1>4, AdvanceType
<1>5. CASE Dispatched
  <2>1. /\ pc' = "test" /\ line' = <<>>
        /\ UNCHANGED <<ring_buf, ring_head, ring_tail, ch, rx_buffer,
                       line_len, sent, lost, taken>>
    BY <1>5 DEF Dispatched
  <2>2. Bytes' = Bytes /\ Chars' = Chars /\ \A k : NLPos(k)' = NLPos(k)
    BY <2>1, SameBytes
  <2>3. U' = U /\ \A j : Slot(j)' = Slot(j)
    BY <2>1 DEF U, Slot
  <2>4. line' \in Seq(Chars) /\ Len(line') < OutSize
    BY <2>1, RxAssumption
  <2> QED
    BY <2>1, <2>2, <2>3, <2>4 DEF TInv, TypeOK, QueueInv, SentInv
<1>6. CASE UNCHANGED vars
  <2>1. UNCHANGED <<ring_buf, ring_head, ring_tail, pc, ch, rx_buffer, line,
                    line_len, sent, lost, taken>>
    BY <1>6 DEF vars, task_vars
  <2>2. Bytes' = Bytes /\ Chars' = Chars /\ \A k : NLPos(k)' = NLPos(k)
    BY <2>1, SameBytes
  <2>3. U' = U /\ \A j : Slot(j)' = Slot(j)
    BY <2>1 DEF U, Slot
  <2> QED
    BY <2>1, <2>2, <2>3 DEF TInv, TypeOK, QueueInv, SentInv
<1> QED
  BY <1>1, <1>2, <1>3, <1>4, <1>5, <1>6 DEF Next, SerialTask, Finished

\* The reachable states are typed, and the queue holds bytes.
LEMMA Invariance == Spec => []TInv
BY InitType, TypeStep, PTL DEF Spec

\* The buffers keep room for their terminators and the indices stay in the
\* ring, for any sizes, packets and lines (serial_cmd.cpp:40-85).
THEOREM TypeCorrect == Spec => []TypeOK
<1>1. TInv => TypeOK
  BY DEF TInv
<1> QED
  BY <1>1, Invariance, PTL

-----------------------------------------------------------------------------
(* The ring is a queue *)

\* the queue as a sequence
QueueIsSeq ==
    /\ Queue \in Seq(Bytes) /\ Len(Queue) = U
    /\ \A j \in 1..U : Queue[j] = Slot(j)

\* What Queue is, byte by byte.
LEMMA QueueSeq == TInv => QueueIsSeq
<1> SUFFICES ASSUME TInv PROVE QueueIsSeq
  OBVIOUS
<1>1. U \in Nat
  BY QueueLength DEF TInv
<1>2. Queue = [j \in 1..U |-> Slot(j)]
  BY DEF Queue, U, Slot
<1>3. \A j \in 1..U : Slot(j) \in Bytes
  BY DEF TInv, QueueInv
<1> QED
  BY <1>1, <1>2, <1>3 DEF QueueIsSeq

\* A place before the newline is a position of a packet.
LEMMA PositionForm ==
    ASSUME NEW s \in Scripts, NEW l \in Lines, NEW j \in 0..(s[l] + 1)
    PROVE  j \in Positions
<1> DEFINE Ranges == {0..(script[k] + 1) : script \in Scripts, k \in Lines}
<1>1. 0..(s[l] + 1) \in Ranges
  OBVIOUS
<1> HIDE DEF Ranges
<1>2. j \in UNION Ranges
  BY <1>1
<1> QED
  BY <1>2 DEF Ranges, Positions

\* A packet makes the queue longer by what fits of it, within the ring.
LEMMA SendAccepts ==
    ASSUME TInv, TInv', HostSends
    PROVE  \/ \E k \in Lines, i \in Positions, m \in 1..PacketSize :
                Fifo!Accept(Packet(k, i, m))
           \/ UNCHANGED <<Queue, taken>>
<1>1. PICK n \in 1..PacketSize :
         /\ sent[1] \in Lines
         /\ sent[2] + n <= NLPos(sent[1])
         /\ CDC_Receive_FS(Packet(sent[1], sent[2], n))
  BY DEF HostSends
<1>2. UNCHANGED <<ring_tail, line_len, taken>>
  BY DEF HostSends
<1> DEFINE k == sent[1]
           i == sent[2]
           packet == Packet(k, i, n)
           m == Fit(packet)
<1>3. k \in Lines /\ i \in Nat /\ line_len \in Scripts
  BY <1>1 DEF TInv, TypeOK
<1>4. /\ Len(packet) = n /\ n \in Nat
      /\ \A j \in 1..n : packet[j] = <<k, i + j>> /\ packet[j] \in Bytes
  BY <1>1, <1>3, PacketBytes
<1>5. /\ m \in Nat /\ m <= Free /\ m <= n
      /\ U \in Index /\ U' = U + m
      /\ \A j \in 1..U : Slot(j)' = Slot(j)
      /\ \A j \in (U + 1)..(U + m) : Slot(j)' = packet[j - U]
  BY <1>1, <1>2, <1>4, Received DEF TInv
<1>a. TInv' => QueueIsSeq'
  BY QueueSeq, PTL
<1>8. Bytes' = Bytes
  BY <1>2, SameBytes
<1>6. /\ Queue' \in Seq(Bytes) /\ Len(Queue') = U'
      /\ \A j \in 1..U' : Queue'[j] = Slot(j)'
  BY <1>a, <1>8 DEF QueueIsSeq
<1>7. /\ Queue \in Seq(Bytes) /\ Len(Queue) = U
      /\ \A j \in 1..U : Queue[j] = Slot(j)
  BY QueueSeq DEF QueueIsSeq
<1> HIDE DEF packet, m
<1>9. CASE m = 0
  <2>1. Len(Queue') = Len(Queue) /\ Queue' \in Seq(Bytes)
    BY <1>5, <1>6, <1>7, <1>8, <1>9, RxAssumption DEF Index
  <2>2. \A j \in 1..Len(Queue) : Queue'[j] = Queue[j]
    BY <1>5, <1>6, <1>7, <1>9 DEF Index
  <2>3. Queue' = Queue
    BY <1>7, <2>1, <2>2, SeqEqual
  <2> QED
    BY <1>2, <2>3
<1>10. CASE m # 0
  <2> DEFINE input == Packet(k, i, m)
  <2>1. m \in 1..PacketSize /\ i + m <= NLPos(k)
    <3>1. n <= PacketSize /\ PacketSize \in Nat
      BY RxAssumption
    <3>2. NLPos(k) \in Nat /\ i + n <= NLPos(k)
      BY <1>1, <1>3, LineLength
    <3> QED
      BY <1>3, <1>4, <1>5, <1>10, <3>1, <3>2
  <2>2. i \in Positions
    <3>1. line_len[k] \in Nat /\ NLPos(k) = line_len[k] + 2
      BY <1>3, LineLength DEF NLPos
    <3>2. i \in 0..(line_len[k] + 1)
      BY <1>3, <1>5, <1>10, <2>1, <3>1
    <3> QED
      BY <1>3, <3>2, PositionForm
  <2>3. /\ Len(input) = m
        /\ \A j \in 1..m : input[j] = <<k, i + j>> /\ input[j] \in Bytes
    BY <1>3, <2>1, PacketBytes
  <2>4. input \in Seq(Bytes)
    <3>1. input = [j \in 1..m |-> <<k, i + j>>]
      BY DEF Packet
    <3> QED
      BY <1>5, <2>3, <3>1
  <2> HIDE DEF input
  <2>5. /\ Queue \o input \in Seq(Bytes) /\ Len(Queue \o input) = U + m
        /\ \A j \in 1..(U + m) :
              (Queue \o input)[j] = IF j <= U THEN Queue[j] ELSE input[j - U]
    BY <1>7, <2>3, <2>4, ConcatProperties
  <2>6. Queue' \in Seq(Bytes) /\ Len(Queue') = U + m
    BY <1>5, <1>6, <1>8
  <2>7. ASSUME NEW j \in 1..(U + m) PROVE Queue'[j] = (Queue \o input)[j]
    <3>1. Queue'[j] = Slot(j)'
      BY <1>5, <1>6
    <3>2. CASE j <= U
      <4>1. j \in 1..U
        BY <1>5, <3>2 DEF Index
      <4> QED
        BY <1>5, <1>7, <2>5, <3>1, <3>2, <4>1
    <3>3. CASE ~(j <= U)
      <4>1. j \in (U + 1)..(U + m) /\ j - U \in 1..m /\ j - U \in 1..n
        BY <1>4, <1>5, <3>3 DEF Index
      <4> QED
        BY <1>4, <1>5, <2>3, <2>5, <3>1, <3>3, <4>1
    <3> QED
      BY <3>2, <3>3
  <2>8. Queue' = Queue \o input
    BY <2>5, <2>6, <2>7, SeqEqual
  <2>9. Len(Queue) + Len(input) <= RingSize - 1
    <3>1. Free = (RingSize - 1) - U
      BY DEF Free, U
    <3> QED
      BY <1>5, <1>7, <2>3, <3>1, RxAssumption DEF Index
  <2>10. Fifo!Accept(input)
    BY <1>2, <2>8, <2>9 DEF Fifo!Accept
  <2> QED
    BY <1>3, <2>1, <2>2, <2>10 DEF input
<1> QED
  BY <1>9, <1>10

\* The task takes the first byte out of the queue.
LEMMA AdvanceTakes ==
    ASSUME TInv, TInv', Advance
    PROVE  Fifo!Take(1)
<1>1. /\ U \in Index /\ U > 0 /\ U' = U - 1
      /\ ch = Slot(1) /\ ch \in Bytes /\ taken' = Append(taken, ch)
      /\ \A j \in 1..(U - 1) : Slot(j)' = Slot(j + 1)
  BY TookByte DEF TInv
<1>2. U \in Nat
  BY <1>1, RxAssumption DEF Index
<1>3. Bytes' = Bytes
  BY SameBytes DEF Advance
<1>4. TInv' => QueueIsSeq'
  BY QueueSeq, PTL
<1>5. /\ Queue' \in Seq(Bytes) /\ Len(Queue') = U'
      /\ \A j \in 1..U' : Queue'[j] = Slot(j)'
  BY <1>3, <1>4 DEF QueueIsSeq
<1>6. /\ Queue \in Seq(Bytes) /\ Len(Queue) = U
      /\ \A j \in 1..U : Queue[j] = Slot(j)
  BY QueueSeq DEF QueueIsSeq
<1>7. taken' = taken \o SubSeq(Queue, 1, 1)
  <2>1. Queue[1] = ch
    BY <1>1, <1>2, <1>6
  <2>2. /\ SubSeq(Queue, 1, 1) \in Seq(Bytes) /\ Len(SubSeq(Queue, 1, 1)) = 1
        /\ SubSeq(Queue, 1, 1)[1] = ch
    BY <1>1, <1>2, <1>6, <2>1
  <2>3. SubSeq(Queue, 1, 1) = <<ch>>
    <3> DEFINE first == SubSeq(Queue, 1, 1)
    <3> HIDE DEF first
    <3>1. /\ <<ch>> \in Seq(Bytes) /\ Len(<<ch>>) = 1 /\ <<ch>>[1] = ch
          /\ first \in Seq(Bytes) /\ Len(first) = 1 /\ first[1] = ch
      BY <1>1, <2>2 DEF first
    <3>2. first = <<ch>>
      BY <3>1, SeqEqual
    <3> QED
      BY <3>2 DEF first
  <2>4. taken \in Seq(Bytes)
    BY DEF TInv, TypeOK
  <2> QED
    BY <1>1, <2>3, <2>4, AppendIsConcat
<1>8. Queue' = SubSeq(Queue, 2, Len(Queue))
  <2>1. /\ SubSeq(Queue, 2, Len(Queue)) \in Seq(Bytes)
        /\ Len(SubSeq(Queue, 2, Len(Queue))) = U - 1
        /\ \A j \in 1..(U - 1) :
              SubSeq(Queue, 2, Len(Queue))[j] = Queue[j + 1]
    BY <1>1, <1>2, <1>6
  <2>2. ASSUME NEW j \in 1..(U - 1)
        PROVE  Queue'[j] = SubSeq(Queue, 2, Len(Queue))[j]
    <3>1. j + 1 \in 1..U
      BY <1>2
    <3> QED
      BY <1>1, <1>5, <1>6, <2>1, <3>1
  <2> QED
    BY <1>1, <1>5, <2>1, <2>2, SeqEqual
<1> QED
  BY <1>1, <1>2, <1>6, <1>7, <1>8 DEF Fifo!Take

\* Every step is one of the queue, or none.
LEMMA FifoStep == TInv /\ TInv' /\ [Next]_vars => [Fifo!Next]_<<Queue, taken>>
<1> SUFFICES ASSUME TInv, TInv', [Next]_vars
             PROVE  [Fifo!Next]_<<Queue, taken>>
  OBVIOUS
<1>1. CASE HostSends
  BY <1>1, SendAccepts DEF Fifo!Next
<1>2. CASE TakeCR \/ TakeNewline \/ TakeChar
  <2>1. Advance
    BY <1>2 DEF TakeCR, TakeNewline, TakeChar
  <2> QED
    BY <2>1, AdvanceTakes DEF Fifo!Next
<1>3. CASE HostRestarts \/ Fetch \/ Dispatched \/ UNCHANGED vars
  <2>1. UNCHANGED <<ring_buf, ring_head, ring_tail, taken>>
    BY <1>3 DEF HostRestarts, Fetch, Dispatched, vars
  <2> QED
    BY <2>1 DEF Queue
<1> QED
  BY <1>1, <1>2, <1>3 DEF Next, SerialTask, Finished

\* Between the interrupt, which may come between any two steps of the task, and
\* the task the ring is a queue: what CDC_Receive_FS puts in comes out once and
\* in order, and volatile indices are all it takes (serial_cmd.cpp:28).
THEOREM RingIsFifo == Spec => IsFifo
<1>1. Init => Fifo!Init
  <2> SUFFICES ASSUME Init PROVE Queue = <<>> /\ taken = <<>>
    BY DEF Fifo!Init
  <2>1. U = 0
    BY UsedType, RxAssumption DEF Init, U, Index
  <2> QED
    BY <2>1 DEF Init, Queue, U
<1> QED
  BY <1>1, FifoStep, Invariance, PTL DEF Spec, IsFifo, Fifo!Spec, Fifo!vars

-----------------------------------------------------------------------------
(* A line that arrives whole *)

\* Only lost bytes lie between, also after n more of them.
LEMMA GapExtends ==
    ASSUME line_len \in Scripts, NEW a, a[1] \in Int, a[2] \in Int,
           NEW k \in Lines, NEW i \in Nat, NEW n \in Nat, NEW gone,
           i + n <= NLPos(k), \A q \in 1..n : <<k, i + q>> \in gone,
           Before(a, <<k, i + 1>>), Gap(a, <<k, i + 1>>, gone)
    PROVE  /\ Before(a, <<k, i + n + 1>>) /\ Gap(a, <<k, i + n + 1>>, gone)
           /\ i + n = NLPos(k) =>
                Before(a, <<k + 1, 1>>) /\ Gap(a, <<k + 1, 1>>, gone)
<1>1. k \in Nat /\ NLPos(k) \in Nat
  BY LineLength
<1>2. Before(a, <<k, i + n + 1>>) /\ Before(a, <<k + 1, 1>>)
  BY <1>1 DEF Before
<1>3. ASSUME NEW l \in Lines, NEW j \in 1..NLPos(l), Before(a, <<l, j>>),
             \/ Before(<<l, j>>, <<k, i + n + 1>>)
             \/ i + n = NLPos(k) /\ Before(<<l, j>>, <<k + 1, 1>>)
      PROVE  <<l, j>> \in gone
  <2>1. l \in Nat /\ j \in Nat /\ j >= 1 /\ j <= NLPos(l) /\ NLPos(l) \in Nat
    BY LineLength
  <2>2. l < k \/ (l = k /\ j <= i + n)
    BY <1>1, <1>3, <2>1 DEF Before
  <2>3. CASE Before(<<l, j>>, <<k, i + 1>>)
    BY <1>3, <2>3 DEF Gap
  <2>4. CASE ~Before(<<l, j>>, <<k, i + 1>>)
    <3>1. l = k /\ j >= i + 1
      BY <1>1, <2>1, <2>2, <2>4 DEF Before
    <3>2. j - i \in 1..n /\ i + (j - i) = j
      BY <2>1, <2>2, <3>1
    <3> QED
      BY <3>1, <3>2
  <2> QED
    BY <2>3, <2>4
<1> QED
  BY <1>2, <1>3 DEF Gap

\* The next byte of a whole line is the one after it.
LEMMA Predecessor ==
    ASSUME line_len \in Scripts, NEW a, a = <<0, 0>> \/ a \in Bytes,
           NEW k \in Lines, NEW i \in 1..NLPos(k), Whole(k),
           Before(a, <<k, i>>), Gap(a, <<k, i>>, lost)
    PROVE  /\ i > 1 => a = <<k, i - 1>>
           /\ i = 1 => a = <<0, 0>> \/ (k - 1 \in Lines /\ a = Newline(k - 1))
<1>1. k \in Nat /\ NLPos(k) \in Nat /\ i \in Nat /\ k >= 1 /\ k <= MaxLines
      /\ MaxLines \in Nat
  BY LineLength, RxAssumption DEF Lines
<1>2. CASE a = <<0, 0>>
  <2>1. ~(i > 1)
    <3> SUFFICES ASSUME i > 1 PROVE FALSE
      OBVIOUS
    <3>1. i - 1 \in 1..NLPos(k)
      BY <1>1
    <3>2. Before(a, <<k, i - 1>>) /\ Before(<<k, i - 1>>, <<k, i>>)
      BY <1>1, <1>2 DEF Before
    <3>3. <<k, i - 1>> \in lost
      BY <3>1, <3>2 DEF Gap
    <3>4. <<k, i - 1>> \in BytesOf(k)
      BY <3>1 DEF BytesOf
    <3> QED
      BY <3>3, <3>4 DEF Whole
  <2> QED
    BY <1>2, <2>1
<1>3. CASE a \in Bytes
  <2>1. /\ a[1] \in Lines /\ a[2] \in 1..NLPos(a[1]) /\ a = <<a[1], a[2]>>
        /\ a[1] \in Nat /\ a[2] \in Nat /\ a[2] >= 1 /\ a[2] <= NLPos(a[1])
        /\ a[1] >= 1
    BY <1>3, ByteForm, LineLength, RxAssumption DEF Lines
  <2>2. a[1] < k \/ (a[1] = k /\ a[2] < i)
    BY DEF Before
  <2>3. ASSUME i > 1 PROVE a = <<k, i - 1>>
    <3>1. i - 1 \in 1..NLPos(k)
      BY <1>1, <2>3
    <3>2. <<k, i - 1>> \notin lost
      BY <3>1 DEF BytesOf, Whole
    <3>3. Before(<<k, i - 1>>, <<k, i>>)
      BY <1>1 DEF Before
    <3>4. ~Before(a, <<k, i - 1>>)
      BY <3>1, <3>2, <3>3 DEF Gap
    <3>5. ~(a[1] < k) /\ ~(a[1] = k /\ a[2] < i - 1)
      BY <3>4 DEF Before
    <3>6. a[1] = k /\ a[2] = i - 1
      BY <1>1, <2>1, <2>2, <3>5
    <3> QED
      BY <2>1, <3>6
  <2>4. ASSUME i = 1 PROVE k - 1 \in Lines /\ a = Newline(k - 1)
    <3>1. a[1] < k
      BY <2>1, <2>2, <2>4
    <3>2. k > 1 /\ k - 1 \in Lines /\ k - 1 \in Nat
      BY <1>1, <2>1, <3>1 DEF Lines
    <3>3. Newline(k - 1) \notin lost
      BY <3>2 DEF Whole
    <3>4. NLPos(k - 1) \in 1..NLPos(k - 1) /\ NLPos(k - 1) \in Nat
      BY <3>2, LineLength DEF NLPos
    <3>5. Before(<<k - 1, NLPos(k - 1)>>, <<k, i>>)
      BY <1>1 DEF Before
    <3>6. ~Before(a, <<k - 1, NLPos(k - 1)>>)
      BY <3>2, <3>3, <3>4, <3>5 DEF Gap, Newline
    <3>7. ~(a[1] < k - 1) /\ ~(a[1] = k - 1 /\ a[2] < NLPos(k - 1))
      BY <3>6 DEF Before
    <3>8. a[1] = k - 1
      BY <1>1, <2>1, <3>1, <3>7
    <3>9. a[2] = NLPos(k - 1)
      BY <2>1, <3>4, <3>7, <3>8
    <3> QED
      BY <2>1, <3>2, <3>8, <3>9 DEF Newline
  <2> QED
    BY <2>3, <2>4
<1> QED
  BY <1>2, <1>3

\* What a packet adds to the queue, and what is lost of it
LEMMA PacketSent ==
    ASSUME TInv, HostSends
    PROVE  \E n \in Nat, m \in Nat :
              /\ m <= n /\ n > 0
              /\ sent[1] \in Lines /\ sent[2] \in Nat
              /\ sent[2] + n <= NLPos(sent[1])
              /\ sent' = Advanced(sent[1], sent[2] + n)
              /\ U \in Nat /\ U' = U + m
              /\ \A j \in 1..U : Slot(j)' = Slot(j)
              /\ \A j \in (U + 1)..(U + m) :
                    Slot(j)' = <<sent[1], sent[2] + (j - U)>>
              /\ lost' = lost \cup
                    {<<sent[1], sent[2] + q>> : q \in (m + 1)..n}
              /\ UNCHANGED <<pc, ch, rx_buffer, line, line_len, taken>>
<1>1. PICK n \in 1..PacketSize :
         /\ sent[1] \in Lines
         /\ sent[2] + n <= NLPos(sent[1])
         /\ CDC_Receive_FS(Packet(sent[1], sent[2], n))
         /\ sent' = Advanced(sent[1], sent[2] + n)
  BY DEF HostSends
<1>2. UNCHANGED <<ring_tail, pc, ch, rx_buffer, line, line_len, taken>>
  BY DEF HostSends, task_vars
<1> DEFINE packet == Packet(sent[1], sent[2], n)
           m == Fit(packet)
<1>3. sent[2] \in Nat /\ line_len \in Scripts
  BY DEF TInv, TypeOK
<1>4. /\ Len(packet) = n /\ n \in Nat /\ n > 0
      /\ \A j \in 1..n : /\ packet[j] = <<sent[1], sent[2] + j>>
                         /\ packet[j] \in Bytes
  BY <1>1, <1>3, PacketBytes
<1> HIDE DEF packet
<1>5. /\ m \in Nat /\ m <= n
      /\ U \in Index /\ U' = U + m
      /\ \A j \in 1..U : Slot(j)' = Slot(j)
      /\ \A i \in (U + 1)..(U + m) : Slot(i)' = packet[i - U]
  BY <1>1, <1>2, <1>4, Received DEF packet, TInv
<1>6. U \in Nat
  BY <1>5, RxAssumption DEF Index
<1>7. lost' = lost \cup {packet[j] : j \in (m + 1)..n}
  BY <1>1, <1>4 DEF CDC_Receive_FS, Receive, Fit, packet
<1> HIDE DEF m
<1>8. \A j \in (U + 1)..(U + m) : Slot(j)' = <<sent[1], sent[2] + (j - U)>>
  <2> TAKE j \in (U + 1)..(U + m)
  <2>1. j - U \in 1..n
    BY <1>4, <1>5, <1>6
  <2> QED
    BY <1>4, <1>5, <2>1
<1>9. lost' = lost \cup {<<sent[1], sent[2] + q>> : q \in (m + 1)..n}
  <2>1. \A j \in (m + 1)..n : packet[j] = <<sent[1], sent[2] + j>>
    BY <1>4, <1>5
  <2> QED
    BY <1>7, <2>1
<1> QED
  BY <1>1, <1>2, <1>3, <1>4, <1>5, <1>6, <1>8, <1>9

\* No byte lies between two that follow each other in a line.
LEMMA NextTo ==
    ASSUME line_len \in Scripts, NEW k \in Lines, NEW i \in Nat, NEW gone
    PROVE  Before(<<k, i>>, <<k, i + 1>>) /\ Gap(<<k, i>>, <<k, i + 1>>, gone)
<1>1. k \in Nat
  BY LineLength
<1>2. ASSUME NEW l \in Lines, NEW j \in 1..NLPos(l)
      PROVE  ~(Before(<<k, i>>, <<l, j>>) /\ Before(<<l, j>>, <<k, i + 1>>))
  BY <1>1, LineLength DEF Before
<1> QED
  BY <1>1, <1>2 DEF Before, Gap

\* Before every boundary of the queue is a byte, or the beginning of all lines.
LEMMA LeftType ==
    ASSUME TInv, NEW j \in 1..(U + 1)
    PROVE  /\ Left(j) = <<0, 0>> \/ Left(j) \in Bytes
           /\ Left(j)[1] \in Int /\ Left(j)[2] \in Int
<1>1. Left(j) = <<0, 0>> \/ Left(j) \in Bytes
  <2>1. CASE j = 1
    <3>1. taken \in Seq(Bytes)
      BY DEF TInv, TypeOK
    <3>2. taken # <<>> => taken[Len(taken)] \in Bytes
      BY <3>1
    <3> QED
      BY <2>1, <3>2 DEF Left, LastTaken
  <2>2. CASE j # 1
    <3>1. U \in Nat
      BY QueueLength DEF TInv
    <3>2. j - 1 \in 1..U
      BY <2>2, <3>1
    <3> QED
      BY <2>2, <3>2 DEF Left, TInv, QueueInv
  <2> QED
    BY <2>1, <2>2
<1>2. line_len \in Scripts
  BY DEF TInv, TypeOK
<1> HIDE DEF TInv
<1>3. CASE Left(j) \in Bytes
  <2>1. Left(j)[1] \in Lines /\ Left(j)[2] \in 1..NLPos(Left(j)[1])
    BY <1>3, ByteForm
  <2> QED
    BY <1>1, <1>2, <2>1, LineLength
<1> QED
  BY <1>1, <1>3

\* A packet: what does not get in is lost.
LEMMA GapSend ==
    ASSUME TInv, GapInv, HostSends
    PROVE  GapInv'
<1>1. PICK n \in Nat, m \in Nat :
         /\ m <= n /\ n > 0
         /\ sent[1] \in Lines /\ sent[2] \in Nat
         /\ sent[2] + n <= NLPos(sent[1])
         /\ sent' = Advanced(sent[1], sent[2] + n)
         /\ U \in Nat /\ U' = U + m
         /\ \A j \in 1..U : Slot(j)' = Slot(j)
         /\ \A j \in (U + 1)..(U + m) :
               Slot(j)' = <<sent[1], sent[2] + (j - U)>>
         /\ lost' = lost \cup {<<sent[1], sent[2] + q>> : q \in (m + 1)..n}
         /\ UNCHANGED <<pc, ch, rx_buffer, line, line_len, taken>>
  BY PacketSent
<1>2. line_len \in Scripts /\ \A k : NLPos(k)' = NLPos(k)
  BY <1>1, SameBytes DEF TInv, TypeOK
<1>3. PICK k \in Lines, i \in Nat : k = sent[1] /\ i = sent[2]
  BY <1>1
<1>4. k \in Nat /\ NLPos(k) \in Nat /\ i + n <= NLPos(k)
      /\ NextSent = <<k, i + 1>>
  BY <1>1, <1>2, <1>3, LineLength DEF NextSent
<1>5. /\ lost \subseteq lost'
      /\ \A q \in (m + 1)..n : <<k, i + q>> \in lost'
  BY <1>1, <1>3
<1>6. \A a, b : Gap(a, b, lost) => Gap(a, b, lost')
  BY <1>5 DEF Gap
<1>7. ASSUME NEW j \in 1..(U + 1)
      PROVE  /\ Left(j)' = Left(j)
             /\ Before(Left(j), Right(j)) /\ Gap(Left(j), Right(j), lost')
  <2>1. Left(j)' = Left(j)
    <3>1. CASE j = 1
      BY <1>1, <3>1 DEF Left, LastTaken
    <3>2. CASE j # 1
      <4>1. j - 1 \in 1..U
        BY <1>1, <3>2
      <4> QED
        BY <1>1, <3>2, <4>1 DEF Left
    <3> QED
      BY <3>1, <3>2
  <2>2. Before(Left(j), Right(j)) /\ Gap(Left(j), Right(j), lost)
    BY DEF GapInv
  <2> QED
    BY <1>6, <2>1, <2>2
<1>8. \A j \in 1..U : Right(j)' = Right(j)
  BY <1>1 DEF Right
<1>9. ASSUME NEW a, a[1] \in Int, a[2] \in Int,
             Before(a, <<k, (i + m) + 1>>),
             Gap(a, <<k, (i + m) + 1>>, lost')
      PROVE  Before(a, NextSent') /\ Gap(a, NextSent', lost')
  <2>1. /\ i + m \in Nat /\ n - m \in Nat /\ (i + m) + (n - m) = i + n
        /\ (i + m) + (n - m) <= NLPos(k)
    BY <1>1, <1>4
  <2>2. \A q \in 1..(n - m) : <<k, (i + m) + q>> \in lost'
    <3> TAKE q \in 1..(n - m)
    <3>1. m + q \in (m + 1)..n /\ i + (m + q) = (i + m) + q
      BY <1>1
    <3> QED
      BY <1>5, <3>1
  <2>3. /\ Before(a, <<k, i + n + 1>>) /\ Gap(a, <<k, i + n + 1>>, lost')
        /\ i + n = NLPos(k) =>
              Before(a, <<k + 1, 1>>) /\ Gap(a, <<k + 1, 1>>, lost')
    BY <1>2, <1>9, <2>1, <2>2, GapExtends
  <2>4. CASE i + n < NLPos(k)
    <3>1. NextSent' = <<k, i + n + 1>>
      BY <1>1, <1>3, <2>4 DEF NextSent, Advanced
    <3> QED
      BY <2>3, <3>1
  <2>5. CASE ~(i + n < NLPos(k))
    <3>1. i + n = NLPos(k)
      BY <1>4, <2>5
    <3>2. NextSent' = <<k + 1, 1>>
      BY <1>1, <1>3, <2>5 DEF NextSent, Advanced
    <3> QED
      BY <2>3, <3>1, <3>2
  <2> QED
    BY <2>4, <2>5
<1>10. ASSUME NEW j \in 1..(U' + 1)
       PROVE  Before(Left(j)', Right(j)') /\ Gap(Left(j)', Right(j)', lost')
  <2>1. CASE j <= U
    <3>1. j \in 1..U /\ j \in 1..(U + 1)
      BY <1>1, <2>1
    <3> QED
      BY <1>7, <1>8, <3>1
  <2>2. CASE j = U + 1
    <3>1. j \in 1..(U + 1) /\ Right(j) = <<k, i + 1>>
      BY <1>1, <1>4, <2>2 DEF Right
    <3>2. /\ Left(j)' = Left(j)
          /\ Before(Left(j), <<k, i + 1>>)
          /\ Gap(Left(j), <<k, i + 1>>, lost')
      BY <1>7, <3>1
    <3>3. CASE m = 0
      <4>1. Right(j)' = NextSent' /\ (i + m) + 1 = i + 1
        BY <1>1, <2>2, <3>3 DEF Right
      <4>2. Left(j)[1] \in Int /\ Left(j)[2] \in Int
        BY <3>1, LeftType
      <4> QED
        BY <1>9, <3>2, <4>1, <4>2
    <3>4. CASE m # 0
      <4>1. j # U' + 1 /\ j \in (U + 1)..(U + m) /\ j - U = 1
        BY <1>1, <2>2, <3>4
      <4>2. Right(j)' = <<k, i + 1>>
        BY <1>1, <1>3, <4>1 DEF Right
      <4> QED
        BY <3>2, <4>2
    <3> QED
      BY <3>3, <3>4
  <2>3. CASE j > U + 1
    <3>1. /\ j # 1 /\ j - 1 \in (U + 1)..(U + m) /\ j - U - 1 \in Nat
          /\ (j - 1) - U = j - U - 1 /\ j - 1 >= 1 /\ j \in Int
          /\ j <= U + m + 1
      BY <1>1, <2>3
    <3> DEFINE p == i + (j - U - 1)
    <3>2. p \in Nat
      BY <3>1
    <3>3. Left(j)' = <<k, p>>
      BY <1>1, <1>3, <3>1 DEF Left
    <3>4. Before(<<k, p>>, <<k, p + 1>>) /\ Gap(<<k, p>>, <<k, p + 1>>, lost')
      BY <1>2, <3>2, NextTo
    <3>5. CASE j = U' + 1
      <4>1. Right(j)' = NextSent' /\ p = i + m
        BY <1>1, <1>4, <3>5 DEF Right
      <4>2. <<k, p>>[1] \in Int /\ <<k, p>>[2] \in Int
        BY <1>4, <3>2
      <4> HIDE DEF p
      <4> QED
        BY <1>9, <3>3, <3>4, <4>1, <4>2
    <3>6. CASE j # U' + 1
      <4>1. j \in (U + 1)..(U + m) /\ i + (j - U) = p + 1
        BY <1>1, <2>3, <3>1, <3>6
      <4>2. Right(j)' = <<k, p + 1>>
        BY <1>1, <1>3, <3>6, <4>1 DEF Right
      <4> HIDE DEF p
      <4> QED
        BY <3>3, <3>4, <4>2
    <3> QED
      BY <3>5, <3>6
  <2> QED
    BY <1>1, <2>1, <2>2, <2>3
<1> QED
  BY <1>2, <1>10 DEF GapInv, Gap

\* A restart: the rest of the line is lost.
LEMMA GapRestart ==
    ASSUME TInv, GapInv, HostRestarts
    PROVE  GapInv'
<1>1. /\ sent[1] \in Lines /\ sent' = <<sent[1] + 1, 0>>
      /\ lost' = lost \cup {<<sent[1], i>> :
                                i \in (sent[2] + 1)..NLPos(sent[1])}
      /\ UNCHANGED <<ring_buf, ring_head, ring_tail, line_len, taken>>
  BY DEF HostRestarts
<1>2. line_len \in Scripts /\ \A k : NLPos(k)' = NLPos(k)
  BY <1>1, SameBytes DEF TInv, TypeOK
<1>3. PICK k \in Lines, i \in Nat : k = sent[1] /\ i = sent[2]
  BY <1>1 DEF TInv, TypeOK
<1>4. /\ k \in Nat /\ NLPos(k) \in Nat /\ i < NLPos(k)
      /\ NextSent = <<k, i + 1>> /\ NextSent' = <<k + 1, 1>>
  BY <1>1, <1>2, <1>3, LineLength DEF NextSent, TInv, SentInv
<1>5. /\ lost \subseteq lost'
      /\ \A j \in (i + 1)..NLPos(k) : <<k, j>> \in lost'
  BY <1>1, <1>3
<1>6. \A a, b : Gap(a, b, lost) => Gap(a, b, lost')
  BY <1>5 DEF Gap
<1>7. U' = U /\ U \in Nat
  <2>1. U' = U
    BY <1>1 DEF U
  <2>2. U \in Nat
    BY QueueLength DEF TInv
  <2> QED
    BY <2>1, <2>2
<1>8. \A j : Left(j)' = Left(j)
  BY <1>1 DEF Left, LastTaken, Slot
<1>9. ASSUME NEW j \in 1..(U' + 1)
      PROVE  Before(Left(j)', Right(j)') /\ Gap(Left(j)', Right(j)', lost')
  <2>1. j \in 1..(U + 1)
    BY <1>7
  <2>2. Before(Left(j), Right(j)) /\ Gap(Left(j), Right(j), lost')
    BY <1>6, <2>1 DEF GapInv
  <2>3. CASE j # U + 1
    <3>1. Right(j)' = Right(j)
      BY <1>1, <1>7, <2>3 DEF Right, Slot
    <3> QED
      BY <1>8, <2>2, <3>1
  <2>4. CASE j = U + 1
    <3>1. Right(j) = <<k, i + 1>> /\ Right(j)' = <<k + 1, 1>>
      BY <1>4, <1>7, <2>4 DEF Right
    <3>2. Left(j)[1] \in Int /\ Left(j)[2] \in Int
      BY <2>1, LeftType
    <3>3. PICK n \in Nat : n = NLPos(k) - i
      BY <1>4
    <3>4. i + n = NLPos(k) /\ \A q \in 1..n : <<k, i + q>> \in lost'
      <4>1. i + n = NLPos(k) /\ \A q \in 1..n : i + q \in (i + 1)..NLPos(k)
        BY <1>4, <3>3
      <4> QED
        BY <1>5, <4>1
    <3>5. Before(Left(j), <<k, i + 1>>) /\ Gap(Left(j), <<k, i + 1>>, lost')
      BY <2>2, <3>1
    <3>6. i + n <= NLPos(k)
      BY <1>4, <3>4
    <3>7. Before(Left(j), <<k + 1, 1>>) /\ Gap(Left(j), <<k + 1, 1>>, lost')
      BY <1>2, <3>2, <3>4, <3>5, <3>6, GapExtends
    <3> QED
      BY <1>8, <3>1, <3>7
  <2> QED
    BY <2>3, <2>4
<1> QED
  BY <1>2, <1>9 DEF GapInv, Gap

\* The task takes a byte: every boundary moves up.
LEMMA GapTake ==
    ASSUME TInv, GapInv, Advance
    PROVE  /\ GapInv'
           /\ Before(LastTaken, ch) /\ Gap(LastTaken, ch, lost)
           /\ taken' # <<>> /\ LastTaken' = ch /\ taken'[Len(taken')] = ch
<1>1. /\ U \in Index /\ U > 0 /\ U' = U - 1
      /\ ch = Slot(1) /\ taken' = Append(taken, ch)
      /\ \A j \in 1..(U - 1) : Slot(j)' = Slot(j + 1)
  BY TookByte DEF TInv
<1>2. /\ UNCHANGED <<line_len, sent, lost>> /\ \A k : NLPos(k)' = NLPos(k)
      /\ taken \in Seq(Bytes)
  <2>1. UNCHANGED <<line_len, sent, lost>> /\ taken \in Seq(Bytes)
    BY DEF Advance, TInv, TypeOK
  <2> QED
    BY <2>1, SameBytes
<1>3. U \in Nat
  BY <1>1, RxAssumption DEF Index
<1>4. taken' # <<>> /\ taken'[Len(taken')] = ch /\ LastTaken' = ch
  <2>1. ch \in Bytes
    BY TookByte DEF TInv
  <2>2. taken' # <<>> /\ taken'[Len(taken')] = ch
    BY <1>1, <1>2, <2>1, AppendProperties
  <2> QED
    BY <2>2 DEF LastTaken
<1>5. Before(LastTaken, ch) /\ Gap(LastTaken, ch, lost)
  <2>1. 1 \in 1..(U + 1) /\ Left(1) = LastTaken /\ Right(1) = ch
    BY <1>1, <1>3 DEF Left, Right
  <2> QED
    BY <2>1 DEF GapInv
<1>6. ASSUME NEW j \in 1..(U' + 1)
      PROVE  Before(Left(j)', Right(j)') /\ Gap(Left(j)', Right(j)', lost')
  <2>1. j \in 1..U /\ j + 1 \in 1..(U + 1) /\ j + 1 # 1 /\ (j + 1) - 1 = j
    BY <1>1, <1>3
  <2>2. Left(j)' = Left(j + 1)
    <3>1. CASE j = 1
      BY <1>1, <1>4, <2>1, <3>1 DEF Left
    <3>2. CASE j # 1
      <4>1. j - 1 \in 1..(U - 1) /\ (j - 1) + 1 = j
        BY <1>3, <2>1, <3>2
      <4>2. Slot(j - 1)' = Slot(j)
        BY <1>1, <4>1
      <4> QED
        BY <2>1, <3>2, <4>2 DEF Left
    <3> QED
      BY <3>1, <3>2
  <2>3. Right(j)' = Right(j + 1)
    <3>1. CASE j = U
      <4>1. j = U' + 1 /\ j + 1 = U + 1 /\ NextSent' = NextSent
        BY <1>1, <1>2, <1>3, <3>1 DEF NextSent
      <4> QED
        BY <4>1 DEF Right
    <3>2. CASE j # U
      <4>1. j \in 1..(U - 1) /\ j # U' + 1 /\ j + 1 # U + 1
        BY <1>1, <1>3, <2>1, <3>2
      <4> QED
        BY <1>1, <4>1 DEF Right
    <3> QED
      BY <3>1, <3>2
  <2>4. Before(Left(j + 1), Right(j + 1))
        /\ Gap(Left(j + 1), Right(j + 1), lost)
    BY <2>1 DEF GapInv
  <2> QED
    BY <1>2, <2>2, <2>3, <2>4
<1> QED
  BY <1>2, <1>4, <1>5, <1>6 DEF GapInv, Gap

\* Initially nothing was taken, and everything is to come.
LEMMA InitLine == Init => LInv
<1> SUFFICES ASSUME Init PROVE LInv
  OBVIOUS
<1>1. /\ U = 0 /\ taken = <<>> /\ rx_buffer = <<>> /\ pc = "test"
      /\ LastTaken = <<0, 0>> /\ NextSent = <<1, 1>>
  BY UsedType, RxAssumption DEF Init, U, Index, LastTaken, NextSent
<1>2. Before(<<0, 0>>, <<1, 1>>) /\ Gap(<<0, 0>>, <<1, 1>>, lost)
  <2>1. ASSUME NEW k \in Lines, NEW i \in 1..NLPos(k)
        PROVE  ~Before(<<k, i>>, <<1, 1>>)
    BY RxAssumption DEF Lines, Before
  <2> QED
    BY <2>1 DEF Before, Gap
<1>3. GapInv
  <2>1. ASSUME NEW j \in 1..(U + 1)
        PROVE  Left(j) = <<0, 0>> /\ Right(j) = <<1, 1>>
    BY <1>1 DEF Left, Right
  <2> QED
    BY <1>2, <2>1 DEF GapInv
<1>4. ReadInv
  <2>1. \A k \in Lines : \A i : <<0, 0>> # <<k, i>>
    BY RxAssumption DEF Lines
  <2> QED
    BY <1>1, <2>1 DEF ReadInv, Newline
<1>5. LineInv
  BY <1>1 DEF LineInv
<1> QED
  BY <1>3, <1>4, <1>5 DEF LInv

\* A step that takes no byte and leaves the reader alone
LEMMA ReadKept ==
    ASSUME ReadInv, LineInv, lost \subseteq lost',
           UNCHANGED <<rx_buffer, line_len, taken>>,
           pc' # "dispatch" \/ UNCHANGED <<pc, line>>
    PROVE  ReadInv' /\ LineInv'
<1>1. /\ LastTaken' = LastTaken
      /\ \A k : /\ Newline(k)' = Newline(k) /\ CRPos(k)' = CRPos(k)
                /\ Payload(k)' = Payload(k)
                /\ Fits(k)' = Fits(k) /\ BytesOf(k)' = BytesOf(k)
  BY DEF LastTaken, Newline, NLPos, CRPos, Payload, Fits, BytesOf
<1>2. \A k : Whole(k)' => Whole(k)
  BY <1>1 DEF Whole
<1>3. ReadInv'
  BY <1>1, <1>2 DEF ReadInv
<1>4. LineInv'
  <2>1. CASE pc' # "dispatch"
    BY <2>1 DEF LineInv
  <2>2. CASE UNCHANGED <<pc, line>>
    BY <1>1, <1>2, <2>2 DEF LineInv, Current, Truncated
  <2> QED
    BY <2>1, <2>2
<1> QED
  BY <1>3, <1>4

\* The characters of a line before a byte of it, when they all arrived
LEMMA SoFar ==
    ASSUME TInv, GapInv, ReadInv, Advance,
           NEW k \in Lines, NEW i \in 1..NLPos(k), ch = <<k, i>>,
           Whole(k), Fits(k)
    PROVE  /\ i <= CRPos(k) => rx_buffer = Prefix(k, i - 1)
           /\ i = NLPos(k) => rx_buffer = Payload(k)
<1>1. Before(LastTaken, ch) /\ Gap(LastTaken, ch, lost)
  BY GapTake
<1>2. line_len \in Scripts /\ taken \in Seq(Bytes)
  BY DEF TInv, TypeOK
<1>3. LastTaken = <<0, 0>> \/ LastTaken \in Bytes
  BY <1>2 DEF LastTaken
<1>4. /\ i > 1 => LastTaken = <<k, i - 1>>
      /\ i = 1 => LastTaken = <<0, 0>>
                  \/ (k - 1 \in Lines /\ LastTaken = Newline(k - 1))
  BY <1>1, <1>2, <1>3, Predecessor
<1>5. /\ k \in Nat /\ line_len[k] \in Nat /\ i \in Nat /\ i >= 1
      /\ CRPos(k) = line_len[k] + 1 /\ NLPos(k) = line_len[k] + 2
  BY <1>2, LineLength DEF CRPos, NLPos
<1>6. CASE i = 1
  <2>1. rx_buffer = <<>>
    <3>1. CASE LastTaken = <<0, 0>>
      <4>1. taken = <<>>
        <5>1. taken # <<>> => LastTaken \in Bytes
          BY <1>2 DEF LastTaken
        <5>2. <<0, 0>> \notin Bytes
          BY ByteForm, RxAssumption DEF Lines
        <5> QED
          BY <3>1, <5>1, <5>2
      <4> QED
        BY <4>1 DEF ReadInv
    <3>2. CASE k - 1 \in Lines /\ LastTaken = Newline(k - 1)
      BY <3>2 DEF ReadInv
    <3> QED
      BY <1>4, <1>6, <3>1, <3>2
  <2>2. Prefix(k, 0) = <<>>
    BY DEF Prefix
  <2> QED
    BY <1>5, <1>6, <2>1, <2>2
<1>7. CASE i > 1 /\ i <= CRPos(k)
  <2>1. i - 1 \in 1..line_len[k] /\ LastTaken = <<k, i - 1>>
    BY <1>4, <1>5, <1>7
  <2>2. rx_buffer = Prefix(k, i - 1)
    BY <2>1 DEF ReadInv
  <2> QED
    BY <1>5, <1>7, <2>2
<1>8. CASE i = NLPos(k)
  <2>1. LastTaken = <<k, CRPos(k)>>
    BY <1>4, <1>5, <1>8
  <2>2. rx_buffer = Payload(k)
    BY <2>1 DEF ReadInv
  <2> QED
    BY <1>5, <1>8, <2>2
<1> QED
  BY <1>5, <1>6, <1>7, <1>8

\* A character goes behind those before it.
LEMMA PrefixGrows ==
    ASSUME NEW k, NEW i \in Nat \ {0}
    PROVE  /\ Len(Prefix(k, i - 1)) = i - 1
           /\ Append(Prefix(k, i - 1), <<k, i>>) = Prefix(k, i)
<1> DEFINE S == {<<k, j>> : j \in Nat}
<1>1. \A n \in Nat : /\ Prefix(k, n) \in Seq(S) /\ Len(Prefix(k, n)) = n
                     /\ \A j \in 1..n : Prefix(k, n)[j] = <<k, j>>
  BY DEF Prefix
<1>2. i - 1 \in Nat /\ i \in Nat /\ <<k, i>> \in S
  OBVIOUS
<1> HIDE DEF S
<1> DEFINE before == Prefix(k, i - 1)
           after == Prefix(k, i)
<1>3. /\ before \in Seq(S) /\ Len(before) = i - 1
      /\ \A j \in 1..(i - 1) : before[j] = <<k, j>>
  BY <1>1, <1>2
<1>4. /\ after \in Seq(S) /\ Len(after) = i
      /\ \A j \in 1..i : after[j] = <<k, j>>
  BY <1>1, <1>2
<1> HIDE DEF before, after
<1>5. /\ Append(before, <<k, i>>) \in Seq(S)
      /\ Len(Append(before, <<k, i>>)) = i
      /\ \A j \in 1..i : Append(before, <<k, i>>)[j] = <<k, j>>
  BY <1>2, <1>3, AppendProperties
<1>6. Append(before, <<k, i>>) = after
  BY <1>4, <1>5, SeqEqual
<1> QED
  BY <1>3, <1>6 DEF before, after

\* The reader keeps step with the bytes it takes.
LEMMA ReadTake ==
    ASSUME TInv, GapInv, ReadInv, TakeCR \/ TakeNewline \/ TakeChar
    PROVE  ReadInv' /\ LineInv'
<1>1. Advance
  BY DEF TakeCR, TakeNewline, TakeChar
<1>2. /\ taken' # <<>> /\ LastTaken' = ch /\ taken'[Len(taken')] = ch
      /\ ch \in Bytes
  BY <1>1, GapTake, TookByte DEF TInv
<1>3. line_len \in Scripts /\ UNCHANGED <<line_len, lost>>
  BY <1>1 DEF Advance, TInv, TypeOK
<1>4. /\ \A k : /\ Newline(k)' = Newline(k) /\ CRPos(k)' = CRPos(k)
                /\ Payload(k)' = Payload(k)
                /\ Fits(k)' = Fits(k) /\ Whole(k)' = Whole(k)
  BY <1>3 DEF Newline, NLPos, CRPos, Payload, Fits, BytesOf, Whole
<1>5. PICK k \in Lines, i \in Nat : i \in 1..NLPos(k) /\ ch = <<k, i>>
  BY <1>2, <1>3, ByteForm, LineLength
<1>6. /\ line_len[k] \in Nat /\ CRPos(k) = line_len[k] + 1
      /\ NLPos(k) = line_len[k] + 2
  BY <1>3, LineLength DEF CRPos, NLPos
<1>7. \A l \in Lines :
        /\ LastTaken' = Newline(l) <=> (l = k /\ i = NLPos(k))
        /\ \A j : LastTaken' = <<l, j>> <=> (l = k /\ i = j)
  BY <1>2, <1>5 DEF Newline
<1>8. Whole(k) /\ Fits(k) =>
        /\ i <= CRPos(k) => rx_buffer = Prefix(k, i - 1)
        /\ i = NLPos(k) => rx_buffer = Payload(k)
  BY <1>1, <1>5, SoFar
<1>9. CASE TakeCR
  <2>1. i = CRPos(k) /\ rx_buffer' = rx_buffer /\ pc' = "test"
    BY <1>5, <1>9 DEF TakeCR
  <2>2. Prefix(k, i - 1) = Payload(k)
    BY <1>6, <2>1 DEF Prefix, Payload
  <2>3. \A l \in Lines :
          /\ LastTaken' # Newline(l)
          /\ \A j \in 1..line_len[l] : LastTaken' # <<l, j>>
          /\ LastTaken' = <<l, CRPos(l)>> /\ Whole(l) /\ Fits(l) =>
                rx_buffer' = Payload(l)
    BY <1>6, <1>7, <1>8, <2>1, <2>2
  <2> QED
    BY <1>2, <1>3, <1>4, <2>1, <2>3 DEF ReadInv, LineInv
<1>10. CASE TakeNewline
  <2>1. /\ i = NLPos(k) /\ rx_buffer' = <<>>
        /\ line' = Truncated(rx_buffer)
    BY <1>5, <1>10 DEF TakeNewline
  <2>2. \A l \in Lines :
          /\ LastTaken' # <<l, CRPos(l)>>
          /\ \A j \in 1..line_len[l] : LastTaken' # <<l, j>>
    BY <1>6, <1>7, <2>1
  <2>3. ReadInv'
    BY <1>2, <1>3, <1>4, <2>1, <2>2 DEF ReadInv
  <2>4. Current' = k
    BY <1>2, <1>5 DEF Current
  <2>5. LineInv'
    BY <1>2, <1>4, <1>8, <2>1, <2>4 DEF LineInv, Truncated
  <2> QED
    BY <2>3, <2>5
<1>11. CASE TakeChar
  <2>1. i \in 1..line_len[k] /\ pc' = "test"
        /\ rx_buffer' = (IF Len(rx_buffer) + 1 < BufferSize
                         THEN Append(rx_buffer, ch)
                         ELSE <<>>)
    BY <1>5, <1>6, <1>11 DEF TakeChar
  <2>2. ASSUME Whole(k), Fits(k) PROVE rx_buffer' = Prefix(k, i)
    <3>1. i \in Nat \ {0} /\ i <= CRPos(k) /\ i < BufferSize
      BY <1>6, <2>1, <2>2, RxAssumption DEF Fits
    <3>2. rx_buffer = Prefix(k, i - 1)
      BY <1>8, <2>2, <3>1
    <3>3. Len(rx_buffer) + 1 < BufferSize
      <4>1. Len(rx_buffer) = i - 1
        BY <3>1, <3>2, PrefixGrows
      <4> QED
        BY <3>1, <4>1
    <3> QED
      BY <1>5, <2>1, <3>1, <3>2, <3>3, PrefixGrows
  <2>3. \A l \in Lines :
          /\ LastTaken' # Newline(l) /\ LastTaken' # <<l, CRPos(l)>>
          /\ \A j \in 1..line_len[l] :
                LastTaken' = <<l, j>> /\ Whole(l) /\ Fits(l) =>
                    rx_buffer' = Prefix(l, j)
    <3> TAKE l \in Lines
    <3>1. i # NLPos(k) /\ i # CRPos(k)
      BY <1>6, <2>1
    <3>2. LastTaken' # Newline(l) /\ LastTaken' # <<l, CRPos(l)>>
      BY <1>7, <3>1
    <3> QED
      BY <1>7, <2>2, <3>2
  <2>4. \A l, j : Prefix(l, j)' = Prefix(l, j)
    BY DEF Prefix
  <2> QED
    BY <1>2, <1>3, <1>4, <2>1, <2>3, <2>4 DEF ReadInv, LineInv
<1> QED
  BY <1>9, <1>10, <1>11

\* Every step keeps the lines in step.
LEMMA LineStep == TInv /\ LInv /\ [Next]_vars => LInv'
<1> SUFFICES ASSUME TInv, GapInv, ReadInv, LineInv, [Next]_vars PROVE LInv'
  BY DEF LInv
<1>1. CASE HostSends
  <2>1. /\ lost \subseteq lost'
        /\ UNCHANGED <<pc, rx_buffer, line, line_len, taken>>
    BY <1>1, PacketSent
  <2> QED
    BY <1>1, <2>1, GapSend, ReadKept DEF LInv
<1>2. CASE HostRestarts
  <2>1. /\ lost \subseteq lost'
        /\ UNCHANGED <<pc, rx_buffer, line, line_len, taken>>
    BY <1>2 DEF HostRestarts, task_vars
  <2> QED
    BY <1>2, <2>1, GapRestart, ReadKept DEF LInv
<1>3. CASE TakeCR \/ TakeNewline \/ TakeChar
  <2>1. Advance
    BY <1>3 DEF TakeCR, TakeNewline, TakeChar
  <2> QED
    BY <1>3, <2>1, GapTake, ReadTake DEF LInv
<1>4. CASE Fetch \/ Dispatched \/ UNCHANGED vars
  <2>1. /\ UNCHANGED <<ring_buf, ring_head, ring_tail, rx_buffer, line_len,
                       sent, lost, taken>>
        /\ pc' # "dispatch" \/ UNCHANGED <<pc, line>>
    BY <1>4 DEF Fetch, Dispatched, vars, task_vars
  <2>2. GapInv'
    <3>1. /\ U' = U /\ \A j : Left(j)' = Left(j) /\ Right(j)' = Right(j)
          /\ \A k : NLPos(k)' = NLPos(k)
      BY <2>1 DEF U, Left, Right, LastTaken, NextSent, Slot, NLPos
    <3> QED
      BY <2>1, <3>1 DEF GapInv, Gap
  <2> QED
    BY <2>1, <2>2, ReadKept DEF LInv
<1> QED
  BY <1>1, <1>2, <1>3, <1>4 DEF Next, SerialTask, Finished

\* The line in dispatch is the one that was sent.
LEMMA LineKept == TInv /\ LInv => LineIntact
<1> SUFFICES ASSUME TInv, LineInv, pc = "dispatch", Whole(Current)
             PROVE  LET n == line_len[Current]
                    IN  /\ n < OutSize /\ n < BufferSize =>
                              line = Payload(Current)
                        /\ OutSize <= n /\ n < BufferSize =>
                              line = SubSeq(Payload(Current), 1, OutSize - 1)
  BY DEF LInv, LineIntact
<1> DEFINE k == Current
           n == line_len[k]
           S == {<<k, j>> : j \in Nat}
<1>1. taken # <<>> /\ (Fits(k) => line = Truncated(Payload(k)))
  BY DEF LineInv
<1>2. k \in Lines /\ line_len \in Scripts
  <2>1. taken \in Seq(Bytes) /\ line_len \in Scripts
    BY DEF TInv, TypeOK
  <2>2. taken[Len(taken)] \in Bytes
    BY <1>1, <2>1
  <2> QED
    BY <2>1, <2>2, ByteForm DEF Current
<1>3. n \in Nat
  BY <1>2, LineLength
<1>4. Payload(k) \in Seq(S) /\ Len(Payload(k)) = n
  BY <1>3 DEF Payload
<1> HIDE DEF k, S
<1>5. ASSUME n < OutSize, n < BufferSize PROVE line = Payload(k)
  <2>1. line = SubSeq(Payload(k), 1, Len(Payload(k)))
    BY <1>1, <1>4, <1>5 DEF Fits, Truncated
  <2> QED
    BY <1>4, <2>1
<1>6. ASSUME OutSize <= n, n < BufferSize
      PROVE  line = SubSeq(Payload(k), 1, OutSize - 1)
  <2>1. ~(Len(Payload(k)) < OutSize)
    BY <1>3, <1>4, <1>6, RxAssumption
  <2> QED
    BY <1>1, <1>6, <2>1 DEF Fits, Truncated
<1> QED
  BY <1>5, <1>6 DEF k

\* A line whose bytes all arrived, after a newline that arrived, is dispatched
\* as it was sent (or as far as the caller's buffer holds it), whatever was
\* lost, cut or too long before it: for any sizes, lines and packets
\* (serial_cmd.cpp:68-90).
THEOREM LinesIntact == Spec => []LineIntact
<1>1. TInv /\ LInv => LineIntact
  BY LineKept
<1> QED
  BY <1>1, InitLine, LineStep, Invariance, PTL DEF Spec
==============================================================================
