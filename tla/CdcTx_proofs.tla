---------------------------- MODULE CdcTx_proofs ----------------------------
(***************************************************************************)
(* Proofs about CdcTx for any ring, chunk and line size: the bytes in      *)
(* flight are queued bytes, no wake-up is lost, the variables keep their   *)
(* types, the transmit path of an open port is a queue, and of the tasks   *)
(* that share a buffer one never loses its line.                           *)
(***************************************************************************)
EXTENDS CdcTx, SequenceTheorems, TLAPS

-----------------------------------------------------------------------------
(* The ring arithmetic *)

Index == 0..(TxSize - 1)

\* The part of the type invariant that the proofs need.
Indices ==
    /\ tx_head \in Index /\ tx_tail \in Index
    /\ tx_in_flight \in Nat /\ TxLength \in Nat
    /\ kick \in [Tasks -> [tail : Index, chunk : Nat]]

RingInv == Indices /\ InFlightQueued

\* A chunk consists of queued bytes and does not wrap.
LEMMA ChunkQueued ==
    ASSUME NEW head \in Index, NEW tail \in Index
    PROVE  /\ Used(head, tail) \in Nat
           /\ Chunk(head, tail) \in Nat
           /\ Chunk(head, tail) <= Used(head, tail)
           /\ tail + Chunk(head, tail) <= TxSize
           /\ Used(head, head) = 0
           /\ head # tail => Chunk(head, tail) > 0
BY SizeAssumption DEF Index, Used, Chunk, Least

\* Taking queued bytes that do not wrap leaves the tail in the ring.
LEMMA TailMoved ==
    ASSUME NEW head \in Index, NEW tail \in Index, NEW n \in Nat,
           n <= Used(head, tail), tail + n <= TxSize
    PROVE  Wrap(tail + n) \in Index
BY SizeAssumption DEF Index, Wrap

\* Putting a line where there is room for it moves the head by its length.
LEMMA HeadMoved ==
    ASSUME NEW head \in Index, NEW tail \in Index, LineLen <= Free(head, tail)
    PROVE  /\ Wrap(head + LineLen) \in Index
           /\ Used(Wrap(head + LineLen), tail) = Used(head, tail) + LineLen
BY SizeAssumption DEF Index, Wrap, Free, Used

-----------------------------------------------------------------------------
(* The bytes in flight *)

\* Nothing is in flight at first.
LEMMA RingInit == Init => RingInv
<1> SUFFICES ASSUME Init PROVE RingInv
  OBVIOUS
<1>1. 0 \in Index /\ NoKick \in [tail : Index, chunk : Nat]
  BY SizeAssumption DEF Index, NoKick
<1>2. kick \in [Tasks -> [tail : Index, chunk : Nat]]
  BY <1>1 DEF Init
<1>3. tx_head = 0 /\ tx_tail = 0 /\ tx_in_flight = 0 /\ TxLength = 0
  BY DEF Init
<1>4. 0 <= Used(0, 0) /\ 0 + 0 <= TxSize
  BY SizeAssumption DEF Used
<1> QED
  BY <1>1, <1>2, <1>3, <1>4 DEF RingInv, Indices, InFlightQueued

\* RingInv depends on the indices and the claimed chunks only.
LEMMA RingKept ==
    ASSUME RingInv,
           UNCHANGED <<tx_head, tx_tail, tx_in_flight, TxLength>>,
           kick' = kick \/ \E t \in Tasks : kick' = [kick EXCEPT ![t] = NoKick]
    PROVE  RingInv'
<1>1. NoKick \in [tail : Index, chunk : Nat]
  BY SizeAssumption DEF NoKick, Index
<1>2. kick' \in [Tasks -> [tail : Index, chunk : Nat]]
  BY <1>1 DEF RingInv, Indices
<1> QED
  BY <1>2 DEF RingInv, Indices, InFlightQueued

\* A kick in a handler claims queued bytes or leaves the claim as it is.
LEMMA HandlerKick ==
    ASSUME NEW state, NEW running, NEW flight \in Nat, NEW tail \in Index,
           tx_head \in Index, TxLength \in Nat,
           flight <= Used(tx_head, tail), tail + flight <= TxSize,
           KickInHandler(state, running, flight, tail)
    PROVE  /\ tx_in_flight' \in Nat /\ TxLength' \in Nat
           /\ tx_in_flight' <= Used(tx_head, tail)
           /\ tail + tx_in_flight' <= TxSize
BY ChunkQueued DEF KickInHandler

\* Every step keeps RingInv.
LEMMA RingStep ==
    ASSUME RingInv, [Next]_vars
    PROVE  RingInv'
<1> USE DEF ring_vars, class_vars, task_vars
<1>1. ASSUME NEW t \in Tasks, SendLine(t) PROVE RingInv'
  BY <1>1, RingKept DEF SendLine
<1>2. ASSUME NEW t \in Tasks, CheckState(t) PROVE RingInv'
  BY <1>2, RingKept DEF CheckState
<1>3. ASSUME NEW t \in Tasks, Enqueue(t) PROVE RingInv'
  <2>1. /\ tx_head \in Index /\ tx_tail \in Index /\ tx_in_flight \in Nat
        /\ tx_in_flight <= Used(tx_head, tx_tail)
        /\ Used(tx_head, tx_tail) \in Nat
    BY ChunkQueued DEF RingInv, Indices, InFlightQueued
  <2>2. /\ tx_head' \in Index
        /\ Used(tx_head', tx_tail) = Used(tx_head, tx_tail) + LineLen
    BY <1>3, <2>1, HeadMoved DEF Enqueue
  <2>3. tx_in_flight <= Used(tx_head', tx_tail)
    BY <2>1, <2>2, SizeAssumption
  <2> QED
    BY <1>3, <2>2, <2>3 DEF Enqueue, RingInv, Indices, InFlightQueued
<1>4. ASSUME NEW t \in Tasks, RingFull(t) PROVE RingInv'
  BY <1>4, RingKept DEF RingFull
<1>5. ASSUME NEW t \in Tasks, Delay(t) PROVE RingInv'
  BY <1>5, RingKept DEF Delay, Return
<1>6. ASSUME NEW t \in Tasks, KickTest(t) PROVE RingInv'
  BY <1>6, RingKept DEF KickTest, Return
<1>7. ASSUME NEW t \in Tasks, KickLock(t) PROVE RingInv'
  <2>1. CASE tx_in_flight = 0 /\ tx_head # tx_tail
    <3>1. /\ Chunk(tx_head, tx_tail) \in Nat
          /\ Chunk(tx_head, tx_tail) <= Used(tx_head, tx_tail)
          /\ tx_tail + Chunk(tx_head, tx_tail) <= TxSize
      BY ChunkQueued DEF RingInv, Indices
    <3>2. tx_in_flight' = Chunk(tx_head, tx_tail)
      BY <1>7, <2>1 DEF KickLock
    <3>3. kick' \in [Tasks -> [tail : Index, chunk : Nat]]
      BY <1>7, <2>1, <3>1 DEF KickLock, RingInv, Indices
    <3> QED
      BY <1>7, <3>1, <3>2, <3>3 DEF KickLock, RingInv, Indices, InFlightQueued
  <2>2. CASE ~(tx_in_flight = 0 /\ tx_head # tx_tail)
    BY <1>7, <2>2, RingKept DEF KickLock, Return
  <2> QED
    BY <2>1, <2>2
<1>8. ASSUME NEW t \in Tasks, KickSet(t) PROVE RingInv'
  <2>1. kick[t].chunk \in Nat /\ TxLength' \in Nat
    BY <1>8 DEF KickSet, RingInv, Indices
  <2> QED
    BY <1>8, <2>1 DEF KickSet, RingInv, Indices, InFlightQueued
<1>9. ASSUME NEW t \in Tasks, KickPacket(t) PROVE RingInv'
  BY <1>9, RingKept DEF KickPacket
<1>10. ASSUME NEW t \in Tasks, KickStart(t) PROVE RingInv'
  BY <1>10, RingKept DEF KickStart, Return
<1>11. ASSUME NEW t \in Tasks, KickFail(t) PROVE RingInv'
  <2>1. kick' \in [Tasks -> [tail : Index, chunk : Nat]]
    BY <1>11, SizeAssumption
       DEF KickFail, Return, NoKick, Index, RingInv, Indices
  <2>2. 0 <= Used(tx_head, tx_tail) /\ tx_tail + 0 <= TxSize
    BY ChunkQueued, SizeAssumption DEF RingInv, Indices, Index
  <2> QED
    BY <1>11, <2>1, <2>2 DEF KickFail, RingInv, Indices, InFlightQueued
<1>12. CASE DataIn
  <2>1. /\ SentLength \in Nat /\ SentLength <= tx_in_flight
        /\ tx_in_flight \in Nat /\ tx_head \in Index /\ tx_tail \in Index
        /\ Used(tx_head, tx_tail) \in Nat /\ TxLength \in Nat
    BY ChunkQueued DEF SentLength, RingInv, Indices
  <2>2. tx_tail' \in Index
    <3>1. /\ SentLength <= Used(tx_head, tx_tail)
          /\ tx_tail + SentLength <= TxSize
      BY <2>1, SizeAssumption DEF RingInv, InFlightQueued, Index
    <3> QED
      BY <1>12, <2>1, <3>1, TailMoved DEF DataIn, Completed
  <2>3. 0 <= Used(tx_head, tx_tail') /\ tx_tail' + 0 <= TxSize
    <3>1. Used(tx_head, tx_tail') \in Nat
      BY <2>1, <2>2, ChunkQueued
    <3>2. tx_tail' \in Nat /\ tx_tail' <= TxSize
      BY <2>2, SizeAssumption DEF Index
    <3> QED
      BY <3>1, <3>2
  <2>4. /\ tx_in_flight' \in Nat /\ TxLength' \in Nat
        /\ tx_in_flight' <= Used(tx_head, tx_tail')
        /\ tx_tail' + tx_in_flight' <= TxSize
    BY <1>12, <2>1, <2>2, <2>3, HandlerKick DEF DataIn, Completed
  <2> QED
    BY <1>12, <2>1, <2>2, <2>4 DEF DataIn, RingInv, Indices, InFlightQueued
<1>13. CASE OpenPort
  <2>1. /\ tx_in_flight \in Nat /\ tx_head \in Index /\ tx_tail \in Index
        /\ TxLength \in Nat
        /\ tx_in_flight <= Used(tx_head, tx_tail)
        /\ tx_tail + tx_in_flight <= TxSize
    BY DEF RingInv, Indices, InFlightQueued
  <2>2. /\ tx_in_flight' \in Nat /\ TxLength' \in Nat
        /\ tx_in_flight' <= Used(tx_head, tx_tail)
        /\ tx_tail + tx_in_flight' <= TxSize
    BY <1>13, <2>1, HandlerKick DEF OpenPort
  <2> QED
    BY <1>13, <2>1, <2>2 DEF OpenPort, RingInv, Indices, InFlightQueued
<1>14. CASE ClosePort
  BY <1>14, ChunkQueued, SizeAssumption
     DEF ClosePort, ClearRing, RingInv, Indices, InFlightQueued, Index, Used
<1>15. CASE Suspend
  BY <1>15, RingKept DEF Suspend
<1>16. CASE Resume
  BY <1>16, RingKept DEF Resume
<1>17. CASE BusReset
  BY <1>17, ChunkQueued, SizeAssumption
     DEF BusReset, ClearRing, RingInv, Indices, InFlightQueued, Index, Used
<1>18. CASE Configure
  BY <1>18, ChunkQueued, SizeAssumption
     DEF Configure, ClearRing, RingInv, Indices, InFlightQueued, Index, Used
<1>19. CASE UNCHANGED vars
  BY <1>19, RingKept DEF vars
<1> QED
  BY <1>1, <1>2, <1>3, <1>4, <1>5, <1>6, <1>7, <1>8, <1>9, <1>10, <1>11, <1>12,
     <1>13, <1>14, <1>15, <1>16, <1>17, <1>18, <1>19
     DEF Next, TaskStep, Interrupt

-----------------------------------------------------------------------------
(* Wake-ups *)

Starting(t) == pc[t] \in {"kick", "lock", "set", "packet", "start"}

\* A claim has a transfer or a task that will start one.
ClaimInv ==
    Configured /\ tx_in_flight # 0 =>
        \/ transfer # NoTransfer
        \/ \E t \in Tasks : pc[t] \in {"set", "packet", "start"}

\* So has a claimed endpoint.
BusyInv ==
    Configured /\ TxState # 0 =>
        transfer # NoTransfer \/ \E t \in Tasks : pc[t] = "start"

\* QueueServed without the task whose transfer was refused.
ServedInv ==
    Configured /\ tx_head # tx_tail =>
        transfer # NoTransfer \/ \E t \in Tasks : Starting(t)

WakeInv ==
    /\ pc \in [Tasks -> {"idle", "check", "enqueue", "delay", "kick", "lock",
                         "set", "packet", "start", "fail"}]
    /\ dev_state \in {"configured", "default"}
    /\ ClaimInv /\ BusyInv /\ ServedInv

\* A started transfer is one.
LEMMA SomeTransfer == \A off, len : <<off, len>> # NoTransfer
BY DEF NoTransfer

\* Unless the bus is suspended, every step keeps WakeInv.
LEMMA WakeStep ==
    ASSUME ~Suspends, WakeInv, [Next]_vars
    PROVE  WakeInv'
<1> USE DEF ring_vars, class_vars, task_vars, WakeInv, ClaimInv, BusyInv,
            ServedInv, Starting, Configured
<1>1. ASSUME NEW t \in Tasks, SendLine(t) PROVE WakeInv'
  BY <1>1 DEF SendLine, At, Goto
<1>2. ASSUME NEW t \in Tasks, CheckState(t) PROVE WakeInv'
  BY <1>2 DEF CheckState, At, Goto
<1>3. ASSUME NEW t \in Tasks, Enqueue(t) PROVE WakeInv'
  BY <1>3 DEF Enqueue, At, Goto
<1>4. ASSUME NEW t \in Tasks, RingFull(t) PROVE WakeInv'
  BY <1>4 DEF RingFull, At, Goto
<1>5. ASSUME NEW t \in Tasks, Delay(t) PROVE WakeInv'
  BY <1>5 DEF Delay, At, Goto, Return
<1>6. ASSUME NEW t \in Tasks, KickTest(t) PROVE WakeInv'
  BY <1>6 DEF KickTest, At, Goto, Return
<1>7. ASSUME NEW t \in Tasks, KickLock(t) PROVE WakeInv'
  BY <1>7 DEF KickLock, At, Goto, Return
<1>8. ASSUME NEW t \in Tasks, KickSet(t) PROVE WakeInv'
  BY <1>8 DEF KickSet, At, Goto
<1>9. ASSUME NEW t \in Tasks, KickPacket(t) PROVE WakeInv'
  BY <1>9 DEF KickPacket, At, Goto
<1>10. ASSUME NEW t \in Tasks, KickStart(t) PROVE WakeInv'
  BY <1>10 DEF KickStart, At, Goto, Return, NoTransfer
<1>11. ASSUME NEW t \in Tasks, KickFail(t) PROVE WakeInv'
  BY <1>11 DEF KickFail, At, Goto, Return
<1>12. CASE DataIn
  <2>1. /\ pc' = pc /\ tx_head' = tx_head /\ dev_state' = dev_state
        /\ KickInHandler(0, NoTransfer, 0, tx_tail')
    BY <1>12 DEF DataIn, Completed
  <2>2. \/ transfer' # NoTransfer
        \/ /\ tx_in_flight' = 0 /\ TxState' = 0
           /\ tx_head' = tx_tail'
    BY <2>1, SomeTransfer DEF KickInHandler
  <2> QED
    BY <2>1, <2>2
<1>13. CASE OpenPort
  <2>1. /\ pc' = pc /\ tx_head' = tx_head /\ tx_tail' = tx_tail
        /\ dev_state' = dev_state
        /\ KickInHandler(TxState, transfer, tx_in_flight, tx_tail)
    BY <1>13 DEF OpenPort
  <2>2. \/ transfer' # NoTransfer
        \/ UNCHANGED <<tx_in_flight, TxState, transfer>>
    BY <2>1, SomeTransfer DEF KickInHandler
  <2> QED
    BY <2>1, <2>2
<1>14. CASE ClosePort
  BY <1>14 DEF ClosePort, ClearRing
<1>15. CASE Suspend
  BY <1>15 DEF Suspend
<1>16. CASE Resume
  BY <1>16 DEF Resume
<1>17. CASE BusReset
  BY <1>17 DEF BusReset, ClearRing
<1>18. CASE Configure
  BY <1>18 DEF Configure, ClearRing
<1>19. CASE UNCHANGED vars
  BY <1>19 DEF vars
<1> QED
  BY <1>1, <1>2, <1>3, <1>4, <1>5, <1>6, <1>7, <1>8, <1>9, <1>10, <1>11, <1>12,
     <1>13, <1>14, <1>15, <1>16, <1>17, <1>18, <1>19
     DEF Next, TaskStep, Interrupt

-----------------------------------------------------------------------------
(* Bytes in flight, and wake-ups: the theorems *)

\* The bytes in flight are queued bytes that do not wrap, for every ring, chunk
\* and line size, and whatever the host does with the port and the bus
\* (usbd_cdc_if.c:92-112, 214-231).
THEOREM InFlight == Spec => []InFlightQueued
<1>1. Init => RingInv
  BY RingInit
<1>2. RingInv /\ [Next]_vars => RingInv'
  BY RingStep
<1>3. RingInv => InFlightQueued
  BY DEF RingInv
<1> QED
  BY <1>1, <1>2, <1>3, PTL DEF Spec

\* Unless the bus is suspended no wake-up is lost, although CDC_KickTransmit_FS
\* tests TxState before it takes the lock (usbd_cdc_if.c:74-112).
THEOREM NoLostWakeup == ASSUME ~Suspends PROVE Spec => []QueueServed
<1>1. Init => WakeInv
  BY DEF Init, WakeInv, ClaimInv, BusyInv, ServedInv, Configured
<1>2. WakeInv /\ [Next]_vars => WakeInv'
  BY WakeStep
<1>3. WakeInv => QueueServed
  BY DEF WakeInv, ServedInv, Starting, QueueServed, Served, Kicking
<1> QED
  BY <1>1, <1>2, <1>3, PTL DEF Spec

-----------------------------------------------------------------------------
(* Type correctness *)

\* a run of bytes that does not wrap
Fits(off, len) == off \in Index /\ len \in 0..ChunkSize /\ off + len <= TxSize

RingTypes ==
    /\ ring \in [0..(TxSize - 1) -> Bytes \cup {NoByte}]
    /\ tx_in_flight \in 0..ChunkSize
    /\ cdc_port_open \in BOOLEAN
    /\ dev_state \in {"configured", "suspended", "default"}
    /\ host \in Seq(Bytes \cup {NoByte})

\* What the endpoint is given was a chunk of the ring when it was claimed.
ClassTypes ==
    /\ TxState \in {0, 1}
    /\ Fits(TxBuffer, TxLength)
    /\ \/ transfer = NoTransfer
       \/ \E off \in Index, len \in 0..ChunkSize :
            transfer = <<off, len>> /\ Fits(off, len)
    /\ \A t \in Tasks : Fits(kick[t].tail, kick[t].chunk)

TaskTypes ==
    /\ tx_buf \in LineIds \cup {<<>>}
    /\ pc \in [Tasks -> {"idle", "check", "enqueue", "delay", "kick", "lock",
                         "set", "packet", "start", "fail"}]
    /\ sent \in [Tasks -> 0..MaxLines]
    /\ retry \in [Tasks -> 0..MaxRetries]
    /\ \A t \in Tasks : pc[t] # "idle" => tx_buf \in LineIds

TInv == RingInv /\ RingTypes /\ ClassTypes /\ TaskTypes

\* A chunk is such a run, no longer than CDC_TX_CHUNK_SIZE.
LEMMA ChunkFits ==
    ASSUME NEW head \in Index, NEW tail \in Index
    PROVE  Fits(tail, Chunk(head, tail)) /\ Chunk(head, tail) \in 0..ChunkSize
BY SizeAssumption DEF Index, Used, Chunk, Least, Fits

\* Nothing is a run, too.
LEMMA NoneFits == Fits(0, 0) /\ 0 \in Index /\ 0 \in 0..ChunkSize
BY SizeAssumption DEF Fits, Index

\* What lies in such a run are slots of the ring.
LEMMA ContentType ==
    ASSUME NEW S, ring \in [0..(TxSize - 1) -> S],
           NEW off \in Index, NEW len \in 0..ChunkSize, off + len <= TxSize
    PROVE  /\ Content(off, len) \in Seq(S) /\ Len(Content(off, len)) = len
           /\ \A i \in 1..len :
                Content(off, len)[i] = ring[Wrap(off + i - 1)]
<1>1. len \in Nat
  BY SizeAssumption
<1>2. \A i \in 1..len : Wrap(off + i - 1) \in 0..(TxSize - 1)
  BY SizeAssumption DEF Index, Wrap
<1> QED
  BY <1>1, <1>2 DEF Content

\* The tasks' own variables
LEMMA TaskTypesStep ==
    ASSUME TaskTypes, [Next]_vars
    PROVE  TaskTypes'
<1> USE DEF ring_vars, class_vars, task_vars, TaskTypes
<1>1. ASSUME NEW t \in Tasks, SendLine(t) PROVE TaskTypes'
  <2>1. sent'[t] \in 1..MaxLines /\ sent' \in [Tasks -> 0..MaxLines]
    BY <1>1, SizeAssumption DEF SendLine
  <2>2. tx_buf' \in LineIds
    BY <1>1, <2>1 DEF SendLine, LineIds
  <2> QED
    BY <1>1, <2>1, <2>2 DEF SendLine, Goto
<1>2. ASSUME NEW t \in Tasks, TaskStep(t) PROVE TaskTypes'
  <2>1. /\ UNCHANGED <<tx_buf, sent>> /\ pc[t] # "idle"
        /\ \E label \in {"idle", "check", "enqueue", "delay", "kick", "lock",
                         "set", "packet", "start", "fail"} :
              pc' = [pc EXCEPT ![t] = label]
    BY <1>2 DEF TaskStep, CheckState, Enqueue, RingFull, Delay, KickTest,
                KickLock, KickSet, KickPacket, KickStart, KickFail, At, Goto,
                Return
  <2>2. retry' \in [Tasks -> 0..MaxRetries]
    <3>1. CASE Delay(t) /\ retry[t] < MaxRetries
      <4>1. retry[t] + 1 \in 0..MaxRetries
        BY <3>1, SizeAssumption
      <4> QED
        BY <3>1, <4>1 DEF Delay
    <3>2. CASE ~(Delay(t) /\ retry[t] < MaxRetries)
      <4>1. retry' = retry \/ retry' = [retry EXCEPT ![t] = 0]
        BY <1>2, <3>2
           DEF TaskStep, CheckState, Enqueue, RingFull, Delay, KickTest,
               KickLock, KickSet, KickPacket, KickStart, KickFail, Return
      <4> QED
        BY <4>1, SizeAssumption
    <3> QED
      BY <3>1, <3>2
  <2> QED
    BY <2>1, <2>2
<1>3. CASE Interrupt \/ UNCHANGED vars
  <2>1. UNCHANGED task_vars
    BY <1>3 DEF Interrupt, DataIn, OpenPort, ClosePort, Suspend, Resume,
                BusReset, Configure, vars
  <2> QED
    BY <2>1
<1> QED
  BY <1>1, <1>2, <1>3 DEF Next

\* A kick in a handler gives the endpoint a chunk or leaves it as it is.
LEMMA HandlerTypes ==
    ASSUME ClassTypes, NEW state \in {0, 1}, NEW flight \in 0..ChunkSize,
           NEW tail \in Index, tx_head \in Index,
           NEW running, running \in {transfer, NoTransfer}, UNCHANGED kick,
           KickInHandler(state, running, flight, tail)
    PROVE  ClassTypes' /\ tx_in_flight' \in 0..ChunkSize
<1> DEFINE chunk == Chunk(tx_head, tail)
<1>1. Fits(tail, chunk) /\ chunk \in 0..ChunkSize
  BY ChunkFits
<1> HIDE DEF chunk
<1>2. CASE state = 0 /\ flight = 0 /\ tx_head # tail
  <2>1. /\ tx_in_flight' = chunk /\ TxBuffer' = tail /\ TxLength' = chunk
        /\ TxState' = 1 /\ transfer' = <<tail, chunk>>
    BY <1>2 DEF KickInHandler, chunk
  <2> QED
    BY <1>1, <2>1 DEF ClassTypes
<1>3. CASE ~(state = 0 /\ flight = 0 /\ tx_head # tail)
  <2>1. /\ tx_in_flight' = flight /\ TxState' = state /\ transfer' = running
        /\ UNCHANGED <<TxBuffer, TxLength>>
    BY <1>3 DEF KickInHandler
  <2> QED
    BY <2>1 DEF ClassTypes
<1> QED
  BY <1>2, <1>3

\* The ring and the endpoint
LEMMA RingTypesStep ==
    ASSUME TInv, [Next]_vars
    PROVE  RingTypes' /\ ClassTypes'
<1> USE DEF ring_vars, class_vars, task_vars, TInv
<1>1. /\ tx_head \in Index /\ tx_tail \in Index
      /\ tx_head' \in Index /\ tx_tail' \in Index
  BY RingStep DEF RingInv, Indices
<1>2. ASSUME NEW t \in Tasks, SendLine(t) PROVE RingTypes' /\ ClassTypes'
  BY <1>2 DEF SendLine, RingTypes, ClassTypes
<1>3. ASSUME NEW t \in Tasks,
             CheckState(t) \/ RingFull(t) \/ Delay(t) \/ KickTest(t)
      PROVE  RingTypes' /\ ClassTypes'
  <2>1. /\ UNCHANGED <<ring, tx_in_flight, cdc_port_open, dev_state, host,
                       class_vars>>
        /\ kick' = kick \/ kick' = [kick EXCEPT ![t] = NoKick]
    BY <1>3 DEF CheckState, RingFull, Delay, KickTest, Return
  <2>2. \A u \in Tasks : Fits(kick[u].tail, kick[u].chunk)'
    BY <2>1, NoneFits DEF ClassTypes, RingInv, Indices, NoKick
  <2> QED
    BY <2>1, <2>2 DEF RingTypes, ClassTypes
<1>4. ASSUME NEW t \in Tasks, Enqueue(t) PROVE RingTypes' /\ ClassTypes'
  <2>1. tx_buf \in LineIds
    BY <1>4 DEF Enqueue, At, TaskTypes
  <2>2. ring' \in [0..(TxSize - 1) -> Bytes \cup {NoByte}]
    <3>1. ring' = [i \in 0..(TxSize - 1) |->
                      LET n == Wrap(i + TxSize - tx_head)
                      IN  IF n < LineLen THEN <<tx_buf, n + 1>> ELSE ring[i]]
      BY <1>4 DEF Enqueue, RingTypes
    <3>2. ASSUME NEW i \in 0..(TxSize - 1),
                 Wrap(i + TxSize - tx_head) < LineLen
          PROVE  <<tx_buf, Wrap(i + TxSize - tx_head) + 1>> \in Bytes
      <4>1. Wrap(i + TxSize - tx_head) + 1 \in 1..LineLen
        BY <1>1, <3>2, SizeAssumption DEF Wrap, Index
      <4> QED
        BY <2>1, <4>1 DEF Bytes
    <3> QED
      BY <3>1, <3>2 DEF RingTypes
  <2> QED
    BY <1>4, <2>2 DEF Enqueue, RingTypes, ClassTypes
<1>5. ASSUME NEW t \in Tasks, KickLock(t) PROVE RingTypes' /\ ClassTypes'
  <2>1. /\ UNCHANGED <<ring, cdc_port_open, dev_state, host, class_vars>>
        /\ \/ /\ kick' = [kick EXCEPT ![t] =
                             [tail |-> tx_tail,
                              chunk |-> Chunk(tx_head, tx_tail)]]
              /\ tx_in_flight' = Chunk(tx_head, tx_tail)
           \/ /\ kick' = [kick EXCEPT ![t] = NoKick]
              /\ tx_in_flight' = tx_in_flight
    BY <1>5 DEF KickLock, Return
  <2>2. /\ Fits(tx_tail, Chunk(tx_head, tx_tail))
        /\ Chunk(tx_head, tx_tail) \in 0..ChunkSize
    BY <1>1, ChunkFits
  <2>3. tx_in_flight' \in 0..ChunkSize
    BY <2>1, <2>2 DEF RingTypes
  <2>4. \A u \in Tasks : Fits(kick[u].tail, kick[u].chunk)'
    BY <2>1, <2>2, NoneFits DEF ClassTypes, RingInv, Indices, NoKick
  <2> QED
    BY <2>1, <2>3, <2>4 DEF RingTypes, ClassTypes
<1>6. ASSUME NEW t \in Tasks, KickSet(t) PROVE RingTypes' /\ ClassTypes'
  <2>1. Fits(TxBuffer', TxLength')
    BY <1>6 DEF KickSet, ClassTypes
  <2> QED
    BY <1>6, <2>1 DEF KickSet, RingTypes, ClassTypes
<1>7. ASSUME NEW t \in Tasks, KickPacket(t) PROVE RingTypes' /\ ClassTypes'
  BY <1>7 DEF KickPacket, RingTypes, ClassTypes
<1>8. ASSUME NEW t \in Tasks, KickStart(t) \/ KickFail(t)
      PROVE  RingTypes' /\ ClassTypes'
  <2>1. /\ UNCHANGED <<ring, cdc_port_open, dev_state, host, TxState,
                       TxBuffer, TxLength>>
        /\ transfer' = transfer \/ transfer' = <<TxBuffer, TxLength>>
        /\ tx_in_flight' = tx_in_flight \/ tx_in_flight' = 0
        /\ kick' = [kick EXCEPT ![t] = NoKick]
    BY <1>8 DEF KickStart, KickFail, Return
  <2>2. \A u \in Tasks : Fits(kick[u].tail, kick[u].chunk)'
    BY <2>1, NoneFits DEF ClassTypes, RingInv, Indices, NoKick
  <2>3. \/ transfer' = NoTransfer
        \/ \E off \in Index, len \in 0..ChunkSize :
             transfer' = <<off, len>> /\ Fits(off, len)
    BY <2>1 DEF ClassTypes, Fits
  <2> QED
    BY <2>1, <2>2, <2>3, NoneFits DEF RingTypes, ClassTypes
<1>9. CASE DataIn
  <2>1. /\ UNCHANGED <<ring, cdc_port_open, dev_state, kick>>
        /\ host' = host \o Content(transfer[1], transfer[2])
        /\ transfer # NoTransfer
        /\ KickInHandler(0, NoTransfer, 0, tx_tail')
    BY <1>9 DEF DataIn, Completed
  <2>2. PICK off \in Index, len \in 0..ChunkSize :
           transfer = <<off, len>> /\ Fits(off, len)
    BY <2>1 DEF ClassTypes
  <2>3. Content(off, len) \in Seq(Bytes \cup {NoByte})
    BY <2>2, ContentType DEF RingTypes, Fits
  <2>4. host' \in Seq(Bytes \cup {NoByte})
    <3>1. /\ host' = host \o Content(off, len)
          /\ host \in Seq(Bytes \cup {NoByte})
      BY <2>1, <2>2 DEF RingTypes
    <3> QED
      BY <2>3, <3>1, ConcatProperties
  <2>5. ClassTypes' /\ tx_in_flight' \in 0..ChunkSize
    BY <1>1, <2>1, NoneFits, HandlerTypes
  <2> QED
    BY <2>1, <2>4, <2>5 DEF RingTypes
<1>10. CASE OpenPort
  <2>1. /\ UNCHANGED <<ring, dev_state, host, kick>> /\ cdc_port_open' = TRUE
        /\ KickInHandler(TxState, transfer, tx_in_flight, tx_tail)
    BY <1>10 DEF OpenPort
  <2>2. ClassTypes' /\ tx_in_flight' \in 0..ChunkSize
    BY <1>1, <2>1, HandlerTypes DEF RingTypes, ClassTypes
  <2> QED
    BY <2>1, <2>2 DEF RingTypes
<1>11. CASE ClosePort
  BY <1>11, NoneFits DEF ClosePort, ClearRing, RingTypes, ClassTypes
<1>12. CASE Suspend \/ Resume \/ UNCHANGED vars
  BY <1>12 DEF Suspend, Resume, vars, RingTypes, ClassTypes
<1>13. CASE BusReset
  BY <1>13, NoneFits DEF BusReset, ClearRing, RingTypes, ClassTypes
<1>14. CASE Configure
  <2>1. <<>> \in Seq(Bytes \cup {NoByte})
    OBVIOUS
  <2> QED
    BY <1>14, <2>1, NoneFits DEF Configure, ClearRing, RingTypes, ClassTypes
<1> QED
  BY <1>2, <1>3, <1>4, <1>5, <1>6, <1>7, <1>8, <1>9, <1>10, <1>11, <1>12,
     <1>13, <1>14
     DEF Next, TaskStep, Interrupt

\* The initial states are typed.
LEMMA InitTypes == Init => RingTypes /\ ClassTypes /\ TaskTypes
<1> SUFFICES ASSUME Init PROVE RingTypes /\ ClassTypes /\ TaskTypes
  OBVIOUS
<1>1. /\ <<>> \in Seq(Bytes \cup {NoByte}) /\ 0 \in 0..MaxLines
      /\ 0 \in 0..MaxRetries
  BY SizeAssumption
<1>2. RingTypes
  BY <1>1, NoneFits DEF Init, RingTypes
<1>3. ClassTypes
  BY NoneFits DEF Init, ClassTypes, NoKick
<1>4. TaskTypes
  BY <1>1 DEF Init, TaskTypes
<1> QED
  BY <1>2, <1>3, <1>4

\* The reachable states are typed.
LEMMA Typing == Spec => []TInv
<1>1. Init => RingInv
  BY RingInit
<1>2. TInv /\ [Next]_vars => TInv'
  BY RingStep, RingTypesStep, TaskTypesStep DEF TInv
<1> QED
  BY <1>1, <1>2, InitTypes, PTL DEF Spec, TInv

\* Every variable keeps its type, for any ring, chunk and line size, and
\* whatever the host does with the port and the bus: what the endpoint is given
\* lies in the ring (usbd_cdc_if.c:30-35, 92-112).
THEOREM TypeCorrect == Spec => []TypeOK
<1>1. TInv => TypeOK
  <2> SUFFICES ASSUME TInv PROVE TypeOK
    OBVIOUS
  <2>1. kick \in [Tasks -> [tail : 0..(TxSize - 1), chunk : 0..ChunkSize]]
    BY DEF TInv, RingInv, Indices, ClassTypes, Fits, Index
  <2>2. /\ TxBuffer \in 0..(TxSize - 1) /\ TxLength \in 0..ChunkSize
        /\ transfer \in {NoTransfer} \cup ((0..(TxSize - 1)) \X (0..ChunkSize))
    BY DEF TInv, ClassTypes, Fits, Index
  <2>3. tx_head \in 0..(TxSize - 1) /\ tx_tail \in 0..(TxSize - 1)
    BY DEF TInv, RingInv, Indices, Index
  <2> QED
    BY <2>1, <2>2, <2>3 DEF TInv, RingTypes, ClassTypes, TaskTypes, TypeOK
<1> QED
  BY <1>1, Typing, PTL

-----------------------------------------------------------------------------
(* The transmit path is a queue while the port stays open *)

Claims(t) == pc[t] \in {"set", "packet", "start"}

\* One chunk at a time is on its way, from the claim of its bytes to the
\* completion of their transfer: by a task, whose handle says the same, or in
\* the endpoint.
OneClaim ==
    /\ \A t, u \in Tasks : Claims(t) /\ Claims(u) => t = u
    /\ \A t \in Tasks :
        /\ pc[t] # "fail"
        /\ Claims(t) =>
            /\ transfer = NoTransfer /\ tx_in_flight > 0
            /\ kick[t].tail = tx_tail /\ kick[t].chunk = tx_in_flight
            /\ TxState = 1 <=> pc[t] = "start"
            /\ pc[t] # "set" => TxBuffer = tx_tail /\ TxLength = tx_in_flight
    /\ transfer # NoTransfer =>
        /\ transfer = <<tx_tail, tx_in_flight>>
        /\ tx_in_flight > 0 /\ TxLength = tx_in_flight /\ TxState = 1
    /\ transfer = NoTransfer /\ (\A t \in Tasks : ~Claims(t)) =>
        tx_in_flight = 0 /\ TxState = 0

\* Nothing is sent before the device is configured.
Unconfigured ==
    dev_state = "default" =>
        /\ host = <<>> /\ transfer = NoTransfer
        /\ tx_head = 0 /\ tx_tail = 0
        /\ \A t \in Tasks : pc[t] \in {"idle", "check", "delay"}

PipeInv == OneClaim /\ Unconfigured

\* A kick in a handler claims the next chunk, or leaves everything as it is.
LEMMA HandlerClaims ==
    ASSUME TInv, NEW state, NEW running, NEW flight, NEW tail \in Index,
           KickInHandler(state, running, flight, tail)
    PROVE  \/ /\ state = 0 /\ flight = 0 /\ tx_in_flight' > 0
              /\ transfer' = <<tail, tx_in_flight'>>
              /\ TxLength' = tx_in_flight' /\ TxState' = 1
              /\ transfer' # NoTransfer
           \/ /\ tx_in_flight' = flight /\ TxState' = state
              /\ transfer' = running /\ TxLength' = TxLength
              /\ TxBuffer' = TxBuffer
              /\ state = 0 /\ flight = 0 => tx_head = tail
<1>1. tx_head # tail => Chunk(tx_head, tail) > 0
  BY ChunkQueued DEF TInv, RingInv, Indices
<1> QED
  BY <1>1, SomeTransfer DEF KickInHandler

\* Every step keeps PipeInv, as long as the port stays open.
LEMMA PipeStep ==
    ASSUME ~Toggles, ~Resets, TInv, PipeInv, [Next]_vars
    PROVE  PipeInv'
<1> USE DEF ring_vars, class_vars, task_vars, PipeInv, OneClaim, Unconfigured,
            Claims
<1>1. /\ pc \in [Tasks -> {"idle", "check", "enqueue", "delay", "kick", "lock",
                           "set", "packet", "start", "fail"}]
      /\ tx_in_flight \in Nat /\ tx_head \in Index /\ tx_tail \in Index
      /\ kick \in [Tasks -> [tail : Index, chunk : Nat]]
      /\ TxState \in {0, 1}
  BY DEF TInv, TaskTypes, ClassTypes, RingInv, Indices
<1>2. ASSUME NEW t \in Tasks, SendLine(t) PROVE PipeInv'
  BY <1>1, <1>2 DEF SendLine, At, Goto
<1>3. ASSUME NEW t \in Tasks, CheckState(t) PROVE PipeInv'
  BY <1>1, <1>3 DEF CheckState, At, Goto, Configured
<1>4. ASSUME NEW t \in Tasks, Enqueue(t) PROVE PipeInv'
  BY <1>1, <1>4 DEF Enqueue, At, Goto
<1>5. ASSUME NEW t \in Tasks, RingFull(t) PROVE PipeInv'
  BY <1>1, <1>5 DEF RingFull, At, Goto
<1>6. ASSUME NEW t \in Tasks, Delay(t) PROVE PipeInv'
  <2>1. /\ pc[t] = "delay"
        /\ \E l \in {"idle", "check"} : pc' = [pc EXCEPT ![t] = l]
        /\ kick' = kick \/ kick' = [kick EXCEPT ![t] = NoKick]
        /\ UNCHANGED <<tx_head, tx_tail, tx_in_flight, class_vars,
                       dev_state, host>>
    BY <1>6 DEF Delay, At, Goto, Return
  <2>2. \A u \in Tasks :
          /\ Claims(u)' <=> Claims(u)
          /\ Claims(u) => kick'[u] = kick[u] /\ pc'[u] = pc[u]
          /\ pc'[u] # "fail"
    BY <1>1, <2>1
  <2>3. OneClaim'
    BY <2>1, <2>2
  <2>4. Unconfigured'
    BY <1>1, <2>1
  <2> QED
    BY <2>3, <2>4
<1>7. ASSUME NEW t \in Tasks, KickTest(t) PROVE PipeInv'
  <2>1. /\ pc[t] = "kick"
        /\ \E l \in {"idle", "lock"} : pc' = [pc EXCEPT ![t] = l]
        /\ kick' = kick \/ kick' = [kick EXCEPT ![t] = NoKick]
        /\ UNCHANGED <<tx_head, tx_tail, tx_in_flight, class_vars,
                       dev_state, host>>
    BY <1>7 DEF KickTest, At, Goto, Return
  <2>2. \A u \in Tasks :
          /\ Claims(u)' <=> Claims(u)
          /\ Claims(u) => kick'[u] = kick[u] /\ pc'[u] = pc[u]
          /\ pc'[u] # "fail"
    BY <1>1, <2>1
  <2>3. OneClaim'
    BY <2>1, <2>2
  <2>4. Unconfigured'
    BY <1>1, <2>1
  <2> QED
    BY <2>3, <2>4
<1>8. ASSUME NEW t \in Tasks, KickLock(t) PROVE PipeInv'
  <2>1. CASE tx_in_flight = 0 /\ tx_head # tx_tail
    <3>1. Chunk(tx_head, tx_tail) > 0 /\ Chunk(tx_head, tx_tail) \in Nat
      BY <1>1, <2>1, ChunkQueued
    <3>2. /\ pc' = [pc EXCEPT ![t] = "set"] /\ pc[t] = "lock"
          /\ tx_in_flight' = Chunk(tx_head, tx_tail)
          /\ kick'[t].tail = tx_tail /\ kick'[t].chunk = tx_in_flight'
          /\ UNCHANGED <<tx_head, tx_tail, class_vars, dev_state, host>>
      BY <1>1, <1>8, <2>1 DEF KickLock, At, Goto
    <3>3. transfer = NoTransfer /\ TxState = 0
          /\ \A u \in Tasks : ~Claims(u)
      BY <1>1, <2>1
    <3>4. dev_state # "default"
      BY <3>2
    <3> QED
      BY <1>1, <3>1, <3>2, <3>3, <3>4
  <2>2. CASE ~(tx_in_flight = 0 /\ tx_head # tx_tail)
    BY <1>1, <1>8, <2>2 DEF KickLock, At, Goto, Return
  <2> QED
    BY <2>1, <2>2
<1>9. ASSUME NEW t \in Tasks, KickSet(t) PROVE PipeInv'
  BY <1>1, <1>9 DEF KickSet, At, Goto
<1>10. ASSUME NEW t \in Tasks, KickPacket(t) PROVE PipeInv'
  BY <1>1, <1>10 DEF KickPacket, At, Goto
<1>11. ASSUME NEW t \in Tasks, KickStart(t) PROVE PipeInv'
  BY <1>1, <1>11, SomeTransfer DEF KickStart, At, Goto, Return
<1>12. ASSUME NEW t \in Tasks, KickFail(t) PROVE PipeInv'
  BY <1>1, <1>12 DEF KickFail, At, Goto, Return
<1>13. CASE DataIn
  <2>1. /\ UNCHANGED <<pc, kick, tx_head, dev_state>>
        /\ transfer # NoTransfer /\ dev_state # "default"
        /\ KickInHandler(0, NoTransfer, 0, tx_tail')
    BY <1>13 DEF DataIn, Completed, Configured
  <2>2. tx_tail' \in Index
    BY <1>13, RingStep DEF TInv, RingInv, Indices, Next, Interrupt
  <2>3. \A t \in Tasks : ~Claims(t)
    BY <2>1
  <2>4. \/ /\ tx_in_flight' > 0 /\ transfer' = <<tx_tail', tx_in_flight'>>
           /\ TxLength' = tx_in_flight' /\ TxState' = 1
           /\ transfer' # NoTransfer
        \/ tx_in_flight' = 0 /\ TxState' = 0 /\ transfer' = NoTransfer
    BY <2>1, <2>2, HandlerClaims
  <2> QED
    BY <2>1, <2>3, <2>4
<1>14. CASE OpenPort
  <2>1. /\ UNCHANGED <<pc, kick, tx_head, tx_tail, dev_state>>
        /\ dev_state # "default"
        /\ KickInHandler(TxState, transfer, tx_in_flight, tx_tail)
    BY <1>14 DEF OpenPort, Configured
  <2>2. \/ /\ TxState = 0 /\ tx_in_flight = 0 /\ tx_in_flight' > 0
           /\ transfer' = <<tx_tail, tx_in_flight'>>
           /\ TxLength' = tx_in_flight' /\ TxState' = 1
           /\ transfer' # NoTransfer
        \/ UNCHANGED <<tx_in_flight, TxState, transfer, TxLength, TxBuffer>>
    BY <1>1, <2>1, HandlerClaims
  <2>3. TxState = 0 /\ tx_in_flight = 0 =>
            transfer = NoTransfer /\ \A t \in Tasks : ~Claims(t)
    OBVIOUS
  <2> QED
    BY <2>1, <2>2, <2>3
<1>15. CASE Suspend \/ Resume \/ UNCHANGED vars
  BY <1>15 DEF Suspend, Resume, vars, Configured
<1>16. CASE Configure
  BY <1>16 DEF Configure, ClearRing
<1>17. ~ClosePort /\ ~BusReset
  BY DEF ClosePort, BusReset
<1> QED
  BY <1>2, <1>3, <1>4, <1>5, <1>6, <1>7, <1>8, <1>9, <1>10, <1>11, <1>12,
     <1>13, <1>14, <1>15, <1>16, <1>17
     DEF Next, TaskStep, Interrupt

Slots == Bytes \cup {NoByte}
Slot(j) == ring[Wrap(tx_tail + j - 1)]
U == Used(tx_head, tx_tail)

\* the queue as a sequence
QueueIsSeq ==
    /\ Queue \in Seq(Slots) /\ Len(Queue) = U /\ U \in Nat
    /\ \A j \in 1..U : Queue[j] = Slot(j)

\* What Queue is, byte by byte.
LEMMA QueueSeq == TInv => QueueIsSeq
<1> SUFFICES ASSUME TInv PROVE QueueIsSeq
  OBVIOUS
<1>1. /\ tx_head \in Index /\ tx_tail \in Index
      /\ ring \in [Index -> Slots]
  BY DEF TInv, RingInv, Indices, RingTypes, Index, Slots
<1>2. U \in Nat /\ \A j \in 1..U : Wrap(tx_tail + j - 1) \in Index
  BY <1>1, SizeAssumption DEF U, Used, Wrap, Index
<1>3. Queue = [j \in 1..U |-> Slot(j)]
  BY DEF Queue, Content, U, Slot
<1> QED
  BY <1>1, <1>2, <1>3 DEF QueueIsSeq, Slot

\* How far a slot of the queue is from the head, the way CDC_Transmit_FS
\* counts: the queued bytes are out of a line's reach, the line follows them.
LEMMA SlotFromHead ==
    ASSUME NEW h \in Index, NEW t \in Index, LineLen <= Free(h, t)
    PROVE  /\ \A j \in 1..Used(h, t) :
                /\ Wrap(t + j - 1) \in Index
                /\ Wrap(Wrap(t + j - 1) + TxSize - h) >= LineLen
           /\ \A j \in 1..LineLen :
                /\ Wrap(t + (Used(h, t) + j) - 1) \in Index
                /\ Wrap(Wrap(t + (Used(h, t) + j) - 1) + TxSize - h) = j - 1
<1>1. ASSUME NEW j \in 1..Used(h, t)
      PROVE  /\ Wrap(t + j - 1) \in Index
             /\ Wrap(Wrap(t + j - 1) + TxSize - h) >= LineLen
  BY <1>1, SizeAssumption DEF Wrap, Used, Free, Index
<1>2. ASSUME NEW j \in 1..LineLen
      PROVE  /\ Wrap(t + (Used(h, t) + j) - 1) \in Index
             /\ Wrap(Wrap(t + (Used(h, t) + j) - 1) + TxSize - h) = j - 1
  BY <1>2, SizeAssumption DEF Wrap, Used, Free, Index
<1> QED
  BY <1>1, <1>2

\* The next slots are those after the bytes taken.
LEMMA SlotMoved ==
    ASSUME NEW tail \in Index, NEW n \in Nat, NEW j \in Nat \ {0},
           tail + n <= TxSize, n + j < TxSize
    PROVE  Wrap(Wrap(tail + n) + j - 1) = Wrap(tail + (n + j) - 1)
BY SizeAssumption DEF Wrap, Index

\* Bytes taken from the tail are no longer queued.
LEMMA UsedLess ==
    ASSUME NEW head \in Index, NEW tail \in Index, NEW n \in Nat,
           n <= Used(head, tail), tail + n <= TxSize
    PROVE  Used(head, Wrap(tail + n)) = Used(head, tail) - n
BY SizeAssumption DEF Wrap, Used, Index

\* A line is queued as a whole.
LEMMA EnqueueAccepts ==
    ASSUME TInv, TInv', NEW t \in Tasks, Enqueue(t)
    PROVE  \E line \in LineIds : Fifo!Accept(BytesOf(line))
<1>1. /\ tx_buf \in LineIds /\ LineLen <= Free(tx_head, tx_tail)
      /\ tx_head' = Wrap(tx_head + LineLen) /\ UNCHANGED <<tx_tail, host>>
      /\ ring' = [i \in Index |->
                     IF Wrap(i + TxSize - tx_head) < LineLen
                     THEN <<tx_buf, Wrap(i + TxSize - tx_head) + 1>>
                     ELSE ring[i]]
  BY DEF Enqueue, At, TInv, TaskTypes, RingTypes, Index
<1>2. /\ tx_head \in Index /\ tx_tail \in Index
      /\ LineLen \in Nat /\ TxSize \in Nat
  BY SizeAssumption DEF TInv, RingInv, Indices
<1>3. QueueIsSeq /\ QueueIsSeq'
  <2>1. TInv' => QueueIsSeq'
    BY QueueSeq, PTL
  <2> QED
    BY <2>1, QueueSeq
<1>4. Slots' = Slots
  BY DEF Slots
<1>5. U' = U + LineLen /\ U \in Nat
  BY <1>1, <1>2, <1>3, HeadMoved DEF U, QueueIsSeq
<1>6. ASSUME NEW j \in 1..U PROVE Slot(j)' = Slot(j)
  <2>1. /\ Wrap(tx_tail + j - 1) \in Index
        /\ Wrap(Wrap(tx_tail + j - 1) + TxSize - tx_head) >= LineLen
    BY <1>1, <1>2, SlotFromHead DEF U
  <2>2. Wrap(Wrap(tx_tail + j - 1) + TxSize - tx_head) \in Int
    BY <1>2, <2>1 DEF Wrap, Index
  <2>3. ~(Wrap(Wrap(tx_tail + j - 1) + TxSize - tx_head) < LineLen)
    BY <1>2, <2>1, <2>2
  <2> QED
    BY <1>1, <2>1, <2>3 DEF Slot
<1>7. ASSUME NEW j \in (U + 1)..(U + LineLen)
      PROVE  Slot(j)' = <<tx_buf, j - U>>
  <2>1. /\ j - U \in 1..LineLen /\ U + (j - U) = j
        /\ (j - U) - 1 < LineLen /\ ((j - U) - 1) + 1 = j - U
    BY <1>2, <1>5
  <2>2. /\ Wrap(tx_tail + j - 1) \in Index
        /\ Wrap(Wrap(tx_tail + j - 1) + TxSize - tx_head) = (j - U) - 1
    BY <1>1, <1>2, <2>1, SlotFromHead DEF U
  <2>3. Slot(j)' = ring'[Wrap(tx_tail + j - 1)]
    BY <1>1 DEF Slot
  <2> QED
    BY <1>1, <2>1, <2>2, <2>3
<1> DEFINE input == BytesOf(tx_buf)
<1>8. /\ input \in Seq(Slots) /\ Len(input) = LineLen
      /\ \A j \in 1..LineLen : input[j] = <<tx_buf, j>>
  BY <1>1, <1>2 DEF BytesOf, Slots, Bytes
<1> HIDE DEF input
<1>9. /\ Queue \in Seq(Slots) /\ Len(Queue) = U
      /\ \A j \in 1..U : Queue[j] = Slot(j)
      /\ Queue' \in Seq(Slots) /\ Len(Queue') = U + LineLen
      /\ \A j \in 1..(U + LineLen) : Queue'[j] = Slot(j)'
  BY <1>3, <1>4, <1>5 DEF QueueIsSeq
<1>10. /\ Queue \o input \in Seq(Slots) /\ Len(Queue \o input) = U + LineLen
       /\ \A j \in 1..(U + LineLen) :
             (Queue \o input)[j] = IF j <= U THEN Queue[j] ELSE input[j - U]
  BY <1>8, <1>9, ConcatProperties
<1>11. ASSUME NEW j \in 1..(U + LineLen)
       PROVE  Queue'[j] = (Queue \o input)[j]
  <2>1. CASE j <= U
    <3>1. j \in 1..U
      BY <1>5, <2>1
    <3> QED
      BY <1>6, <1>9, <1>10, <2>1, <3>1
  <2>2. CASE ~(j <= U)
    <3>1. j \in (U + 1)..(U + LineLen) /\ j - U \in 1..LineLen
      BY <1>2, <1>5, <2>2
    <3> QED
      BY <1>7, <1>8, <1>9, <1>10, <2>2, <3>1
  <2> QED
    BY <2>1, <2>2
<1>12. Queue' = Queue \o input
  BY <1>9, <1>10, <1>11, SeqEqual
<1>13. Len(Queue) + Len(input) <= TxSize - 1
  BY <1>1, <1>2, <1>5, <1>8, <1>9 DEF Free, U
<1> QED
  BY <1>1, <1>12, <1>13 DEF Fifo!Accept, input

\* The host gets the first bytes of the queue, those in flight.
LEMMA DataInTakes ==
    ASSUME TInv, TInv', PipeInv, DataIn
    PROVE  \E n \in 1..ChunkSize : Fifo!Take(n)
<1> DEFINE n == tx_in_flight
<1>1. /\ transfer = <<tx_tail, n>> /\ n > 0 /\ TxLength = n
  BY DEF DataIn, PipeInv, OneClaim
<1>2. /\ tx_head \in Index /\ tx_tail \in Index
      /\ n \in Nat /\ n <= U /\ tx_tail + n <= TxSize
      /\ n \in 0..ChunkSize /\ TxSize \in Nat /\ ChunkSize \in Nat
      /\ ring \in [0..(TxSize - 1) -> Slots]
      /\ host \in Seq(Slots)
  BY SizeAssumption
     DEF TInv, RingInv, Indices, InFlightQueued, RingTypes, U, Slots
<1>3. /\ SentLength = n
      /\ tx_tail' = Wrap(tx_tail + n) /\ UNCHANGED <<ring, tx_head>>
      /\ host' = host \o Content(tx_tail, n)
  BY <1>1 DEF DataIn, Completed, SentLength
<1> HIDE DEF n
<1>4. QueueIsSeq /\ QueueIsSeq' /\ Slots' = Slots
  <2>1. TInv' => QueueIsSeq'
    BY QueueSeq, PTL
  <2> QED
    BY <2>1, QueueSeq DEF Slots
<1>5. U' = U - n
  BY <1>2, <1>3, UsedLess DEF U
<1>6. /\ Queue \in Seq(Slots) /\ Len(Queue) = U /\ U \in Nat /\ U < TxSize
      /\ \A j \in 1..U : Queue[j] = Slot(j)
      /\ Queue' \in Seq(Slots) /\ Len(Queue') = U - n
      /\ \A j \in 1..(U - n) : Queue'[j] = Slot(j)'
  <2>1. U < TxSize
    BY <1>2, SizeAssumption DEF U, Used, Index
  <2> QED
    BY <1>4, <1>5, <2>1 DEF QueueIsSeq
<1>7. /\ Content(tx_tail, n) \in Seq(Slots) /\ Len(Content(tx_tail, n)) = n
      /\ \A j \in 1..n : Content(tx_tail, n)[j] = Slot(j)
  BY <1>2, ContentType DEF Slot
<1> DEFINE chunk == Content(tx_tail, n)
           first == SubSeq(Queue, 1, n)
           rest == SubSeq(Queue, n + 1, Len(Queue))
<1>8. /\ first \in Seq(Slots) /\ Len(first) = n
      /\ \A j \in 1..n : first[j] = Queue[j]
  BY <1>2, <1>6
<1>9. /\ rest \in Seq(Slots) /\ Len(rest) = U - n
      /\ \A j \in 1..(U - n) : rest[j] = Queue[n + j]
  BY <1>2, <1>6
<1> HIDE DEF chunk, first, rest
<1>10. chunk = first
  <2>1. ASSUME NEW j \in 1..n PROVE chunk[j] = first[j]
    <3>1. j \in 1..U
      BY <1>2, <1>6
    <3> QED
      BY <1>6, <1>7, <1>8, <3>1 DEF chunk
  <2> QED
    BY <1>7, <1>8, <2>1, SeqEqual DEF chunk
<1>11. Queue' = rest
  <2>1. ASSUME NEW j \in 1..(U - n) PROVE Queue'[j] = rest[j]
    <3>1. n + j \in 1..U /\ j \in Nat \ {0} /\ n + j < TxSize
      BY <1>2, <1>6
    <3>2. Slot(j)' = Slot(n + j)
      BY <1>2, <1>3, <3>1, SlotMoved DEF Slot
    <3> QED
      BY <1>6, <1>9, <3>1, <3>2
  <2> QED
    BY <1>2, <1>6, <1>9, <2>1, SeqEqual
<1>12. n \in 1..ChunkSize
  BY <1>1, <1>2 DEF n
<1> QED
  BY <1>2, <1>3, <1>6, <1>10, <1>11, <1>12
     DEF Fifo!Take, chunk, first, rest

\* Every step is one of the queue, or none.
LEMMA FifoStep ==
    ASSUME ~Toggles, ~Resets, TInv, TInv', PipeInv, [Next]_vars
    PROVE  [Fifo!Next]_<<Queue, host>>
<1>1. ASSUME NEW t \in Tasks, Enqueue(t) PROVE [Fifo!Next]_<<Queue, host>>
  BY <1>1, EnqueueAccepts DEF Fifo!Next
<1>2. CASE DataIn
  BY <1>2, DataInTakes DEF Fifo!Next
<1>3. CASE Configure
  <2>1. /\ host = <<>> /\ tx_head = 0 /\ tx_tail = 0
        /\ host' = <<>> /\ tx_head' = 0 /\ tx_tail' = 0 /\ ring' = ring
    BY <1>3 DEF Configure, ClearRing, PipeInv, Unconfigured
  <2> QED
    BY <2>1 DEF Queue, Content
<1>4. CASE UNCHANGED <<ring, tx_head, tx_tail, host>>
  BY <1>4 DEF Queue, Content
<1>5. ASSUME NEW t \in Tasks, SendLine(t) \/ (TaskStep(t) /\ ~Enqueue(t))
      PROVE  UNCHANGED <<ring, tx_head, tx_tail, host>>
  BY <1>5 DEF SendLine, TaskStep, CheckState, RingFull, Delay, KickTest,
              KickLock, KickSet, KickPacket, KickStart, KickFail, ring_vars
<1>6. OpenPort \/ Suspend \/ Resume \/ UNCHANGED vars =>
        UNCHANGED <<ring, tx_head, tx_tail, host>>
  BY DEF OpenPort, Suspend, Resume, ring_vars, vars
<1>7. ~ClosePort /\ ~BusReset
  BY DEF ClosePort, BusReset
<1> QED
  BY <1>1, <1>2, <1>3, <1>4, <1>5, <1>6, <1>7 DEF Next, Interrupt

\* While the port stays open the transmit path is a bounded queue of lines,
\* whatever the two tasks, the interrupt and a suspension do to each other: no
\* byte is lost, repeated, reordered or overwritten in flight, for any ring,
\* chunk and line size (usbd_cdc_if.c:65-113, 214-292).
THEOREM PipeIsFifo == ASSUME ~Toggles, ~Resets PROVE Spec => IsFifo
<1>1. Init => PipeInv
  BY DEF Init, PipeInv, OneClaim, Unconfigured, Claims
<1>2. TInv /\ PipeInv /\ [Next]_vars => PipeInv'
  BY PipeStep
<1>3. TInv /\ TInv' /\ PipeInv /\ [Next]_vars => [Fifo!Next]_<<Queue, host>>
  BY FifoStep
<1>4. Init => Fifo!Init
  <2> SUFFICES ASSUME Init PROVE Queue = <<>> /\ host = <<>>
    BY DEF Fifo!Init
  <2>1. Used(tx_head, tx_tail) = 0
    BY DEF Init, Used
  <2> QED
    BY <2>1 DEF Init, Queue, Content
<1> QED
  BY <1>1, <1>2, <1>3, <1>4, Typing, PTL
     DEF Spec, IsFifo, Fifo!Spec, Fifo!vars

-----------------------------------------------------------------------------
(* The buffer the tasks share *)

\* Between the copy of its line and the ring, retries included, serial_task
\* still finds its line in the buffer.
Sending(t) == pc[t] \in {"check", "enqueue", "delay"}
BufInv == Sending("serial") => tx_buf = <<"serial", sent["serial"]>>

\* What is left of LineSentIsLineGiven: an answer is sent as it was given,
\* although its task delays and tries again, and telemetry_task uses the same
\* buffer (serial_cmd.cpp:92-106).
AnswerSentIsAnswerGiven ==
    [][Enqueue("serial") => tx_buf = <<"serial", sent["serial"]>>]_vars

\* telemetry_task begins no line while serial_task has one, so that none but
\* serial_task overwrites a line that is waiting.
LEMMA BufStep == TInv /\ BufInv /\ [Next]_vars => BufInv'
<1> SUFFICES ASSUME TInv, BufInv, [Next]_vars PROVE BufInv'
  OBVIOUS
<1>1. /\ DOMAIN pc = Tasks /\ DOMAIN sent = Tasks
      /\ "serial" \in Tasks /\ "telemetry" \in Tasks
      /\ "serial" # "telemetry"
  BY DEF TInv, TaskTypes, Tasks
<1> USE DEF task_vars
<1>2. CASE SendLine("serial")
  <2>1. /\ tx_buf' = <<"serial", sent'["serial"]>>
        /\ pc' = [pc EXCEPT !["serial"] = "check"]
    BY <1>2 DEF SendLine, Goto
  <2> QED
    BY <2>1 DEF BufInv, Sending
<1>3. CASE SendLine("telemetry")
  <2>1. /\ tx_buf' = <<"telemetry", sent'["telemetry"]>>
        /\ pc["serial"] = "idle"
        /\ pc' = [pc EXCEPT !["telemetry"] = "check"]
    BY <1>1, <1>3 DEF SendLine, Goto, At, Runs
  <2>2. pc'["serial"] = "idle"
    BY <1>1, <2>1
  <2> QED
    BY <2>1, <2>2 DEF BufInv, Sending
<1>4. ASSUME NEW t \in Tasks, TaskStep(t) PROVE BufInv'
  <2>1. tx_buf' = tx_buf /\ sent' = sent
    BY <1>4 DEF TaskStep, CheckState, Enqueue, RingFull, Delay, KickTest,
                KickLock, KickSet, KickPacket, KickStart, KickFail
  <2>2. \A u \in Tasks : Sending(u)' => Sending(u)
    <3>1. PICK label : Goto(t, label)
      BY <1>4 DEF TaskStep, CheckState, Enqueue, RingFull, Delay, KickTest,
                  KickLock, KickSet, KickPacket, KickStart, KickFail, Return
    <3>2. ~Sending(t) => ~Sending(t)'
      BY <1>1, <1>4 DEF TaskStep, CheckState, Enqueue, RingFull, Delay,
                KickTest, KickLock, KickSet, KickPacket, KickStart, KickFail,
                Return, Goto, At, Sending
    <3>3. ASSUME NEW u \in Tasks, u # t PROVE Sending(u)' = Sending(u)
      BY <1>1, <3>1, <3>3 DEF Goto, Sending
    <3> QED
      BY <3>2, <3>3
  <2> QED
    BY <1>1, <2>1, <2>2 DEF BufInv
<1>5. CASE Interrupt
  BY <1>5 DEF Interrupt, DataIn, OpenPort, ClosePort, Suspend, Resume,
              BusReset, Configure, BufInv, Sending
<1>6. CASE UNCHANGED vars
  BY <1>6 DEF vars, BufInv, Sending
<1> QED
  BY <1>2, <1>3, <1>4, <1>5, <1>6 DEF Next, Tasks

\* Of the two tasks that share the buffer only telemetry_task can lose a line:
\* what serial_task sends is what it was given, for any ring, any number of
\* retries and whatever the host does.
THEOREM AnswersIntact == Spec => AnswerSentIsAnswerGiven
<1>1. Init => BufInv
  BY DEF Init, BufInv, Sending, Tasks
<1>2. BufInv /\ [Next]_vars =>
          [Enqueue("serial") => tx_buf = <<"serial", sent["serial"]>>]_vars
  BY DEF BufInv, Sending, Enqueue, At
<1> QED
  BY <1>1, <1>2, BufStep, Typing, PTL DEF Spec, AnswerSentIsAnswerGiven
==============================================================================
