------------------------------ MODULE ByteFifo ------------------------------
(***************************************************************************)
(* What each direction of the USB port promises: a bounded byte queue.     *)
(* Bytes go in as a whole sequence (a line, the part of a packet that has  *)
(* room) or not at all, and come out in order, each exactly once.          *)
(***************************************************************************)
EXTENDS Naturals, Sequences

CONSTANTS
    Inputs,     \* the sequences of bytes that can go in
    Capacity,   \* how many bytes the queue holds
    MaxTake     \* how many bytes come out at once

VARIABLES
    queue,      \* accepted and not yet received
    received    \* what has come out

vars == <<queue, received>>

Init == queue = <<>> /\ received = <<>>

Accept(input) ==
    /\ Len(queue) + Len(input) <= Capacity
    /\ queue' = queue \o input
    /\ UNCHANGED received

Take(n) ==
    /\ n <= Len(queue)
    /\ received' = received \o SubSeq(queue, 1, n)
    /\ queue' = SubSeq(queue, n + 1, Len(queue))

Next ==
    \/ \E input \in Inputs : Accept(input)
    \/ \E n \in 1..MaxTake : Take(n)

Spec == Init /\ [][Next]_vars
=============================================================================
