------------------------------- MODULE Encoder -------------------------------
(***************************************************************************)
(* The wheel encoders: edge interrupts count (encoder.cpp), control_task   *)
(* collects the counts (encoder_update), telemetry_task sends the motion   *)
(* since its last packet (json_cmd_publish_telemetry).                     *)
(*                                                                         *)
(*  - An edge and its interrupt are one action: at full speed edges are    *)
(*    90 us apart and the handler takes about one.                         *)
(*  - The interrupt preempts encoder_update between any two accesses to a  *)
(*    counter.  telemetry_task runs only while control_task sleeps.        *)
(*  - Positions, totals and deltas are int32: numbers modulo TotalMod.     *)
(*  - encoder_update returns at once when no tick has passed, and changes  *)
(*    nothing; the speed it computes from a snapshot is left out.          *)
(***************************************************************************)
EXTENDS Integers

CONSTANTS
    TotalMod,     \* 2^32
    Turning,      \* the wheels that turn
    Ahead,        \* bound: edges between two packets
    MaxSlips      \* bound: edges that fall between a snapshot and its clearing

Wheels == {"left", "right"}

ASSUME EncoderAssumption ==
    /\ TotalMod \in Nat /\ TotalMod % 4 = 0
    /\ Turning \subseteq Wheels
    /\ Ahead \in Nat /\ 2 * (Ahead + MaxSlips) < TotalMod
    /\ MaxSlips \in Nat

VARIABLES
    count,        \* left_count, right_count
    prev_state,   \* left_prev_state, right_prev_state
    \* ---- control_task in encoder_update
    pc,
    snapshot,
    \* ---- shared by control_task and telemetry_task
    tick_total,
    \* ---- telemetry_task
    turn,         \* the wheel it reads next
    last,         \* last_tl, last_tr
    \* ---- the world
    wheel,        \* edges the wheel has turned since the start
    origin,       \* the phase in which it started
    reported,     \* the sum of the deltas in the packets
    \* ---- history
    owed,         \* collected since the last packet
    slips         \* how many edges fell between snapshot and clearing

control_vars == <<pc, snapshot, tick_total>>
telemetry_vars == <<turn, last, reported>>
vars == <<count, prev_state, control_vars, telemetry_vars, wheel, origin, owed,
          slips>>

\* an int32 as a signed number
Signed(x) ==
    LET r == x % TotalMod IN IF 2 * r < TotalMod THEN r ELSE r - TotalMod
Magnitude(x) == IF x < 0 THEN -x ELSE x

-----------------------------------------------------------------------------
(* The edge interrupt *)

\* pin A (2) and pin B (1) in each phase: A leads when the wheel turns forward
Pins(phase) == <<0, 2, 3, 1>>[(phase % 4) + 1]

\* Mutant of QuadTable: two signs swapped in one row.
QuadTableSwapped(prev, cur) ==
    << 0, -1, 1,  0,
       1,  0, 0, -1,
       1,  0, 0, -1,
       0,  1, -1, 0 >>[4 * prev + cur + 1]

QuadTable(prev, cur) ==
    <<  0, -1,  1,  0,
        1,  0,  0, -1,
       -1,  0,  0,  1,
        0,  1, -1,  0 >>[4 * prev + cur + 1]

\* the pins are read after the edge
UpdateQuadrature(w, phase) ==
    /\ count' = [count EXCEPT ![w] = @ + QuadTable(prev_state[w], Pins(phase))]
    /\ prev_state' = [prev_state EXCEPT ![w] = Pins(phase)]

\* encoder_update has copied the count of w and has yet to clear it
InWindow(w) ==
    \/ w = "left" /\ pc \in {"left_read", "read"}
    \/ w = "right" /\ pc \in {"read", "left_cleared"}

\* motion of w that no packet reports yet
Unreported(w) ==
    (IF InWindow(w) THEN 0 ELSE snapshot[w]) + count[w]
        + Signed(tick_total[w] - last[w])

Edge(w, d) ==
    /\ w \in Turning
    /\ Magnitude(count[w] + d) + Magnitude(Unreported(w) - count[w]) <= Ahead
    /\ InWindow(w) => slips[w] < MaxSlips
    /\ wheel' = [wheel EXCEPT ![w] = (@ + d) % TotalMod]
    /\ UpdateQuadrature(w, origin[w] + wheel'[w])
    /\ slips' = [slips EXCEPT ![w] = IF InWindow(w) THEN @ + 1 ELSE @]
    /\ UNCHANGED <<control_vars, telemetry_vars, origin, owed>>

-----------------------------------------------------------------------------
(* encoder_update, in control_task *)

Snapshot(w, from, to) ==
    /\ pc = from
    /\ snapshot' = [snapshot EXCEPT ![w] = count[w]]
    /\ pc' = to
    /\ UNCHANGED <<count, prev_state, tick_total, telemetry_vars, wheel,
                   origin, owed, slips>>

Clear(w, from, to) ==
    /\ pc = from
    /\ count' = [count EXCEPT ![w] = 0]
    /\ pc' = to
    /\ UNCHANGED <<prev_state, snapshot, tick_total, telemetry_vars, wheel,
                   origin, owed, slips>>

\* Mutant of Accumulate: the total stops at the largest int32.
AccumulateSaturating ==
    /\ pc = "cleared"
    /\ tick_total' =
        [w \in Wheels |->
            IF Signed(tick_total[w]) + snapshot[w] >= TotalMod \div 2
            THEN TotalMod \div 2 - 1
            ELSE (tick_total[w] + snapshot[w]) % TotalMod]
    /\ owed' = [w \in Wheels |-> owed[w] + snapshot[w]]
    /\ snapshot' = [w \in Wheels |-> 0]
    /\ pc' = "idle"
    /\ UNCHANGED <<count, prev_state, telemetry_vars, wheel, origin, slips>>

\* Mutant of Accumulate: the total is wider than the delta.
AccumulateWide ==
    /\ pc = "cleared"
    /\ tick_total' = [w \in Wheels |-> tick_total[w] + snapshot[w]]
    /\ owed' = [w \in Wheels |-> owed[w] + snapshot[w]]
    /\ snapshot' = [w \in Wheels |-> 0]
    /\ pc' = "idle"
    /\ UNCHANGED <<count, prev_state, telemetry_vars, wheel, origin, slips>>

\* the snapshots are locals: they are gone afterwards
Accumulate ==
    /\ pc = "cleared"
    /\ tick_total' =
        [w \in Wheels |-> (tick_total[w] + snapshot[w]) % TotalMod]
    /\ owed' = [w \in Wheels |-> owed[w] + snapshot[w]]
    /\ snapshot' = [w \in Wheels |-> 0]
    /\ pc' = "idle"
    /\ UNCHANGED <<count, prev_state, telemetry_vars, wheel, origin, slips>>

EncoderUpdate ==
    \/ Snapshot("left", "idle", "left_read")
    \/ Snapshot("right", "left_read", "read")
    \/ Clear("left", "read", "left_cleared")
    \/ Clear("right", "left_cleared", "cleared")
    \/ Accumulate

-----------------------------------------------------------------------------
(* json_cmd_publish_telemetry, in telemetry_task *)

\* Mutant of Publish: a wheel that turns back is not reported.
PublishForward(w) ==
    /\ pc = "idle"
    /\ turn = w
    /\ turn' = CHOOSE v \in Wheels : v # w
    /\ IF Signed(tick_total[w] - last[w]) >= 0
       THEN /\ reported' =
                [reported EXCEPT
                    ![w] = (@ + tick_total[w] - last[w]) % TotalMod]
            /\ last' = [last EXCEPT ![w] = tick_total[w]]
            /\ owed' = [owed EXCEPT ![w] = 0]
       ELSE UNCHANGED <<reported, last, owed>>
    /\ UNCHANGED <<count, prev_state, control_vars, wheel, origin, slips>>

\* Between the wheels control_task may run again.  The two uses of a total are
\* one load: no call lies between them and g_state is not volatile.
Publish(w) ==
    /\ pc = "idle"
    /\ turn = w
    /\ turn' = CHOOSE v \in Wheels : v # w
    /\ reported' = [reported EXCEPT
                        ![w] = (@ + tick_total[w] - last[w]) % TotalMod]
    /\ last' = [last EXCEPT ![w] = tick_total[w]]
    /\ owed' = [owed EXCEPT ![w] = 0]
    /\ UNCHANGED <<count, prev_state, control_vars, wheel, origin, slips>>

-----------------------------------------------------------------------------
(* The specification *)

\* The wheels stand anywhere at the start, but prev_state is 0.
Init ==
    /\ count = [w \in Wheels |-> 0]
    /\ prev_state = [w \in Wheels |-> 0]
    /\ pc = "idle"
    /\ snapshot = [w \in Wheels |-> 0]
    /\ tick_total = [w \in Wheels |-> 0]
    /\ turn = "left"
    /\ last = [w \in Wheels |-> 0]
    /\ wheel = [w \in Wheels |-> 0]
    /\ origin \in [Wheels -> 0..3]
    /\ reported = [w \in Wheels |-> 0]
    /\ owed = [w \in Wheels |-> 0]
    /\ slips = [w \in Wheels |-> 0]

Turn == \E w \in Wheels, d \in {-1, 1} : Edge(w, d)
Telemetry == \E w \in Wheels : Publish(w)

Next == Turn \/ EncoderUpdate \/ Telemetry

\* control_task runs every period; telemetry_task, of the lowest priority, gets
\* the processor again and again while control_task sleeps.
Spec == Init /\ [][Next]_vars /\ WF_vars(EncoderUpdate) /\ SF_vars(Telemetry)
-----------------------------------------------------------------------------
(* Properties *)

\* Every variable keeps its type, and no count outgrows the bound.
TypeOK ==
    /\ count \in [Wheels -> -Ahead..Ahead]
    /\ prev_state \in [Wheels -> 0..3]
    /\ pc \in {"idle", "left_read", "read", "left_cleared", "cleared"}
    /\ snapshot \in [Wheels -> -Ahead..Ahead]
    /\ tick_total \in [Wheels -> 0..(TotalMod - 1)]
    /\ turn \in Wheels
    /\ last \in [Wheels -> 0..(TotalMod - 1)]
    /\ wheel \in [Wheels -> 0..(TotalMod - 1)]
    /\ origin \in [Wheels -> 0..3]
    /\ reported \in [Wheels -> 0..(TotalMod - 1)]
    /\ owed \in [Wheels -> Int]
    /\ slips \in [Wheels -> 0..MaxSlips]

\* The first edge is decoded against a previous state of 0 (encoder.cpp:13-14):
\* how wrong its count may be depends on the phase in which the wheel stands.
BootError(w) == IF origin[w] = 0 THEN 0 ELSE IF origin[w] = 2 THEN 2 ELSE 1

\* What the packets report and what is on its way to the next one is the true
\* motion, up to the first edge after the start and one edge for each that
\* falls between a snapshot and its clearing (encoder.cpp:58-61): whatever the
\* direction, and although the totals wrap, nothing else is lost or counted
\* twice.
OdometryBounded ==
    \A w \in Wheels :
        Magnitude(Signed(reported[w] + Unreported(w) - wheel[w]))
            <= BootError(w) + slips[w]

\* The difference of two readings of a running total is the motion collected
\* in between, also when the total has wrapped (json_cmd.cpp:513-517).
DeltaIsMotion ==
    \A w \in Wheels : Signed(tick_total[w] - last[w]) = owed[w]

\* Once a wheel rests, all that was counted gets into a packet.
MotionReported ==
    \A w \in Wheels :
        <>[][wheel'[w] = wheel[w]]_wheel => <>[](Unreported(w) = 0)
=============================================================================
