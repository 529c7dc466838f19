---------------------------- MODULE Encoder_proofs ----------------------------
(***************************************************************************)
(* Invariance proofs for Encoder: the type invariant, that the difference  *)
(* of two totals is the motion in between, and that the odometry misses    *)
(* nothing but the first edge and the slipped ones, for any width of the   *)
(* totals, any bounds and any set of turning wheels that satisfy the       *)
(* assumptions.                                                            *)
(***************************************************************************)
EXTENDS Encoder, TLAPS

-----------------------------------------------------------------------------
(* The inductive invariant *)

\* collected or copied, and in no packet yet
Pending(w) == (IF InWindow(w) THEN 0 ELSE snapshot[w]) + owed[w]

\* edges counted since the copy: the clearing will lose them
Slipping(w) == IF InWindow(w) THEN count[w] - snapshot[w] ELSE 0

\* what the packets will have reported, less the true motion
Drift(w) == (reported[w] + (Pending(w) + count[w])) - wheel[w]

\* There is a snapshot only while encoder_update has yet to accumulate it.
PlaceInv ==
    /\ pc = "idle" => \A w \in Wheels : snapshot[w] = 0
    /\ pc = "left_read" => snapshot["right"] = 0

\* The guard of an edge bounds what is counted; what the clearing turns back is
\* no more than what has slipped.
Bounded(w) ==
    /\ Magnitude(Slipping(w)) <= slips[w]
    /\ (Magnitude(count[w]) + Magnitude(Pending(w)))
          + Magnitude(Slipping(w)) <= Ahead + slips[w]

\* The wheel has not moved yet, and prev_state is the initial 0.
Unmoved(w) ==
    /\ prev_state[w] = 0 /\ wheel[w] = 0
    /\ count[w] = 0 /\ snapshot[w] = 0 /\ owed[w] = 0
    /\ tick_total[w] = 0 /\ last[w] = 0 /\ reported[w] = 0

\* The interrupt knows the phase, and the drift is bounded: what is slipping
\* counts already.
Tracked(w) ==
    /\ prev_state[w] = Pins(origin[w] + wheel[w])
    /\ Magnitude(Signed(Drift(w))) + Magnitude(Slipping(w))
          <= BootError(w) + slips[w]

WheelInv(w) ==
    /\ Bounded(w)
    /\ Signed(tick_total[w] - last[w]) = owed[w]
    /\ Unmoved(w) \/ Tracked(w)

IInv == TypeOK /\ PlaceInv /\ \A w \in Wheels : WheelInv(w)

-----------------------------------------------------------------------------
(* Arithmetic modulo TotalMod *)

\* The assumptions, without the one on wheels.
LEMMA Bounds ==
    /\ TotalMod \in Nat \ {0} /\ Ahead \in Nat /\ MaxSlips \in Nat
    /\ 2 * (Ahead + MaxSlips) < TotalMod
BY EncoderAssumption

Congruent(x, y) == \E k \in Int : x - y = TotalMod * k

\* The remainder is a number of the word, congruent to what it was taken of.
LEMMA Remainder ==
    ASSUME NEW x \in Int
    PROVE  x % TotalMod \in 0..(TotalMod - 1) /\ Congruent(x % TotalMod, x)
<1>1. x % TotalMod \in 0..(TotalMod - 1) /\ x \div TotalMod \in Int
    BY Bounds
<1>2. x % TotalMod = x - TotalMod * (x \div TotalMod)
    BY Bounds, Z3
<1>3. (x % TotalMod) - x = TotalMod * (-(x \div TotalMod))
    BY Bounds, <1>1, <1>2
<1> QED
    BY <1>1, <1>3 DEF Congruent

\* Congruence is an equivalence, and adding keeps it.
LEMMA CongruentSym ==
    ASSUME NEW x \in Int, NEW y \in Int, Congruent(x, y)
    PROVE  Congruent(y, x)
<1>1. PICK k \in Int : x - y = TotalMod * k
    BY DEF Congruent
<1>2. y - x = TotalMod * (-k)
    BY Bounds, <1>1
<1> QED
    BY <1>2 DEF Congruent

LEMMA CongruentTrans ==
    ASSUME NEW x \in Int, NEW y \in Int, NEW z \in Int,
           Congruent(x, y), Congruent(y, z)
    PROVE  Congruent(x, z)
<1>1. PICK k \in Int : x - y = TotalMod * k
    BY DEF Congruent
<1>2. PICK j \in Int : y - z = TotalMod * j
    BY DEF Congruent
<1>3. TotalMod * (k + j) = TotalMod * k + TotalMod * j
    BY Bounds
<1>4. TotalMod * k \in Int /\ TotalMod * j \in Int
    BY Bounds
<1>5. x - z = TotalMod * (k + j)
    BY <1>1, <1>2, <1>3, <1>4
<1> QED
    BY <1>5 DEF Congruent

LEMMA CongruentPlus ==
    ASSUME NEW x \in Int, NEW y \in Int, NEW c \in Int, Congruent(x, y)
    PROVE  Congruent(x + c, y + c)
BY DEF Congruent

LEMMA CongruentRefl ==
    ASSUME NEW x \in Int
    PROVE  Congruent(x, x)
<1>1. x - x = TotalMod * 0
    BY Bounds
<1> QED
    BY <1>1 DEF Congruent

\* Congruent numbers less than a modulus apart are equal.
LEMMA CongruentNear ==
    ASSUME NEW x \in Int, NEW y \in Int, Congruent(x, y),
           x - y < TotalMod, y - x < TotalMod
    PROVE  x = y
<1>1. PICK k \in Int : x - y = TotalMod * k
    BY DEF Congruent
<1>2. k = 0
    <2>1. CASE k >= 1
        <3>1. TotalMod * k >= TotalMod
            BY Bounds, <2>1
        <3> QED
            BY <1>1, <3>1, Bounds
    <2>2. CASE k <= -1
        <3>1. TotalMod * k <= -TotalMod
            BY Bounds, <2>2
        <3> QED
            BY <1>1, <3>1, Bounds
    <2> QED
        BY <2>1, <2>2
<1> QED
    BY Bounds, <1>1, <1>2

\* Signed(x) is the number congruent to x in the range of a signed word.
LEMMA SignedRange ==
    ASSUME NEW x \in Int
    PROVE  /\ Signed(x) \in Int
           /\ -TotalMod <= 2 * Signed(x) /\ 2 * Signed(x) < TotalMod
           /\ Congruent(Signed(x), x)
<1> DEFINE r == x % TotalMod
<1>1. r \in 0..(TotalMod - 1) /\ Congruent(r, x)
    BY Remainder
<1>2. r \in Int /\ 0 <= r /\ r < TotalMod /\ TotalMod \in Nat
    BY <1>1, Bounds
<1>3. Signed(x) = IF 2 * r < TotalMod THEN r ELSE r - TotalMod
    BY DEF Signed
<1> HIDE DEF r
<1>4. (r - TotalMod) - r = TotalMod * (-1)
    BY <1>2
<1>5. Congruent(r - TotalMod, r)
    BY <1>4 DEF Congruent
<1>6. Congruent(r - TotalMod, x)
    BY <1>1, <1>2, <1>5, CongruentTrans
<1> QED
    BY <1>1, <1>2, <1>3, <1>6

LEMMA SignedUnique ==
    ASSUME NEW x \in Int, NEW e \in Int, Congruent(x, e),
           -TotalMod <= 2 * e, 2 * e < TotalMod
    PROVE  Signed(x) = e
<1>1. Congruent(Signed(x), e)
    BY SignedRange, CongruentTrans
<1> QED
    BY <1>1, SignedRange, CongruentNear, Bounds

\* ... and the smallest in magnitude.
LEMMA SignedLeast ==
    ASSUME NEW x \in Int, NEW e \in Int, Congruent(x, e)
    PROVE  Magnitude(Signed(x)) <= Magnitude(e)
<1>1. CASE -TotalMod <= 2 * e /\ 2 * e < TotalMod
    BY <1>1, SignedUnique, SignedRange DEF Magnitude
<1>2. CASE ~(-TotalMod <= 2 * e /\ 2 * e < TotalMod)
    BY <1>2, SignedRange, Bounds DEF Magnitude
<1> QED
    BY <1>1, <1>2

\* What is added to a number is added to its signed value, or it gets smaller.
LEMMA SignedStep ==
    ASSUME NEW x \in Int, NEW y \in Int, NEW c \in Int, Congruent(y, x + c)
    PROVE  Magnitude(Signed(y)) <= Magnitude(Signed(x) + c)
<1>1. Congruent(x, Signed(x))
    BY SignedRange, CongruentSym
<1>2. Congruent(x + c, Signed(x) + c)
    BY <1>1, SignedRange, CongruentPlus
<1>3. Congruent(y, Signed(x) + c)
    BY <1>2, SignedRange, CongruentTrans
<1> QED
    BY <1>3, SignedRange, SignedLeast

-----------------------------------------------------------------------------
(* The decoder *)

LEMMA PinsType ==
    ASSUME NEW p \in Int
    PROVE  Pins(p) \in 0..3
<1>1. p % 4 \in 0..3
    OBVIOUS
<1> DEFINE r == p % 4
<1>2. r = 0 \/ r = 1 \/ r = 2 \/ r = 3
    BY <1>1
<1>3. Pins(p) = <<0, 2, 3, 1>>[r + 1]
    BY DEF Pins
<1> QED
    BY <1>2, <1>3

LEMMA QuadTableType ==
    ASSUME NEW p \in 0..3, NEW c \in 0..3
    PROVE  QuadTable(p, c) \in {-1, 0, 1}
<1>1. CASE p = 0
    BY <1>1 DEF QuadTable
<1>2. CASE p = 1
    BY <1>2 DEF QuadTable
<1>3. CASE p = 2
    BY <1>3 DEF QuadTable
<1>4. CASE p = 3
    BY <1>4 DEF QuadTable
<1> QED
    BY <1>1, <1>2, <1>3, <1>4

\* Between neighbouring phases the table gives the direction.
LEMMA Decode ==
    ASSUME NEW p \in Int, NEW d \in {-1, 1}
    PROVE  QuadTable(Pins(p), Pins(p + d)) = d
<1>1. p % 4 = 0 \/ p % 4 = 1 \/ p % 4 = 2 \/ p % 4 = 3
    OBVIOUS
<1>2. CASE d = 1
    <2>1. (p + d) % 4 = IF p % 4 = 3 THEN 0 ELSE (p % 4) + 1
        BY <1>2
    <2> QED
        BY <1>1, <1>2, <2>1 DEF Pins, QuadTable
<1>3. CASE d = -1
    <2>1. (p + d) % 4 = IF p % 4 = 0 THEN 3 ELSE (p % 4) - 1
        BY <1>3
    <2> QED
        BY <1>1, <1>3, <2>1 DEF Pins, QuadTable
<1> QED
    BY <1>2, <1>3

\* The first edge, decoded against 0, is wrong by BootError at most.
LEMMA FirstEdge ==
    ASSUME NEW w \in Wheels, origin[w] \in 0..3, NEW d \in {-1, 1}
    PROVE  Magnitude(QuadTable(0, Pins(origin[w] + d)) - d) <= BootError(w)
<1> DEFINE o == origin[w]
<1>1. o = 0 \/ o = 1 \/ o = 2 \/ o = 3
    OBVIOUS
<1>2. ASSUME NEW c \in {-1, 1}
      PROVE  (0 + c) % 4 = (IF c = 1 THEN 1 ELSE 3) /\ (2 + c) % 4 = 2 + c
             /\ (1 + c) % 4 = 1 + c /\ (3 + c) % 4 = (IF c = 1 THEN 0 ELSE 2)
    OBVIOUS
<1>3. CASE d = 1
    BY <1>1, <1>2, <1>3 DEF Pins, QuadTable, BootError, Magnitude
<1>4. CASE d = -1
    BY <1>1, <1>2, <1>4 DEF Pins, QuadTable, BootError, Magnitude
<1> QED
    BY <1>3, <1>4

\* Counting the edges modulo the width of the word keeps the phase.
LEMMA PinsRemainder ==
    ASSUME NEW o \in Int, NEW x \in Int
    PROVE  Pins(o + (x % TotalMod)) = Pins(o + x)
<1>1. PICK k \in Int : (x % TotalMod) - x = TotalMod * k
    BY Remainder DEF Congruent
<1>2. TotalMod = 4 * (TotalMod \div 4) /\ TotalMod \div 4 \in Int
    BY EncoderAssumption
<1> DEFINE q == TotalMod \div 4
           m == q * k
<1>3. m \in Int
    BY <1>2
<1>4. TotalMod * k = 4 * m
    BY <1>2
<1>5. x % TotalMod \in Int
    BY Remainder
<1>6. o + (x % TotalMod) = (o + x) + 4 * m
    BY <1>1, <1>3, <1>4, <1>5
<1> HIDE DEF m
<1>7. (o + (x % TotalMod)) % 4 = (o + x) % 4
    <2> DEFINE s == o + x
    <2>1. s \in Int
        OBVIOUS
    <2> HIDE DEF s
    <2>2. (s + 4 * m) % 4 = s % 4
        BY <1>3, <2>1
    <2> QED
        BY <1>6, <2>2 DEF s
<1> QED
    BY <1>7 DEF Pins

-----------------------------------------------------------------------------
(* One wheel, step by step *)

\* What TypeOK says of one wheel
WheelType(w) ==
    /\ count[w] \in Int /\ prev_state[w] \in 0..3 /\ snapshot[w] \in Int
    /\ tick_total[w] \in Int /\ last[w] \in Int /\ wheel[w] \in Int
    /\ origin[w] \in 0..3 /\ reported[w] \in Int /\ owed[w] \in Int
    /\ slips[w] \in 0..MaxSlips

LEMMA WheelTyped ==
    ASSUME TypeOK, NEW w \in Wheels
    PROVE  WheelType(w)
BY Bounds DEF TypeOK, WheelType

LEMMA WheelInts ==
    ASSUME NEW w \in Wheels, WheelType(w)
    PROVE  /\ Pending(w) \in Int /\ Slipping(w) \in Int /\ Drift(w) \in Int
           /\ slips[w] \in Int /\ BootError(w) \in 0..2
           /\ Signed(Drift(w)) \in Int
<1>1. Pending(w) \in Int /\ Slipping(w) \in Int
    BY DEF WheelType, Pending, Slipping
<1>2. Drift(w) \in Int
    BY <1>1 DEF WheelType, Drift
<1> QED
    BY <1>1, <1>2, SignedRange, Bounds DEF WheelType, BootError

\* With TypeOK unprimed and primed.
LEMMA SameWheel ==
    ASSUME NEW w \in Wheels, WheelInv(w), InWindow(w)' <=> InWindow(w),
           count'[w] = count[w], prev_state'[w] = prev_state[w],
           snapshot'[w] = snapshot[w], tick_total'[w] = tick_total[w],
           last'[w] = last[w], wheel'[w] = wheel[w], origin' = origin,
           reported'[w] = reported[w], owed'[w] = owed[w],
           slips'[w] = slips[w]
    PROVE  WheelInv(w)'
<1>1. Pending(w)' = Pending(w) /\ Slipping(w)' = Slipping(w)
    BY DEF Pending, Slipping
<1>2. Drift(w)' = Drift(w)
    BY <1>1 DEF Drift
<1>3. BootError(w)' = BootError(w)
    BY DEF BootError
<1>4. Bounded(w)'
    BY <1>1 DEF WheelInv, Bounded
<1>5. Unmoved(w) => Unmoved(w)'
    BY DEF Unmoved
<1>6. Tracked(w) => Tracked(w)'
    BY <1>1, <1>2, <1>3 DEF Tracked
<1> QED
    BY <1>4, <1>5, <1>6 DEF WheelInv

\* The copy of a count moves it from what is counted to what is copied.
LEMMA SnapshotWheel ==
    ASSUME TypeOK, NEW w \in Wheels, WheelInv(w), snapshot[w] = 0,
           ~InWindow(w), InWindow(w)', snapshot'[w] = count[w],
           UNCHANGED <<count, prev_state, tick_total, last, wheel, origin,
                       reported, owed, slips>>
    PROVE  WheelInv(w)'
<1>1. WheelType(w)
    BY WheelTyped
<1>2. Pending(w)' = Pending(w) /\ Slipping(w) = 0 /\ Slipping(w)' = 0
    BY <1>1 DEF Pending, Slipping, WheelType
<1>3. Drift(w)' = Drift(w)
    BY <1>2 DEF Drift
<1>4. BootError(w)' = BootError(w)
    BY DEF BootError
<1>5. Bounded(w)'
    BY <1>2 DEF WheelInv, Bounded
<1>6. Unmoved(w) => Unmoved(w)'
    BY DEF Unmoved
<1>7. Tracked(w) => Tracked(w)'
    BY <1>2, <1>3, <1>4 DEF Tracked
<1> QED
    BY <1>5, <1>6, <1>7 DEF WheelInv

\* The clearing loses the edges since the copy: they have been set aside.
LEMMA ClearWheel ==
    ASSUME TypeOK, NEW w \in Wheels, WheelInv(w),
           InWindow(w), ~InWindow(w)', count'[w] = 0,
           UNCHANGED <<prev_state, snapshot, tick_total, last, wheel, origin,
                       reported, owed, slips>>
    PROVE  WheelInv(w)'
<1>1. WheelType(w)
    BY WheelTyped
<1>2. /\ Pending(w) = owed[w] /\ Pending(w)' = snapshot[w] + owed[w]
      /\ Slipping(w) = count[w] - snapshot[w] /\ Slipping(w)' = 0
    BY <1>1 DEF Pending, Slipping, WheelType
<1>3. Bounded(w)'
    BY <1>1, <1>2, Bounds DEF WheelInv, Bounded, WheelType, Magnitude
<1>4. BootError(w)' = BootError(w)
    BY DEF BootError
<1>5. Unmoved(w) => Unmoved(w)'
    BY DEF Unmoved
<1>6. ASSUME Tracked(w)
      PROVE  Tracked(w)'
    <2>1. Drift(w)' = Drift(w) + (-Slipping(w)) /\ Drift(w)' \in Int
        BY <1>1, <1>2 DEF Drift, WheelType
    <2>2. Magnitude(Signed(Drift(w)')) <= Magnitude(Signed(Drift(w))
              + (-Slipping(w)))
        BY <1>1, <2>1, WheelInts, SignedStep, CongruentRefl
    <2>3. Signed(Drift(w))' = Signed(Drift(w)')
        BY DEF Signed
    <2>4. Signed(Drift(w)') \in Int
        BY <2>1, SignedRange
    <2>5. Magnitude(Signed(Drift(w))') <= BootError(w) + slips[w]
        BY <1>1, <1>6, <2>2, <2>3, <2>4, WheelInts DEF Tracked, Magnitude
    <2> QED
        BY <1>2, <1>4, <1>6, <2>3, <2>4, <2>5 DEF Tracked, Magnitude
<1> QED
    BY <1>3, <1>5, <1>6 DEF WheelInv

\* The phase after an edge
LEMMA EdgePins ==
    ASSUME NEW w \in Wheels, WheelType(w), NEW d \in {-1, 1},
           wheel'[w] = (wheel[w] + d) % TotalMod
    PROVE  Pins(origin[w] + wheel'[w]) = Pins((origin[w] + wheel[w]) + d)
<1> DEFINE o == origin[w]
           x == wheel[w] + d
<1>1. o \in Int /\ x \in Int /\ o + x = (origin[w] + wheel[w]) + d
    BY DEF WheelType
<1> HIDE DEF o, x
<1>2. Pins(o + (x % TotalMod)) = Pins(o + x)
    BY <1>1, PinsRemainder
<1>3. Pins(origin[w] + wheel'[w]) = Pins(o + (x % TotalMod))
    BY DEF o, x
<1> QED
    BY <1>1, <1>2, <1>3

\* An edge: the pins are decoded, and a slipped edge is set aside.
LEMMA EdgeWheel ==
    ASSUME TypeOK, NEW w \in Wheels, WheelInv(w), NEW d \in {-1, 1}, Edge(w, d)
    PROVE  WheelInv(w)'
<1> DEFINE q == QuadTable(prev_state[w], Pins(origin[w] + wheel'[w]))
           step == IF InWindow(w) THEN 1 ELSE 0
<1>1. WheelType(w)
    BY WheelTyped
<1>2. /\ wheel'[w] = (wheel[w] + d) % TotalMod /\ count'[w] = count[w] + q
      /\ prev_state'[w] = Pins(origin[w] + wheel'[w])
      /\ slips'[w] = slips[w] + step
      /\ Magnitude(count[w] + d) + Magnitude(Unreported(w) - count[w]) <= Ahead
      /\ UNCHANGED <<pc, snapshot, tick_total, last, origin, reported, owed>>
    BY <1>1 DEF Edge, UpdateQuadrature, TypeOK, WheelType, control_vars,
            telemetry_vars
<1>3. wheel[w] + d \in Int /\ wheel'[w] \in 0..(TotalMod - 1)
    BY <1>1, <1>2, Remainder DEF WheelType
<1>4. wheel'[w] \in Int
    BY <1>3, Bounds
<1>5. q \in {-1, 0, 1}
    BY <1>1, <1>4, PinsType, QuadTableType DEF WheelType
<1>6. Pins(origin[w] + wheel'[w]) = Pins((origin[w] + wheel[w]) + d)
    BY <1>1, <1>2, EdgePins
<1> HIDE DEF q
<1>7. step \in {0, 1} /\ (InWindow(w)' <=> InWindow(w))
    BY <1>2 DEF InWindow
<1>8. /\ Pending(w)' = Pending(w)
      /\ Slipping(w)' = IF InWindow(w) THEN Slipping(w) + q ELSE 0
      /\ ~InWindow(w) => Slipping(w) = 0
    BY <1>1, <1>2, <1>5, <1>7 DEF Pending, Slipping, WheelType
<1>9. Unreported(w) - count[w] = Pending(w)
    BY <1>1 DEF Unreported, Pending, WheelInv, WheelType
<1>10. Magnitude(count[w] + d) + Magnitude(Pending(w)) <= Ahead
    BY <1>2, <1>9
<1>11. Magnitude(Slipping(w)') <= Magnitude(Slipping(w)) + step
    BY <1>1, <1>5, <1>8, WheelInts DEF Magnitude
<1>12. Magnitude(Slipping(w)') <= slips'[w]
    BY <1>1, <1>2, <1>5, <1>8, <1>11, WheelInts
       DEF WheelInv, Bounded, Magnitude
<1>13. BootError(w)' = BootError(w)
    BY <1>2 DEF BootError
<1>14. Congruent(Drift(w)', Drift(w) + (q - d)) /\ Drift(w)' \in Int
    <2>1. Congruent(wheel'[w], wheel[w] + d)
        BY <1>2, <1>3, Remainder
    <2>2. Congruent(wheel[w] + d, wheel'[w])
        BY <1>3, <1>4, <2>1, CongruentSym
    <2> DEFINE c == ((reported[w] + (Pending(w) + (count[w] + q)))
                       - (wheel[w] + d)) - wheel'[w]
    <2>3. c \in Int
        BY <1>1, <1>4, <1>5, WheelInts DEF WheelType
    <2>4. Congruent((wheel[w] + d) + c, wheel'[w] + c)
        BY <1>3, <1>4, <2>2, <2>3, CongruentPlus
    <2>5. /\ (wheel[w] + d) + c = Drift(w)'
          /\ wheel'[w] + c = Drift(w) + (q - d)
        BY <1>1, <1>2, <1>4, <1>5, <1>8, WheelInts DEF Drift, WheelType
    <2> HIDE DEF c
    <2>6. Drift(w)' \in Int
        BY <1>3, <2>3, <2>5
    <2> QED
        BY <2>4, <2>5, <2>6
<1>15. Magnitude(Signed(Drift(w))') <= Magnitude(Signed(Drift(w)) + (q - d))
       /\ Signed(Drift(w))' \in Int
    <2>1. Drift(w) \in Int /\ q - d \in Int
        BY <1>1, <1>5, WheelInts
    <2>2. Magnitude(Signed(Drift(w)')) <= Magnitude(Signed(Drift(w)) + (q - d))
        BY <1>14, <2>1, SignedStep
    <2>3. Signed(Drift(w))' = Signed(Drift(w)')
        BY DEF Signed
    <2> QED
        BY <1>14, <2>2, <2>3, SignedRange
<1>16. CASE Tracked(w)
    <2>1. q = d
        <3>1. origin[w] + wheel[w] \in Int
            BY <1>1 DEF WheelType
        <3> QED
            BY <1>6, <1>16, <3>1, Decode DEF Tracked, q
    <2>2. Bounded(w)'
        BY <1>1, <1>2, <1>5, <1>7, <1>8, <1>10, <1>11, <1>12, <2>1, WheelInts,
           Bounds DEF WheelInv, Bounded, Magnitude, WheelType
    <2>3. Tracked(w)'
        <3>1. Magnitude(Signed(Drift(w))') <= Magnitude(Signed(Drift(w)))
            BY <1>1, <1>15, <2>1, WheelInts DEF Magnitude
        <3>2. Magnitude(Signed(Drift(w))') + Magnitude(Slipping(w)')
                  <= BootError(w) + slips'[w]
            BY <1>1, <1>2, <1>5, <1>7, <1>8, <1>11, <1>15, <1>16, <3>1,
               WheelInts DEF Tracked, Magnitude
        <3> QED
            BY <1>2, <1>13, <3>2 DEF Tracked
    <2> QED
        BY <1>2, <2>2, <2>3 DEF WheelInv
<1>17. CASE Unmoved(w)
    <2>1. Pending(w) = 0 /\ Slipping(w) = 0 /\ Drift(w) = 0
        BY <1>17 DEF Unmoved, Pending, Slipping, Drift
    <2>2. Signed(Drift(w)) = 0
        BY <2>1, SignedUnique, CongruentRefl, Bounds
    <2>3. Magnitude(q - d) <= BootError(w)
        <3>1. Pins((origin[w] + wheel[w]) + d) = Pins(origin[w] + d)
            BY <1>1, <1>17 DEF Unmoved, WheelType
        <3> QED
            BY <1>1, <1>6, <1>17, <3>1, FirstEdge DEF Unmoved, WheelType, q
    <2>4. Bounded(w)'
        BY <1>1, <1>2, <1>5, <1>7, <1>8, <1>10, <1>12, <1>17, <2>1, Bounds
           DEF Unmoved, Bounded, WheelInv, Magnitude, WheelType
    <2>5. Tracked(w)'
        <3>1. Magnitude(Signed(Drift(w))') <= BootError(w)
            BY <1>5, <1>15, <2>2, <2>3, <1>1, WheelInts DEF Magnitude
        <3>2. Magnitude(Slipping(w)') <= slips'[w]
            BY <1>12
        <3>3. Magnitude(Slipping(w)') \in Int /\ slips'[w] \in Int
            BY <1>1, <1>2, <1>5, <1>7, <1>8, <2>1, WheelInts DEF Magnitude
        <3>4. Magnitude(Signed(Drift(w))') \in Int
            BY <1>15 DEF Magnitude
        <3> QED
            BY <1>1, <1>2, <1>13, <3>1, <3>2, <3>3, <3>4, WheelInts
               DEF Tracked, Magnitude
    <2> QED
        BY <1>2, <2>4, <2>5 DEF WheelInv
<1> QED
    BY <1>16, <1>17 DEF WheelInv

\* The total takes the copied counts over, and its difference with it.
LEMMA AccumulateWheel ==
    ASSUME TypeOK, NEW w \in Wheels, WheelInv(w), pc = "cleared", Accumulate
    PROVE  WheelInv(w)'
<1>1. WheelType(w)
    BY WheelTyped
<1>2. /\ tick_total'[w] = (tick_total[w] + snapshot[w]) % TotalMod
      /\ owed'[w] = owed[w] + snapshot[w] /\ snapshot'[w] = 0
      /\ pc' = "idle"
      /\ UNCHANGED <<count, prev_state, last, wheel, origin, reported, slips>>
    BY DEF Accumulate, telemetry_vars
<1>3. ~InWindow(w) /\ ~InWindow(w)'
    BY <1>2 DEF InWindow
<1>4. /\ Pending(w) = owed'[w] /\ Pending(w)' = owed'[w] /\ owed'[w] \in Int
      /\ Slipping(w) = 0 /\ Slipping(w)' = 0
    BY <1>1, <1>2, <1>3 DEF Pending, Slipping, WheelType
<1>5. Drift(w)' = Drift(w) /\ BootError(w)' = BootError(w)
    BY <1>2, <1>4 DEF Drift, BootError
<1>6. Bounded(w)'
    BY <1>2, <1>4 DEF WheelInv, Bounded
<1>7. Signed(tick_total'[w] - last'[w]) = owed'[w]
    <2> DEFINE d == tick_total[w] - last[w]
    <2>1. d \in Int /\ tick_total[w] + snapshot[w] \in Int
          /\ last[w] \in Int /\ snapshot[w] \in Int /\ owed[w] \in Int
        BY <1>1 DEF WheelType
    <2>2. Congruent(tick_total'[w], tick_total[w] + snapshot[w])
          /\ tick_total'[w] \in Int
        BY <1>2, <2>1, Remainder, Bounds
    <2>3. Congruent(tick_total'[w] + (-last[w]),
                    (tick_total[w] + snapshot[w]) + (-last[w]))
        <3> DEFINE x == tick_total'[w]
                   y == tick_total[w] + snapshot[w]
                   z == -last[w]
        <3>1. x \in Int /\ y \in Int /\ z \in Int /\ Congruent(x, y)
            BY <2>1, <2>2
        <3> HIDE DEF x, y, z
        <3>2. Congruent(x + z, y + z)
            BY <3>1, CongruentPlus
        <3> QED
            BY <3>2 DEF x, y, z
    <2>4. /\ tick_total'[w] + (-last[w]) = tick_total'[w] - last'[w]
          /\ (tick_total[w] + snapshot[w]) + (-last[w]) = d + snapshot[w]
        BY <1>1, <1>2, <2>2 DEF WheelType
    <2> HIDE DEF d
    <2>5. Congruent(tick_total'[w] - last'[w], d + snapshot[w])
        BY <2>3, <2>4
    <2>6. Congruent(d + snapshot[w], owed'[w])
        <3>1. Signed(d) = owed[w]
            BY DEF WheelInv, d
        <3>2. Congruent(d, owed[w])
            BY <2>1, <3>1, SignedRange, CongruentSym
        <3> QED
            BY <1>2, <2>1, <3>2, CongruentPlus
    <2>7. tick_total'[w] - last'[w] \in Int /\ d + snapshot[w] \in Int
        BY <1>2, <2>1, <2>2
    <2>8. Congruent(tick_total'[w] - last'[w], owed'[w])
        BY <1>4, <2>5, <2>6, <2>7, CongruentTrans
    <2>9. -TotalMod <= 2 * owed'[w] /\ 2 * owed'[w] < TotalMod
        BY <1>1, <1>4, Bounds DEF WheelInv, Bounded, Magnitude, WheelType
    <2> QED
        BY <1>4, <2>7, <2>8, <2>9, SignedUnique
<1>8. Unmoved(w) => Unmoved(w)'
    <2>1. 0 % TotalMod = 0
        BY Bounds
    <2> QED
        BY <1>2, <2>1 DEF Unmoved
<1>9. Tracked(w) => Tracked(w)'
    BY <1>2, <1>4, <1>5 DEF Tracked
<1> QED
    BY <1>6, <1>7, <1>8, <1>9 DEF WheelInv

\* A packet reports the difference of the totals, which is what is owed.
LEMMA PublishWheel ==
    ASSUME TypeOK, NEW w \in Wheels, WheelInv(w), snapshot[w] = 0, Publish(w)
    PROVE  WheelInv(w)'
<1>1. WheelType(w)
    BY WheelTyped
<1>2. /\ reported'[w] = (reported[w] + tick_total[w] - last[w]) % TotalMod
      /\ last'[w] = tick_total[w] /\ owed'[w] = 0
      /\ pc = "idle"
      /\ UNCHANGED <<count, prev_state, pc, snapshot, tick_total, wheel,
                     origin, slips>>
    BY DEF Publish, TypeOK, control_vars
<1>3. ~InWindow(w) /\ ~InWindow(w)'
    BY <1>2 DEF InWindow
<1>4. /\ Pending(w) = owed[w] /\ Pending(w)' = 0
      /\ Slipping(w) = 0 /\ Slipping(w)' = 0
    BY <1>1, <1>2, <1>3 DEF Pending, Slipping, WheelType
<1>5. Bounded(w)'
    BY <1>1, <1>2, <1>4, Bounds DEF WheelInv, Bounded, Magnitude, WheelType
<1>6. Signed(tick_total'[w] - last'[w]) = owed'[w]
    <2>1. tick_total'[w] - last'[w] = 0
        BY <1>1, <1>2 DEF WheelType
    <2> QED
        BY <1>2, <2>1, SignedUnique, CongruentRefl, Bounds
<1>7. Unmoved(w) => Unmoved(w)'
    <2>1. 0 % TotalMod = 0 /\ (0 + 0) - 0 = 0
        BY Bounds
    <2> QED
        BY <1>2, <2>1 DEF Unmoved
<1>8. Congruent(Drift(w)', Drift(w) + 0) /\ Drift(w)' \in Int
    <2> DEFINE d == tick_total[w] - last[w]
               c == count[w] - wheel[w]
    <2>1. d \in Int /\ c \in Int /\ owed[w] \in Int /\ reported[w] \in Int
        BY <1>1 DEF WheelType
    <2>2. reported[w] + tick_total[w] - last[w] = reported[w] + d
        BY <1>1 DEF WheelType
    <2>3. Drift(w) + 0 = (owed[w] + reported[w]) + c
        BY <1>1, <1>4 DEF Drift, WheelType
    <2>4. Signed(d) = owed[w]
        BY DEF WheelInv
    <2>5. reported'[w] \in Int => Drift(w)' = reported'[w] + c
        BY <1>1, <1>2, <1>4 DEF Drift, WheelType
    <2> HIDE DEF d, c
    <2>6. Congruent(reported'[w], reported[w] + d) /\ reported'[w] \in Int
        BY <1>2, <2>1, <2>2, Remainder, Bounds
    <2>7. Congruent(d, owed[w])
        BY <2>1, <2>4, SignedRange, CongruentSym
    <2>8. Congruent(d + reported[w], owed[w] + reported[w])
        BY <2>1, <2>7, CongruentPlus
    <2>9. Congruent(reported'[w], owed[w] + reported[w])
        <3>1. d + reported[w] = reported[w] + d /\ d + reported[w] \in Int
              /\ owed[w] + reported[w] \in Int
            BY <2>1
        <3> QED
            BY <2>6, <2>8, <3>1, CongruentTrans
    <2>10. Congruent(reported'[w] + c, (owed[w] + reported[w]) + c)
        <3> DEFINE x == reported'[w]
                   y == owed[w] + reported[w]
        <3>1. x \in Int /\ y \in Int /\ Congruent(x, y)
            BY <2>1, <2>6, <2>9
        <3> HIDE DEF x, y
        <3>2. Congruent(x + c, y + c)
            BY <2>1, <3>1, CongruentPlus
        <3> QED
            BY <3>2 DEF x, y
    <2> QED
        BY <2>1, <2>3, <2>5, <2>6, <2>10
<1>9. ASSUME Tracked(w)
      PROVE  Tracked(w)'
    <2>1. Drift(w) \in Int /\ Signed(Drift(w)) \in Int
        BY <1>1, WheelInts
    <2>2. Magnitude(Signed(Drift(w)')) <= Magnitude(Signed(Drift(w)) + 0)
        BY <1>8, <2>1, SignedStep
    <2>3. Signed(Drift(w))' = Signed(Drift(w)') /\ Signed(Drift(w)') \in Int
        BY <1>8, SignedRange DEF Signed
    <2>4. BootError(w)' = BootError(w)
        BY <1>2 DEF BootError
    <2>5. Magnitude(Signed(Drift(w))') <= Magnitude(Signed(Drift(w)))
        BY <2>1, <2>2, <2>3 DEF Magnitude
    <2>6. Magnitude(Signed(Drift(w))') + Magnitude(Slipping(w)')
              <= BootError(w) + slips[w]
        BY <1>1, <1>4, <1>9, <2>1, <2>3, <2>5, WheelInts DEF Tracked, Magnitude
    <2> QED
        BY <1>2, <1>9, <2>4, <2>6 DEF Tracked
<1> QED
    BY <1>5, <1>6, <1>7, <1>9 DEF WheelInv

-----------------------------------------------------------------------------
(* The invariant, step by step *)

\* The initial counts are zero, and so is everything made of them.
LEMMA InitIInv == Init => IInv
<1> SUFFICES ASSUME Init
             PROVE  IInv
    OBVIOUS
<1>1. TypeOK
    BY Bounds DEF Init, TypeOK, Wheels
<1>2. PlaceInv
    BY DEF Init, PlaceInv, Wheels
<1>3. ASSUME NEW w \in Wheels
      PROVE  WheelInv(w)
    <2>1. Unmoved(w) /\ Pending(w) = 0 /\ Slipping(w) = 0 /\ slips[w] = 0
        BY <1>3 DEF Init, Unmoved, Pending, Slipping, InWindow, Wheels
    <2>2. Signed(tick_total[w] - last[w]) = 0
        <3>1. tick_total[w] - last[w] = 0
            BY <2>1 DEF Unmoved
        <3> QED
            BY <3>1, SignedUnique, CongruentRefl, Bounds
    <2> QED
        BY <2>1, <2>2, Bounds DEF WheelInv, Bounded, Unmoved, Magnitude
<1> QED
    BY <1>1, <1>2, <1>3 DEF IInv

LEMMA EdgeStep ==
    ASSUME IInv, NEW w \in Wheels, NEW d \in {-1, 1}, Edge(w, d)
    PROVE  IInv'
<1>1. TypeOK /\ PlaceInv /\ WheelInv(w) /\ WheelType(w)
    BY WheelTyped DEF IInv
<1>2. WheelInv(w)'
    BY <1>1, EdgeWheel
<1>3. ASSUME NEW v \in Wheels, v # w
      PROVE  WheelInv(v)'
    <2>1. WheelInv(v) /\ (InWindow(v)' <=> InWindow(v))
        BY DEF IInv, Edge, control_vars, InWindow
    <2>2. /\ count'[v] = count[v] /\ prev_state'[v] = prev_state[v]
          /\ wheel'[v] = wheel[v] /\ slips'[v] = slips[v]
          /\ UNCHANGED <<snapshot, tick_total, last, origin, reported, owed>>
        BY <1>1, <1>3 DEF Edge, UpdateQuadrature, TypeOK, control_vars,
                telemetry_vars
    <2> QED
        BY <2>1, <2>2, SameWheel
<1>4. PlaceInv'
    BY <1>1 DEF PlaceInv, Edge, control_vars
<1>5. TypeOK'
    <2> DEFINE q == QuadTable(prev_state[w], Pins(origin[w] + wheel'[w]))
    <2>1. /\ wheel' = [wheel EXCEPT ![w] = (@ + d) % TotalMod]
          /\ wheel'[w] = (wheel[w] + d) % TotalMod
          /\ count' = [count EXCEPT ![w] = @ + q]
          /\ prev_state' = [prev_state EXCEPT
                                ![w] = Pins(origin[w] + wheel'[w])]
          /\ slips' = [slips EXCEPT ![w] = IF InWindow(w) THEN @ + 1 ELSE @]
          /\ InWindow(w) => slips[w] < MaxSlips
          /\ UNCHANGED <<pc, snapshot, tick_total, turn, last, origin,
                         reported, owed>>
        BY <1>1 DEF Edge, UpdateQuadrature, TypeOK, control_vars,
                telemetry_vars
    <2>2. wheel[w] + d \in Int
        BY <1>1 DEF WheelType
    <2>3. wheel'[w] \in 0..(TotalMod - 1)
        BY <2>1, <2>2, Remainder
    <2>4. Pins(origin[w] + wheel'[w]) \in 0..3
        BY <1>1, <2>3, PinsType, Bounds DEF WheelType
    <2>5. q \in {-1, 0, 1}
        BY <1>1, <2>4, QuadTableType DEF WheelType
    <2>6. count[w] + q \in -Ahead..Ahead
        <3>1. Magnitude(count[w] + d) + Magnitude(Unreported(w) - count[w])
                  <= Ahead
            BY DEF Edge
        <3>2. Unreported(w) - count[w] = Pending(w)
            BY <1>1 DEF Unreported, Pending, WheelInv, WheelType
        <3>3. CASE Tracked(w)
            <4>1. q = d
                <5>1. origin[w] + wheel[w] \in Int
                    BY <1>1 DEF WheelType
                <5>2. Pins(origin[w] + wheel'[w])
                          = Pins((origin[w] + wheel[w]) + d)
                    BY <1>1, <2>1, <2>2, EdgePins
                <5> QED
                    BY <3>3, <5>1, <5>2, Decode DEF Tracked
            <4> QED
                BY <1>1, <3>1, <3>2, <4>1, WheelInts, Bounds
                   DEF Magnitude, WheelType
        <3>4. CASE Unmoved(w)
            BY <1>1, <2>5, <3>1, <3>2, <3>4, WheelInts, Bounds
               DEF Unmoved, Magnitude
        <3> QED
            BY <1>1, <3>3, <3>4 DEF WheelInv
    <2>7. slips' \in [Wheels -> 0..MaxSlips]
        BY <1>1, <2>1, Bounds DEF TypeOK
    <2> HIDE DEF q
    <2>8. count' \in [Wheels -> -Ahead..Ahead]
        BY <1>1, <2>1, <2>6 DEF TypeOK
    <2>9. wheel' \in [Wheels -> 0..(TotalMod - 1)]
        <3> DEFINE x == (wheel[w] + d) % TotalMod
        <3>1. wheel' = [wheel EXCEPT ![w] = x] /\ x \in 0..(TotalMod - 1)
            BY <2>1, <2>3
        <3> HIDE DEF x
        <3> QED
            BY <1>1, <3>1 DEF TypeOK
    <2>10. prev_state' \in [Wheels -> 0..3]
        BY <1>1, <2>1, <2>4 DEF TypeOK
    <2> QED
        BY <1>1, <2>1, <2>7, <2>8, <2>9, <2>10 DEF TypeOK
<1> QED
    BY <1>2, <1>3, <1>4, <1>5 DEF IInv

\* The wheels, one by one
LEMMA SnapshotStep ==
    ASSUME IInv, NEW w \in Wheels, NEW from, NEW to, Snapshot(w, from, to),
           \/ w = "left" /\ from = "idle" /\ to = "left_read"
           \/ w = "right" /\ from = "left_read" /\ to = "read"
    PROVE  IInv'
<1>1. TypeOK /\ PlaceInv /\ pc = from /\ pc' = to
      /\ \A v \in Wheels : WheelInv(v)
    BY DEF IInv, Snapshot
<1>2. /\ snapshot' = [snapshot EXCEPT ![w] = count[w]]
      /\ UNCHANGED <<count, prev_state, tick_total, turn, last, wheel, origin,
                     reported, owed, slips>>
    BY DEF Snapshot, telemetry_vars
<1>3. snapshot[w] = 0 /\ ~InWindow(w) /\ InWindow(w)'
    BY <1>1 DEF PlaceInv, InWindow, Wheels
<1>4. snapshot'[w] = count[w]
    BY <1>1, <1>2 DEF TypeOK
<1>5. WheelInv(w)'
    BY <1>1, <1>2, <1>3, <1>4, SnapshotWheel
<1>6. ASSUME NEW v \in Wheels, v # w
      PROVE  WheelInv(v)'
    <2>1. InWindow(v)' <=> InWindow(v)
        BY <1>1, <1>6 DEF InWindow, Wheels
    <2>2. snapshot'[v] = snapshot[v]
        BY <1>1, <1>2, <1>6 DEF TypeOK
    <2> QED
        BY <1>1, <1>2, <2>1, <2>2, SameWheel
<1>7. PlaceInv'
    BY <1>1, <1>2 DEF PlaceInv, TypeOK, Wheels
<1>8. TypeOK'
    BY <1>1, <1>2 DEF TypeOK
<1> QED
    BY <1>5, <1>6, <1>7, <1>8 DEF IInv

LEMMA ClearStep ==
    ASSUME IInv, NEW w \in Wheels, NEW from, NEW to, Clear(w, from, to),
           \/ w = "left" /\ from = "read" /\ to = "left_cleared"
           \/ w = "right" /\ from = "left_cleared" /\ to = "cleared"
    PROVE  IInv'
<1>1. TypeOK /\ PlaceInv /\ pc = from /\ pc' = to
      /\ \A v \in Wheels : WheelInv(v)
    BY DEF IInv, Clear
<1>2. /\ count' = [count EXCEPT ![w] = 0]
      /\ UNCHANGED <<prev_state, snapshot, tick_total, turn, last, wheel,
                     origin, reported, owed, slips>>
    BY DEF Clear, telemetry_vars
<1>3. InWindow(w) /\ ~InWindow(w)'
    BY <1>1 DEF InWindow, Wheels
<1>4. count'[w] = 0
    BY <1>1, <1>2 DEF TypeOK
<1>5. WheelInv(w)'
    BY <1>1, <1>2, <1>3, <1>4, ClearWheel
<1>6. ASSUME NEW v \in Wheels, v # w
      PROVE  WheelInv(v)'
    <2>1. InWindow(v)' <=> InWindow(v)
        BY <1>1, <1>6 DEF InWindow, Wheels
    <2>2. count'[v] = count[v]
        BY <1>1, <1>2, <1>6 DEF TypeOK
    <2> QED
        BY <1>1, <1>2, <2>1, <2>2, SameWheel
<1>7. PlaceInv'
    BY <1>1, <1>2 DEF PlaceInv
<1>8. TypeOK'
    BY <1>1, <1>2, Bounds DEF TypeOK
<1> QED
    BY <1>5, <1>6, <1>7, <1>8 DEF IInv

LEMMA AccumulateStep ==
    ASSUME IInv, Accumulate
    PROVE  IInv'
<1>1. TypeOK /\ pc = "cleared" /\ \A v \in Wheels : WheelInv(v)
    BY DEF IInv, Accumulate
<1>2. ASSUME NEW w \in Wheels
      PROVE  WheelInv(w)'
    BY <1>1, AccumulateWheel
<1>3. PlaceInv'
    BY DEF PlaceInv, Accumulate
<1>4. TypeOK'
    <2>1. ASSUME NEW w \in Wheels
          PROVE  /\ (tick_total[w] + snapshot[w]) % TotalMod
                        \in 0..(TotalMod - 1)
                 /\ owed[w] + snapshot[w] \in Int
        <3>1. WheelType(w)
            BY <1>1, WheelTyped
        <3> DEFINE x == tick_total[w] + snapshot[w]
        <3>2. x \in Int /\ owed[w] + snapshot[w] \in Int
            BY <3>1 DEF WheelType
        <3> HIDE DEF x
        <3>3. x % TotalMod \in 0..(TotalMod - 1)
            BY <3>2, Remainder
        <3> QED
            BY <3>2, <3>3 DEF x
    <2>2. tick_total' \in [Wheels -> 0..(TotalMod - 1)]
        BY <2>1, Zenon DEF Accumulate
    <2>3. owed' \in [Wheels -> Int]
        BY <2>1, Zenon DEF Accumulate
    <2>4. snapshot' \in [Wheels -> -Ahead..Ahead]
        BY Bounds DEF Accumulate
    <2> QED
        BY <1>1, <2>2, <2>3, <2>4 DEF TypeOK, Accumulate, telemetry_vars
<1> QED
    BY <1>2, <1>3, <1>4 DEF IInv

LEMMA PublishStep ==
    ASSUME IInv, NEW w \in Wheels, Publish(w)
    PROVE  IInv'
<1>1. TypeOK /\ PlaceInv /\ pc = "idle" /\ \A v \in Wheels : WheelInv(v)
    BY DEF IInv, Publish
<1>2. /\ reported' = [reported EXCEPT
                        ![w] = (@ + tick_total[w] - last[w]) % TotalMod]
      /\ last' = [last EXCEPT ![w] = tick_total[w]]
      /\ owed' = [owed EXCEPT ![w] = 0]
      /\ UNCHANGED <<count, prev_state, pc, snapshot, tick_total, wheel,
                     origin, slips>>
    BY DEF Publish, control_vars
<1>3. WheelInv(w)'
    BY <1>1, PublishWheel DEF PlaceInv
<1>4. ASSUME NEW v \in Wheels, v # w
      PROVE  WheelInv(v)'
    <2>1. InWindow(v)' <=> InWindow(v)
        BY <1>2 DEF InWindow
    <2>2. /\ reported'[v] = reported[v] /\ last'[v] = last[v]
          /\ owed'[v] = owed[v]
        BY <1>1, <1>2, <1>4 DEF TypeOK
    <2> QED
        BY <1>1, <1>2, <2>1, <2>2, SameWheel
<1>5. PlaceInv'
    BY <1>1, <1>2 DEF PlaceInv
<1>6. TypeOK'
    <2> DEFINE x == reported[w] + tick_total[w] - last[w]
               r == x % TotalMod
    <2>1. x \in Int
        BY <1>1, WheelTyped DEF WheelType
    <2>2. r \in 0..(TotalMod - 1)
        <3> HIDE DEF x
        <3> QED
            BY <2>1, Remainder
    <2>3. reported' = [reported EXCEPT ![w] = r]
        BY <1>1, <1>2 DEF TypeOK
    <2> HIDE DEF r
    <2>4. reported' \in [Wheels -> 0..(TotalMod - 1)]
        BY <1>1, <2>2, <2>3 DEF TypeOK
    <2>5. turn' \in Wheels
        <3>1. \E v \in Wheels : v # w
            BY DEF Wheels
        <3>2. turn' = CHOOSE v \in Wheels : v # w
            BY DEF Publish
        <3> QED
            BY <3>1, <3>2
    <2>6. last' \in [Wheels -> 0..(TotalMod - 1)] /\ owed' \in [Wheels -> Int]
        BY <1>1, <1>2 DEF TypeOK
    <2> QED
        BY <1>1, <1>2, <2>4, <2>5, <2>6 DEF TypeOK
<1> QED
    BY <1>3, <1>4, <1>5, <1>6 DEF IInv

LEMMA StutterStep ==
    ASSUME IInv, UNCHANGED vars
    PROVE  IInv'
<1>1. TypeOK' /\ PlaceInv'
    BY DEF IInv, TypeOK, PlaceInv, vars, control_vars, telemetry_vars
<1>2. ASSUME NEW w \in Wheels
      PROVE  WheelInv(w)'
    <2>1. WheelInv(w) /\ (InWindow(w)' <=> InWindow(w))
        BY DEF IInv, vars, control_vars, InWindow
    <2> QED
        BY <2>1, SameWheel DEF vars, control_vars, telemetry_vars
<1> QED
    BY <1>1, <1>2 DEF IInv

LEMMA NextIInv == IInv /\ [Next]_vars => IInv'
<1> SUFFICES ASSUME IInv, [Next]_vars
             PROVE  IInv'
    OBVIOUS
<1>1. ASSUME NEW w \in Wheels, NEW d \in {-1, 1}, Edge(w, d)
      PROVE  IInv'
    BY <1>1, EdgeStep
<1>2. CASE Snapshot("left", "idle", "left_read")
    BY <1>2, SnapshotStep DEF Wheels
<1>3. CASE Snapshot("right", "left_read", "read")
    BY <1>3, SnapshotStep DEF Wheels
<1>4. CASE Clear("left", "read", "left_cleared")
    BY <1>4, ClearStep DEF Wheels
<1>5. CASE Clear("right", "left_cleared", "cleared")
    BY <1>5, ClearStep DEF Wheels
<1>6. CASE Accumulate
    BY <1>6, AccumulateStep
<1>7. ASSUME NEW w \in Wheels, Publish(w)
      PROVE  IInv'
    BY <1>7, PublishStep
<1>8. CASE UNCHANGED vars
    BY <1>8, StutterStep
<1> QED
    BY <1>1, <1>2, <1>3, <1>4, <1>5, <1>6, <1>7, <1>8
       DEF Next, Turn, EncoderUpdate, Telemetry

-----------------------------------------------------------------------------
(* The theorems *)

\* The inductive invariant holds in every reachable state.
THEOREM Invariance == Spec => []IInv
<1>1. IInv /\ [Next]_vars => IInv'
    BY NextIInv
<1> QED
    BY <1>1, InitIInv, PTL DEF Spec

\* The counters, the copies of encoder_update, the totals and what is sent keep
\* their types, and no count outgrows its bound (encoder.cpp:6-7, 58-67).
THEOREM TypeCorrect == Spec => []TypeOK
<1>1. IInv => TypeOK
    BY DEF IInv
<1> QED
    BY <1>1, Invariance, PTL

\* Whatever the width of the totals, the difference of two readings is the
\* motion collected in between, also when the total has wrapped
\* (json_cmd.cpp:513-517).
THEOREM DifferencesAreMotion == Spec => []DeltaIsMotion
<1>1. IInv => DeltaIsMotion
    BY DEF IInv, WheelInv, DeltaIsMotion
<1> QED
    BY <1>1, Invariance, PTL

\* Whatever the interrupt preempts, the packets report the true motion up to
\* the first edge and the edges lost in encoder_update (encoder.cpp:58-61).
THEOREM Odometry == Spec => []OdometryBounded
<1>1. ASSUME IInv
      PROVE  OdometryBounded
    <2>1. ASSUME NEW w \in Wheels
          PROVE  Magnitude(Signed(reported[w] + Unreported(w) - wheel[w]))
                     <= BootError(w) + slips[w]
        <3>1. WheelInv(w) /\ WheelType(w)
            BY <1>1, WheelTyped DEF IInv
        <3>2. reported[w] + Unreported(w) - wheel[w] = Drift(w)
            BY <3>1, WheelInts
               DEF WheelInv, WheelType, Unreported, Pending, Drift
        <3>3. CASE Tracked(w)
            BY <3>1, <3>2, <3>3, WheelInts DEF Tracked, Magnitude
        <3>4. CASE Unmoved(w)
            <4>1. Drift(w) = 0
                BY <3>4 DEF Unmoved, Pending, Drift
            <4>2. Signed(Drift(w)) = 0
                BY <4>1, SignedUnique, CongruentRefl, Bounds
            <4> QED
                BY <3>1, <3>2, <4>2, WheelInts DEF WheelType, Magnitude
        <3> QED
            BY <3>1, <3>3, <3>4 DEF WheelInv
    <2> QED
        BY <2>1 DEF OdometryBounded
<1>2. IInv => OdometryBounded
    BY <1>1
<1> QED
    BY <1>2, Invariance, PTL
=============================================================================
