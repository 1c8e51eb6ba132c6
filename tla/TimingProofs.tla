----------------------------- MODULE TimingProofs ----------------------------
(***************************************************************************)
(* When things happen: the grid of a track, the sequencer's clock and the    *)
(* one recovered from a master.  For any resolution, length, speed, swing    *)
(* and micro timing every position fires once a loop; for any tempos,        *)
(* patterns, tracks and sizes of block and buffer a loop played undisturbed   *)
(* fires each of its steps exactly once, the accumulator never drifts, and a *)
(* playhead is on the position of the last tick through every edit, seek and *)
(* change of tempo, and where the tick counter wraps.  For any masters,      *)
(* intervals and timeout the period recovered is exactly the master's,       *)
(* through every byte lost, doubled or received while silence is counted.    *)
(***************************************************************************)
EXTENDS Sequencer, TempoSync, TrackGrid, FiniteSetTheorems, TLAPS

-----------------------------------------------------------------------------
(* Quotient and remainder. *)

LEMMA DivMod ==
  ASSUME NEW a \in Int, NEW b \in Int, b > 0
  PROVE  /\ a \div b \in Int /\ a % b \in 0 .. b - 1
         /\ a = b * (a \div b) + (a % b)
<1>1. a \div b \in Int /\ a % b \in 0 .. b - 1
  OBVIOUS
<1>2. a % b = a - b * (a \div b)
  OBVIOUS
<1> QED
  BY <1>1, <1>2

LEMMA MulStep ==
  ASSUME NEW b \in Int, b > 0, NEW x \in Int, NEW y \in Int, x < y
  PROVE  b * x + b <= b * y
<1>1. b * (y - x) >= b
  OBVIOUS
<1>2. b * (y - x) = b * y - b * x
  OBVIOUS
<1> QED
  BY <1>1, <1>2

LEMMA DivModUnique ==
  ASSUME NEW b \in Int, b > 0, NEW q \in Int, NEW r \in 0 .. b - 1
  PROVE  (b * q + r) \div b = q /\ (b * q + r) % b = r
<1> DEFINE a == b * q + r
<1>1. a \in Int /\ b * q \in Int
  OBVIOUS
<1>2. a \div b \in Int /\ a % b \in 0 .. b - 1 /\ a = b * (a \div b) + (a % b)
  BY <1>1, DivMod
<1>3. ~(a \div b < q)
  BY <1>1, <1>2, MulStep
<1>4. ~(q < a \div b)
  BY <1>1, <1>2, MulStep
<1>5. a \div b = q
  BY <1>2, <1>3, <1>4
<1> QED
  BY <1>1, <1>2, <1>5

(* The tick before one that is not on a boundary is in the same interval.    *)
LEMMA Previous ==
  ASSUME NEW b \in Int, b > 0, NEW a \in Int, a % b # 0
  PROVE  (a - 1) % b = (a % b) - 1 /\ (a - 1) \div b = a \div b
<1> DEFINE q == a \div b
           r == a % b
<1>1. q \in Int /\ r \in 1 .. b - 1 /\ a = b * q + r
  BY DivMod
<1> HIDE DEF q, r
<1>2. r - 1 \in 0 .. b - 1 /\ a - 1 = b * q + (r - 1)
  BY <1>1
<1>3. (b * q + (r - 1)) \div b = q /\ (b * q + (r - 1)) % b = r - 1
  BY <1>1, <1>2, DivModUnique
<1> QED
  BY <1>2, <1>3 DEF q, r

(* The tick before a boundary is the last of its interval. *)
LEMMA LastOf ==
  ASSUME NEW b \in Int, b > 0, NEW a \in Int, a % b = 0
  PROVE  (a - 1) % b = b - 1
<1> DEFINE q == a \div b
<1>1. q \in Int /\ a = b * q + 0
  BY DivMod
<1> HIDE DEF q
<1>2. a - 1 = b * (q - 1) + (b - 1)
  BY <1>1
<1>3. (b * (q - 1) + (b - 1)) % b = b - 1
  BY <1>1, DivModUnique
<1> QED
  BY <1>2, <1>3

LEMMA ZeroMod ==
  ASSUME NEW b \in Int, b > 0
  PROVE  0 % b = 0
<1>1. (b * 0 + 0) % b = 0
  BY DivModUnique
<1> QED
  BY <1>1

(* The remainder of what is at most one loop off. *)
LEMMA OneOff ==
  ASSUME NEW c \in Int, c > 0, NEW a \in -1 .. c
  PROVE  a % c = IF a = -1 THEN c - 1 ELSE IF a = c THEN 0 ELSE a
<1>1. CASE a = -1
  <2>1. (c * (-1) + (c - 1)) % c = c - 1
    BY DivModUnique
  <2> QED
    BY <1>1, <2>1
<1>2. CASE a = c
  <2>1. (c * 1 + 0) % c = 0
    BY DivModUnique
  <2> QED
    BY <1>2, <2>1
<1>3. CASE a \in 0 .. c - 1
  <2>1. (c * 0 + a) % c = a
    BY <1>3, DivModUnique
  <2> QED
    BY <1>3, <2>1
<1> QED
  BY <1>1, <1>2, <1>3

-----------------------------------------------------------------------------
(* Where a displaced step falls, and that the scan looks there. *)

(* A position displaced by less than a step forward of its neighbour fires   *)
(* within one position of its own, the cycle taken around.                   *)
LEMMA FiresNearby ==
  ASSUME NEW t \in Int, t > 0, NEW c \in Int, c > 0, NEW p \in 0 .. c - 1,
         NEW x \in Int, -t < x, x < 2 * t
  PROVE  LET l == (p * t + x) % (c * t)
         IN /\ l \in 0 .. c * t - 1
            /\ l \div t \in 0 .. c - 1
            /\ \E d \in {-1, 0, 1} : p = (l \div t + d) % c
<1> DEFINE y == x \div t
           z == x % t
           w == (p + y) % c
           q == (p + y) \div c
           l == (p * t + x) % (c * t)
<1>1. y \in Int /\ z \in 0 .. t - 1 /\ x = t * y + z
  BY DivMod
<1>2. y \in {-1, 0, 1}
  <2>1. ~(y < -1)
    BY <1>1, MulStep
  <2>2. ~(1 < y)
    BY <1>1, MulStep
  <2> QED
    BY <1>1, <2>1, <2>2
<1>3. q \in Int /\ w \in 0 .. c - 1 /\ p + y = c * q + w
  BY <1>1, DivMod
<1> HIDE DEF y, z, w, q
<1>4. c * t \in Int /\ c * t > 0
  OBVIOUS
<1>5. p * t + x = (c * t) * q + (t * w + z)
  <2>1. p * t + x = t * (p + y) + z
    BY <1>1
  <2>2. t * (c * q + w) = (c * t) * q + t * w
    BY <1>3
  <2> QED
    BY <1>1, <1>3, <2>1, <2>2
<1>6. t * w + z \in 0 .. c * t - 1
  <2>1. t * w + t <= t * c
    BY <1>3, MulStep
  <2>2. t * w >= 0 /\ t * w \in Int
    BY <1>3
  <2> QED
    BY <1>1, <2>1, <2>2
<1>7. l = t * w + z
  BY <1>3, <1>4, <1>5, <1>6, DivModUnique
<1>8. l \div t = w
  BY <1>1, <1>3, <1>7, DivModUnique
<1>9. p = (w - y) % c
  <2>1. p + y \in -1 .. c
    BY <1>2
  <2>2. w = IF p + y = -1 THEN c - 1 ELSE IF p + y = c THEN 0 ELSE p + y
    BY <2>1, OneOff DEF w
  <2>3. w - y \in -1 .. c
    BY <1>2, <2>2
  <2> QED
    BY <1>2, <2>2, <2>3, OneOff
<1>10. -y \in {-1, 0, 1} /\ w - y = w + (-y)
  BY <1>2, <1>3
<1> QED
  BY <1>3, <1>6, <1>7, <1>8, <1>9, <1>10

(* The scan looks at a position within one of the nominal one exactly once.  *)
LEMMA SeenOnce ==
  ASSUME NEW c \in Int, c > 0, NEW n \in 0 .. c - 1, NEW p \in 0 .. c - 1,
         NEW d \in {-1, 0, 1}, p = (n + d) % c
  PROVE  \E k \in DOMAIN Window(n, c) :
           /\ Window(n, c)[k] = p
           /\ \A j \in DOMAIN Window(n, c) : Window(n, c)[j] = p => j = k
<1>1. \A e \in {-1, 0, 1} : (n + e) % c = IF n + e = -1 THEN c - 1 ELSE IF n + e = c THEN 0 ELSE n + e
  BY OneOff
<1>2. DOMAIN Window(n, c) = 1 .. Least(3, c)
  BY DEF Window
<1>3. \A k \in 1 .. Least(3, c) : k - 2 \in {-1, 0, 1} /\ Window(n, c)[k] = (n + (k - 2)) % c
  BY DEF Window, Least
<1>4. CASE c >= 3
  <2>1. d + 2 \in 1 .. Least(3, c)
    BY <1>4 DEF Least
  <2>2. Window(n, c)[d + 2] = p
    BY <1>1, <1>3, <2>1
  <2>3. \A j \in 1 .. Least(3, c) : Window(n, c)[j] = p => j = d + 2
    BY <1>1, <1>3, <1>4
  <2> QED
    BY <1>2, <2>1, <2>2, <2>3
<1>5. CASE c = 2
  <2>1. Least(3, c) = 2
    BY <1>5 DEF Least
  <2>2. Window(n, c)[1] = 1 - n /\ Window(n, c)[2] = n
    BY <1>1, <1>3, <1>5, <2>1
  <2>3. PICK k \in {1, 2} : Window(n, c)[k] = p
    BY <1>5, <2>2
  <2> QED
    BY <1>2, <1>5, <2>1, <2>2, <2>3
<1>6. CASE c = 1
  <2>1. Least(3, c) = 1 /\ p = 0
    BY <1>6 DEF Least
  <2>2. Window(n, c)[1] = 0
    BY <1>1, <1>3, <1>6, <2>1
  <2> QED
    BY <1>2, <2>1, <2>2
<1> QED
  BY <1>4, <1>5, <1>6

(* What micro timing and swing add up to is less than a step early and less  *)
(* than two late.                                                            *)
LEMMA Displacement ==
  ASSUME NEW t \in Nat \ {0}, NEW m \in Int, NEW a \in Int, NEW p \in Int
  PROVE  /\ MicroTicks(m, t) \in Int /\ SwingTicks(a, p, t) \in Int
         /\ -t < MicroTicks(m, t) + SwingTicks(a, p, t)
         /\ MicroTicks(m, t) + SwingTicks(a, p, t) < 2 * t
<1>1. MicroTicks(m, t) \in -(t - 1) .. t - 1
  BY DEF MicroTicks, Clamp
<1>2. SwingTicks(a, p, t) \in 0 .. t
  <2> DEFINE s == Clamp(a, 0, SwingRange)
  <2>1. s \in 0 .. 100
    BY StepGridAssumption DEF Clamp
  <2>2. s * t \in 0 .. 100 * t
    BY <2>1
  <2> HIDE DEF s
  <2>3. (s * t) \div 100 \in 0 .. t
    BY <2>2
  <2> QED
    BY <2>3 DEF SwingTicks, s
<1> QED
  BY <1>1, <1>2

(* A position is looked at once on the tick it fires on. *)
LEMMA ScannedOnce ==
  ASSUME NEW t \in Nat \ {0}, NEW c \in Nat \ {0}, NEW p \in 0 .. c - 1,
         NEW m \in Int, NEW a \in Int
  PROVE  LET l == FireTick(t, c, p, m, a)
             W == Window(l \div t, c)
         IN /\ l \in 0 .. c * t - 1
            /\ \E k \in 1 .. 3 : /\ k \in DOMAIN W /\ W[k] = p
                                /\ \A j \in DOMAIN W : W[j] = p => j = k
<1> DEFINE x == MicroTicks(m, t) + SwingTicks(a, p, t)
           l == FireTick(t, c, p, m, a)
           W == Window(l \div t, c)
<1>1. /\ MicroTicks(m, t) \in Int /\ SwingTicks(a, p, t) \in Int
      /\ x \in Int /\ -t < x /\ x < 2 * t
  <2>1. p \in Int
    OBVIOUS
  <2>2. /\ MicroTicks(m, t) \in Int /\ SwingTicks(a, p, t) \in Int
        /\ -t < x /\ x < 2 * t
    BY <2>1, Displacement
  <2> QED
    BY <2>2
<1>2. l = (p * t + x) % (c * t)
  <2>1. p * t + x = p * t + MicroTicks(m, t) + SwingTicks(a, p, t)
    BY <1>1
  <2> QED
    BY <2>1 DEF FireTick, l
<1> HIDE DEF x, l
<1>3. /\ l \in 0 .. c * t - 1 /\ l \div t \in 0 .. c - 1
      /\ \E d \in {-1, 0, 1} : p = (l \div t + d) % c
  BY <1>1, <1>2, FiresNearby
<1>4. PICK k \in DOMAIN W : W[k] = p /\ \A j \in DOMAIN W : W[j] = p => j = k
  <2>1. PICK d \in {-1, 0, 1} : p = (l \div t + d) % c
    BY <1>3
  <2>2. c \in Int /\ c > 0
    OBVIOUS
  <2> QED
    BY <1>3, <2>1, <2>2, SeenOnce
<1>5. k \in 1 .. 3
  BY <1>3, <1>4 DEF Window, Least
<1> QED
  BY <1>3, <1>4, <1>5 DEF l

LEMMA CycleShape ==
  ASSUME NEW tr, tr.length \in Nat, tr.length > 0
  PROVE  /\ CycleOf(tr) \in Nat \ {0}
         /\ \A p \in 0 .. CycleOf(tr) - 1 : StepForPosition(tr, p) \in 0 .. tr.length - 1
<1> DEFINE len == tr.length
           c == CycleOf(tr)
<1>1. c = (IF tr.direction = "PingPong" /\ len > 2 THEN 2 * len - 2 ELSE len)
  BY DEF CycleOf
<1>2. len \in Nat \ {0}
  OBVIOUS
<1> HIDE DEF len, c
<1>3. c \in Nat \ {0}
  BY <1>1, <1>2
<1>4. ASSUME NEW p \in 0 .. c - 1 PROVE StepForPosition(tr, p) \in 0 .. len - 1
  <2>1. p % len \in 0 .. len - 1 /\ p % c = p
    BY <1>2, <1>3, DivMod, OneOff
  <2> QED
    BY <1>1, <1>2, <2>1 DEF StepForPosition, c, len
<1> QED
  BY <1>3, <1>4 DEF c, len

-----------------------------------------------------------------------------
(* A track as the edits leave it: nothing but the types of its fields.       *)

StepRecord == [active : BOOLEAN, micro : Int, chance : BOOLEAN, ratchet : Nat]

StepsOf(n) == [0 .. n - 1 -> StepRecord]

AnySteps == UNION {StepsOf(n) : n \in Nat}

GridTyped ==
  /\ track \in [steps : AnySteps,
                length : Nat \ {0}, swing : Int, speed : Int, direction : Directions,
                muted : BOOLEAN]
  /\ track.steps \in StepsOf(track.length)
  /\ TicksOf(track) \in Nat \ {0}

LEMMA TicksOfSpeed ==
  ASSUME NEW tr, NEW sp \in Speeds \cup {0}, tr.speed = sp
  PROVE  TicksOf(tr) \in Nat \ {0}
<1>1. TicksOf(tr) = TicksOf([speed |-> sp])
  BY DEF TicksOf
<1> QED
  BY <1>1, TrackGridAssumption

LEMMA SameMicroTyped ==
  ASSUME NEW len \in Nat, NEW m \in Int
  PROVE  SameMicro(len, m) \in StepsOf(len) /\ SameMicro(len, m) \in AnySteps
<1>1. SameMicro(len, m) \in StepsOf(len)
  BY DEF SameMicro, StepsOf, StepRecord
<1> QED
  BY <1>1 DEF AnySteps

LEMMA GridStart == GridInit => GridTyped
<1> SUFFICES ASSUME GridInit PROVE GridTyped
  OBVIOUS
<1>1. PICK len \in Lengths :
        track = [steps |-> SameMicro(len, 0), length |-> len, swing |-> 0, speed |-> 0,
                 direction |-> "Forward", muted |-> FALSE]
  BY DEF GridInit
<1>2. len \in Nat \ {0}
  BY TrackGridAssumption
<1>3. TicksOf(track) \in Nat \ {0}
  BY <1>1, TicksOfSpeed
<1> QED
  BY <1>1, <1>2, <1>3, SameMicroTyped DEF GridTyped, Directions

LEMMA GridStep == GridTyped /\ [GridNext]_gridVars => GridTyped'
<1> SUFFICES ASSUME GridTyped, [GridNext]_gridVars PROVE GridTyped'
  OBVIOUS
<1>1. ASSUME NEW m \in Micros, SetMicro(m) PROVE GridTyped'
  <2>1. m \in Int
    BY TrackGridAssumption
  <2>2. TicksOf(track)' = TicksOf(track)
    BY <1>1 DEF SetMicro, TicksOf, GridTyped
  <2> QED
    BY <1>1, <2>1, <2>2, SameMicroTyped DEF SetMicro, GridTyped
<1>2. ASSUME NEW s \in Swings, SetSwing(s) PROVE GridTyped'
  <2>1. s \in Int
    BY TrackGridAssumption
  <2>2. TicksOf(track)' = TicksOf(track)
    BY <1>2 DEF SetSwing, TicksOf, GridTyped
  <2> QED
    BY <1>2, <2>1, <2>2 DEF SetSwing, GridTyped
<1>3. ASSUME NEW len \in Lengths, NEW sp \in Speeds, NEW d \in Directions, LoadTrack(len, sp, d)
      PROVE  GridTyped'
  <2>1. len \in Nat \ {0} /\ sp \in Int /\ track.steps[0].micro \in Int
    BY TrackGridAssumption DEF GridTyped, StepsOf, StepRecord
  <2>2. /\ track' = [track EXCEPT !.length = len, !.speed = sp, !.direction = d,
                                  !.steps = SameMicro(len, track.steps[0].micro)]
        /\ track'.speed = sp
    BY <1>3 DEF LoadTrack, GridTyped
  <2>3. TicksOf(track)' \in Nat \ {0}
    BY <2>2, TicksOfSpeed
  <2> QED
    BY <1>3, <2>1, <2>2, <2>3, SameMicroTyped DEF GridTyped
<1>4. CASE UNCHANGED gridVars
  BY <1>4 DEF gridVars, GridTyped, TicksOf
<1> QED
  BY <1>1, <1>2, <1>3, <1>4 DEF GridNext

LEMMA GridAlways == GridSpec => []GridTyped
BY GridStart, GridStep, PTL DEF GridSpec

LEMMA FiresOnce ==
  ASSUME GridTyped, NEW p \in Positions
  PROVE  Cardinality(Firings(p)) = 1
<1> DEFINE t == TicksOf(track)
           c == CycleOf(track)
           m == track.steps[StepForPosition(track, p)].micro
           l == FireTick(t, c, p, m, track.swing)
           W(f) == Window(f \div t, c)
<1>1. track.length \in Nat /\ track.length > 0
  BY DEF GridTyped
<1>2. t \in Nat \ {0} /\ c \in Nat \ {0} /\ p \in 0 .. c - 1
  BY <1>1, CycleShape DEF GridTyped, Positions
<1>3. m \in Int /\ track.swing \in Int
  BY <1>1, CycleShape DEF GridTyped, StepsOf, StepRecord, Positions
<1> HIDE DEF t, c, m
<1>4. /\ l \in 0 .. c * t - 1
      /\ \E k \in 1 .. 3 : /\ k \in DOMAIN W(l) /\ W(l)[k] = p
                          /\ \A j \in DOMAIN W(l) : W(l)[j] = p => j = k
  BY <1>2, <1>3, ScannedOnce
<1> HIDE DEF l
<1>5. PICK k \in 1 .. 3 : /\ k \in DOMAIN W(l) /\ W(l)[k] = p
                         /\ \A j \in DOMAIN W(l) : W(l)[j] = p => j = k
  BY <1>4
<1>6. \A f : Lands(track, p, f) <=> f = l
  BY DEF Lands, l, t, c, m
<1>7. Firings(p) =
        {f \in (0 .. c * t - 1) \X (1 .. 3) : f[2] \in DOMAIN W(f[1]) /\ W(f[1])[f[2]] = p /\ f[1] = l}
  BY <1>6 DEF Firings, LoopTicks, t, c
<1>8. Firings(p) = {<<l, k>>}
  BY <1>4, <1>5, <1>7
<1> QED
  BY <1>8, FS_Singleton

(* Every position of every track fires exactly once in each pass over its    *)
(* loop, whatever its length, speed, direction, micro timing and swing: the  *)
(* scan of three positions neither drops nor doubles a step.                 *)
THEOREM StepsNeverLost == GridSpec => []FiresOncePerLoop
<1>1. GridTyped => FiresOncePerLoop
  BY FiresOnce DEF FiresOncePerLoop
<1> QED
  BY <1>1, GridAlways, PTL

(* The positions of the cycle that play a step, direction by direction.      *)
Visiting(s) ==
  CASE track.direction = "Reverse" -> {track.length - 1 - s}
    [] track.direction = "PingPong" /\ s \notin {0, track.length - 1} -> {s, CycleOf(track) - s}
    [] OTHER -> {s}

LEMMA VisitedBy ==
  ASSUME GridTyped, NEW s \in 0 .. track.length - 1
  PROVE  {p \in Positions : StepForPosition(track, p) = s} = Visiting(s)
<1> DEFINE len == track.length
           c == CycleOf(track)
           dir == track.direction
<1>1. len \in Nat \ {0} /\ dir \in Directions
  BY DEF GridTyped
<1>2. c = (IF dir = "PingPong" /\ len > 2 THEN 2 * len - 2 ELSE len)
  BY DEF CycleOf
<1>3. \A p \in 0 .. c - 1 :
        StepForPosition(track, p) =
          CASE dir = "Reverse" -> len - 1 - p
            [] dir = "PingPong" -> IF p < len THEN p ELSE c - p
            [] OTHER -> p
  <2> SUFFICES ASSUME NEW p \in 0 .. c - 1
               PROVE  StepForPosition(track, p) =
                        CASE dir = "Reverse" -> len - 1 - p
                          [] dir = "PingPong" -> IF p < len THEN p ELSE c - p
                          [] OTHER -> p
    OBVIOUS
  <2>1. p % c = p
    <3> HIDE DEF c, len, dir
    <3>1. c \in Int /\ c > 0
      BY <1>1, <1>2
    <3> QED
      BY <3>1, OneOff
  <2>2. dir # "PingPong" => p % len = p
    BY <1>1, <1>2, <2>1
  <2> QED
    BY <1>1, <2>1, <2>2 DEF StepForPosition, Directions
<1> DEFINE P == {p \in 0 .. c - 1 : StepForPosition(track, p) = s}
<1> SUFFICES P = Visiting(s)
  BY DEF Positions
<1> HIDE DEF len, c, dir
<1>4. s \in 0 .. len - 1
  BY DEF len
<1>5. CASE dir = "Reverse"
  <2>1. P = {len - 1 - s}
    BY <1>1, <1>2, <1>3, <1>4, <1>5
  <2> QED
    BY <1>5, <2>1 DEF Visiting, len, dir
<1>6. CASE dir = "PingPong" /\ s \notin {0, len - 1}
  <2>1. P = {s, c - s}
    BY <1>1, <1>2, <1>3, <1>4, <1>6
  <2> QED
    BY <1>6, <2>1 DEF Visiting, len, dir, c
<1>7. CASE dir # "Reverse" /\ ~(dir = "PingPong" /\ s \notin {0, len - 1})
  <2>1. P = {s}
    BY <1>1, <1>2, <1>3, <1>4, <1>7
  <2> QED
    BY <1>7, <2>1 DEF Visiting, len, dir
<1> QED
  BY <1>5, <1>6, <1>7

(* Over a cycle every step is played: once going forward or backward, and    *)
(* the inner steps twice, the end points once, in ping-pong, for tracks of   *)
(* any length.                                                               *)
THEOREM EveryStepPlays == GridSpec => []CycleCoversSteps
<1>1. ASSUME GridTyped PROVE CycleCoversSteps
  <2> SUFFICES ASSUME NEW s \in 0 .. track.length - 1
               PROVE  StepVisits(s) = IF track.direction = "PingPong" /\ s \notin {0, track.length - 1}
                                      THEN 2 ELSE 1
    BY DEF CycleCoversSteps
  <2>1. StepVisits(s) = Cardinality(Visiting(s))
    BY <1>1, VisitedBy DEF StepVisits
  <2>2. CASE track.direction = "PingPong" /\ s \notin {0, track.length - 1}
    <3> DEFINE y == CycleOf(track) - s
    <3>1. Visiting(s) = {s} \cup {y}
      BY <2>2 DEF Visiting
    <3>2. y \notin {s}
      BY <1>1, <2>2 DEF CycleOf, GridTyped
    <3> HIDE DEF y
    <3>3. IsFiniteSet({s}) /\ Cardinality({s}) = 1
      BY FS_Singleton
    <3>4. Cardinality({s} \cup {y}) = 1 + 1
      BY <3>2, <3>3, FS_AddElement
    <3> QED
      BY <2>1, <2>2, <3>1, <3>4
  <2>3. CASE ~(track.direction = "PingPong" /\ s \notin {0, track.length - 1})
    <3>1. \E x : Visiting(s) = {x}
      BY <2>3 DEF Visiting
    <3> QED
      BY <2>1, <2>3, <3>1, FS_Singleton
  <2> QED
    BY <2>2, <2>3
<1> QED
  BY <1>1, GridAlways, PTL

-----------------------------------------------------------------------------
(* The clock. *)

ClockTyped ==
  /\ tick \in 0 .. TickPeriod - 1
  /\ pos \in Nat /\ pending \in BOOLEAN /\ rate \in Rates
  /\ origin \in Nat /\ elapsed \in Nat /\ steady \in BOOLEAN

(* Ticks that have come due since playback started, but for the first.       *)
Ticks == tick - origin + (IF pending THEN 1 ELSE 0) - 1

Clock == ClockTyped /\ NoDrift

LEMMA RateFacts == \A r \in Rates : r \in Nat /\ r >= One /\ One \in Nat \ {0}
BY SequencerAssumption

LEMMA ClockRestarts ==
  ASSUME NEW tk \in 0 .. TickPeriod - 1, RestartAt(tk), rate \in Rates, rate' = rate
  PROVE  Clock'
<1>1. Ticks' = 0
  BY DEF RestartAt, Ticks
<1>2. 0 * rate = 0 /\ 0 * One = 0 /\ 0 < rate
  BY RateFacts
<1> QED
  BY <1>1, <1>2 DEF RestartAt, Clock, ClockTyped, NoDrift, Ticks

(* A rate the sequencer already has changes nothing, any other starts the    *)
(* count anew at the next Start.                                             *)
LEMMA ClockNewRate ==
  ASSUME Clock, NEW r \in Rates, NewRate(r), UNCHANGED <<tick, pos, pending, origin>>
  PROVE  Clock'
BY DEF NewRate, Clock, ClockTyped, NoDrift

LEMMA ClockAdvances ==
  ASSUME Clock, Advance, UNCHANGED <<rate, origin>>
  PROVE  Clock'
<1> DEFINE wrapped == pending /\ tick + 1 = TickPeriod
           reached == pos + One >= rate
<1>1. /\ tick \in 0 .. TickPeriod - 1 /\ pos \in Nat /\ rate \in Nat /\ rate >= One
      /\ One \in Nat \ {0} /\ origin \in Nat /\ elapsed \in Nat /\ TickPeriod \in Nat \ {0}
  BY RateFacts, SequencerAssumption DEF Clock, ClockTyped
<1>2. /\ pos' = IF reached THEN pos + One - rate ELSE pos + One
      /\ pending' = reached
      /\ tick' = IF pending THEN (tick + 1) % TickPeriod ELSE tick
      /\ steady' = (steady /\ ~wrapped)
      /\ elapsed' = IF steady' THEN elapsed + 1 ELSE 0
      /\ rate' = rate /\ origin' = origin
  BY DEF Advance
<1>3. tick' = IF wrapped THEN 0 ELSE IF pending THEN tick + 1 ELSE tick
  <2>1. CASE wrapped
    <3>1. (TickPeriod * 1 + 0) % TickPeriod = 0
      BY <1>1, DivModUnique
    <3> QED
      BY <1>1, <1>2, <2>1, <3>1
  <2>2. CASE pending /\ ~wrapped
    <3>1. tick + 1 \in 0 .. TickPeriod - 1
      BY <1>1, <2>2
    <3>2. (TickPeriod * 0 + (tick + 1)) % TickPeriod = tick + 1
      BY <1>1, <3>1, DivModUnique
    <3> QED
      BY <1>1, <1>2, <2>2, <3>2
  <2>3. CASE ~pending
    BY <1>2, <2>3
  <2> QED
    BY <2>1, <2>2, <2>3
<1>4. tick' \in 0 .. TickPeriod - 1
  BY <1>1, <1>3
<1>5. ClockTyped'
  <2>1. pos' \in Nat /\ elapsed' \in Nat
    BY <1>1, <1>2
  <2>2. pending' \in BOOLEAN /\ steady' \in BOOLEAN
    BY <1>2
  <2> QED
    BY <1>2, <1>4, <2>1, <2>2 DEF Clock, ClockTyped
<1>6. ASSUME steady' PROVE NoDrift'
  <2>1. /\ steady /\ ~wrapped
        /\ elapsed * One = Ticks * rate + pos /\ pos < rate
    BY <1>2, <1>6 DEF Clock, NoDrift, Ticks
  <2>2. elapsed' = elapsed + 1 /\ elapsed' * One = elapsed * One + One
    BY <1>1, <1>2, <1>6
  <2>3. pos' < rate
    BY <1>1, <1>2, <2>1
  <2>4. Ticks' = Ticks + (IF reached THEN 1 ELSE 0) /\ Ticks \in Int
    <3> DEFINE n == IF reached THEN 1 ELSE 0
    <3>0. Ticks' = tick' - origin' + n - 1 /\ n \in {0, 1}
      <4>1. (IF pending' THEN 1 ELSE 0) = n
        BY <1>2
      <4> QED
        BY <4>1 DEF Ticks
    <3> HIDE DEF n
    <3>1. CASE pending
      <4>1. tick' = tick + 1
        BY <1>3, <2>1, <3>1
      <4>2. Ticks = tick - origin
        BY <1>1, <3>1 DEF Ticks
      <4>3. Ticks' = tick - origin + n
        BY <1>1, <1>2, <3>0, <4>1
      <4> QED
        BY <1>1, <3>0, <4>2, <4>3 DEF n
    <3>2. CASE ~pending
      <4>1. Ticks = tick - origin - 1
        BY <1>1, <3>2 DEF Ticks
      <4>2. Ticks' = tick - origin - 1 + n
        BY <1>1, <1>2, <1>3, <3>0, <3>2
      <4> QED
        BY <1>1, <3>0, <4>1, <4>2 DEF n
    <3> QED
      BY <3>1, <3>2
  <2>5. CASE reached
    <3>1. Ticks' * rate = Ticks * rate + rate
      BY <1>1, <2>4, <2>5
    <3>2. elapsed' * One = Ticks' * rate + pos'
      BY <1>1, <1>2, <2>1, <2>2, <2>4, <2>5, <3>1
    <3> QED
      BY <1>2, <2>3, <3>2 DEF NoDrift, Ticks
  <2>6. CASE ~reached
    <3>1. elapsed' * One = Ticks' * rate + pos'
      BY <1>1, <1>2, <2>1, <2>2, <2>4, <2>6
    <3> QED
      BY <1>2, <2>3, <3>1 DEF NoDrift, Ticks
  <2> QED
    BY <2>5, <2>6
<1>7. ASSUME ~steady' PROVE NoDrift'
  BY <1>7 DEF NoDrift
<1> QED
  BY <1>5, <1>6, <1>7 DEF Clock

(* What a sample does to everything but the events, repeats and counts.      *)
LEMMA SampleMoves ==
  ASSUME Sample
  PROVE  /\ Advance /\ UNCHANGED <<pattern, rate, origin>>
         /\ position' = [t \in Tracks |-> Playhead(t)]
         /\ whole' = [t \in Tracks |-> whole[t] \/ LoopBegins(t)]
BY DEF Sample

LEMMA ClockInit == Init => Clock
<1> SUFFICES ASSUME Init PROVE Clock
  OBVIOUS
<1>1. /\ tick = 0 /\ pos = 0 /\ pending = TRUE /\ rate \in Rates
      /\ origin = 0 /\ elapsed = 0 /\ steady = TRUE
  BY DEF Init
<1>2. TickPeriod \in Nat \ {0} /\ 0 * rate = 0 /\ 0 * One = 0 /\ 0 < rate
  BY <1>1, RateFacts, SequencerAssumption
<1>3. NoDrift
  BY <1>1, <1>2 DEF NoDrift
<1> QED
  BY <1>1, <1>2, <1>3 DEF Clock, ClockTyped

LEMMA ClockStep == Clock /\ [Next]_vars => Clock'
<1> SUFFICES ASSUME Clock, [Next]_vars PROVE Clock'
  OBVIOUS
<1> DEFINE Same == UNCHANGED <<tick, pos, pending, rate, origin, elapsed, steady>>
<1>0. Same => Clock'
  BY DEF Clock, ClockTyped, NoDrift
<1>1. CASE Start
  <2>1. 0 \in 0 .. TickPeriod - 1
    BY SequencerAssumption
  <2> QED
    BY <1>1, <2>1, ClockRestarts DEF Start, Clock, ClockTyped
<1>2. CASE Continue \/ Stop
  BY <1>0, <1>2 DEF Continue, Stop, historyVars
<1>3. ASSUME NEW beats \in 0 .. TickPeriod \div TicksPerStep, Seek(beats)
      PROVE  Clock'
  <2>1. beats * TicksPerStep \in 0 .. TickPeriod - 1
    <3>1. beats \in Nat /\ TicksPerStep \in Nat
      BY SequencerAssumption, StepGridAssumption
    <3> QED
      BY <1>3, <3>1, SequencerAssumption DEF Seek
  <2> QED
    BY <1>3, <2>1, ClockRestarts DEF Seek, Clock, ClockTyped
<1>4. ASSUME NEW r \in Rates, SetRate(r) PROVE Clock'
  BY <1>4, ClockNewRate DEF SetRate
<1>5. ASSUME NEW p \in Patterns, EditPattern(p) PROVE Clock'
  BY <1>0, <1>5 DEF EditPattern
<1>6. ASSUME NEW p \in Patterns, NEW r \in Rates, LoadPattern(p, r) PROVE Clock'
  BY <1>6, ClockNewRate DEF LoadPattern
<1>7. CASE Sample
  BY <1>7, SampleMoves, ClockAdvances
<1>8. CASE EndBlock
  BY <1>0, <1>8 DEF EndBlock, seqVars, historyVars
<1>9. CASE UNCHANGED vars
  BY <1>0, <1>9 DEF vars, seqVars, historyVars
<1> QED
  BY <1>1, <1>2, <1>3, <1>4, <1>5, <1>6, <1>7, <1>8, <1>9 DEF Next

LEMMA ClockAlways == Spec => []Clock
BY ClockInit, ClockStep, PTL DEF Spec

(* While the rate stands, tick k falls on the first sample at or past k tick *)
(* lengths after Start or Seek, for every rate, however little it has to do   *)
(* with the length of a sample: the accumulator never drifts.                *)
THEOREM NeverDrifts == Spec => []NoDrift
<1>1. Clock => NoDrift
  BY DEF Clock
<1> QED
  BY <1>1, ClockAlways, PTL

-----------------------------------------------------------------------------
(* The playheads. *)

Heads ==
  /\ pattern \in Patterns
  /\ position \in [Tracks -> Int] /\ whole \in [Tracks -> BOOLEAN]
  /\ PlayheadOnGrid

(* A track that plays has a step of at least a tick, and the tick counter    *)
(* wraps where one of its loops ends.                                        *)
LEMMA PlayingTrack ==
  ASSUME NEW p \in Patterns, NEW t \in Tracks, Plays(p[t])
  PROVE  /\ TicksOf(p[t]) \in Int /\ TicksOf(p[t]) > 0
         /\ LoopTicks(p[t]) \in Int /\ LoopTicks(p[t]) > 0
         /\ TickPeriod % LoopTicks(p[t]) = 0
<1>1. p[t].length \in Nat /\ TicksOf(p[t]) \in Nat /\ p[t].length > 0
  BY SequencerAssumption DEF Plays
<1>2. CycleOf(p[t]) \in Nat
  BY <1>1 DEF CycleOf
<1>3. LoopTicks(p[t]) \in Int /\ LoopTicks(p[t]) > 0
  BY <1>1, <1>2 DEF Plays, LoopTicks
<1>4. TicksOf(p[t]) # 0
  BY <1>2, <1>3 DEF LoopTicks
<1> QED
  BY <1>1, <1>3, <1>4, SequencerAssumption DEF Plays

(* Where the tick counter is after a tick: the tick before it is the one     *)
(* that was played, around the wrap too.                                     *)
LEMMA TickPlayed ==
  ASSUME ClockTyped, Advance, pending, NEW b \in Int, b > 0, TickPeriod % b = 0
  PROVE  (tick' - 1) % b = tick % b
<1>1. tick \in 0 .. TickPeriod - 1 /\ TickPeriod \in Nat \ {0} /\ tick' = (tick + 1) % TickPeriod
  BY SequencerAssumption DEF ClockTyped, Advance
<1>2. CASE tick + 1 = TickPeriod
  <2>1. (TickPeriod * 1 + 0) % TickPeriod = 0
    BY <1>1, DivModUnique
  <2>2. tick' = 0
    BY <1>1, <1>2, <2>1
  <2>3. (0 - 1) % b = b - 1 /\ (TickPeriod - 1) % b = b - 1
    BY <1>1, ZeroMod, LastOf
  <2> QED
    BY <1>1, <1>2, <2>2, <2>3
<1>3. CASE tick + 1 # TickPeriod
  <2>1. tick + 1 \in 0 .. TickPeriod - 1
    BY <1>1, <1>3
  <2>2. (TickPeriod * 0 + (tick + 1)) % TickPeriod = tick + 1
    BY <1>1, <2>1, DivModUnique
  <2>3. tick' = tick + 1
    BY <1>1, <2>2
  <2> QED
    BY <1>1, <2>3
<1> QED
  BY <1>2, <1>3

LEMMA HeadsInit == Init => Heads
BY DEF Init, Heads, PlayheadOnGrid

(* Nothing is claimed of a track from a Start or a Seek to its next loop, nor *)
(* of one whose steps were edited.                                           *)
LEMMA HeadsRestart ==
  ASSUME Heads, NEW tk, RestartAt(tk), UNCHANGED pattern, position' \in [Tracks -> Int]
  PROVE  Heads'
BY DEF RestartAt, Heads, PlayheadOnGrid

LEMMA HeadsNewPattern ==
  ASSUME Heads, NEW p \in Patterns, NewPattern(p), UNCHANGED <<tick, position>>
  PROVE  Heads'
BY DEF NewPattern, Heads, PlayheadOnGrid, Plays

LEMMA HeadsSample ==
  ASSUME Heads, ClockTyped, Sample
  PROVE  Heads'
<1>1. /\ Advance /\ pattern' = pattern
      /\ position' = [t \in Tracks |-> Playhead(t)]
      /\ whole' = [t \in Tracks |-> whole[t] \/ LoopBegins(t)]
  BY SampleMoves
<1>2. ASSUME NEW t \in Tracks, whole'[t], Plays(pattern[t])
      PROVE  position'[t] = ((tick' - 1) % LoopTicks(pattern[t])) \div TicksOf(pattern[t])
  <2> DEFINE n == TicksOf(pattern[t])
             b == LoopTicks(pattern[t])
             l == tick % b
  <2>1. /\ n \in Int /\ n > 0 /\ b \in Int /\ b > 0 /\ TickPeriod % b = 0 /\ tick \in Int
        /\ position'[t] = Playhead(t) /\ (whole[t] \/ LoopBegins(t))
    BY <1>1, <1>2, PlayingTrack DEF Heads, ClockTyped
  <2>2. whole[t] => position[t] = ((tick - 1) % b) \div n
    BY <1>2 DEF Heads, PlayheadOnGrid
  <2>3. CASE ~pending
    <3>1. whole[t] /\ position'[t] = position[t] /\ tick' = tick
      BY <1>1, <2>1, <2>3 DEF LoopBegins, Playhead, Advance
    <3> QED
      BY <2>2, <3>1
  <2>4. CASE pending
    <3>1. (tick' - 1) % b = l
      BY <1>1, <2>1, <2>4, TickPlayed
    <3>2. l \in Int /\ l = Local(pattern[t]) /\ Nominal(pattern[t]) = l \div n
      BY <2>1, DivMod DEF Local, Nominal
    <3>3. CASE l % n = 0
      BY <1>2, <2>1, <2>4, <3>1, <3>2, <3>3 DEF Playhead
    <3>4. CASE l % n # 0
      <4>1. l # 0
        BY <2>1, <3>4, ZeroMod
      <4>2. position'[t] = position[t] /\ whole[t]
        BY <2>1, <3>2, <3>4, <4>1 DEF Playhead, LoopBegins
      <4>3. (tick - 1) % b = l - 1
        BY <2>1, <4>1, Previous
      <4>4. (l - 1) \div n = l \div n
        BY <2>1, <3>2, <3>4, Previous
      <4> QED
        BY <2>2, <3>1, <4>2, <4>3, <4>4
    <3> QED
      BY <3>3, <3>4
  <2> QED
    BY <2>3, <2>4 DEF ClockTyped
<1>3. ASSUME NEW t \in Tracks PROVE Playhead(t) \in Int
  <2>1. CASE pending /\ Plays(pattern[t])
    <3>1. Nominal(pattern[t]) \in Int
      <4>1. LoopTicks(pattern[t]) \in Int /\ LoopTicks(pattern[t]) > 0 /\ tick \in Int
            /\ TicksOf(pattern[t]) \in Int /\ TicksOf(pattern[t]) > 0
        BY <2>1, PlayingTrack DEF Heads, ClockTyped
      <4>2. Local(pattern[t]) \in Int
        BY <4>1, DivMod DEF Local
      <4> QED
        BY <4>1, <4>2, DivMod DEF Nominal
    <3> QED
      BY <3>1 DEF Playhead, Heads
  <2>2. CASE ~(pending /\ Plays(pattern[t]))
    BY <2>2 DEF Playhead, Heads
  <2> QED
    BY <2>1, <2>2
<1>4. ASSUME NEW t \in Tracks PROVE whole'[t] \in BOOLEAN
  BY <1>1 DEF Heads, LoopBegins
<1>5. position' \in [Tracks -> Int] /\ whole' \in [Tracks -> BOOLEAN]
  BY <1>1, <1>3, <1>4
<1>6. PlayheadOnGrid'
  BY <1>1, <1>2 DEF PlayheadOnGrid, Plays
<1> QED
  BY <1>1, <1>5, <1>6 DEF Heads

LEMMA HeadsStep == Heads /\ Clock /\ [Next]_vars => Heads'
<1> SUFFICES ASSUME Heads, Clock, [Next]_vars PROVE Heads'
  OBVIOUS
<1> DEFINE Same == UNCHANGED <<pattern, tick, position, whole>>
<1>0. Same => Heads'
  BY DEF Heads, PlayheadOnGrid, Plays
<1>1. CASE Start
  <2>1. position' \in [Tracks -> Int]
    BY <1>1 DEF Start
  <2> QED
    BY <1>1, <2>1, HeadsRestart DEF Start
<1>2. CASE Continue \/ Stop
  BY <1>0, <1>2 DEF Continue, Stop, historyVars
<1>3. ASSUME NEW beats \in 0 .. TickPeriod \div TicksPerStep, Seek(beats)
      PROVE  Heads'
  BY <1>3, HeadsRestart DEF Seek, Heads
<1>4. ASSUME NEW r \in Rates, SetRate(r) PROVE Heads'
  BY <1>0, <1>4 DEF SetRate
<1>5. ASSUME NEW p \in Patterns, EditPattern(p) PROVE Heads'
  BY <1>5, HeadsNewPattern DEF EditPattern
<1>6. ASSUME NEW p \in Patterns, NEW r \in Rates, LoadPattern(p, r) PROVE Heads'
  BY <1>6, HeadsNewPattern DEF LoadPattern
<1>7. CASE Sample
  BY <1>7, HeadsSample DEF Clock
<1>8. CASE EndBlock
  BY <1>0, <1>8 DEF EndBlock, seqVars, historyVars
<1>9. CASE UNCHANGED vars
  BY <1>0, <1>9 DEF vars, seqVars, historyVars
<1> QED
  BY <1>1, <1>2, <1>3, <1>4, <1>5, <1>6, <1>7, <1>8, <1>9 DEF Next

(* A track played since its loop began has its playhead on the position of   *)
(* the last tick, whatever its length, speed and direction, through changes   *)
(* of tempo, stops, edits of other tracks and the wrap of the tick counter.  *)
THEOREM PlayheadFollows == Spec => []PlayheadOnGrid
<1>1. Heads => PlayheadOnGrid
  BY DEF Heads
<1> QED
  BY <1>1, HeadsInit, HeadsStep, ClockAlways, PTL DEF Spec

-----------------------------------------------------------------------------
(* What a loop has fired.  Part of the way through a loop, the positions     *)
(* whose tick has been played have fired and no others have.                 *)

Landing(t, p) ==
  FireTick(TicksOf(pattern[t]), CycleOf(pattern[t]), p, StepAt(pattern[t], p).micro,
           pattern[t].swing)

Gone(t, p) == Landing(t, p) <= (tick - 1) % LoopTicks(pattern[t])

Scored ==
  \A t \in Tracks : whole[t] /\ Plays(pattern[t]) =>
    \A p \in 0 .. CycleOf(pattern[t]) - 1 :
      LET st == StepAt(pattern[t], p)
      IN /\ hits[t][p] <= IF Gone(t, p) /\ st.active THEN 1 ELSE 0
         /\ Gone(t, p) /\ st.active /\ ~st.chance /\ ~lost[t] => hits[t][p] = 1

HitsTyped ==
  /\ DOMAIN hits = Tracks
  /\ \A t \in Tracks : hits[t] \in [0 .. CycleOf(pattern[t]) - 1 -> Nat]

Score == Heads /\ HitsTyped /\ Scored

(* What one tick adds to a position's count: nothing, unless it is the tick   *)
(* the position falls on, and then one unless it is skipped or dropped.      *)
LEMMA CountedOnce ==
  ASSUME pattern \in Patterns, tick \in Int, NEW skipped, pending => skipped \subseteq Uncertain,
         NEW t \in Tracks, NEW p \in 0 .. CycleOf(pattern[t]) - 1
  PROVE  LET st == StepAt(pattern[t], p)
             now == pending /\ Plays(pattern[t]) /\ Landing(t, p) = Local(pattern[t])
             n == Count(Kept(Pushes(skipped)), t, p)
         IN /\ n \in Nat
            /\ n <= IF now /\ st.active THEN 1 ELSE 0
            /\ now /\ st.active /\ ~st.chance
                 /\ (\A a \in Pushes(skipped) \ Kept(Pushes(skipped)) : ~(a[1] = 1 /\ a[2] = t))
                 => n = 1
<1> DEFINE tr == pattern[t]
           st == StepAt(tr, p)
           now == pending /\ Plays(tr) /\ Landing(t, p) = Local(tr)
           pushes == Pushes(skipped)
           kept == Kept(pushes)
           C == {a \in kept : a[1] = 1 /\ a[2] = t /\ Scanned(tr)[a[3]] = p}
<1>1. Count(kept, t, p) = Cardinality(C)
  BY DEF Count
<1>2. kept \subseteq pushes
  BY DEF Kept
<1>3. ASSUME NEW a \in pushes, a[1] = 1, a[2] = t
      PROVE  a[3] \in Fired(t, skipped) /\ a = <<1, t, a[3]>>
  BY <1>3 DEF Pushes
<1>4. ASSUME NEW k \in Fired(t, skipped)
      PROVE  /\ k \in 1 .. 3 /\ pending /\ Plays(tr) /\ k \in DOMAIN Scanned(tr)
             /\ Lands(tr, Scanned(tr)[k], Local(tr)) /\ StepAt(tr, Scanned(tr)[k]).active
  BY DEF Fired, Due
<1>5. Lands(tr, p, Local(tr)) <=> Landing(t, p) = Local(tr)
  BY DEF Lands, Landing, StepAt
<1>6. ASSUME NEW a \in C PROVE now /\ st.active
  <2> HIDE DEF kept
  <2> DEFINE k == a[3]
  <2>1. k \in Fired(t, skipped) /\ Scanned(tr)[k] = p
    BY <1>2, <1>3
  <2> HIDE DEF k
  <2> QED
    BY <1>4, <1>5, <2>1
<1>7. CASE ~(now /\ st.active)
  <2>1. C = {}
    <3> HIDE DEF C, now, st
    <3> QED
      BY <1>6, <1>7
  <2>2. Cardinality(C) = 0
    BY <2>1, FS_EmptySet
  <2> HIDE DEF now, st, C, kept
  <2> QED
    BY <1>1, <1>7, <2>2 DEF now, st, kept
<1>8. CASE now /\ st.active
  <2>1. /\ tr.length \in Nat /\ tr.length > 0 /\ tr.swing \in Int
        /\ TicksOf(tr) \in Nat \ {0} /\ LoopTicks(tr) \in Int /\ LoopTicks(tr) > 0
    BY <1>8, PlayingTrack, SequencerAssumption DEF Plays
  <2>2. CycleOf(tr) \in Nat \ {0} /\ StepForPosition(tr, p) \in 0 .. tr.length - 1
    BY <2>1, CycleShape
  <2>3. st.micro \in Int
    BY <2>2, SequencerAssumption DEF StepAt
  <2> DEFINE W == Window(Landing(t, p) \div TicksOf(tr), CycleOf(tr))
  <2>4. \E k \in 1 .. 3 : /\ k \in DOMAIN W /\ W[k] = p
                          /\ \A j \in DOMAIN W : W[j] = p => j = k
    BY <2>1, <2>2, <2>3, ScannedOnce DEF Landing
  <2>5. W = Scanned(tr)
    BY <1>8 DEF Scanned, Nominal
  <2> HIDE DEF W
  <2>6. PICK k \in 1 .. 3 : /\ k \in DOMAIN Scanned(tr) /\ Scanned(tr)[k] = p
                            /\ \A j \in DOMAIN Scanned(tr) : Scanned(tr)[j] = p => j = k
    BY <2>4, <2>5
  <2>7. C \subseteq {<<1, t, k>>}
    <3> SUFFICES ASSUME NEW a \in C PROVE a = <<1, t, k>>
      OBVIOUS
    <3> HIDE DEF kept
    <3>1. a[3] \in Fired(t, skipped) /\ a = <<1, t, a[3]>> /\ Scanned(tr)[a[3]] = p
      BY <1>2, <1>3
    <3>2. a[3] \in DOMAIN Scanned(tr)
      BY <1>4, <3>1
    <3>3. a[3] = k
      BY <2>6, <3>1, <3>2
    <3> QED
      BY <3>1, <3>3
  <2>8. C = {} \/ C = {<<1, t, k>>}
    BY <2>7
  <2>9. Cardinality(C) \in {0, 1}
    BY <2>8, FS_EmptySet, FS_Singleton
  <2>10. ASSUME ~st.chance, \A a \in pushes \ kept : ~(a[1] = 1 /\ a[2] = t)
         PROVE  Cardinality(C) = 1
    <3> DEFINE a == <<1, t, k>>
    <3>1. Due(tr, k)
      BY <1>5, <1>8, <2>6 DEF Due
    <3>2. <<t, k>> \notin skipped
      <4>1. <<t, k>> \notin Uncertain
        BY <2>6, <2>10 DEF Uncertain
      <4> QED
        BY <1>8, <4>1
    <3>3. k \in Fired(t, skipped)
      BY <1>8, <3>1, <3>2 DEF Fired
    <3>4. a \in pushes /\ a[1] = 1 /\ a[2] = t /\ a[3] = k
      BY <3>3 DEF Pushes
    <3>5. a \in kept
      BY <2>10, <3>4
    <3>6. a \in C
      BY <2>6, <3>4, <3>5
    <3>7. C = {a}
      BY <2>7, <3>6
    <3> QED
      BY <3>7, FS_Singleton
  <2> HIDE DEF now, st, C, kept, pushes
  <2> QED
    BY <1>1, <1>8, <2>9, <2>10 DEF now, st, kept, pushes
<1> QED
  BY <1>7, <1>8

LEMMA ScoreInit == Init => Score
<1> SUFFICES ASSUME Init PROVE Score
  OBVIOUS
<1>1. Heads
  BY HeadsInit
<1>2. HitsTyped
  BY DEF Init, HitsTyped, NoHits
<1>3. Scored
  BY DEF Init, Scored
<1> QED
  BY <1>1, <1>2, <1>3 DEF Score

LEMMA ScoreNewPattern ==
  ASSUME Score, NEW p \in Patterns, NewPattern(p), UNCHANGED <<tick, lost, position>>
  PROVE  Score'
<1>1. Heads'
  BY HeadsNewPattern DEF Score
<1>2. pattern' = p /\ DOMAIN hits' = Tracks
  BY DEF NewPattern
<1>3. ASSUME NEW t \in Tracks
      PROVE  hits'[t] \in [0 .. CycleOf(p[t]) - 1 -> Nat]
  <2>1. CASE p[t] = pattern[t]
    BY <2>1 DEF NewPattern, Score, HitsTyped
  <2>2. CASE p[t] # pattern[t]
    BY <2>2 DEF NewPattern, NoHits
  <2> QED
    BY <2>1, <2>2
<1>4. HitsTyped'
  BY <1>2, <1>3 DEF HitsTyped
<1>5. ASSUME NEW t \in Tracks, whole'[t]
      PROVE  p[t] = pattern[t] /\ whole[t] /\ hits'[t] = hits[t]
  BY <1>5 DEF NewPattern
<1>6. Scored'
  BY <1>2, <1>5 DEF Score, Scored, Gone, Landing, Plays, LoopTicks, StepAt
<1> QED
  BY <1>1, <1>4, <1>6 DEF Score

(* A position's tick is a tick of its loop.                                  *)
LEMMA LandsInLoop ==
  ASSUME pattern \in Patterns, NEW t \in Tracks, Plays(pattern[t]),
         NEW p \in 0 .. CycleOf(pattern[t]) - 1
  PROVE  Landing(t, p) \in 0 .. LoopTicks(pattern[t]) - 1
<1>1. /\ pattern[t].length \in Nat /\ pattern[t].length > 0 /\ pattern[t].swing \in Int
      /\ TicksOf(pattern[t]) \in Nat \ {0}
  BY PlayingTrack, SequencerAssumption DEF Plays
<1>2. /\ CycleOf(pattern[t]) \in Nat \ {0}
      /\ StepForPosition(pattern[t], p) \in 0 .. pattern[t].length - 1
  BY <1>1, CycleShape
<1>3. StepAt(pattern[t], p).micro \in Int
  BY <1>2, SequencerAssumption DEF StepAt
<1>4. Landing(t, p) \in 0 .. CycleOf(pattern[t]) * TicksOf(pattern[t]) - 1
  BY <1>1, <1>2, <1>3, ScannedOnce DEF Landing
<1> QED
  BY <1>4 DEF LoopTicks

LEMMA ScoreSample ==
  ASSUME Score, ClockTyped, Sample
  PROVE  Score'
<1>1. Heads' /\ pattern \in Patterns /\ tick \in Int
  BY HeadsSample DEF Score, Heads, ClockTyped
<1>2. PICK skipped \in SUBSET (IF pending THEN Uncertain ELSE {}) :
        /\ hits' = [t \in Tracks |-> [p \in DOMAIN hits[t] |->
                     (IF LoopBegins(t) THEN 0 ELSE hits[t][p])
                       + Count(Kept(Pushes(skipped)), t, p)]]
        /\ lost' = [t \in Tracks |-> \/ lost[t] /\ ~LoopBegins(t)
                                     \/ \E a \in Pushes(skipped) \ Kept(Pushes(skipped)) :
                                          a[1] = 1 /\ a[2] = t]
  BY DEF Sample
<1>3. /\ Advance /\ pattern' = pattern
      /\ whole' = [t \in Tracks |-> whole[t] \/ LoopBegins(t)]
  BY SampleMoves
<1> DEFINE n(t, p) == Count(Kept(Pushes(skipped)), t, p)
           now(t, p) == pending /\ Plays(pattern[t]) /\ Landing(t, p) = Local(pattern[t])
<1>4. ASSUME NEW t \in Tracks, NEW p \in 0 .. CycleOf(pattern[t]) - 1
      PROVE  /\ n(t, p) \in Nat
             /\ n(t, p) <= IF now(t, p) /\ StepAt(pattern[t], p).active THEN 1 ELSE 0
             /\ now(t, p) /\ StepAt(pattern[t], p).active /\ ~StepAt(pattern[t], p).chance
                  /\ ~lost'[t] => n(t, p) = 1
             /\ hits'[t][p] = (IF LoopBegins(t) THEN 0 ELSE hits[t][p]) + n(t, p)
  <2>1. pending => skipped \subseteq Uncertain
    OBVIOUS
  <2>2. hits'[t][p] = (IF LoopBegins(t) THEN 0 ELSE hits[t][p]) + n(t, p)
    BY <1>2 DEF Score, HitsTyped
  <2>3. ~lost'[t] =>
          \A a \in Pushes(skipped) \ Kept(Pushes(skipped)) : ~(a[1] = 1 /\ a[2] = t)
    BY <1>2
  <2> QED
    BY <1>1, <2>1, <2>2, <2>3, CountedOnce
<1> HIDE DEF n
<1>5. HitsTyped'
  <2>1. DOMAIN hits' = Tracks
    BY <1>2
  <2>2. ASSUME NEW t \in Tracks
        PROVE  hits'[t] \in [0 .. CycleOf(pattern[t]) - 1 -> Nat]
    <3>1. hits[t] \in [0 .. CycleOf(pattern[t]) - 1 -> Nat]
      BY DEF Score, HitsTyped
    <3>2. hits'[t] = [p \in 0 .. CycleOf(pattern[t]) - 1 |-> hits'[t][p]]
      BY <1>2, <3>1
    <3>3. ASSUME NEW p \in 0 .. CycleOf(pattern[t]) - 1 PROVE hits'[t][p] \in Nat
      <4>1. hits[t][p] \in Nat /\ n(t, p) \in Nat
        BY <1>4, <3>1
      <4>2. hits'[t][p] = (IF LoopBegins(t) THEN 0 ELSE hits[t][p]) + n(t, p)
        BY <1>4
      <4> QED
        BY <4>1, <4>2
    <3> QED
      BY <3>2, <3>3
  <2> QED
    BY <1>3, <2>1, <2>2 DEF HitsTyped
<1>6. ASSUME NEW t \in Tracks, whole'[t], Plays(pattern[t]),
             NEW p \in 0 .. CycleOf(pattern[t]) - 1
      PROVE  LET gone == Landing(t, p) <= (tick' - 1) % LoopTicks(pattern[t])
                 st == StepAt(pattern[t], p)
             IN /\ hits'[t][p] <= IF gone /\ st.active THEN 1 ELSE 0
                /\ gone /\ st.active /\ ~st.chance /\ ~lost'[t] => hits'[t][p] = 1
  <2> DEFINE b == LoopTicks(pattern[t])
             l == tick % b
             at == Landing(t, p)
             st == StepAt(pattern[t], p)
             gone == at <= (tick' - 1) % b
  <2>1. /\ b \in Int /\ b > 0 /\ TickPeriod % b = 0
        /\ l \in 0 .. b - 1 /\ l = Local(pattern[t])
    BY <1>1, <1>6, PlayingTrack, DivMod DEF Local
  <2>2. at \in Nat
    BY <1>1, <1>6, <2>1, LandsInLoop
  <2>3. hits[t][p] \in Nat
    BY DEF Score, HitsTyped
  <2>4. whole[t] => /\ hits[t][p] <= IF at <= (tick - 1) % b /\ st.active THEN 1 ELSE 0
                    /\ at <= (tick - 1) % b /\ st.active /\ ~st.chance /\ ~lost[t]
                         => hits[t][p] = 1
    BY <1>6 DEF Score, Scored, Gone
  <2>5. ~LoopBegins(t) => whole[t] /\ (~lost'[t] => ~lost[t])
    BY <1>2, <1>3, <1>6
  <2>6. CASE ~pending
    <3>1. tick' = tick /\ ~LoopBegins(t) /\ ~now(t, p)
      BY <1>3, <2>6 DEF Advance, LoopBegins
    <3>2. hits'[t][p] = hits[t][p]
      BY <1>4, <2>3, <3>1
    <3> QED
      BY <2>4, <2>5, <3>1, <3>2
  <2>7. CASE pending
    <3>1. (tick' - 1) % b = l
      BY <1>3, <2>1, <2>7, TickPlayed
    <3>2. now(t, p) <=> at = l
      BY <1>6, <2>1, <2>7
    <3>3. CASE l = 0
      <4>1. LoopBegins(t)
        BY <1>6, <2>1, <2>7, <3>3 DEF LoopBegins
      <4>2. gone <=> at = l
        BY <2>2, <3>1, <3>3
      <4>3. hits'[t][p] = n(t, p)
        BY <1>4, <4>1
      <4> HIDE DEF at, gone, now, st
      <4> QED
        BY <1>4, <3>2, <4>2, <4>3 DEF at, gone, st
    <3>4. CASE l # 0
      <4>1. ~LoopBegins(t)
        BY <2>1, <3>4 DEF LoopBegins
      <4>2. (tick - 1) % b = l - 1
        BY <1>1, <2>1, <3>4, Previous
      <4>3. hits'[t][p] = hits[t][p] + n(t, p)
        BY <1>4, <4>1
      <4>4. CASE at = l
        <5>1. hits[t][p] = 0
          BY <2>1, <2>2, <2>3, <2>4, <2>5, <4>1, <4>2, <4>4
        <5>2. n(t, p) \in Nat
          BY <1>4
        <5>3. hits'[t][p] = n(t, p)
          BY <4>3, <5>1, <5>2
        <5>4. gone
          BY <2>2, <3>1, <4>4
        <5> HIDE DEF at, gone, now, st
        <5> QED
          BY <1>4, <3>2, <4>4, <5>3, <5>4 DEF at, gone, st
      <4>5. CASE at # l
        <5>1. n(t, p) = 0
          BY <1>4, <3>2, <4>5
        <5>2. hits'[t][p] = hits[t][p]
          BY <2>3, <4>3, <5>1
        <5>3. gone <=> at <= (tick - 1) % b
          BY <2>1, <2>2, <3>1, <4>2, <4>5
        <5> HIDE DEF at, gone, st
        <5> QED
          BY <2>4, <2>5, <4>1, <5>2, <5>3 DEF at, gone, st
      <4> QED
        BY <4>4, <4>5
    <3> QED
      BY <3>3, <3>4
  <2> QED
    BY <2>6, <2>7
<1>7. Scored'
  BY <1>3, <1>6 DEF Scored, Gone, Landing, Plays, LoopTicks, StepAt
<1> QED
  BY <1>1, <1>5, <1>7 DEF Score

LEMMA ScoreStep == Score /\ Clock /\ [Next]_vars => Score'
<1> SUFFICES ASSUME Score, Clock, [Next]_vars PROVE Score'
  OBVIOUS
<1>1. Heads'
  BY HeadsStep DEF Score
<1> DEFINE Same == UNCHANGED <<pattern, tick, hits, lost, whole>>
<1>2. Same => Score'
  BY <1>1 DEF Score, HitsTyped, Scored, Gone, Landing, Plays, LoopTicks, StepAt, Tracks
<1>3. ASSUME NEW tk, RestartAt(tk), UNCHANGED <<pattern, hits>>
      PROVE  Score'
  BY <1>1, <1>3 DEF RestartAt, Score, HitsTyped, Scored
<1>4. CASE Start
  BY <1>3, <1>4 DEF Start
<1>5. CASE Continue \/ Stop
  BY <1>2, <1>5 DEF Continue, Stop, historyVars
<1>6. ASSUME NEW beats \in 0 .. TickPeriod \div TicksPerStep, Seek(beats)
      PROVE  Score'
  BY <1>3, <1>6 DEF Seek
<1>7. ASSUME NEW r \in Rates, SetRate(r) PROVE Score'
  BY <1>2, <1>7 DEF SetRate
<1>8. ASSUME NEW p \in Patterns, EditPattern(p) PROVE Score'
  BY <1>8, ScoreNewPattern DEF EditPattern
<1>9. ASSUME NEW p \in Patterns, NEW r \in Rates, LoadPattern(p, r) PROVE Score'
  BY <1>9, ScoreNewPattern DEF LoadPattern
<1>10. CASE Sample
  BY <1>10, ScoreSample DEF Clock
<1>11. CASE EndBlock
  BY <1>2, <1>11 DEF EndBlock, seqVars, historyVars
<1>12. CASE UNCHANGED vars
  BY <1>2, <1>12 DEF vars, seqVars, historyVars
<1> QED
  BY <1>4, <1>5, <1>6, <1>7, <1>8, <1>9, <1>10, <1>11, <1>12 DEF Next

(* A loop that a track played undisturbed fired every certain active step at *)
(* each of its positions exactly once unless a block's buffer was full, and   *)
(* nothing else more than once: for any pattern, and through any changes of  *)
(* tempo, stops, edits of other tracks and the wrap of the tick counter.     *)
THEOREM LoopsAreComplete == Spec => []OncePerLoop
<1>1. ASSUME Score, Clock PROVE OncePerLoop
  <2> SUFFICES ASSUME NEW t \in Tracks, LoopDone(t), NEW p \in DOMAIN hits[t]
               PROVE  LET st == StepAt(pattern[t], p)
                      IN /\ hits[t][p] <= IF st.active THEN 1 ELSE 0
                         /\ st.active /\ ~st.chance /\ ~lost[t] => hits[t][p] = 1
    BY DEF OncePerLoop
  <2> DEFINE b == LoopTicks(pattern[t])
  <2>1. p \in 0 .. CycleOf(pattern[t]) - 1 /\ whole[t] /\ Plays(pattern[t]) /\ tick % b = 0
    BY <1>1 DEF Score, HitsTyped, LoopDone
  <2>2. b \in Int /\ b > 0 /\ tick \in Int /\ pattern \in Patterns
    BY <1>1, <2>1, PlayingTrack DEF Score, Heads, Clock, ClockTyped
  <2>3. (tick - 1) % b = b - 1
    BY <2>1, <2>2, LastOf
  <2>4. Landing(t, p) \in 0 .. b - 1
    BY <2>1, <2>2, LandsInLoop
  <2>5. Gone(t, p)
    BY <2>2, <2>3, <2>4 DEF Gone
  <2> QED
    BY <1>1, <2>1, <2>5 DEF Score, Scored
<1>2. Init => Score /\ Clock
  BY ScoreInit, ClockInit
<1>3. Score /\ Clock /\ [Next]_vars => (Score /\ Clock)'
  BY ScoreStep, ClockStep
<1> QED
  BY <1>1, <1>2, <1>3, PTL DEF Spec

-----------------------------------------------------------------------------
(* Clock recovery.  The types the argument needs.                           *)
SyncTyped ==
  /\ spc \in Periods /\ internalSpc \in Tempos
  /\ due \in Int /\ lastAgo \in 0 .. MaxInterval
  /\ clocks \in 0 .. KAcquireClocks + 1
  /\ since \in Nat /\ counted \in Nat
  /\ haveLast \in BOOLEAN /\ external \in BOOLEAN
  /\ pc \in {"drain", "count", "check", "forget", "process"}
  /\ master \in Masters \cup {0} /\ toNext \in Nat
  /\ glitch \in {"none", "dropped", "doubled", "raced"}
  /\ only \in Masters \cup {-1, 0}

(* Before the first master the clock recovery is as Reset left it. *)
Untouched ==
  only = 0 => master = 0 /\ clocks = 0 /\ ~haveLast /\ ~external

(* How far the acquisition has come tells what it holds. *)
Counted ==
  /\ clocks = 0 => ~haveLast
  /\ clocks \in 1 .. KAcquireClocks => haveLast
  /\ external => clocks >= 2

(* While there has been one master and nothing of Troubles has happened to  *)
(* it, the cable carries that master or none; until it is acquired, it.     *)
OneMaster ==
  /\ master \in {0, only}
  /\ clocks <= KAcquireClocks => master = only /\ glitch \in {"none", "raced"}

(* Its next byte completes a period since the last, or two if one was       *)
(* dropped, or comes after a silence.                                       *)
Beat == IF glitch = "dropped" THEN 2 * only ELSE only

OnTheBeat ==
  master # 0 /\ clocks >= 1 =>
    \/ lastAgo + toNext = Beat
    \/ clocks > KAcquireClocks /\ lastAgo > Timeout

(* The silence counted is never longer than two periods before the master   *)
(* is acquired: a byte that falls between Advance's read and write is not   *)
(* counted, but the next one is.                                            *)
Uncounted == IF glitch = "raced" THEN only ELSE 0

NotSilent ==
  clocks <= KAcquireClocks =>
    /\ pc \notin {"check", "forget"}
    /\ clocks >= 2 => external
    /\ clocks >= 2 \/ (clocks = 1 /\ glitch = "none") =>
         /\ since <= lastAgo + Uncounted
         /\ pc = "count" => counted <= lastAgo + Uncounted

(* From its second clock on the period in use is the master's, and the next *)
(* clock is due one such period after the last.                             *)
InPhase ==
  clocks >= 2 =>
    /\ spc = only
    /\ haveLast => /\ due <= only - lastAgo
                   /\ lastAgo < MaxInterval => due = only - lastAgo

Followed == Counted /\ OneMaster /\ OnTheBeat /\ NotSilent /\ InPhase

SyncInv == SyncTyped /\ Untouched /\ (only > 0 => Followed)

LEMMA SyncFacts ==
  /\ MinInterval \in Nat /\ MaxInterval \in Nat /\ Timeout \in Nat /\ Timeout < MaxInterval
  /\ \A p \in Tempos : p \in Periods
  /\ \A J \in Masters : /\ J \in Nat /\ MinInterval < J /\ 2 * J < Timeout
                        /\ J # 0 /\ J # -1 /\ J \in Periods
  /\ KAcquireClocks = 4
BY TempoSyncAssumption DEF Periods, KAcquireClocks

LEMMA SyncAtInit == SyncInit => SyncInv
<1> SUFFICES ASSUME SyncInit PROVE SyncTyped /\ Untouched /\ ~(only > 0)
  BY DEF SyncInv
<1>1. spc \in Periods /\ internalSpc \in Tempos
  BY SyncFacts DEF SyncInit
<1>2. /\ lastAgo \in 0 .. MaxInterval /\ clocks \in 0 .. KAcquireClocks + 1
      /\ due \in Int /\ since \in Nat /\ counted \in Nat /\ toNext \in Nat
      /\ ~(only > 0) /\ only \in Masters \cup {-1, 0}
  BY SyncFacts DEF SyncInit
<1>3. /\ haveLast \in BOOLEAN /\ external \in BOOLEAN /\ ~haveLast /\ ~external
      /\ master \in Masters \cup {0} /\ master = 0 /\ clocks = 0
      /\ pc \in {"drain", "count", "check", "forget", "process"}
      /\ glitch \in {"none", "dropped", "doubled", "raced"}
  BY DEF SyncInit
<1> QED
  BY <1>1, <1>2, <1>3 DEF SyncTyped, Untouched

(* A byte that comes on the beat is in phase: what OnClock does with it       *)
(* leaves the period alone.                                                 *)
LEMMA AcquireSeeds ==
  ASSUME SyncTyped, only > 0, OneMaster, InPhase, Counted,
         OnClock, clocks >= 1, clocks < 4, lastAgo = only
  PROVE  /\ spc' = only /\ due' = only /\ haveLast' /\ external'
<1>1. only \in Masters /\ only \in Nat /\ MinInterval < only /\ only < MaxInterval
  BY SyncFacts DEF SyncTyped
<1>2. Acquire
  BY SyncFacts DEF SyncTyped, Counted, OnClock, FirstClock, Acquire, Acquiring, Resync, Track
<1>3. Plausible
  BY <1>1 DEF Plausible
<1>4. Seed(clocks + 1, only) = only
  <2>1. CASE clocks = 1
    BY <2>1 DEF Seed
  <2>2. CASE clocks >= 2
    <3>1. spc = only /\ (only + only) \div 2 = only
      BY <1>1, <2>2 DEF InPhase
    <3> QED
      BY <3>1, <2>2 DEF Seed, SyncTyped
  <2> QED
    BY <2>1, <2>2 DEF SyncTyped
<1> QED
  BY <1>2, <1>3, <1>4 DEF Acquire, Acquiring

LEMMA TrackKeeps ==
  ASSUME SyncTyped, only > 0, InPhase, OnClock, clocks >= 4, haveLast, lastAgo = only
  PROVE  /\ spc' = only /\ due' = only /\ haveLast' /\ external'
<1>1. only \in Masters /\ only \in Nat /\ only \in Periods /\ only < MaxInterval
  BY SyncFacts DEF SyncTyped, Periods
<1>2. spc = only /\ due = 0
  BY <1>1 DEF InPhase, SyncTyped
<1>3. Err = 0
  <2>1. Err = 0 - due
    BY DEF Err, SyncTyped
  <2> QED
    BY <1>2, <2>1
<1>4. ~Acquiring
  BY SyncFacts DEF Acquiring, SyncTyped
<1>5. ~Outlier
  BY <1>1, <1>2, <1>3 DEF Outlier
<1>6. Track
  BY <1>4, <1>5 DEF OnClock, FirstClock, Acquire, Resync
<1>7. Sign(Err) = 0
  BY <1>3 DEF Sign
<1>8. Integrated = only
  <2>1. 1 <= only /\ only <= MaxInterval
    BY <1>1 DEF Periods
  <2>2. Greater(only + 0, 1) = only /\ Lesser(only, MaxInterval) = only
    BY <1>1, <2>1, SyncFacts DEF Lesser, Greater
  <2> QED
    BY <1>2, <1>7, <2>2 DEF Integrated
<1>9. spc' = only
  BY <1>2, <1>6, <1>8 DEF Track
<1>10. due' = due + spc' + 0
  BY <1>6, <1>7 DEF Track
<1> QED
  BY <1>1, <1>2, <1>6, <1>9, <1>10 DEF Track

(* One that does not, doubled or after another was lost, is half a period   *)
(* or more out of phase.                                                    *)
LEMMA ResyncKeeps ==
  ASSUME SyncTyped, only > 0, InPhase, OnClock, clocks >= 4, haveLast,
         lastAgo = 0 \/ lastAgo >= 2 * only
  PROVE  /\ spc' = only /\ due' = only /\ haveLast' /\ (external' <=> external)
<1>1. only \in Nat /\ only < MaxInterval
  BY SyncFacts DEF SyncTyped
<1>2. spc = only /\ due \in Int /\ due <= only - lastAgo /\ (lastAgo = 0 => due = only)
  BY <1>1, SyncFacts DEF InPhase, SyncTyped
<1>3. Outlier
  BY <1>1, <1>2 DEF Outlier, Err, SyncTyped
<1>4. ~Acquiring
  BY SyncFacts DEF Acquiring, SyncTyped
<1>5. Resync
  BY <1>3, <1>4 DEF OnClock, FirstClock, Acquire, Track
<1> QED
  BY <1>2, <1>5 DEF Resync

(* A byte as it comes from the cable, or a second time.                      *)
LEMMA ByteKeepsTypes ==
  ASSUME SyncTyped, OnClock
  PROVE  /\ due' \in Int /\ spc' \in Periods /\ haveLast' \in BOOLEAN /\ external' \in BOOLEAN
         /\ clocks' \in 1 .. KAcquireClocks + 1 /\ since' = 0 /\ lastAgo' = 0
         /\ UNCHANGED <<internalSpc, counted>>
<1>1. /\ clocks' \in 1 .. KAcquireClocks + 1 /\ since' = 0 /\ lastAgo' = 0
      /\ UNCHANGED <<internalSpc, counted>>
  BY SyncFacts DEF OnClock, SyncTyped, Lesser
<1>2. CASE FirstClock
  BY <1>1, <1>2 DEF FirstClock, SyncTyped, Periods
<1>3. CASE Acquire
  <2>1. spc' \in Periods
    <3>1. CASE Plausible
      <4>1. lastAgo \in Periods /\ spc \in Periods
        BY <3>1, SyncFacts DEF Plausible, SyncTyped, Periods
      <4>2. (spc + lastAgo) \div 2 \in Periods
        BY <4>1, SyncFacts DEF Periods
      <4> QED
        BY <1>3, <3>1, <4>1, <4>2 DEF Acquire, Seed
    <3> QED
      BY <1>3, <3>1 DEF Acquire, SyncTyped
  <2> QED
    BY <1>1, <1>3, <2>1 DEF Acquire, SyncTyped, Periods
<1>4. CASE Resync
  BY <1>1, <1>4 DEF Resync, SyncTyped, Periods
<1>5. CASE Track
  <2>1. Sign(Err) \in {-1, 0, 1}
    BY DEF Sign
  <2>2. Integrated \in Periods
    <3>1. spc + Sign(Err) \in Int /\ 1 <= MaxInterval /\ MaxInterval \in Int
      BY <2>1, SyncFacts DEF SyncTyped, Periods
    <3>2. ASSUME NEW n \in Int PROVE Lesser(Greater(n, 1), MaxInterval) \in Periods
      BY <3>1 DEF Lesser, Greater, Periods
    <3> QED
      BY <3>1, <3>2 DEF Integrated
  <2>3. spc' \in Periods
    BY <1>5, <2>2 DEF Track, SyncTyped
  <2>4. due' \in Int
    <3>1. PICK pull \in {0, Sign(Err)} : due' = due + spc' + pull
      BY <1>5 DEF Track
    <3> QED
      BY <2>1, <2>3, <3>1 DEF SyncTyped, Periods
  <2> QED
    BY <1>1, <1>5, <2>3, <2>4 DEF Track, SyncTyped
<1> QED
  BY <1>1, <1>2, <1>3, <1>4, <1>5 DEF OnClock

(* What a byte of the master does to the recovery while it is followed.      *)
LEMMA OnBeat ==
  ASSUME SyncTyped, only > 0, Followed, Byte
  PROVE  /\ clocks >= 1 => spc' = only /\ due' = only
         /\ haveLast'
         /\ clocks \in 1 .. 4 => external' /\ lastAgo = only
         /\ clocks = 0 => ~external'
<1> USE DEF Followed
<1>0. /\ only \in Masters /\ only \in Nat /\ 2 * only < Timeout /\ Timeout \in Nat
      /\ clocks \in 0 .. 5 /\ KAcquireClocks = 4
  BY SyncFacts DEF SyncTyped
<1>1. OnClock /\ master = only /\ toNext = 0
  BY DEF Byte, OneMaster
<1>2. CASE clocks = 0
  <2>1. haveLast = FALSE /\ external = FALSE
    BY <1>2 DEF Counted, SyncTyped
  <2>2. FirstClock
    BY <1>1, <2>1 DEF OnClock, Acquire, Acquiring, Resync, Track
  <2> QED
    BY <1>2, <2>1, <2>2 DEF FirstClock
<1>3. CASE clocks \in 1 .. 4
  <2>1. lastAgo = only
    BY <1>0, <1>1, <1>3 DEF OneMaster, OnTheBeat, Beat, SyncTyped
  <2>2. haveLast
    BY <1>0, <1>3 DEF Counted
  <2>3. CASE clocks < 4
    BY <1>1, <1>3, <2>1, <2>3, AcquireSeeds
  <2>4. CASE clocks = 4
    BY <1>1, <2>1, <2>2, <2>4, TrackKeeps
  <2> QED
    BY <1>3, <2>1, <2>3, <2>4
<1>4. CASE clocks = 5
  <2>1. CASE haveLast
    <3>1. lastAgo = only \/ lastAgo >= 2 * only
      BY <1>0, <1>1, <1>4 DEF OnTheBeat, Beat, SyncTyped
    <3> QED
      BY <1>1, <1>4, <2>1, <3>1, TrackKeeps, ResyncKeeps
  <2>2. CASE ~haveLast
    <3>1. FirstClock
      BY <1>1, <2>2 DEF OnClock, Acquire, Acquiring, Resync, Track
    <3> QED
      BY <1>0, <1>4, <3>1 DEF FirstClock, InPhase
  <2> QED
    BY <1>4, <2>1, <2>2
<1> QED
  BY <1>0, <1>2, <1>3, <1>4

LEMMA ByteFollowed ==
  ASSUME SyncTyped, only > 0, Followed, Byte
  PROVE  Followed'
<1>0. /\ only \in Masters /\ only \in Nat /\ only # 0 /\ Timeout \in Nat /\ MaxInterval \in Nat
      /\ clocks \in 0 .. 5 /\ KAcquireClocks = 4
  BY SyncFacts DEF SyncTyped
<1>1. /\ clocks' = Lesser(clocks + 1, 5) /\ since' = 0 /\ lastAgo' = 0 /\ counted' = counted
      /\ pc' = pc /\ master' = master /\ master = only /\ only' = only /\ toNext' = only
      /\ glitch' \in {"none", "raced"} /\ (pc = "count" => glitch = "none" /\ glitch' = "raced")
      /\ (pc # "count" => glitch' = "none")
  BY <1>0 DEF Byte, OnClock, machineVars, Racing, OneMaster, Followed
<1>2. clocks' = IF clocks = 5 THEN 5 ELSE clocks + 1
  BY <1>0, <1>1 DEF Lesser
<1>3. /\ clocks >= 1 => spc' = only /\ due' = only
      /\ haveLast'
      /\ clocks \in 1 .. 4 => external' /\ lastAgo = only
      /\ clocks = 0 => ~external'
  BY OnBeat
<1>4. Counted'
  BY <1>0, <1>2, <1>3 DEF Counted
<1>5. OneMaster'
  BY <1>0, <1>1 DEF OneMaster
<1>6. OnTheBeat'
  BY <1>0, <1>1 DEF OnTheBeat, Beat
<1>7. NotSilent'
  <2> SUFFICES ASSUME clocks' <= 4 PROVE NotSilent'
    BY <1>0 DEF NotSilent
  <2>1. clocks <= 3 /\ clocks' = clocks + 1
    BY <1>0, <1>2
  <2>2. pc' \notin {"check", "forget"}
    BY <1>0, <1>1, <2>1 DEF NotSilent, Followed
  <2>3. clocks' >= 2 => external'
    BY <1>0, <1>3, <2>1
  <2>4. pc' = "count" /\ clocks >= 1 => counted' <= only
    BY <1>0, <1>1, <1>3, <2>1 DEF NotSilent, Uncounted, Followed, SyncTyped
  <2>5. (clocks' >= 2 \/ (clocks' = 1 /\ glitch' = "none")) /\ pc' = "count" => clocks >= 1
    BY <1>0, <1>1, <2>1
  <2>6. Uncounted' \in {0, only} /\ (pc' = "count" => Uncounted' = only)
    BY <1>1 DEF Uncounted
  <2>7. since' <= lastAgo' + Uncounted'
    <3>1. Uncounted' \in Nat /\ since' = 0 /\ lastAgo' = 0
      BY <1>0, <1>1, <2>6
    <3>2. ASSUME NEW n \in Nat PROVE 0 <= 0 + n
      OBVIOUS
    <3> QED
      BY <3>1, <3>2
  <2>8. pc' = "count" /\ clocks >= 1 => counted' <= lastAgo' + Uncounted'
    <3> SUFFICES ASSUME pc' = "count", clocks >= 1
                 PROVE  counted' <= lastAgo' + Uncounted'
      OBVIOUS
    <3>1. counted' <= only /\ Uncounted' = only /\ lastAgo' = 0
      BY <1>1, <2>4, <2>6
    <3> QED
      BY <1>0, <3>1
  <2> QED
    BY <2>2, <2>3, <2>5, <2>7, <2>8 DEF NotSilent
<1>8. InPhase'
  BY <1>0, <1>1, <1>2, <1>3 DEF InPhase
<1> QED
  BY <1>4, <1>5, <1>6, <1>7, <1>8 DEF Followed

LEMMA AdvanceFollowed ==
  ASSUME SyncTyped, only > 0, Followed, PllAdvance
  PROVE  Followed'
<1>0. /\ only \in Masters /\ only \in Nat /\ only # 0 /\ 2 * only < Timeout
      /\ Timeout \in Nat /\ MaxInterval \in Nat /\ Timeout < MaxInterval
      /\ clocks \in 0 .. 5 /\ KAcquireClocks = 4 /\ lastAgo \in 0 .. MaxInterval
      /\ toNext \in Nat /\ due \in Int /\ since \in Nat
  BY SyncFacts DEF SyncTyped
<1>1. /\ (master # 0 => toNext > 0 /\ toNext' = toNext - 1)
      /\ lastAgo' = Lesser(lastAgo + 1, MaxInterval) /\ due' = Greater(due - 1, -MaxInterval)
      /\ counted' = Silence(since) /\ pc' = "count"
      /\ UNCHANGED <<spc, clocks, since, haveLast, external, master, glitch, only>>
  BY DEF PllAdvance
<1>2. /\ counted' \in Nat /\ counted' <= since + 1
      /\ lastAgo' \in 0 .. MaxInterval /\ lastAgo' >= lastAgo
      /\ lastAgo' = IF lastAgo < MaxInterval THEN lastAgo + 1 ELSE MaxInterval
      /\ due' = IF due - 1 > -MaxInterval THEN due - 1 ELSE -MaxInterval
  BY <1>0, <1>1 DEF Lesser, Greater, Silence
<1>3. Counted' /\ OneMaster'
  BY <1>1 DEF Followed, Counted, OneMaster
<1>4. Beat \in {only, 2 * only} /\ Beat' = Beat
  BY <1>1 DEF Beat
<1>5. master # 0 /\ lastAgo + toNext = Beat => lastAgo' = lastAgo + 1 /\ lastAgo' + toNext' = Beat
  BY <1>0, <1>1, <1>2, <1>4
<1>6. OnTheBeat'
  BY <1>0, <1>1, <1>2, <1>4, <1>5 DEF OnTheBeat, Followed
<1>7. NotSilent'
  <2> SUFFICES ASSUME clocks <= 4 PROVE NotSilent'
    BY <1>0, <1>1 DEF NotSilent
  <2>1. clocks >= 1 => lastAgo' = lastAgo + 1
    BY <1>0, <1>5 DEF Followed, OneMaster, OnTheBeat
  <2>2. Uncounted' = Uncounted /\ Uncounted \in Nat
    BY <1>0, <1>1 DEF Uncounted
  <2>3. clocks >= 2 \/ (clocks = 1 /\ glitch = "none") => since <= lastAgo + Uncounted
    BY <1>0 DEF Followed, NotSilent
  <2>4. clocks >= 2 => external
    BY <1>0 DEF Followed, NotSilent
  <2>5. clocks >= 2 \/ (clocks = 1 /\ glitch = "none") =>
          since <= lastAgo' + Uncounted /\ counted' <= lastAgo' + Uncounted
    BY <1>0, <1>2, <2>1, <2>2, <2>3
  <2> QED
    BY <1>0, <1>1, <2>2, <2>4, <2>5 DEF NotSilent
<1>8. InPhase'
  BY <1>0, <1>1, <1>2 DEF InPhase, Followed
<1> QED
  BY <1>3, <1>6, <1>7, <1>8 DEF Followed

(* Advance writes the count back: before the acquisition it is never one of  *)
(* silence.                                                                 *)
LEMMA CountFollowed ==
  ASSUME SyncTyped, only > 0, Followed, CountSilence
  PROVE  Followed'
<1>0. /\ only \in Masters /\ only \in Nat /\ only # 0 /\ 2 * only < Timeout /\ Timeout \in Nat
      /\ clocks \in 0 .. 5 /\ KAcquireClocks = 4 /\ lastAgo \in Nat /\ toNext \in Nat
      /\ counted \in Nat
  BY SyncFacts DEF SyncTyped
<1>1. /\ pc = "count" /\ since' = counted /\ pc' = IF Silent(counted) THEN "check" ELSE "process"
      /\ UNCHANGED <<spc, due, lastAgo, clocks, haveLast, external, master, toNext, glitch, only>>
  BY DEF CountSilence, masterVars
<1>2. Counted' /\ OneMaster' /\ OnTheBeat' /\ InPhase'
  BY <1>1 DEF Followed, Counted, OneMaster, OnTheBeat, InPhase, Beat
<1>3. NotSilent'
  <2> SUFFICES ASSUME clocks <= 4 PROVE NotSilent'
    BY <1>0, <1>1 DEF NotSilent
  <2>1. Uncounted' = Uncounted /\ Uncounted \in {0, only}
    BY <1>1 DEF Uncounted
  <2>2. clocks >= 2 \/ (clocks = 1 /\ glitch = "none") => counted <= lastAgo + Uncounted
    BY <1>0, <1>1 DEF Followed, NotSilent
  <2>3. clocks >= 1 => lastAgo <= only
    BY <1>0 DEF Followed, OneMaster, OnTheBeat, Beat
  <2>4. clocks >= 2 <=> external
    BY <1>0 DEF Followed, NotSilent, Counted
  <2>5. clocks >= 2 => counted <= Timeout
    BY <1>0, <2>1, <2>2, <2>3
  <2>6. pc' = "process"
    BY <1>0, <1>1, <2>4, <2>5 DEF Silent
  <2> QED
    BY <1>0, <1>1, <2>1, <2>2, <2>4, <2>6 DEF NotSilent
<1> QED
  BY <1>2, <1>3 DEF Followed

(* Once it is acquired the silence may be taken for its end, and it may stop *)
(* and come back: the period stays.                                         *)
LEMMA RestFollowed ==
  ASSUME SyncTyped, only > 0, Followed, CheckSilence \/ Forget \/ Process
  PROVE  Followed'
<1>0. clocks \in 0 .. 5 /\ KAcquireClocks = 4
  BY SyncFacts DEF SyncTyped
<1>1. UNCHANGED <<spc, due, lastAgo, clocks, since, counted, master, toNext, glitch, only>>
  BY DEF CheckSilence, Forget, Process, pllVars, masterVars
<1>2. /\ external' => external
      /\ haveLast' => haveLast
      /\ pc' \in {"process", "drain", "forget"}
  BY DEF CheckSilence, Forget, Process, pllVars
<1>3. CASE clocks = 5
  BY <1>0, <1>1, <1>2, <1>3
     DEF Followed, Counted, OneMaster, OnTheBeat, Beat, NotSilent, InPhase
<1>4. CASE clocks \in 0 .. 4
  <2>1. pc \notin {"check", "forget"}
    BY <1>0, <1>4 DEF Followed, NotSilent
  <2>2. UNCHANGED <<external, haveLast>> /\ pc' = "drain"
    BY <2>1 DEF CheckSilence, Forget, Process, pllVars
  <2> QED
    BY <1>0, <1>1, <1>4, <2>2
       DEF Followed, Counted, OneMaster, OnTheBeat, Beat, NotSilent, InPhase, Uncounted
<1> QED
  BY <1>0, <1>3, <1>4

(* The user, a loaded pattern. *)
LEMMA TempoFollowed ==
  ASSUME SyncTyped, only > 0, Followed, NEW period \in Tempos,
         SetTempo(period) \/ LoadTempo(period), only' > 0
  PROVE  Followed'
<1>0. clocks \in 0 .. 5 /\ KAcquireClocks = 4
  BY SyncFacts DEF SyncTyped
<1>1. UNCHANGED <<due, lastAgo, clocks, since, counted, haveLast, external, master, toNext, glitch, pc>>
  BY DEF SetTempo, LoadTempo, pllVars, masterVars
<1>2. only' = only
  BY DEF SetTempo, LoadTempo, Note
<1>3. clocks >= 2 => spc' = spc
  <2>1. CASE LoadTempo(period)
    BY <2>1 DEF LoadTempo, pllVars
  <2>2. CASE SetTempo(period)
    <3>1. InTune
      BY <1>2, <2>2 DEF SetTempo, Note
    <3>2. clocks >= 2 => external
      BY <1>0, <3>1 DEF InTune, Acquired, Followed, NotSilent
    <3> QED
      BY <2>2, <3>2 DEF SetTempo
  <2> QED
    BY <2>1, <2>2
<1> QED
  BY <1>0, <1>1, <1>2, <1>3
     DEF Followed, Counted, OneMaster, OnTheBeat, Beat, NotSilent, InPhase, Uncounted

(* What happens to the master between two blocks, once it is acquired. *)
LEMMA GlitchFollowed ==
  ASSUME SyncTyped, only > 0, Followed, DropByte \/ DoubleByte \/ StopMaster, only' > 0
  PROVE  Followed'
<1>0. /\ only \in Masters /\ only \in Nat /\ only # 0 /\ Timeout \in Nat /\ MaxInterval \in Nat
      /\ clocks \in 0 .. 5 /\ KAcquireClocks = 4 /\ lastAgo \in Nat
  BY SyncFacts DEF SyncTyped
<1>1. only' = only /\ clocks = 5
  <2>1. Note(Acquired)
    BY DEF DropByte, DoubleByte, StopMaster
  <2> QED
    BY <1>0, <2>1 DEF Note, Acquired
<1>2. CASE StopMaster
  BY <1>0, <1>1, <1>2 DEF StopMaster, pllVars, Followed, Counted, OneMaster, OnTheBeat, NotSilent,
                         InPhase
<1>3. CASE DropByte
  <2>1. /\ glitch = "none" /\ glitch' = "dropped" /\ master = only /\ toNext = 0 /\ toNext' = only
        /\ UNCHANGED <<spc, due, lastAgo, clocks, since, haveLast, external, master>>
    BY <1>3 DEF DropByte, MayGlitch, pllVars, Followed, OneMaster
  <2>2. OnTheBeat'
    BY <1>0, <1>1, <2>1 DEF OnTheBeat, Beat, Followed
  <2> QED
    BY <1>0, <1>1, <2>1, <2>2 DEF Followed, Counted, OneMaster, NotSilent, InPhase
<1>4. CASE DoubleByte
  <2>1. /\ OnClock /\ haveLast /\ lastAgo = 0 /\ master = only /\ toNext = only
        /\ glitch' = "doubled" /\ UNCHANGED <<master, toNext>>
    BY <1>0, <1>4 DEF DoubleByte, Followed, OneMaster
  <2>2. spc' = only /\ due' = only /\ haveLast' /\ (external' <=> external)
    BY <1>1, <2>1, ResyncKeeps DEF Followed
  <2>3. clocks' = 5 /\ lastAgo' = 0
    BY <1>0, <1>1, <2>1 DEF OnClock, Lesser
  <2> QED
    BY <1>0, <1>1, <2>1, <2>2, <2>3
       DEF Followed, Counted, OneMaster, OnTheBeat, Beat, NotSilent, InPhase
<1> QED
  BY <1>2, <1>3, <1>4

(* The first master, or the same one after it was away. *)
LEMMA StartFollowed ==
  ASSUME SyncTyped, Untouched, only > 0 => Followed, NEW period \in Masters,
         StartMaster(period), only' > 0
  PROVE  Followed'
<1>0. clocks \in 0 .. 5 /\ KAcquireClocks = 4 /\ period \in Nat /\ period # 0 /\ Timeout \in Nat
  BY SyncFacts DEF SyncTyped
<1>1. /\ pc = "drain" /\ master = 0 /\ Rested /\ only \in {0, period} /\ only' = period
      /\ master' = period /\ glitch' = "none"
      /\ UNCHANGED <<spc, due, lastAgo, clocks, since, haveLast, external, counted, pc>>
  BY DEF StartMaster, pllVars, machineVars
<1>2. CASE only = 0
  BY <1>0, <1>1, <1>2
     DEF Untouched, Followed, Counted, OneMaster, OnTheBeat, NotSilent, InPhase
<1>3. CASE only = period
  <2>1. clocks = 5
    BY <1>0, <1>1, <1>3 DEF Followed, OneMaster
  <2>2. lastAgo > Timeout
    BY <1>1, <2>1 DEF Rested
  <2> QED
    BY <1>0, <1>1, <1>3, <2>1, <2>2
       DEF Followed, Counted, OneMaster, OnTheBeat, NotSilent, InPhase
<1> QED
  BY <1>1, <1>2, <1>3

LEMMA TypesKept ==
  ASSUME SyncTyped, Untouched, SyncNext
  PROVE  SyncTyped' /\ Untouched'
<1> USE SyncFacts
<1>0. /\ spc \in Periods /\ internalSpc \in Tempos
      /\ due \in Int /\ lastAgo \in 0 .. MaxInterval
      /\ clocks \in 0 .. KAcquireClocks + 1
      /\ since \in Nat /\ counted \in Nat
      /\ master \in Masters \cup {0} /\ toNext \in Nat
      /\ only \in Masters \cup {-1, 0}
      /\ Masters \subseteq Nat
  BY DEF SyncTyped
<1>1. CASE Byte
  <2>1. OnClock /\ master # 0 /\ toNext' = master /\ UNCHANGED <<pc, master, only>>
        /\ glitch' \in {"raced", "none"}
    BY <1>1 DEF Byte, machineVars
  <2> QED
    BY <1>0, <2>1, ByteKeepsTypes DEF SyncTyped, Untouched
<1>2. CASE DoubleByte
  <2>1. OnClock /\ master # 0 /\ UNCHANGED <<pc, master, toNext>> /\ glitch' = "doubled"
        /\ only' \in {only, -1}
    BY <1>2 DEF DoubleByte, machineVars, Note
  <2> QED
    BY <1>0, <2>1, ByteKeepsTypes DEF SyncTyped, Untouched
<1>3. CASE DropByte \/ StopMaster
  <2>1. UNCHANGED <<pllVars, machineVars>> /\ master # 0 /\ master' \in {master, 0}
        /\ toNext' \in {master, 0} /\ glitch' \in {"none", "dropped"} /\ only' \in {only, -1}
    BY <1>3 DEF DropByte, StopMaster, Note
  <2> QED
    BY <1>0, <2>1 DEF SyncTyped, Untouched, pllVars, machineVars
<1>4. ASSUME NEW period \in Masters, StartMaster(period) PROVE SyncTyped' /\ Untouched'
  <2>1. UNCHANGED <<pllVars, machineVars>> /\ master' = period /\ toNext' = 0
        /\ glitch' = "none" /\ only' \in {period, -1}
    BY <1>4 DEF StartMaster
  <2> QED
    BY <1>0, <2>1 DEF SyncTyped, Untouched, pllVars, machineVars
<1>5. ASSUME NEW period \in Tempos, SetTempo(period) \/ LoadTempo(period)
      PROVE  SyncTyped' /\ Untouched'
  <2>1. /\ UNCHANGED <<due, lastAgo, clocks, since, haveLast, external, counted, pc, masterVars>>
        /\ internalSpc' \in {internalSpc, period} /\ spc' \in {spc, period} /\ only' \in {only, -1}
    BY <1>5 DEF SetTempo, LoadTempo, pllVars, Note
  <2> QED
    BY <1>0, <2>1 DEF SyncTyped, Untouched, masterVars
<1>6. CASE PllAdvance
  <2>1. /\ master # 0 => toNext > 0
        /\ toNext' = (IF master = 0 THEN 0 ELSE toNext - 1)
        /\ lastAgo' = Lesser(lastAgo + 1, MaxInterval) /\ due' = Greater(due - 1, -MaxInterval)
        /\ counted' = Silence(since) /\ pc' = "count"
        /\ UNCHANGED <<spc, internalSpc, clocks, since, haveLast, external, master, glitch, only>>
    BY <1>6 DEF PllAdvance
  <2>2. toNext' \in Nat /\ lastAgo' \in 0 .. MaxInterval /\ due' \in Int /\ counted' \in Nat
    BY <1>0, <2>1 DEF Lesser, Greater, Silence
  <2> QED
    BY <2>1, <2>2 DEF SyncTyped, Untouched
<1>7. CASE CountSilence \/ CheckSilence \/ Forget \/ Process
  <2>1. /\ UNCHANGED <<spc, internalSpc, due, lastAgo, clocks, masterVars, only>>
        /\ since' \in {since, counted} /\ counted' \in {counted, 0}
        /\ haveLast' \in {haveLast, FALSE} /\ external' \in {external, FALSE}
        /\ pc' \in {"drain", "count", "check", "forget", "process"}
    BY <1>7 DEF CountSilence, CheckSilence, Forget, Process, pllVars
  <2>2. haveLast' \in BOOLEAN /\ external' \in BOOLEAN
    BY <2>1 DEF SyncTyped
  <2>3. since' \in Nat /\ counted' \in Nat
    BY <1>0, <2>1
  <2>4. SyncTyped'
    BY <1>0, <2>1, <2>2, <2>3 DEF SyncTyped, masterVars
  <2>5. Untouched'
    BY <2>1 DEF Untouched, masterVars
  <2> QED
    BY <2>4, <2>5
<1> QED
  BY <1>1, <1>2, <1>3, <1>4, <1>5, <1>6, <1>7 DEF SyncNext

LEMMA SyncStep == SyncInv /\ [SyncNext]_syncVars => SyncInv'
<1> SUFFICES ASSUME SyncInv, [SyncNext]_syncVars PROVE SyncInv'
  OBVIOUS
<1> USE DEF SyncInv
<1>1. CASE UNCHANGED syncVars
  BY <1>1 DEF syncVars, pllVars, machineVars, masterVars, SyncTyped, Untouched, Followed, Counted,
              OneMaster, OnTheBeat, Beat, NotSilent, Uncounted, InPhase
<1>2. CASE SyncNext
  <2>1. SyncTyped' /\ Untouched'
    BY <1>2, TypesKept
  <2>2. ASSUME only' > 0 PROVE Followed'
    <3>1. ASSUME NEW period \in Masters, StartMaster(period) PROVE Followed'
      BY <2>2, <3>1, StartFollowed
    <3>2. only > 0 \/ \E period \in Masters : StartMaster(period)
      <4>1. SUFFICES ASSUME ~ \E period \in Masters : StartMaster(period)
                     PROVE  only' \in {only, -1}
        BY <2>2
      <4> QED
        BY <1>2, <4>1 DEF SyncNext, Byte, DropByte, DoubleByte, StopMaster, SetTempo, LoadTempo,
              PllAdvance, CountSilence, CheckSilence, Forget, Process, Note
    <3>3. CASE only > 0
      <4>1. ASSUME NEW period \in Tempos, SetTempo(period) \/ LoadTempo(period) PROVE Followed'
        BY <2>2, <3>3, <4>1, TempoFollowed
      <4> QED
        BY <1>2, <2>2, <3>1, <3>3, <4>1, ByteFollowed, GlitchFollowed, AdvanceFollowed,
           CountFollowed, RestFollowed DEF SyncNext
    <3> QED
      BY <3>1, <3>2, <3>3
  <2> QED
    BY <2>1, <2>2
<1> QED
  BY <1>1, <1>2

(* With one master, followed since its fifth clock or never disturbed        *)
(* before, the period in use while synced is exactly its own, through every  *)
(* byte dropped, doubled or come while the silence is counted, every stop    *)
(* and every return, for any period the recovery accepts.                   *)
THEOREM PeriodIsTheMasters == SyncSpec => []HoldsTempo
<1>1. SyncInv => HoldsTempo
  BY SyncFacts DEF SyncInv, Followed, Counted, InPhase, HoldsTempo
<1> QED
  BY <1>1, SyncAtInit, SyncStep, PTL DEF SyncSpec

(* The rate of the sequencer is changed by a synced block, by the user and   *)
(* by a loaded pattern, and by nothing else: losing the master is no change. *)
THEOREM LossKeepsRate == SyncSpec => KeepsRate
<1>1. SyncNext => (seqRate' # seqRate => external \/ (pc = "drain" /\ seqTempo' = seqRate'))
  <2>1. CASE Process
    BY <2>1 DEF Process, TickRate
  <2>2. ASSUME NEW period \in Tempos, SetTempo(period) \/ LoadTempo(period)
        PROVE  pc = "drain" /\ seqTempo' = seqRate'
    BY <2>2 DEF SetTempo, LoadTempo
  <2> QED
    BY <2>1, <2>2 DEF SyncNext, Byte, DropByte, DoubleByte, StopMaster, StartMaster, PllAdvance,
                      CountSilence, CheckSilence, Forget, machineVars
<1> QED
  BY <1>1, PTL DEF SyncSpec, KeepsRate
=============================================================================
