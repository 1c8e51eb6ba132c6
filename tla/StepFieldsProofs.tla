-------------------------- MODULE StepFieldsProofs --------------------------
(***************************************************************************)
(* What becomes of a step's fields, for every value they have: a turn of    *)
(* the encoder moves one the way it was turned and as far as the detents    *)
(* say, and the lights tell the steps apart in every frame, whatever the    *)
(* frame had to be scaled by to stay within the supply's budget.            *)
(***************************************************************************)
EXTENDS StepFields, FiniteSetTheorems, TLAPS

-----------------------------------------------------------------------------
(* The encoder.  What a field's byte is worth, case by case: everything      *)
(* below is linear in these numbers.                                         *)

LEMMA FieldCases ==
  ASSUME field \in Fields
  PROVE  \/ field = "Velocity" /\ Scale = 127 /\ Lowest = 0 /\ Highest = 127 /\ Top = 32512
         \/ field = "Micro" /\ Scale = 46 /\ Lowest = -23 /\ Highest = 23 /\ Top = 11776
         \/ field = "Probability" /\ Scale = 100 /\ Lowest = 0 /\ Highest = 100 /\ Top = 25600
         \/ field = "Ratchet" /\ Scale = 7 /\ Lowest = 1 /\ Highest = 8 /\ Top = 1792
<1>1. CASE field = "Velocity"
  BY <1>1 DEF Scale, Lowest, Highest, Top
<1>2. CASE field = "Micro"
  BY <1>2 DEF Scale, Lowest, Highest, Top, KMicroRange
<1>3. CASE field = "Probability"
  BY <1>3 DEF Scale, Lowest, Highest, Top
<1>4. CASE field = "Ratchet"
  BY <1>4 DEF Scale, Lowest, Highest, Top
<1> QED
  BY <1>1, <1>2, <1>3, <1>4 DEF Fields

(* What is kept of a value is in the field's range and rises with it.        *)
LEMMA KeptRises ==
  ASSUME field \in Fields, NEW v \in 0 .. Top, NEW w \in 0 .. Top, v <= w
  PROVE  /\ Kept(v) \in Lowest .. Highest
         /\ Kept(v) <= Kept(w)
BY FieldCases DEF Kept, Rounded, Truncated, KMicroRange

(* Values kept as the same byte are less than a unit apart, or two around    *)
(* the middle of MICRO.                                                      *)
LEMMA KeptWidth ==
  ASSUME field \in Fields, NEW v \in 0 .. Top, NEW w \in 0 .. Top, Kept(v) = Kept(w)
  PROVE  w - v <= IF field = "Micro" THEN 510 ELSE 255
BY FieldCases DEF Kept, Rounded, Truncated, KMicroRange

(* A gesture that starts from the byte starts from what the byte stands for. *)
LEMMA KeptRead ==
  ASSUME field \in Fields, stored \in Lowest .. Highest
  PROVE  Read \in 0 .. Top /\ Kept(Read) = stored
<1>1. stored \in Int /\ Lowest \in Int /\ stored - Lowest \in 0 .. Scale
  <2>1. Highest = Lowest + Scale /\ Lowest \in Int /\ Scale \in Int
    BY FieldCases
  <2> QED
    BY <2>1
<1>2. Read \in 0 .. Top
  BY <1>1, FieldCases DEF Read, Top
<1>3. Rounded(Read) = stored - Lowest
  BY <1>1 DEF Read, Rounded
<1>4. CASE field = "Micro"
  <2>1. Read - 256 * KMicroRange = 256 * stored
    BY <1>1, <1>4, FieldCases DEF Read, KMicroRange
  <2> QED
    BY <1>1, <1>2, <1>4, <2>1 DEF Kept, Truncated
<1>5. CASE field # "Micro"
  BY <1>1, <1>2, <1>3, <1>5 DEF Kept
<1> QED
  BY <1>4, <1>5

(* The end of the range is kept as the field's highest value.                *)
LEMMA KeptTop == field \in Fields => Top \in 0 .. Top /\ Kept(Top) = Highest
BY FieldCases DEF Kept, Rounded, Truncated, KMicroRange

(* How far a turn moves the value, and which way.                            *)
LEMMA StepOfTurn ==
  ASSUME field \in Fields, NEW delta \in Int, NEW pace \in {1, 4, 16}
  PROVE  /\ delta * pace * Scale \in Int
         /\ delta > 0 => delta * pace * Scale > 0
         /\ delta <= 0 => delta * pace * Scale <= 0
BY FieldCases

DetailTyped ==
  /\ field \in Fields /\ stored \in Lowest .. Highest
  /\ edit \in 0 .. Top /\ turning \in BOOLEAN /\ clicks \in Nat

(* Within a gesture the byte is what is kept of the value, and it was        *)
(* already before the clicks that have not moved it.                         *)
GestureInv ==
  /\ turning => stored = Kept(edit)
  /\ clicks > 0 => /\ turning
                   /\ edit - clicks * Scale \in 0 .. Top
                   /\ Kept(edit - clicks * Scale) = stored

DetailInv == DetailTyped /\ GestureInv

(* Where a turn starts from, and that it goes the way of its detents.        *)
LEMMA TurnFrom ==
  ASSUME DetailInv
  PROVE  From \in 0 .. Top /\ Kept(From) = stored
BY KeptRead DEF DetailInv, DetailTyped, GestureInv, From

LEMMA TurnMoves ==
  ASSUME DetailInv, NEW delta \in Int, NEW pace \in {1, 4, 16}
  PROVE  LET v == Unit(From + delta * pace * Scale)
         IN /\ v \in 0 .. Top
            /\ IF delta > 0 THEN v >= From ELSE v <= From
<1> DEFINE d == delta * pace * Scale
<1>1. d \in Int /\ (delta > 0 => d > 0) /\ (delta <= 0 => d <= 0)
  BY StepOfTurn DEF DetailInv, DetailTyped
<1>2. From \in 0 .. Top /\ Top \in Nat
  BY TurnFrom, FieldCases DEF DetailInv, DetailTyped
<1> HIDE DEF d
<1> QED
  BY <1>1, <1>2 DEF Unit, d

LEMMA DetailStep == DetailInv /\ DetailNext => DetailInv'
<1> SUFFICES ASSUME DetailInv, DetailNext PROVE DetailInv'
  OBVIOUS
<1>0. /\ field \in Fields /\ field' = field
      /\ Scale' = Scale /\ Lowest' = Lowest /\ Highest' = Highest /\ Top' = Top
      /\ Scale \in Nat \ {0} /\ Top \in Nat /\ Highest \in Int
  <2>1. field' = field
    BY DEF DetailNext, Turn, PushEncoder, Pause, Emit
  <2> QED
    BY <2>1, FieldCases DEF DetailInv, DetailTyped, Scale, Lowest, Highest, Top, Fields
<1>1. ASSUME NEW delta \in Detents, NEW pace \in Paces, Turn(delta, pace)
      PROVE  DetailInv'
  <2> DEFINE v == Unit(From + delta * pace * Scale)
  <2>1. delta \in Int /\ pace \in {1, 4, 16}
    BY StepDetailAssumption DEF Paces
  <2>2. v \in 0 .. Top /\ IF delta > 0 THEN v >= From ELSE v <= From
    BY <2>1, TurnMoves
  <2>3. edit' = v /\ turning' = TRUE /\ stored' = Kept(v)
    BY <1>1 DEF Turn, Emit
  <2>4. Kept(v) \in Lowest .. Highest
    BY <1>0, <2>2, KeptRises
  <2>5. DetailTyped'
    BY <1>0, <1>1, <2>2, <2>3, <2>4 DEF DetailInv, DetailTyped, Turn
  <2>6. stored' = Kept(edit)'
    BY <1>0, <2>3 DEF Kept
  <2>7. ASSUME clicks' > 0
        PROVE  /\ (edit - clicks * Scale)' \in 0 .. Top
               /\ Kept(edit - clicks * Scale)' = stored
               /\ stored' = stored
    <3>1. /\ delta = 1 /\ pace = 1 /\ stored' = stored /\ stored < Highest
          /\ clicks' = clicks + 1 /\ clicks \in Nat
      BY <1>1, <2>7 DEF Turn, DetailInv, DetailTyped
    <3>2. v = From + Scale
      <4>1. From \in 0 .. Top /\ v = Unit(From + Scale)
        BY <1>0, <3>1, TurnFrom
      <4>2. Kept(v) # Highest
        BY <1>0, <2>3, <3>1
      <4>3. v # Top
        BY <1>0, <4>2, KeptTop
      <4> QED
        BY <1>0, <4>1, <4>3 DEF Unit
    <3>3. edit' - clicks' * Scale = From - clicks * Scale
      BY <1>0, <2>3, <3>1, <3>2, TurnFrom
    <3>4. From - clicks * Scale \in 0 .. Top /\ Kept(From - clicks * Scale) = stored
      <4>1. CASE clicks = 0
        BY <1>0, <4>1, TurnFrom
      <4>2. CASE clicks > 0
        BY <4>2 DEF DetailInv, GestureInv, From
      <4> QED
        BY <3>1, <4>1, <4>2
    <3>5. Kept(edit - clicks * Scale)' = Kept(From - clicks * Scale)
      BY <1>0, <3>3 DEF Kept
    <3> QED
      BY <1>0, <3>1, <3>3, <3>4, <3>5
  <2> QED
    BY <1>0, <2>3, <2>5, <2>6, <2>7 DEF DetailInv, GestureInv
<1>2. CASE PushEncoder
  <2>1. edit' \in 0 .. Top /\ turning' = TRUE /\ stored' = Kept(edit') /\ clicks' = 0
    BY <1>0, <1>2 DEF PushEncoder, Emit
  <2>2. stored' \in Lowest .. Highest /\ Kept(edit)' = Kept(edit')
    BY <1>0, <2>1, KeptRises DEF Kept
  <2> QED
    BY <1>0, <2>1, <2>2 DEF DetailInv, DetailTyped, GestureInv
<1>3. CASE Pause
  <2>1. turning' = FALSE /\ clicks' = 0 /\ stored' = stored /\ edit' = edit
    BY <1>3 DEF Pause
  <2>2. DetailTyped'
    BY <1>0, <2>1 DEF DetailInv, DetailTyped
  <2> QED
    BY <2>1, <2>2 DEF DetailInv, GestureInv
<1> QED
  BY <1>1, <1>2, <1>3 DEF DetailNext

LEMMA DetailAlways == Spec => []DetailInv
<1>1. Init => DetailInv
  <2> SUFFICES ASSUME Init PROVE DetailInv
    OBVIOUS
  <2>1. field \in Fields /\ stored \in Lowest .. Highest /\ edit = 0 /\ turning = FALSE /\ clicks = 0
    BY DEF Init, DetailInit
  <2>2. edit \in 0 .. Top
    BY <2>1, FieldCases
  <2>3. ~(clicks > 0) /\ clicks \in Nat
    BY <2>1
  <2>4. ~turning /\ turning \in BOOLEAN
    BY <2>1, Zenon
  <2>5. GestureInv
    BY <2>3, <2>4 DEF GestureInv
  <2> QED
    BY <2>1, <2>2, <2>3, <2>4, <2>5 DEF DetailInv, DetailTyped
<1>2. DetailInv /\ UNCHANGED detailVars => DetailInv'
  BY DEF detailVars, DetailInv, DetailTyped, GestureInv, Fields, Lowest, Highest, Scale, Top,
         Kept, Rounded, Truncated
<1>3. DetailInv /\ [Next]_vars => DetailInv'
  BY <1>2, DetailStep DEF Next, vars, Render
<1> QED
  BY <1>1, <1>3, PTL DEF Spec

(* However slowly the encoder is turned in one gesture, a unit of the field  *)
(* takes no more fine clicks than fit in it: what rounding holds back from    *)
(* the byte is not lost, for any turns the scan may coalesce.                *)
THEOREM SlowTurnsAddUp == Spec => []ClicksAddUp
<1>1. ASSUME DetailInv PROVE ClicksAddUp
  <2>1. clicks \in Nat /\ field \in Fields /\ edit \in 0 .. Top
    BY <1>1 DEF DetailInv, DetailTyped
  <2>2. clicks * Scale <= IF field = "Micro" THEN 510 ELSE 255
    <3>1. CASE clicks = 0
      BY <2>1, <3>1, FieldCases
    <3>2. CASE clicks > 0
      <4> DEFINE v == edit - clicks * Scale
      <4>1. v \in 0 .. Top /\ Kept(v) = Kept(edit)
        BY <1>1, <3>2 DEF DetailInv, GestureInv
      <4>2. edit - v <= IF field = "Micro" THEN 510 ELSE 255
        BY <2>1, <4>1, KeptWidth
      <4>3. edit - v = clicks * Scale
        BY <2>1, FieldCases
      <4> QED
        BY <4>2, <4>3
    <3> QED
      BY <2>1, <3>1, <3>2
  <2> QED
    BY <2>1, <2>2, FieldCases DEF ClicksAddUp
<1> QED
  BY <1>1, DetailAlways, PTL

(* Turning up never lowers the field and turning down never raises it, from  *)
(* whatever the byte kept of the last gesture.                               *)
THEOREM TurnsRight == Spec => TurnsTheRightWay
<1> DEFINE A == \A delta \in Detents, pace \in {1, 4, 16} : Turn(delta, pace) =>
                  IF delta > 0 THEN stored' >= stored ELSE stored' <= stored
<1>1. ASSUME DetailInv PROVE A
  <2> SUFFICES ASSUME NEW delta \in Detents, NEW pace \in {1, 4, 16}, Turn(delta, pace)
               PROVE  IF delta > 0 THEN stored' >= stored ELSE stored' <= stored
    OBVIOUS
  <2> DEFINE v == Unit(From + delta * pace * Scale)
  <2>1. delta \in Int
    BY StepDetailAssumption
  <2>2. v \in 0 .. Top /\ IF delta > 0 THEN v >= From ELSE v <= From
    BY <1>1, <2>1, TurnMoves
  <2>3. From \in 0 .. Top /\ Kept(From) = stored /\ field \in Fields
    BY <1>1, TurnFrom DEF DetailInv, DetailTyped
  <2>4. stored' = Kept(v)
    BY DEF Turn, Emit
  <2> HIDE DEF v
  <2> QED
    BY <2>1, <2>2, <2>3, <2>4, KeptRises
<1>2. DetailInv => [A]_detailVars
  BY <1>1
<1> QED
  BY <1>2, DetailAlways, PTL DEF TurnsTheRightWay

-----------------------------------------------------------------------------
(* Numbers and sums. *)

(* A set that has 0 and, with each number, the next one, has every number.  *)
LEMMA Induction ==
  ASSUME NEW S, 0 \in S, \A n \in Nat : n \in S => n + 1 \in S
  PROVE  Nat \subseteq S
<1> SUFFICES ASSUME NEW k \in Nat, k \notin S
             PROVE  FALSE
  OBVIOUS
<1> DEFINE T == S \cap (0 .. k)
<1>1. IsFiniteSet(T)
  <2>1. IsFiniteSet(0 .. k) /\ T \in SUBSET (0 .. k)
    BY FS_Interval
  <2> QED
    BY <2>1, FS_Subset
<1>2. \A n \in T : n \in Nat /\ n + 1 \in T
  OBVIOUS
<1>3. 0 \in T /\ \A n \in T : n + 1 # 0
  OBVIOUS
<1> HIDE DEF T
<1> DEFINE f == [n \in T |-> n + 1]
<1>4. f \in Injection(T, T)
  BY <1>2 DEF Injection, IsInjective
<1>5. f \in Surjection(T, T)
  BY <1>1, <1>4, FS_Injection
<1>6. \A t \in T : \E n \in T : f[n] = t
  BY <1>5 DEF Surjection
<1> QED
  BY <1>3, <1>6

(* What cutting to a whole number leaves.                                   *)
LEMMA Quotient ==
  ASSUME NEW a \in Nat, NEW d \in Nat \ {0}
  PROVE  a \div d \in Nat /\ d * (a \div d) <= a /\ a < d * (a \div d) + d
OBVIOUS

(* A quotient keeps order.                                                  *)
LEMMA QuotientRises ==
  ASSUME NEW a \in Nat, NEW b \in Nat, a <= b, NEW d \in Nat \ {0}
  PROVE  a \div d <= b \div d
<1> DEFINE x == a \div d
           y == b \div d
<1>1. x \in Nat /\ y \in Nat /\ d * x <= a /\ b < d * y + d
  BY Quotient
<1> HIDE DEF x, y
<1>2. d * x < d * (y + 1)
  BY <1>1
<1>3. x < y + 1
  BY <1>1, <1>2
<1> QED
  BY <1>1, <1>3 DEF x, y

(* A frame, light by light and channel by channel.                          *)
Channels == 1 .. 3
Lights == 0 .. NumLeds - 1
Colours == [Channels -> 0 .. 255]
Frames == [Lights -> Colours]

(* Current is the sum it is written as: the partial sums, light by light.   *)
LEMMA Summed ==
  ASSUME NEW leds \in Frames
  PROVE  \E total \in [0 .. NumLeds -> Nat] :
           /\ total[0] = 0
           /\ \A n \in Lights : total[n + 1] = total[n] + Brightness(leds[n])
           /\ Current(leds) = total[NumLeds]
<1> DEFINE F == [0 .. NumLeds -> Nat]
           b(n) == Brightness(leds[n])
           Grows(f, m) == f[0] = 0 /\ \A n \in 0 .. m - 1 : f[n + 1] = f[n] + b(n)
           Built == {m \in Nat : m <= NumLeds => \E f \in F : Grows(f, m)}
<1>b. \A n \in Lights : b(n) \in Nat
  <2> SUFFICES ASSUME NEW n \in Lights PROVE b(n) \in Nat
    OBVIOUS
  <2>1. leds[n] \in [Channels -> 0 .. 255]
    BY DEF Frames, Colours
  <2>2. leds[n][1] \in Nat /\ leds[n][2] \in Nat /\ leds[n][3] \in Nat
    BY <2>1 DEF Channels
  <2> QED
    BY <2>2 DEF Brightness
<1>n. NumLeds = 34 /\ Lights = 0 .. 33
  BY DEF NumLeds, NumStepKeys, NumTracks, NumTransportKeys, Lights
<1> HIDE DEF b
<1>1. 0 \in Built
  <2>1. [n \in 0 .. NumLeds |-> 0] \in F /\ Grows([n \in 0 .. NumLeds |-> 0], 0)
    BY <1>n
  <2> QED
    BY <2>1
<1>2. ASSUME NEW m \in Nat, m \in Built PROVE m + 1 \in Built
  <2> SUFFICES ASSUME m + 1 <= NumLeds PROVE \E g \in F : Grows(g, m + 1)
    OBVIOUS
  <2>1. PICK f \in F : Grows(f, m)
    BY <1>2, <1>n
  <2> DEFINE g == [f EXCEPT ![m + 1] = f[m] + b(m)]
  <2>2. g \in F /\ g[0] = 0
    <3>1. f[m] \in Nat /\ b(m) \in Nat /\ m + 1 # 0
      <4>1. m \in 0 .. NumLeds /\ m \in Lights
        BY <1>n
      <4> QED
        BY <1>b, <4>1
    <3> QED
      BY <2>1, <3>1, <1>n
  <2>3. ASSUME NEW n \in 0 .. m PROVE g[n + 1] = g[n] + b(n)
    <3>1. n \in 0 .. NumLeds /\ n + 1 \in 0 .. NumLeds /\ n # m + 1
      BY <1>n
    <3>2. n # m => n \in 0 .. m - 1 /\ n + 1 # m + 1
      OBVIOUS
    <3> QED
      BY <2>1, <3>1, <3>2
  <2> HIDE DEF g, F
  <2>4. Grows(g, m + 1)
    BY <2>2, <2>3
  <2> QED
    BY <2>2, <2>4
<1>3. PICK f \in F : Grows(f, NumLeds)
  <2> HIDE DEF Built
  <2>1. NumLeds \in Built
    BY <1>1, <1>2, <1>n, Induction
  <2> QED
    BY <2>1, <1>n DEF Built
<1> DEFINE Is(g) == g = [n \in 0 .. NumLeds |-> IF n = 0 THEN 0 ELSE g[n - 1] + b(n - 1)]
           h == CHOOSE g : Is(g)
<1>4. Is(f)
  <2>1. \A n \in 0 .. NumLeds : f[n] = IF n = 0 THEN 0 ELSE f[n - 1] + b(n - 1)
    BY <1>3, <1>n
  <2> QED
    BY <2>1
<1>5. Is(h)
  <2> HIDE DEF Is
  <2> QED
    BY <1>4
<1>6. Current(leds) = h[NumLeds]
  BY DEF Current, b
<1> HIDE DEF h
<1> DEFINE Same == {m \in Nat : m <= NumLeds => h[m] = f[m]}
<1>7. 0 \in Same /\ \A m \in Nat : m \in Same => m + 1 \in Same
  BY <1>4, <1>5, <1>n
<1>8. h = f
  <2> HIDE DEF Same
  <2>1. Nat \subseteq Same
    BY <1>7, Induction
  <2>2. \A m \in 0 .. NumLeds : h[m] = f[m]
    BY <2>1, <1>n DEF Same
  <2>3. h = [n \in 0 .. NumLeds |-> h[n]]
    <3> HIDE DEF Same
    <3> QED
      BY <1>5
  <2> QED
    BY <2>2, <2>3
<1> QED
  BY <1>3, <1>6, <1>8, <1>n DEF b

(* The hues: what the rules below need of each of the twelve.               *)
Framed(c, lo, hi) == \A i \in Channels : c[lo] <= c[i] /\ c[i] <= c[hi]

LEMMA HueFacts ==
  ASSUME NEW t \in TrackIds
  PROVE  /\ Hue(t) \in [Channels -> 20 .. 255]
         /\ Brightness(Hue(t)) \in 325 .. 660
         /\ Hue(t)[2] >= 40
         /\ \E lo, hi \in Channels :
              /\ Framed(Hue(t), lo, hi)
              /\ Hue(t)[hi] >= 220 /\ 10 * Hue(t)[lo] <= 7 * Hue(t)[hi]
<1> DEFINE P(h, lo, hi) ==
             /\ h \in [Channels -> 20 .. 255]
             /\ Brightness(h) \in 325 .. 660 /\ h[2] >= 40
             /\ lo \in Channels /\ hi \in Channels /\ Framed(h, lo, hi)
             /\ h[hi] >= 220 /\ 10 * h[lo] <= 7 * h[hi]
<1>1. t \in 0 .. 11
  BY DEF TrackIds, NumTracks
<1>2. t = 0 => P(Hue(t), 3, 1)
  BY DEF Hue, TrackColour, Brightness, Framed, Channels
<1>3. t = 1 => P(Hue(t), 3, 1)
  BY DEF Hue, TrackColour, Brightness, Framed, Channels
<1>4. t = 2 => P(Hue(t), 3, 1)
  BY DEF Hue, TrackColour, Brightness, Framed, Channels
<1>5. t = 3 => P(Hue(t), 1, 2)
  BY DEF Hue, TrackColour, Brightness, Framed, Channels
<1>6. t = 4 => P(Hue(t), 1, 2)
  BY DEF Hue, TrackColour, Brightness, Framed, Channels
<1>7. t = 5 => P(Hue(t), 1, 3)
  BY DEF Hue, TrackColour, Brightness, Framed, Channels
<1>8. t = 6 => P(Hue(t), 2, 3)
  BY DEF Hue, TrackColour, Brightness, Framed, Channels
<1>9. t = 7 => P(Hue(t), 2, 1)
  BY DEF Hue, TrackColour, Brightness, Framed, Channels
<1>10. t = 8 => P(Hue(t), 3, 1)
  BY DEF Hue, TrackColour, Brightness, Framed, Channels
<1>11. t = 9 => P(Hue(t), 1, 2)
  BY DEF Hue, TrackColour, Brightness, Framed, Channels
<1>12. t = 10 => P(Hue(t), 1, 3)
  BY DEF Hue, TrackColour, Brightness, Framed, Channels
<1>13. t = 11 => P(Hue(t), 2, 3)
  BY DEF Hue, TrackColour, Brightness, Framed, Channels
<1> HIDE DEF P
<1>14. \E lo, hi : P(Hue(t), lo, hi)
  BY <1>1, <1>2, <1>3, <1>4, <1>5, <1>6, <1>7, <1>8, <1>9, <1>10, <1>11, <1>12, <1>13
<1> QED
  BY <1>14 DEF P

(* A channel scaled by a factor of at most one is in its range, rises with  *)
(* the channel and with the factor, and is of some size if they are.        *)
LEMMA ChannelScaled ==
  ASSUME NEW x \in Nat, NEW n \in Nat, NEW d \in Nat \ {0}, n <= d
  PROVE  /\ (x * n) \div d \in 0 .. x
         /\ \A y \in Nat : x <= y => (x * n) \div d <= (y * n) \div d
         /\ \A k \in 0 .. n : (x * k) \div d <= (x * n) \div d
         /\ \A z \in Nat : z * d <= x * n => z <= (x * n) \div d
<1> DEFINE q == (x * n) \div d
<1>1. x * n \in Nat /\ x * n <= x * d
  OBVIOUS
<1>2. q \in Nat /\ d * q <= x * n /\ x * n < d * q + d
  BY <1>1, Quotient
<1>3. q <= x
  <2> HIDE DEF q
  <2>1. d * q <= d * x
    BY <1>1, <1>2
  <2> QED
    BY <1>2, <2>1
<1>4. ASSUME NEW y \in Nat, x <= y PROVE q <= (y * n) \div d
  <2>1. y * n \in Nat /\ x * n <= y * n
    BY <1>4
  <2> QED
    BY <1>1, <2>1, QuotientRises
<1>5. ASSUME NEW k \in 0 .. n PROVE (x * k) \div d <= q
  <2>1. x * k \in Nat /\ x * k <= x * n
    OBVIOUS
  <2> QED
    BY <1>1, <2>1, QuotientRises
<1>6. ASSUME NEW z \in Nat, z * d <= x * n PROVE z <= q
  <2> HIDE DEF q
  <2>1. z * d < (q + 1) * d
    BY <1>2, <1>6
  <2>2. z < q + 1
    BY <1>2, <2>1
  <2> QED
    BY <1>2, <2>2
<1> QED
  BY <1>2, <1>3, <1>4, <1>5, <1>6

(* A channel whitened by w 2400ths, which is 35 to 60 %.                    *)
Whitened(x, w) == x + ((255 - x) * w) \div 2400

(* It is no darker, still a byte, moves towards white by at most three      *)
(* fifths of the way, and by the weight up to what is cut.                  *)
LEMMA ChannelWhitened ==
  ASSUME NEW x \in Nat, x <= 255, NEW w \in Nat, 840 <= w, w <= 1440
  PROVE  /\ Whitened(x, w) \in Nat /\ x <= Whitened(x, w) /\ Whitened(x, w) <= 255
         /\ 5 * Whitened(x, w) <= 765 + 2 * x
         /\ 2400 * (Whitened(x, w) - x) <= (255 - x) * w
         /\ (255 - x) * w < 2400 * (Whitened(x, w) - x) + 2400
<1> DEFINE q == ((255 - x) * w) \div 2400
<1>1. (255 - x) * w \in Nat /\ (255 - x) * w <= 1440 * (255 - x)
  OBVIOUS
<1>2. q \in Nat /\ 2400 * q <= (255 - x) * w /\ (255 - x) * w < 2400 * q + 2400
  BY <1>1, Quotient
<1> HIDE DEF q
<1>3. Whitened(x, w) = x + q
  BY DEF Whitened, q
<1> QED
  BY <1>1, <1>2, <1>3

(* Whitening keeps the order of two channels.                               *)
LEMMA WhitenedRises ==
  ASSUME NEW x \in Nat, NEW y \in Nat, x <= y, y <= 255, NEW w \in Nat, 840 <= w, w <= 1440
  PROVE  Whitened(x, w) <= Whitened(y, w)
<1> DEFINE a == Whitened(x, w)
           b == Whitened(y, w)
           p == (255 - x) * w
           q == (255 - y) * w
<1>1. x <= 255
  OBVIOUS
<1>2. a \in Nat /\ 2400 * (a - x) <= p
  BY <1>1, ChannelWhitened
<1>3. b \in Nat /\ q < 2400 * (b - y) + 2400
  BY ChannelWhitened
<1>4. p \in Int /\ q \in Int /\ p <= q + 2400 * (y - x)
  <2>1. p = q + (y - x) * w
    OBVIOUS
  <2>2. (y - x) * w <= 2400 * (y - x)
    OBVIOUS
  <2> QED
    BY <2>1, <2>2
<1> HIDE DEF a, b, p, q
<1>5. a <= b
  BY <1>2, <1>3, <1>4
<1> QED
  BY <1>5 DEF a, b

(* What is whitened stays whiter when it is scaled: of a colour whose least *)
(* channel is well below its greatest, down to a quarter.                   *)
LEMMA WhiterScaled ==
  ASSUME NEW l \in Nat, NEW g \in Nat, l <= g, 55 <= g, g <= 255, 10 * l <= 7 * g + 6,
         NEW w \in Nat, 840 <= w, w <= 1440,
         NEW n \in Nat \ {0}, NEW d \in Nat \ {0}, d <= 4 * n
  PROVE  ((Whitened(l, w) * n) \div d) * ((g * n) \div d)
           > ((l * n) \div d) * ((Whitened(g, w) * n) \div d)
<1> DEFINE a == Whitened(l, w)
           b == Whitened(g, w)
<1>1. /\ a \in Nat /\ b \in Nat /\ l <= a /\ a <= 255 /\ g <= b /\ b <= 255
      /\ 5 * a <= 765 + 2 * l
      /\ (255 - l) * w < 2400 * (a - l) + 2400
      /\ 2400 * (b - g) <= (255 - g) * w
  <2>1. l <= 255
    OBVIOUS
  <2>2. /\ a \in Nat /\ l <= a /\ a <= 255 /\ 5 * a <= 765 + 2 * l
        /\ (255 - l) * w < 2400 * (a - l) + 2400
    BY <2>1, ChannelWhitened
  <2>3. b \in Nat /\ g <= b /\ b <= 255 /\ 2400 * (b - g) <= (255 - g) * w
    BY ChannelWhitened
  <2> QED
    BY <2>2, <2>3
<1> HIDE DEF a, b
<1> DEFINE x == (a * n) \div d
           y == (g * n) \div d
           z == (l * n) \div d
           u == (b * n) \div d
<1>2. a * g - l * b >= 4 * (a + g)
  <2>1. g * ((255 - l) * w) - l * ((255 - g) * w) = 255 * (w * (g - l))
    OBVIOUS
  <2>2. w * (g - l) >= 840 * (g - l)
    OBVIOUS
  <2>3. g * ((255 - l) * w) <= g * (2400 * (a - l) + 2399)
    BY <1>1
  <2>4. l * (2400 * (b - g)) <= l * ((255 - g) * w)
    BY <1>1
  <2>5. g * (2400 * (a - l) + 2399) - l * (2400 * (b - g)) = 2400 * (a * g - l * b) + 2399 * g
    BY <1>1
  <2>6. a * g - l * b \in Int /\ w * (g - l) \in Int
    BY <1>1
  <2>7. 2400 * (a * g - l * b) + 2399 * g >= 255 * (840 * (g - l))
    <3> DEFINE p == g * ((255 - l) * w)
               q == l * ((255 - g) * w)
               r == w * (g - l)
               s == g * (2400 * (a - l) + 2399)
               o == l * (2400 * (b - g))
               v == a * g - l * b
    <3>1. p \in Int /\ q \in Int /\ r \in Int /\ s \in Int /\ o \in Int /\ v \in Int
      BY <1>1
    <3> HIDE DEF p, q, r, s, o, v
    <3>2. s - o >= 255 * r
      BY <2>1, <2>3, <2>4, <3>1 DEF p, q, r, s, o
    <3>3. 2400 * v + 2399 * g >= 255 * r
      BY <2>5, <3>1, <3>2 DEF s, o, v
    <3>4. r >= 840 * (g - l)
      BY <2>2 DEF r
    <3> QED
      BY <3>1, <3>3, <3>4 DEF v
  <2> DEFINE v == a * g - l * b
  <2> HIDE DEF v
  <2>8. v >= 4 * (a + g)
    BY <1>1, <2>6, <2>7 DEF v
  <2> QED
    BY <2>8 DEF v
<1>3. /\ x \in Nat /\ y \in Nat /\ z \in Nat /\ u \in Nat
      /\ d * x >= a * n - d + 1 /\ d * y >= g * n - d + 1
      /\ d * z <= l * n /\ d * u <= b * n
  <2>1. a * n \in Nat /\ g * n \in Nat /\ l * n \in Nat /\ b * n \in Nat
    BY <1>1
  <2>2. x \in Nat /\ d * x <= a * n /\ a * n < d * x + d
    <3> DEFINE t == a * n
    <3>1. t \in Nat
      BY <2>1
    <3> HIDE DEF t
    <3>2. t \div d \in Nat /\ d * (t \div d) <= t /\ t < d * (t \div d) + d
      BY <3>1, Quotient
    <3> QED
      BY <3>2 DEF t
  <2>3. y \in Nat /\ d * y <= g * n /\ g * n < d * y + d
    BY <2>1, Quotient
  <2>4. z \in Nat /\ d * z <= l * n
    BY <2>1, Quotient
  <2>5. u \in Nat /\ d * u <= b * n
    BY <2>1, Quotient
  <2> HIDE DEF x, y, z, u
  <2>6. d * x >= a * n - d + 1 /\ d * y >= g * n - d + 1
    BY <2>1, <2>2, <2>3
  <2> QED
    BY <2>2, <2>3, <2>4, <2>5, <2>6
<1> HIDE DEF x, y, z, u
<1>4. (d * x) * (d * y) >= (a * n - d + 1) * (g * n - d + 1)
  <2>1. a * n - d + 1 >= 0 /\ g * n - d + 1 >= 0
    <3>1. a >= 4
      BY <1>1
    <3>2. a * n >= 4 * n /\ g * n >= 4 * n
      BY <1>1, <3>1
    <3> QED
      BY <3>2, <1>1
  <2> DEFINE p == d * x
             q == d * y
             r == a * n - d + 1
             s == g * n - d + 1
  <2>2. p \in Int /\ q \in Int /\ r \in Int /\ s \in Int /\ p >= r /\ q >= s /\ r >= 0 /\ s >= 0
    BY <1>1, <1>3, <2>1
  <2> HIDE DEF p, q, r, s
  <2>3. p * q >= r * s
    BY <2>2
  <2> QED
    BY <2>3 DEF p, q, r, s
<1>5. (d * z) * (d * u) <= (l * n) * (b * n)
  <2> DEFINE p == d * z
             q == d * u
             r == l * n
             s == b * n
  <2>1. p \in Nat /\ q \in Nat /\ r \in Nat /\ s \in Nat /\ p <= r /\ q <= s
    BY <1>1, <1>3
  <2> HIDE DEF p, q, r, s
  <2>2. p * q <= r * s
    BY <2>1
  <2> QED
    BY <2>2 DEF p, q, r, s
<1>6. (a * n - d + 1) * (g * n - d + 1) > (l * n) * (b * n)
  <2>1. (a * n - d + 1) * (g * n - d + 1)
          = (a * g) * (n * n) - (d - 1) * (n * (a + g)) + (d - 1) * (d - 1)
    BY <1>1
  <2>2. (l * n) * (b * n) = (l * b) * (n * n)
    BY <1>1
  <2>3. (a * g) * (n * n) - (l * b) * (n * n) >= (4 * (a + g)) * (n * n)
    <3> DEFINE v == a * g
               r == l * b
               m == n * n
               k == 4 * (a + g)
    <3>1. v \in Int /\ r \in Int /\ m \in Nat /\ k \in Int /\ v - r >= k
      BY <1>1, <1>2
    <3> HIDE DEF v, r, m, k
    <3>2. v * m - r * m = (v - r) * m /\ (v - r) * m >= k * m
      BY <3>1
    <3> QED
      BY <3>2 DEF v, r, m, k
  <2>4. (d - 1) * (n * (a + g)) < (4 * (a + g)) * (n * n)
    <3> DEFINE m == n * (a + g)
    <3>1. m \in Nat /\ m > 0
      BY <1>1
    <3>2. (4 * (a + g)) * (n * n) = (4 * n) * m
      BY <1>1
    <3> HIDE DEF m
    <3>3. (d - 1) * m < (4 * n) * m
      BY <3>1
    <3> QED
      BY <3>2, <3>3 DEF m
  <2>5. (d - 1) * (d - 1) >= 0
    OBVIOUS
  <2> DEFINE i == (a * g) * (n * n)
             j == (l * b) * (n * n)
             k == (4 * (a + g)) * (n * n)
             m == (d - 1) * (n * (a + g))
             o == (d - 1) * (d - 1)
  <2>6. i \in Int /\ j \in Int /\ k \in Int /\ m \in Int /\ o \in Int
    BY <1>1
  <2> HIDE DEF i, j, k, m, o
  <2>7. i - m + o > j
    BY <2>3, <2>4, <2>5, <2>6 DEF i, j, k, m, o
  <2> QED
    BY <2>1, <2>2, <2>7 DEF i, j, m, o
<1>7. (d * d) * (x * y) > (d * d) * (z * u)
  <2>1. (d * d) * (x * y) = (d * x) * (d * y) /\ (d * d) * (z * u) = (d * z) * (d * u)
    BY <1>3
  <2> DEFINE p == (d * x) * (d * y)
             q == (d * z) * (d * u)
             r == (a * n - d + 1) * (g * n - d + 1)
             s == (l * n) * (b * n)
  <2>2. p \in Int /\ q \in Int /\ r \in Int /\ s \in Int
    BY <1>1, <1>3
  <2> HIDE DEF p, q, r, s
  <2>3. p > q
    BY <1>4, <1>5, <1>6, <2>2 DEF p, q, r, s
  <2> QED
    BY <2>1, <2>3 DEF p, q
<1>8. x * y > z * u
  <2> DEFINE m == d * d
             p == x * y
             q == z * u
  <2>1. m \in Nat /\ m > 0 /\ p \in Int /\ q \in Int /\ m * p > m * q
    BY <1>3, <1>7
  <2> HIDE DEF m, p, q
  <2>2. p > q
    BY <2>1
  <2> QED
    BY <2>2 DEF p, q
<1> QED
  BY <1>8 DEF x, y, z, u, a, b

-----------------------------------------------------------------------------
(* The lights of a scene.                                                   *)
Steps == [active : BOOLEAN, velocity : 0 .. 127, locked : BOOLEAN]

Scenes ==
  [track : TrackIds, steps : [StepKeys -> Steps], playing : BOOLEAN, playhead : Nat,
   muted : SUBSET TrackIds, content : SUBSET TrackIds, shift : BOOLEAN, external : BOOLEAN,
   now : Nat]

(* A channel of a hue at a velocity.                                        *)
Shade(x, v) == (x * (127 + 3 * v)) \div 508

(* It is no more than the hue's, and its quotient.                          *)
LEMMA ShadeFacts ==
  ASSUME NEW x \in Nat, NEW v \in Nat, v <= 127
  PROVE  /\ Shade(x, v) \in Nat /\ Shade(x, v) <= x
         /\ 508 * Shade(x, v) <= x * (127 + 3 * v)
         /\ x * (127 + 3 * v) < 508 * Shade(x, v) + 508
<1> DEFINE k == 127 + 3 * v
           q == (x * k) \div 508
<1>1. x * k \in Nat /\ x * k <= 508 * x
  <2>1. k \in Nat /\ k <= 508
    OBVIOUS
  <2> HIDE DEF k
  <2> QED
    BY <2>1
<1>2. q \in Nat /\ 508 * q <= x * k /\ x * k < 508 * q + 508
  BY <1>1, Quotient
<1> HIDE DEF q
<1>3. q <= x
  BY <1>1, <1>2
<1> QED
  BY <1>2, <1>3 DEF Shade, q

(* It rises with the hue and with the velocity.                             *)
LEMMA ShadeRises ==
  ASSUME NEW x \in Nat, NEW y \in Nat, x <= y, NEW u \in Nat, NEW v \in Nat, u <= v, v <= 127
  PROVE  Shade(x, u) <= Shade(y, v)
<1> DEFINE k == 127 + 3 * u
           m == 127 + 3 * v
<1>1. k \in Nat /\ m \in Nat /\ k <= m
  OBVIOUS
<1> HIDE DEF k, m
<1>2. x * k \in Nat /\ y * m \in Nat /\ x * k <= y * m
  <2>1. x * k <= y * k /\ y * k <= y * m
    BY <1>1
  <2> QED
    BY <1>1, <2>1
<1>3. (x * k) \div 508 <= (y * m) \div 508
  BY <1>2, QuotientRises
<1> QED
  BY <1>3 DEF Shade, k, m

(* The greatest channel of a hue is seen at every velocity.                 *)
LEMMA ShadeVisible ==
  ASSUME NEW x \in Nat, 220 <= x, NEW v \in Nat, v <= 127
  PROVE  55 <= Shade(x, v)
<1>1. 220 * 127 <= x * (127 + 3 * v)
  <2>1. 220 * 127 <= x * 127 /\ x * 127 <= x * (127 + 3 * v)
    OBVIOUS
  <2> QED
    BY <2>1
<1>2. Shade(x, v) \in Nat /\ x * (127 + 3 * v) < 508 * Shade(x, v) + 508
  BY ShadeFacts
<1> QED
  BY <1>1, <1>2

(* A channel well below another stays so, but for what is cut.              *)
LEMMA ShadeKeepsHue ==
  ASSUME NEW x \in Nat, NEW y \in Nat, 10 * x <= 7 * y, NEW v \in Nat, v <= 127
  PROVE  10 * Shade(x, v) <= 7 * Shade(y, v) + 6
<1> DEFINE p == x * (127 + 3 * v)
           q == y * (127 + 3 * v)
<1>1. p \in Nat /\ q \in Nat /\ 10 * p <= 7 * q
  <2> DEFINE k == 127 + 3 * v
  <2>1. k \in Nat
    OBVIOUS
  <2> HIDE DEF k
  <2>2. x * k \in Nat /\ y * k \in Nat /\ 10 * (x * k) <= 7 * (y * k)
    <3>1. 10 * (x * k) = (10 * x) * k /\ 7 * (y * k) = (7 * y) * k
      BY <2>1
    <3>2. (10 * x) * k <= (7 * y) * k
      BY <2>1
    <3> QED
      BY <2>1, <3>1, <3>2
  <2> QED
    BY <2>2 DEF k
<1>2. Shade(x, v) \in Nat /\ 508 * Shade(x, v) <= p
  BY ShadeFacts
<1>3. Shade(y, v) \in Nat /\ q < 508 * Shade(y, v) + 508
  BY ShadeFacts
<1> HIDE DEF p, q
<1> QED
  BY <1>1, <1>2, <1>3

(* The pulse of a locked step's light, and the weight of its white.         *)
LEMMA PulseRange ==
  ASSUME NEW now \in Nat
  PROVE  Pulse(now) \in Nat /\ Pulse(now) <= 600
<1> DEFINE p == now % 1200
<1>1. p \in Nat /\ p < 1200
  OBVIOUS
<1> HIDE DEF p
<1>2. Pulse(now) = IF p < 600 THEN p ELSE 1200 - p
  BY DEF Pulse, p
<1> QED
  BY <1>1, <1>2

(* By how many 2400ths a locked step is whitened.                           *)
Weight(s) == 840 + Pulse(s.now)

(* From 35 to 60 %.                                                         *)
LEMMA WeightRange ==
  ASSUME NEW s \in Scenes
  PROVE  Weight(s) \in Nat /\ 840 <= Weight(s) /\ Weight(s) <= 1440
<1>1. s.now \in Nat
  BY DEF Scenes
<1> QED
  BY <1>1, PulseRange DEF Weight

(* An active step's light, channel by channel.                              *)
LEMMA LitChannels ==
  ASSUME NEW s, NEW st, NEW i \in Channels
  PROVE  Lit(s, st)[i] = IF st.locked THEN Whitened(Shade(Hue(s.track)[i], st.velocity), Weight(s))
                         ELSE Shade(Hue(s.track)[i], st.velocity)
<1>1. i \in 1 .. 3
  BY DEF Channels
<1>2. ScaleRgb(Hue(s.track), 127 + 3 * st.velocity, 4 * 127)[i] = Shade(Hue(s.track)[i], st.velocity)
  BY <1>1 DEF ScaleRgb, Shade
<1> QED
  BY <1>1, <1>2 DEF Lit, Whiten, Whitened, Weight

(* A channel of a colour is a byte.                                         *)
LEMMA ChannelRange ==
  ASSUME NEW c \in Colours, NEW i \in Channels
  PROVE  c[i] \in Nat /\ c[i] <= 255
BY DEF Colours

(* And the brightness of a colour three of them.                            *)
LEMMA BrightnessRange ==
  ASSUME NEW c \in Colours
  PROVE  Brightness(c) \in Nat /\ Brightness(c) <= 765
<1>1. /\ c[1] \in Nat /\ c[1] <= 255 /\ c[2] \in Nat /\ c[2] <= 255
      /\ c[3] \in Nat /\ c[3] <= 255
  BY ChannelRange DEF Channels
<1> QED
  BY <1>1 DEF Brightness

(* The hue of a track, as far as the rules go.                              *)
Hued(t, lo, hi) ==
  /\ lo \in Channels /\ hi \in Channels /\ Framed(Hue(t), lo, hi)
  /\ 220 <= Hue(t)[hi] /\ 10 * Hue(t)[lo] <= 7 * Hue(t)[hi]

(* Every track has such a hue.                                              *)
LEMMA HueOf ==
  ASSUME NEW s \in Scenes
  PROVE  /\ \A i \in Channels : Hue(s.track)[i] \in Nat /\ Hue(s.track)[i] <= 255
         /\ \E lo, hi : Hued(s.track, lo, hi)
<1>1. s.track \in TrackIds
  BY DEF Scenes
<1>2. Hue(s.track) \in [Channels -> 20 .. 255]
  BY <1>1, HueFacts
<1>3. \E lo, hi : Hued(s.track, lo, hi)
  BY <1>1, HueFacts DEF Hued
<1> QED
  BY <1>2, <1>3

(* A step of a scene.                                                       *)
LEMMA StepRange ==
  ASSUME NEW s \in Scenes, NEW i \in StepKeys
  PROVE  /\ s.steps[i].velocity \in Nat /\ s.steps[i].velocity <= 127
         /\ s.steps[i].locked \in BOOLEAN /\ s.steps[i].active \in BOOLEAN
<1>1. s.steps[i] \in Steps
  BY DEF Scenes
<1> QED
  BY <1>1 DEF Steps

(* An active step's light: its least and greatest channel are the hue's, it *)
(* is seen, and it is not white.                                            *)
LEMMA LitFacts ==
  ASSUME NEW s \in Scenes, NEW k \in StepKeys
  PROVE  LET c == Lit(s, s.steps[k])
         IN /\ \A i \in Channels : c[i] \in Nat /\ c[i] <= 255
            /\ \A lo, hi : Hued(s.track, lo, hi) =>
                 Framed(c, lo, hi) /\ 55 <= c[hi] /\ c[lo] <= 224
<1> DEFINE st == s.steps[k]
           c == Lit(s, st)
           w == Weight(s)
           v == st.velocity
           h(i) == Hue(s.track)[i]
           x(i) == Shade(h(i), v)
<1>1. v \in Nat /\ v <= 127 /\ st.locked \in BOOLEAN
  BY StepRange
<1>2. w \in Nat /\ 840 <= w /\ w <= 1440
  BY WeightRange
<1>3. \A i \in Channels : h(i) \in Nat /\ h(i) <= 255
  BY HueOf
<1>4. \A i \in Channels : c[i] = IF st.locked THEN Whitened(x(i), w) ELSE x(i)
  BY LitChannels
<1> HIDE DEF st, c, w, v, h
<1>5. ASSUME NEW i \in Channels
      PROVE  x(i) \in Nat /\ x(i) <= h(i) /\ x(i) <= 255
  <2>1. h(i) \in Nat /\ h(i) <= 255
    BY <1>3
  <2> DEFINE y == h(i)
  <2> HIDE DEF y
  <2>2. Shade(y, v) \in Nat /\ Shade(y, v) <= y
    <3>1. y \in Nat
      BY <2>1 DEF y
    <3> QED
      BY <1>1, <3>1, ShadeFacts
  <2> QED
    BY <2>1, <2>2 DEF y
<1> HIDE DEF x
<1>6. ASSUME NEW i \in Channels
      PROVE  c[i] \in Nat /\ x(i) <= c[i] /\ c[i] <= 255 /\ 5 * c[i] <= 765 + 2 * x(i)
  <2>1. x(i) \in Nat /\ x(i) <= 255
    BY <1>5
  <2>2. /\ Whitened(x(i), w) \in Nat /\ x(i) <= Whitened(x(i), w) /\ Whitened(x(i), w) <= 255
        /\ 5 * Whitened(x(i), w) <= 765 + 2 * x(i)
    BY <1>2, <2>1, ChannelWhitened
  <2> QED
    BY <1>4, <2>1, <2>2
<1>7. ASSUME NEW i \in Channels, NEW j \in Channels, h(i) <= h(j)
      PROVE  c[i] <= c[j]
  <2>1. x(i) <= x(j)
    BY <1>1, <1>3, <1>7, ShadeRises DEF x
  <2>2. Whitened(x(i), w) <= Whitened(x(j), w)
    BY <1>2, <1>5, <2>1, WhitenedRises
  <2> QED
    BY <1>4, <2>1, <2>2
<1>8. ASSUME NEW lo, NEW hi, Hued(s.track, lo, hi)
      PROVE  Framed(c, lo, hi) /\ 55 <= c[hi] /\ c[lo] <= 224
  <2>1. /\ lo \in Channels /\ hi \in Channels
        /\ \A i \in Channels : h(lo) <= h(i) /\ h(i) <= h(hi)
        /\ 220 <= h(hi) /\ 10 * h(lo) <= 7 * h(hi)
    BY <1>8 DEF Hued, Framed, h
  <2>2. Framed(c, lo, hi)
    BY <1>7, <2>1 DEF Framed
  <2>3. 55 <= x(hi)
    BY <1>1, <1>3, <2>1, ShadeVisible DEF x
  <2>4. 55 <= c[hi]
    BY <1>5, <1>6, <2>1, <2>3
  <2>5. h(lo) <= 178
    BY <1>3, <2>1
  <2>6. c[lo] <= 224
    BY <1>3, <1>5, <1>6, <2>1, <2>5
  <2> QED
    BY <2>2, <2>4, <2>6
<1> QED
  BY <1>6, <1>8 DEF c, st

(* A track's key: dimmer unless it is selected, and never red alone unless  *)
(* it is muted.                                                             *)
LEMMA TrackKeyFacts ==
  ASSUME NEW s \in Scenes, NEW t \in TrackIds
  PROVE  LET c == TrackKey(s, t)
         IN /\ \A i \in Channels : c[i] \in Nat /\ c[i] <= 255
            /\ t \in s.muted => c[1] = 255 /\ c[2] = 0 /\ c[3] = 0
            /\ t \notin s.muted => 4 <= c[2]
            /\ t \notin s.muted /\ t = s.track => 325 <= Brightness(c)
            /\ t # s.track \/ t \in s.muted => Brightness(c) <= 255
<1> DEFINE c == TrackKey(s, t)
           h(i) == Hue(t)[i]
           k == IF t = s.track THEN 100 ELSE IF t \in s.content THEN 35 ELSE 10
<1>1. CASE t \in s.muted
  <2>1. c[1] = 255 /\ c[2] = 0 /\ c[3] = 0
    BY <1>1 DEF TrackKey, Red
  <2> HIDE DEF c
  <2>2. \A i \in Channels : c[i] = 255 \/ c[i] = 0
    BY <2>1 DEF Channels
  <2>3. Brightness(c) = 255
    BY <2>1 DEF Brightness
  <2> QED
    BY <1>1, <2>1, <2>2, <2>3 DEF c
<1>2. CASE t \notin s.muted
  <2>1. /\ \A i \in Channels : h(i) \in Nat /\ h(i) <= 255
        /\ 325 <= h(1) + h(2) + h(3) /\ h(1) + h(2) + h(3) <= 660 /\ 40 <= h(2)
    <3>1. /\ Hue(t) \in [Channels -> 20 .. 255]
          /\ Brightness(Hue(t)) \in 325 .. 660
          /\ Hue(t)[2] >= 40
      BY HueFacts
    <3> QED
      BY <3>1 DEF Brightness, Channels
  <2>2. \A i \in Channels : c[i] = (h(i) * k) \div 100
    BY <1>2 DEF TrackKey, ScaleRgb, Channels
  <2>3. k \in {100, 35, 10} /\ (t = s.track <=> k = 100)
    OBVIOUS
  <2> HIDE DEF c, h, k
  <2>4. ASSUME NEW i \in Channels
        PROVE  /\ c[i] \in Nat /\ c[i] <= 255
               /\ 100 * c[i] <= h(i) * k /\ h(i) * k < 100 * c[i] + 100
    <3>1. h(i) \in Nat /\ h(i) <= 255
      BY <2>1
    <3>2. c[i] = (h(i) * k) \div 100
      BY <2>2
    <3>3. CASE k = 100
      BY <3>1, <3>2, <3>3
    <3>4. CASE k = 35
      BY <3>1, <3>2, <3>4
    <3>5. CASE k = 10
      BY <3>1, <3>2, <3>5
    <3> QED
      BY <2>3, <3>3, <3>4, <3>5
  <2>5. 4 <= c[2]
    <3>1. /\ h(2) \in Nat /\ c[2] \in Nat /\ h(2) * k < 100 * c[2] + 100 /\ h(2) * k \in Nat
      BY <2>1, <2>3, <2>4 DEF Channels
    <3>2. h(2) * k >= 400
      BY <2>1, <2>3, <3>1
    <3> QED
      BY <3>1, <3>2
  <2>6. /\ c[1] \in Nat /\ c[2] \in Nat /\ c[3] \in Nat
        /\ h(1) \in Nat /\ h(2) \in Nat /\ h(3) \in Nat
    BY <2>1, <2>4 DEF Channels
  <2>7. t = s.track => 325 <= c[1] + c[2] + c[3]
    <3> SUFFICES ASSUME t = s.track PROVE 325 <= c[1] + c[2] + c[3]
      OBVIOUS
    <3>1. k = 100
      BY <2>3
    <3>2. c[1] = h(1) /\ c[2] = h(2) /\ c[3] = h(3)
      BY <2>2, <2>6, <3>1 DEF Channels
    <3> QED
      BY <2>1, <3>2
  <2>8. t # s.track => c[1] + c[2] + c[3] <= 255
    <3> SUFFICES ASSUME t # s.track PROVE c[1] + c[2] + c[3] <= 255
      OBVIOUS
    <3>1. ASSUME NEW i \in Channels PROVE 100 * c[i] <= 35 * h(i)
      <4>1. c[i] \in Nat /\ h(i) \in Nat /\ 100 * c[i] <= h(i) * k
        BY <2>1, <2>4
      <4>2. CASE k = 35
        BY <4>1, <4>2
      <4>3. CASE k = 10
        <5>1. 100 * c[i] <= 10 * h(i)
          BY <4>1, <4>3
        <5> QED
          BY <4>1, <5>1
      <4> QED
        BY <2>3, <4>2, <4>3
    <3>2. 100 * c[1] <= 35 * h(1) /\ 100 * c[2] <= 35 * h(2) /\ 100 * c[3] <= 35 * h(3)
      BY <3>1 DEF Channels
    <3> QED
      BY <2>1, <2>6, <3>2
  <2>9. /\ t = s.track => 325 <= Brightness(c)
        /\ t # s.track => Brightness(c) <= 255
    BY <2>7, <2>8 DEF Brightness
  <2>10. \A i \in Channels : c[i] \in Nat /\ c[i] <= 255
    BY <2>4
  <2> QED
    BY <1>2, <2>5, <2>9, <2>10 DEF c
<1> QED
  BY <1>1, <1>2

(* The frame before it is scaled, light by light.                           *)
LEMMA PickedLights ==
  ASSUME NEW s \in Scenes
  PROVE  /\ Picked(s) \in Frames
         /\ \A k \in StepKeys : Picked(s)[k] = StepKey(s, k)
         /\ \A t \in TrackIds : Picked(s)[TrackLed(t)] = TrackKey(s, t)
<1>1. /\ Lights = 0 .. 33 /\ NumLeds = 34 /\ NumStepKeys = 16 /\ NumTracks = 12
      /\ StepKeys = 0 .. 15 /\ TrackIds = 0 .. 11
  BY DEF Lights, NumLeds, NumStepKeys, NumTracks, NumTransportKeys, StepKeys, TrackIds
<1>2. ASSUME NEW k \in StepKeys PROVE Picked(s)[k] = StepKey(s, k)
  BY <1>1 DEF Picked
<1>3. ASSUME NEW t \in TrackIds PROVE Picked(s)[TrackLed(t)] = TrackKey(s, t)
  <2>1. /\ 16 + t \in 0 .. 33 /\ ~(16 + t < 16) /\ 16 + t < 28 /\ (16 + t) - 16 = t
    BY <1>1
  <2> QED
    BY <1>1, <2>1 DEF Picked, TrackLed
<1>4. ASSUME NEW k \in StepKeys PROVE StepKey(s, k) \in Colours
  <2>1. Lit(s, s.steps[k]) \in Colours
    <3>1. \A i \in Channels : Lit(s, s.steps[k])[i] \in 0 .. 255
      BY LitFacts
    <3>2. Lit(s, s.steps[k]) = [i \in Channels |-> Lit(s, s.steps[k])[i]]
      BY DEF Lit, Whiten, ScaleRgb, Channels
    <3> HIDE DEF Channels
    <3> QED
      BY <3>1, <3>2 DEF Colours
  <2>2. White \in Colours /\ Dark \in Colours
    BY DEF White, Dark, Colours, Channels
  <2> QED
    BY <2>1, <2>2 DEF StepKey
<1>5. ASSUME NEW t \in TrackIds PROVE TrackKey(s, t) \in Colours
  <2>1. \A i \in Channels : TrackKey(s, t)[i] \in 0 .. 255
    BY TrackKeyFacts
  <2>2. TrackKey(s, t) = [i \in Channels |-> TrackKey(s, t)[i]]
    BY DEF TrackKey, Red, ScaleRgb, Channels
  <2> QED
    BY <2>1, <2>2 DEF Colours
<1>6. ASSUME NEW j \in 1 .. 6 PROVE TransportKeys(s)[j] \in Colours
  <2>1. /\ <<0, 255, 0>> \in Colours /\ <<0, 40, 0>> \in Colours /\ <<40, 0, 0>> \in Colours
        /\ White \in Colours /\ <<40, 40, 40>> \in Colours /\ <<0, 40, 60>> \in Colours
        /\ <<0, 120, 255>> \in Colours /\ <<40, 30, 0>> \in Colours
    BY DEF White, Colours, Channels
  <2>2. j = 1 \/ j = 2 \/ j = 3 \/ j = 4 \/ j = 5 \/ j = 6
    OBVIOUS
  <2> QED
    BY <2>1, <2>2 DEF TransportKeys
<1>7. Picked(s) \in Frames
  <2>1. ASSUME NEW i \in 0 .. 33 PROVE Picked(s)[i] \in Colours
    <3>1. CASE i < 16
      BY <1>1, <1>2, <1>4, <3>1
    <3>2. CASE ~(i < 16) /\ i < 28
      <4>1. i - 16 \in TrackIds
        BY <1>1, <3>2
      <4>2. Picked(s)[i] = TrackKey(s, i - 16)
        BY <1>1, <3>2 DEF Picked
      <4> QED
        BY <1>5, <4>1, <4>2
    <3>3. CASE ~(i < 16) /\ ~(i < 28)
      <4>1. i - 16 - 12 + 1 \in 1 .. 6
        BY <3>3
      <4>2. Picked(s)[i] = TransportKeys(s)[i - 16 - 12 + 1]
        BY <1>1, <3>3 DEF Picked
      <4> QED
        BY <1>6, <4>1, <4>2
    <3> QED
      BY <3>1, <3>2, <3>3
  <2>2. Picked(s) = [i \in 0 .. 33 |-> Picked(s)[i]]
    BY <1>1 DEF Picked
  <2> QED
    BY <1>1, <2>1, <2>2 DEF Frames
<1> QED
  BY <1>2, <1>3, <1>7

(* It never draws more than four times the budget: only one track is bright. *)
LEMMA PickedBudget ==
  ASSUME NEW s \in Scenes
  PROVE  Current(Picked(s)) \in Nat /\ Current(Picked(s)) <= 4 * Budget
<1> DEFINE leds == Picked(s)
           limit(n) == IF n <= 16 THEN 765 * n
                       ELSE IF n <= 28
                       THEN 12240 + 255 * (n - 16) + (IF s.track + 16 < n THEN 510 ELSE 0)
                       ELSE 15810 + 765 * (n - 28)
<1>1. PICK total \in [0 .. NumLeds -> Nat] :
        /\ total[0] = 0
        /\ \A n \in Lights : total[n + 1] = total[n] + Brightness(leds[n])
        /\ Current(leds) = total[NumLeds]
  BY PickedLights, Summed
<1>2. NumLeds = 34 /\ Lights = 0 .. 33 /\ TrackIds = 0 .. 11 /\ s.track \in 0 .. 11
  BY DEF Lights, NumLeds, NumStepKeys, NumTracks, NumTransportKeys, TrackIds, Scenes
<1>3. ASSUME NEW n \in Lights
      PROVE  /\ Brightness(leds[n]) \in Nat /\ Brightness(leds[n]) <= 765
             /\ 16 <= n /\ n < 28 /\ n # s.track + 16 => Brightness(leds[n]) <= 255
  <2>1. leds[n] \in Colours
    BY PickedLights DEF Frames
  <2>2. ASSUME 16 <= n, n < 28, n # s.track + 16 PROVE Brightness(leds[n]) <= 255
    <3>1. n - 16 \in TrackIds /\ n - 16 # s.track /\ TrackLed(n - 16) = n
      BY <1>2, <2>2 DEF TrackLed, NumStepKeys
    <3> QED
      BY <3>1, PickedLights, TrackKeyFacts
  <2> QED
    BY <2>1, <2>2, BrightnessRange
<1> HIDE DEF leds
<1> DEFINE Held == {n \in Nat : n <= 34 => total[n] <= limit(n)}
<1>4. 0 \in Held
  BY <1>1
<1>5. ASSUME NEW n \in Nat, n \in Held PROVE n + 1 \in Held
  <2> SUFFICES ASSUME n + 1 <= 34 PROVE total[n + 1] <= limit(n + 1)
    OBVIOUS
  <2> DEFINE a == total[n]
             b == total[n + 1]
             x == Brightness(leds[n])
             t == s.track
  <2>1. /\ a \in Nat /\ b \in Nat /\ x \in Nat /\ x <= 765 /\ b = a + x /\ a <= limit(n)
        /\ 16 <= n /\ n < 28 /\ n # t + 16 => x <= 255
    <3>1. n \in Lights /\ n \in 0 .. NumLeds /\ n + 1 \in 0 .. NumLeds
      BY <1>2
    <3>2. total[n] <= limit(n)
      BY <1>5
    <3> HIDE DEF limit
    <3> QED
      BY <1>1, <1>3, <3>1, <3>2
  <2>2. t \in Nat /\ t <= 11
    BY <1>2
  <2> HIDE DEF a, b, x, t
  <2>3. b <= IF n + 1 <= 16 THEN 765 * (n + 1)
             ELSE IF n + 1 <= 28
             THEN 12240 + 255 * (n + 1 - 16) + (IF t + 16 < n + 1 THEN 510 ELSE 0)
             ELSE 15810 + 765 * (n + 1 - 28)
    <3>1. CASE n < 16
      BY <2>1, <2>2, <3>1 DEF t
    <3>2. CASE 16 <= n /\ n < 28
      BY <2>1, <2>2, <3>2 DEF t
    <3>3. CASE 28 <= n
      BY <2>1, <2>2, <3>3 DEF t
    <3> QED
      BY <3>1, <3>2, <3>3
  <2> QED
    BY <2>3 DEF b, t
<1>6. total[34] \in Nat /\ total[34] <= limit(34)
  <2>1. 34 \in Held
    <3> HIDE DEF Held
    <3> QED
      BY <1>4, <1>5, Induction
  <2>2. 34 \in 0 .. NumLeds
    BY <1>2
  <2> QED
    BY <1>1, <2>1, <2>2
<1>7. limit(34) = 20400
  OBVIOUS
<1> HIDE DEF limit
<1> QED
  BY <1>1, <1>2, <1>6, <1>7 DEF Budget, leds

(* What WithinBudget makes of a frame that draws at most four times the     *)
(* budget: every channel times one factor of a quarter or more, within it.  *)
ScaledBy(fr, leds, n, d) ==
  /\ n \in Nat \ {0} /\ d \in Nat \ {0} /\ n <= d /\ d <= 4 * n
  /\ \A i \in Lights : \A ch \in Channels : fr[i][ch] = (leds[i][ch] * n) \div d

(* A frame of which every light is scaled.                                  *)
LEMMA ScaledFrame ==
  ASSUME NEW leds \in Frames, NEW n \in Nat \ {0}, NEW d \in Nat \ {0}, n <= d
  PROVE  LET fr == [i \in DOMAIN leds |-> ScaleRgb(leds[i], n, d)]
         IN /\ fr \in Frames
            /\ \A i \in Lights : \A ch \in Channels : fr[i][ch] = (leds[i][ch] * n) \div d
<1> DEFINE fr == [i \in DOMAIN leds |-> ScaleRgb(leds[i], n, d)]
<1>1. DOMAIN leds = Lights
  BY DEF Frames
<1>2. ASSUME NEW i \in Lights
      PROVE  /\ fr[i] = [ch \in Channels |-> (leds[i][ch] * n) \div d]
             /\ \A ch \in Channels : (leds[i][ch] * n) \div d \in 0 .. 255
  <2>1. fr[i] = [ch \in Channels |-> (leds[i][ch] * n) \div d]
    BY <1>1 DEF ScaleRgb, Channels
  <2>2. ASSUME NEW ch \in Channels PROVE (leds[i][ch] * n) \div d \in 0 .. 255
    <3> DEFINE x == leds[i][ch]
    <3>1. x \in Nat /\ x <= 255
      BY ChannelRange DEF Frames
    <3> HIDE DEF x
    <3>2. (x * n) \div d \in 0 .. x
      BY <3>1, ChannelScaled
    <3> DEFINE q == (x * n) \div d
    <3> HIDE DEF q
    <3>3. q \in 0 .. 255
      BY <3>1, <3>2 DEF q
    <3> QED
      BY <3>3 DEF q, x
  <2> QED
    BY <2>1, <2>2
<1>3. fr \in Frames
  <2>1. fr = [i \in Lights |-> fr[i]]
    BY <1>1
  <2> HIDE DEF fr
  <2>2. ASSUME NEW i \in Lights PROVE fr[i] \in Colours
    <3> DEFINE q(ch) == (leds[i][ch] * n) \div d
    <3>1. fr[i] = [ch \in Channels |-> q(ch)] /\ \A ch \in Channels : q(ch) \in 0 .. 255
      BY <1>2
    <3> HIDE DEF q
    <3> QED
      BY <3>1 DEF Colours
  <2> QED
    BY <2>1, <2>2 DEF Frames
<1>4. ASSUME NEW i \in Lights, NEW ch \in Channels
      PROVE  fr[i][ch] = (leds[i][ch] * n) \div d
  <2> DEFINE q(c) == (leds[i][c] * n) \div d
  <2>1. fr[i] = [c \in Channels |-> q(c)]
    BY <1>2
  <2> HIDE DEF q, fr
  <2>2. fr[i][ch] = q(ch)
    BY <2>1
  <2> QED
    BY <2>2 DEF q
<1> QED
  BY <1>3, <1>4

(* If every light is scaled by the same factor, so is what they draw.       *)
LEMMA ScaledCurrent ==
  ASSUME NEW leds \in Frames, NEW fr \in Frames, NEW n \in Nat, NEW d \in Nat \ {0},
         \A i \in Lights : \A ch \in Channels : fr[i][ch] = (leds[i][ch] * n) \div d
  PROVE  d * Current(fr) <= n * Current(leds)
<1>1. PICK f \in [0 .. NumLeds -> Nat] :
        /\ f[0] = 0 /\ \A i \in Lights : f[i + 1] = f[i] + Brightness(fr[i])
        /\ Current(fr) = f[NumLeds]
  BY Summed
<1>2. PICK g \in [0 .. NumLeds -> Nat] :
        /\ g[0] = 0 /\ \A i \in Lights : g[i + 1] = g[i] + Brightness(leds[i])
        /\ Current(leds) = g[NumLeds]
  BY Summed
<1>3. NumLeds = 34 /\ Lights = 0 .. 33
  BY DEF Lights, NumLeds, NumStepKeys, NumTracks, NumTransportKeys
<1>4. ASSUME NEW i \in Lights
      PROVE  /\ Brightness(fr[i]) \in Nat /\ Brightness(leds[i]) \in Nat
             /\ d * Brightness(fr[i]) <= n * Brightness(leds[i])
  <2>1. fr[i] \in Colours /\ leds[i] \in Colours
    BY DEF Frames
  <2>2. ASSUME NEW ch \in Channels
        PROVE  fr[i][ch] \in Nat /\ leds[i][ch] \in Nat /\ d * fr[i][ch] <= n * leds[i][ch]
    <3> DEFINE x == leds[i][ch]
               y == fr[i][ch]
               p == x * n
    <3>1. x \in Nat /\ y \in Nat /\ y = p \div d
      BY <2>1, ChannelRange
    <3> HIDE DEF x, y
    <3>2. p \in Nat /\ p = n * x
      BY <3>1
    <3> HIDE DEF p
    <3>3. d * (p \div d) <= p
      BY <3>2, Quotient
    <3>4. d * y <= n * x
      BY <3>1, <3>2, <3>3
    <3> QED
      BY <3>1, <3>4 DEF x, y
  <2> DEFINE a == fr[i][1]
             b == fr[i][2]
             c == fr[i][3]
             x == leds[i][1]
             y == leds[i][2]
             z == leds[i][3]
  <2>3. /\ a \in Nat /\ b \in Nat /\ c \in Nat /\ x \in Nat /\ y \in Nat /\ z \in Nat
        /\ d * a <= n * x /\ d * b <= n * y /\ d * c <= n * z
    BY <2>2 DEF Channels
  <2>4. Brightness(fr[i]) = a + b + c /\ Brightness(leds[i]) = x + y + z
    BY DEF Brightness
  <2> HIDE DEF a, b, c, x, y, z
  <2>5. d * (a + b + c) = d * a + d * b + d * c /\ n * (x + y + z) = n * x + n * y + n * z
    BY <2>3
  <2>6. d * (a + b + c) <= n * (x + y + z)
    <3> DEFINE A == d * a
               B == d * b
               C == d * c
               X == n * x
               Y == n * y
               Z == n * z
    <3>1. A \in Int /\ B \in Int /\ C \in Int /\ X \in Int /\ Y \in Int /\ Z \in Int
      BY <2>3
    <3> HIDE DEF A, B, C, X, Y, Z
    <3>2. A + B + C <= X + Y + Z
      BY <2>3, <3>1 DEF A, B, C, X, Y, Z
    <3> QED
      BY <2>5, <3>2 DEF A, B, C, X, Y, Z
  <2> QED
    BY <2>3, <2>4, <2>6
<1> DEFINE Held == {m \in Nat : m <= 34 => d * f[m] <= n * g[m]}
<1>5. 0 \in Held
  BY <1>1, <1>2
<1>6. ASSUME NEW m \in Nat, m \in Held PROVE m + 1 \in Held
  <2> SUFFICES ASSUME m + 1 <= 34 PROVE d * f[m + 1] <= n * g[m + 1]
    OBVIOUS
  <2> DEFINE a == f[m]
             x == g[m]
             b == Brightness(fr[m])
             y == Brightness(leds[m])
  <2>1. m \in Lights /\ m \in 0 .. NumLeds
    BY <1>3
  <2>2. /\ a \in Nat /\ x \in Nat /\ b \in Nat /\ y \in Nat
        /\ d * a <= n * x /\ d * b <= n * y
        /\ f[m + 1] = a + b /\ g[m + 1] = x + y
    BY <1>1, <1>2, <1>4, <1>6, <2>1
  <2> HIDE DEF a, b, x, y
  <2>3. d * (a + b) <= n * (x + y)
    <3> DEFINE A == d * a
               B == d * b
               X == n * x
               Y == n * y
    <3>1. /\ A \in Int /\ B \in Int /\ X \in Int /\ Y \in Int
          /\ d * (a + b) = A + B /\ n * (x + y) = X + Y
      BY <2>2
    <3> HIDE DEF A, B, X, Y
    <3>2. A + B <= X + Y
      BY <2>2, <3>1 DEF A, B, X, Y
    <3> QED
      BY <3>1, <3>2
  <2> QED
    BY <2>2, <2>3
<1>7. 34 \in Held
  <2> HIDE DEF Held
  <2> QED
    BY <1>5, <1>6, Induction
<1> QED
  BY <1>1, <1>2, <1>3, <1>7

(* The clamped frame is within the budget, and scaled.                      *)
LEMMA BudgetKept ==
  ASSUME NEW leds \in Frames, Current(leds) \in Nat, Current(leds) <= 4 * Budget
  PROVE  LET fr == WithinBudget(leds)
         IN /\ fr \in Frames /\ Current(fr) <= Budget
            /\ \E n, d : ScaledBy(fr, leds, n, d)
<1> DEFINE fr == WithinBudget(leds)
           total == Current(leds)
<1>1. Budget = 5100
  BY DEF Budget
<1>2. CASE total <= Budget
  <2>1. fr = leds
    BY <1>2 DEF WithinBudget
  <2>2. ScaledBy(leds, leds, 1, 1)
    <3>1. ASSUME NEW i \in Lights, NEW ch \in Channels
          PROVE  leds[i][ch] = (leds[i][ch] * 1) \div 1
      <4>1. leds[i][ch] \in Nat
        BY ChannelRange DEF Frames
      <4> QED
        BY <4>1
    <3> QED
      BY <3>1 DEF ScaledBy
  <2> QED
    BY <1>2, <2>1, <2>2
<1>3. CASE ~(total <= Budget)
  <2>1. total \in Nat \ {0} /\ Budget \in Nat \ {0} /\ Budget <= total /\ total <= 4 * Budget
    BY <1>1, <1>3
  <2>2. fr = [i \in DOMAIN leds |-> ScaleRgb(leds[i], Budget, total)]
    BY <1>3 DEF WithinBudget
  <2>3. /\ fr \in Frames
        /\ \A i \in Lights : \A ch \in Channels : fr[i][ch] = (leds[i][ch] * Budget) \div total
    BY <2>1, <2>2, ScaledFrame
  <2>4. ScaledBy(fr, leds, Budget, total)
    BY <2>1, <2>3 DEF ScaledBy
  <2>5. total * Current(fr) <= Budget * total
    BY <2>1, <2>3, ScaledCurrent
  <2>6. Current(fr) \in Nat
    BY <2>3, Summed, NumLeds \in 0 .. NumLeds DEF NumLeds, NumStepKeys, NumTracks, NumTransportKeys
  <2>7. Current(fr) <= Budget
    <3> DEFINE x == Current(fr)
    <3> HIDE DEF x, total
    <3>1. x \in Nat /\ total * x <= Budget * total
      BY <2>5, <2>6 DEF x
    <3>2. x <= Budget
      BY <2>1, <3>1
    <3> QED
      BY <3>2 DEF x
  <2> QED
    BY <2>3, <2>4, <2>7
<1> QED
  BY <1>2, <1>3

-----------------------------------------------------------------------------
(* What the rules rest on: scaled by a quarter or more, what is brighter by *)
(* four stays brighter.                                                     *)
LEMMA ScaleOrder ==
  ASSUME NEW n \in Nat \ {0}, NEW d \in Nat \ {0}, n <= d, d <= 4 * n,
         NEW x \in Nat, NEW y \in Nat
  PROVE  /\ (x * n) \div d \in Nat
         /\ x <= y => (x * n) \div d <= (y * n) \div d
         /\ x + 4 <= y => (x * n) \div d < (y * n) \div d
<1> DEFINE p == (x * n) \div d
           q == (y * n) \div d
<1>1. x * n \in Nat /\ y * n \in Nat
  OBVIOUS
<1>2. p \in Nat /\ d * p <= x * n
  BY <1>1, Quotient
<1>3. q \in Nat /\ y * n < d * q + d
  BY <1>1, Quotient
<1>4. ASSUME x <= y PROVE p <= q
  <2>1. x * n <= y * n
    BY <1>4
  <2> QED
    BY <1>1, <2>1, QuotientRises
<1>5. ASSUME x + 4 <= y PROVE p < q
  <2> HIDE DEF p, q
  <2>1. x * n + d <= y * n
    <3>1. (x + 4) * n <= y * n
      BY <1>5
    <3>2. (x + 4) * n = x * n + 4 * n
      OBVIOUS
    <3> QED
      BY <1>1, <3>1, <3>2
  <2>2. d * p < d * q
    <3> DEFINE a == d * p
               b == d * q
               u == x * n
               v == y * n
    <3>1. a \in Int /\ b \in Int /\ u \in Int /\ v \in Int
      BY <1>1, <1>2, <1>3
    <3> HIDE DEF a, b, u, v
    <3>2. a < b
      BY <1>2, <1>3, <2>1, <3>1 DEF a, b, u, v
    <3> QED
      BY <3>2 DEF a, b
  <2> QED
    BY <1>2, <1>3, <2>2
<1> QED
  BY <1>2, <1>4, <1>5

(* Where a colour's least and greatest channel are, its extremes are.       *)
LEMMA Extremes ==
  ASSUME NEW c \in Colours, NEW lo \in Channels, NEW hi \in Channels, Framed(c, lo, hi)
  PROVE  Smallest(c) = c[lo] /\ Greatest(c) = c[hi]
<1>1. /\ \A i \in Channels : c[i] \in Nat
      /\ c[lo] \in {c[1], c[2], c[3]} /\ c[hi] \in {c[1], c[2], c[3]}
      /\ \A x \in {c[1], c[2], c[3]} : x \in Nat /\ c[lo] <= x /\ x <= c[hi]
  BY ChannelRange DEF Framed, Channels
<1> DEFINE S == {c[1], c[2], c[3]}
<1> HIDE DEF S
<1>2. Max(S) = c[hi]
  BY <1>1 DEF Max, S
<1>3. Min(S) = c[lo]
  BY <1>1 DEF Min, S
<1> QED
  BY <1>2, <1>3 DEF Smallest, Greatest, S

(* The rendered frame of a scene.                                           *)
Rendered == scene \in Scenes /\ frame = Frame(scene)

(* The frame is the picked one scaled, and within the budget.               *)
LEMMA FrameScaled ==
  ASSUME Rendered
  PROVE  /\ frame \in Frames /\ Current(frame) <= Budget
         /\ \E n, d : ScaledBy(frame, Picked(scene), n, d)
BY PickedLights, PickedBudget, BudgetKept DEF Rendered, Frame

(* One channel of it.                                                       *)
LEMMA LightScaled ==
  ASSUME NEW n, NEW d, ScaledBy(frame, Picked(scene), n, d), Rendered,
         NEW i \in Lights, NEW k \in Channels
  PROVE  /\ n \in Nat \ {0} /\ d \in Nat \ {0} /\ n <= d /\ d <= 4 * n
         /\ frame[i][k] = (Picked(scene)[i][k] * n) \div d
         /\ Picked(scene)[i][k] \in Nat /\ Picked(scene)[i][k] <= 255
<1>1. Picked(scene)[i] \in Colours
  BY PickedLights DEF Rendered, Frames
<1> QED
  BY <1>1, ChannelRange DEF ScaledBy

(* Two channels compared: the order they were picked in is kept, strictly if *)
(* they were four apart.                                                    *)
LEMMA LightsCompare ==
  ASSUME Rendered, NEW i \in Lights, NEW j \in Lights, NEW k \in Channels, NEW m \in Channels
  PROVE  /\ frame[i][k] \in Nat
         /\ Picked(scene)[i][k] <= Picked(scene)[j][m] => frame[i][k] <= frame[j][m]
         /\ Picked(scene)[i][k] + 4 <= Picked(scene)[j][m] => frame[i][k] < frame[j][m]
         /\ Picked(scene)[i][k] = 0 => frame[i][k] = 0
         /\ 4 <= Picked(scene)[i][k] => 1 <= frame[i][k]
<1>1. PICK n, d : ScaledBy(frame, Picked(scene), n, d)
  BY FrameScaled
<1> DEFINE x == Picked(scene)[i][k]
           y == Picked(scene)[j][m]
<1>2. /\ n \in Nat \ {0} /\ d \in Nat \ {0} /\ n <= d /\ d <= 4 * n
      /\ frame[i][k] = (x * n) \div d /\ x \in Nat
  BY <1>1, LightScaled
<1>3. frame[j][m] = (y * n) \div d /\ y \in Nat
  BY <1>1, LightScaled
<1> HIDE DEF x, y
<1>4. /\ (x * n) \div d \in Nat
      /\ x <= y => (x * n) \div d <= (y * n) \div d
      /\ x + 4 <= y => (x * n) \div d < (y * n) \div d
  BY <1>2, <1>3, ScaleOrder
<1>5. (0 * n) \div d = 0
  BY <1>2
<1>6. 0 + 4 <= x => (0 * n) \div d < (x * n) \div d
  BY <1>2, ScaleOrder
<1> QED
  BY <1>2, <1>3, <1>4, <1>5, <1>6 DEF x, y

(* The step keys: who shows what.                                           *)
LEMMA StepLights ==
  ASSUME Rendered
  PROVE  /\ StepKeys \subseteq Lights
         /\ \A h \in Playhead : h \in StepKeys /\ Picked(scene)[h] = White
         /\ \A i \in StepKeys \ Playhead :
              Picked(scene)[i] = IF scene.steps[i].active THEN Lit(scene, scene.steps[i]) ELSE Dark
<1>1. StepKeys \subseteq Lights
  BY DEF StepKeys, Lights, NumLeds, NumStepKeys, NumTracks, NumTransportKeys
<1>2. \A k \in StepKeys : Picked(scene)[k] = StepKey(scene, k)
  BY PickedLights DEF Rendered
<1>3. ASSUME NEW h \in Playhead PROVE h \in StepKeys /\ Picked(scene)[h] = White
  <2>1. h \in StepKeys /\ scene.playing /\ h = scene.playhead
    BY DEF Playhead
  <2> QED
    BY <1>2, <2>1 DEF StepKey
<1>4. ASSUME NEW i \in StepKeys \ Playhead
      PROVE  Picked(scene)[i] = IF scene.steps[i].active THEN Lit(scene, scene.steps[i]) ELSE Dark
  <2>1. ~(scene.playing /\ i = scene.playhead) /\ i \in StepKeys
    BY DEF Playhead
  <2>2. scene.steps[i].active \in BOOLEAN
    BY <2>1, StepRange DEF Rendered
  <2> QED
    BY <1>2, <2>1, <2>2 DEF StepKey
<1> QED
  BY <1>1, <1>3, <1>4

(* The playhead is brightest.                                               *)
LEMMA PlayheadBrightest ==
  ASSUME Rendered, NEW h \in Playhead, NEW i \in StepKeys \ Playhead
  PROVE  Brightness(frame[h]) > Brightness(frame[i])
<1> DEFINE P == Picked(scene)
<1>1. /\ h \in Lights /\ i \in Lights /\ P[h] = White
      /\ P[i] = IF scene.steps[i].active THEN Lit(scene, scene.steps[i]) ELSE Dark
  BY StepLights
<1>2. \A k \in Channels : P[h][k] = 255
  BY <1>1 DEF White, Channels
<1>3. \E lo \in Channels : P[i][lo] <= 224
  <2>1. CASE scene.steps[i].active
    <3>1. PICK lo, hi : Hued(scene.track, lo, hi)
      BY HueOf DEF Rendered
    <3>2. scene \in Scenes /\ i \in StepKeys
      BY DEF Rendered
    <3>3. Lit(scene, scene.steps[i])[lo] <= 224
      BY <3>1, <3>2, LitFacts, SMTT(30)
    <3> QED
      BY <1>1, <2>1, <3>1, <3>3 DEF Hued
  <2>2. CASE ~scene.steps[i].active
    <3>1. P[i][1] = 0 /\ 1 \in Channels
      BY <1>1, <2>2 DEF Dark, Channels
    <3> QED
      BY <3>1
  <2> QED
    BY <2>1, <2>2
<1>4. ASSUME NEW k \in Channels
      PROVE  frame[i][k] \in Nat /\ frame[h][k] \in Nat /\ frame[i][k] <= frame[h][k]
  <2>1. P[i] \in Colours
    BY <1>1, PickedLights DEF Rendered, Frames
  <2>2. P[i][k] <= P[h][k]
    BY <1>2, <2>1, ChannelRange
  <2> HIDE DEF P
  <2> QED
    BY <1>1, <2>2, LightsCompare DEF P
<1>5. \E lo \in Channels : frame[i][lo] < frame[h][lo]
  <2>1. PICK lo \in Channels : P[i][lo] <= 224
    BY <1>3
  <2>2. P[i] \in Colours
    BY <1>1, PickedLights DEF Rendered, Frames
  <2>3. P[i][lo] + 4 <= P[h][lo]
    BY <1>2, <2>1, <2>2, ChannelRange
  <2> HIDE DEF P
  <2> QED
    BY <1>1, <2>3, LightsCompare DEF P
<1>6. /\ frame[i][1] \in Nat /\ frame[h][1] \in Nat /\ frame[i][1] <= frame[h][1]
      /\ frame[i][2] \in Nat /\ frame[h][2] \in Nat /\ frame[i][2] <= frame[h][2]
      /\ frame[i][3] \in Nat /\ frame[h][3] \in Nat /\ frame[i][3] <= frame[h][3]
      /\ \/ frame[i][1] < frame[h][1] \/ frame[i][2] < frame[h][2] \/ frame[i][3] < frame[h][3]
  BY <1>4, <1>5 DEF Channels
<1> QED
  BY <1>6 DEF Brightness

(* Lit is active.                                                           *)
LEMMA ActiveLit ==
  ASSUME Rendered, NEW i \in StepKeys \ Playhead
  PROVE  (frame[i] = Dark) = ~scene.steps[i].active
<1> DEFINE P == Picked(scene)
<1>1. /\ i \in Lights
      /\ P[i] = IF scene.steps[i].active THEN Lit(scene, scene.steps[i]) ELSE Dark
  BY StepLights
<1>2. CASE scene.steps[i].active
  <2>1. PICK lo, hi : Hued(scene.track, lo, hi)
    BY HueOf DEF Rendered
  <2>2. hi \in Channels /\ 55 <= P[i][hi]
    BY <1>1, <1>2, <2>1, LitFacts DEF Rendered, Hued
  <2>3. 4 <= P[i][hi]
    <3>1. P[i][hi] \in Nat
      BY <1>1, <2>2, PickedLights, ChannelRange DEF Rendered, Frames
    <3> QED
      BY <2>2, <3>1
  <2>4. 1 <= frame[i][hi]
    BY <1>1, <2>2, <2>3, LightsCompare
  <2>5. Dark[hi] = 0
    BY <2>2 DEF Dark, Channels
  <2>6. frame[i] # Dark
    BY <2>4, <2>5
  <2> QED
    BY <1>2, <2>6
<1>3. CASE ~scene.steps[i].active
  <2>1. ASSUME NEW k \in Channels PROVE frame[i][k] = 0
    <3>1. P[i][k] = 0
      BY <1>1, <1>3 DEF Dark, Channels
    <3> QED
      BY <1>1, <3>1, LightsCompare
  <2>2. frame[i] = [k \in Channels |-> frame[i][k]]
    BY <1>1, FrameScaled DEF Frames, Colours
  <2>3. [k \in Channels |-> 0] = Dark
    BY DEF Dark, Channels
  <2>4. frame[i] = Dark
    BY <2>1, <2>2, <2>3
  <2>5. scene.steps[i].active \in BOOLEAN
    BY StepRange DEF Rendered
  <2> QED
    BY <1>3, <2>4, <2>5
<1> QED
  BY <1>2, <1>3

(* Of two active steps the louder is no dimmer, if both are locked or neither. *)
LEMMA LouderLight ==
  ASSUME Rendered, NEW i \in StepKeys \ Playhead, NEW j \in StepKeys \ Playhead,
         scene.steps[i].active, scene.steps[j].active,
         scene.steps[i].locked = scene.steps[j].locked,
         scene.steps[i].velocity >= scene.steps[j].velocity
  PROVE  Brightness(frame[i]) >= Brightness(frame[j])
<1> DEFINE P == Picked(scene)
           u == scene.steps[j].velocity
           v == scene.steps[i].velocity
           w == Weight(scene)
<1>1. i \in Lights /\ j \in Lights /\ i \in StepKeys /\ j \in StepKeys /\ scene \in Scenes
  BY StepLights DEF Rendered
<1>2. P[i] = Lit(scene, scene.steps[i]) /\ P[j] = Lit(scene, scene.steps[j])
  BY StepLights
<1>3. u \in Nat /\ v \in Nat /\ u <= v /\ v <= 127 /\ scene.steps[i].locked \in BOOLEAN
  BY <1>1, StepRange
<1>4. w \in Nat /\ 840 <= w /\ w <= 1440
  BY <1>1, WeightRange
<1>5. ASSUME NEW k \in Channels PROVE P[j][k] <= P[i][k]
  <2> DEFINE h == Hue(scene.track)[k]
             x == Shade(h, u)
             y == Shade(h, v)
  <2>1. h \in Nat /\ h <= 255
    BY <1>1, HueOf
  <2>2. /\ P[j][k] = IF scene.steps[i].locked THEN Whitened(x, w) ELSE x
        /\ P[i][k] = IF scene.steps[i].locked THEN Whitened(y, w) ELSE y
    BY <1>2, LitChannels
  <2> HIDE DEF P, u, v, w, h
  <2>3. x \in Nat /\ y \in Nat /\ x <= y /\ y <= 255
    <3>1. u <= 127
      BY <1>3
    <3>2. x \in Nat /\ y \in Nat /\ y <= h
      <4>1. Shade(h, u) \in Nat
        BY <1>3, <2>1, <3>1, ShadeFacts
      <4>2. Shade(h, v) \in Nat /\ Shade(h, v) <= h
        BY <1>3, <2>1, ShadeFacts
      <4> QED
        BY <4>1, <4>2
    <3>3. x <= y
      BY <1>3, <2>1, ShadeRises
    <3> QED
      BY <2>1, <3>2, <3>3
  <2> HIDE DEF x, y
  <2>4. Whitened(x, w) <= Whitened(y, w)
    BY <1>4, <2>3, WhitenedRises
  <2> QED
    BY <1>3, <2>2, <2>3, <2>4
<1>6. ASSUME NEW k \in Channels
      PROVE  frame[j][k] \in Nat /\ frame[i][k] \in Nat /\ frame[j][k] <= frame[i][k]
  <2> HIDE DEF P
  <2> QED
    BY <1>1, <1>5, LightsCompare DEF P
<1>7. /\ frame[j][1] \in Nat /\ frame[i][1] \in Nat /\ frame[j][1] <= frame[i][1]
      /\ frame[j][2] \in Nat /\ frame[i][2] \in Nat /\ frame[j][2] <= frame[i][2]
      /\ frame[j][3] \in Nat /\ frame[i][3] \in Nat /\ frame[j][3] <= frame[i][3]
  BY <1>6 DEF Channels
<1> QED
  BY <1>7 DEF Brightness

(* An active step's light in the frame has its hue's least and greatest channel. *)
LEMMA LightExtremes ==
  ASSUME Rendered, NEW i \in StepKeys \ Playhead, scene.steps[i].active,
         NEW lo, NEW hi, Hued(scene.track, lo, hi)
  PROVE  Smallest(frame[i]) = frame[i][lo] /\ Greatest(frame[i]) = frame[i][hi]
<1>1. i \in Lights /\ i \in StepKeys /\ scene \in Scenes
  BY StepLights DEF Rendered
<1>2. Framed(Picked(scene)[i], lo, hi)
  BY <1>1, StepLights, LitFacts
<1>3. lo \in Channels /\ hi \in Channels
  BY DEF Hued
<1>4. Framed(frame[i], lo, hi)
  BY <1>1, <1>2, <1>3, LightsCompare DEF Framed
<1>5. frame[i] \in Colours
  BY <1>1, FrameScaled DEF Frames
<1> QED
  BY <1>3, <1>4, <1>5, Extremes

(* Of two active steps as loud a locked one is whiter than a plain one.     *)
LEMMA LockedWhiter ==
  ASSUME Rendered, NEW i \in StepKeys \ Playhead, NEW j \in StepKeys \ Playhead,
         scene.steps[i].active, scene.steps[j].active,
         scene.steps[i].locked, ~scene.steps[j].locked,
         scene.steps[i].velocity = scene.steps[j].velocity
  PROVE  Whiter(frame[i], frame[j])
<1> DEFINE v == scene.steps[j].velocity
           w == Weight(scene)
<1>1. i \in Lights /\ j \in Lights /\ i \in StepKeys /\ j \in StepKeys /\ scene \in Scenes
  BY StepLights DEF Rendered
<1>2. /\ Picked(scene)[i] = Lit(scene, scene.steps[i])
      /\ Picked(scene)[j] = Lit(scene, scene.steps[j])
  BY StepLights
<1>3. v \in Nat /\ v <= 127
  BY <1>1, StepRange
<1>4. w \in Nat /\ 840 <= w /\ w <= 1440
  BY <1>1, WeightRange
<1>5. PICK lo, hi : Hued(scene.track, lo, hi)
  BY <1>1, HueOf
<1>6. lo \in Channels /\ hi \in Channels
  BY <1>5 DEF Hued
<1>7. PICK n, d : ScaledBy(frame, Picked(scene), n, d)
  BY FrameScaled
<1>8. n \in Nat \ {0} /\ d \in Nat \ {0} /\ d <= 4 * n
  BY <1>7 DEF ScaledBy
<1> DEFINE x == Hue(scene.track)[lo]
           y == Hue(scene.track)[hi]
           l == Shade(x, v)
           g == Shade(y, v)
<1>9. x \in Nat /\ y \in Nat /\ x <= y /\ y <= 255 /\ 220 <= y /\ 10 * x <= 7 * y
  BY <1>1, <1>5, <1>6, HueOf DEF Hued, Framed
<1>10. /\ Picked(scene)[j][lo] = l /\ Picked(scene)[j][hi] = g
       /\ Picked(scene)[i][lo] = Whitened(l, w) /\ Picked(scene)[i][hi] = Whitened(g, w)
  BY <1>2, <1>6, LitChannels
<1> HIDE DEF v, w, x, y
<1>11. l \in Nat /\ g \in Nat /\ l <= g /\ 55 <= g /\ g <= 255 /\ 10 * l <= 7 * g + 6
  <2>1. l \in Nat /\ g \in Nat /\ g <= y
    <3>1. Shade(x, v) \in Nat
      BY <1>3, <1>9, ShadeFacts
    <3>2. Shade(y, v) \in Nat /\ Shade(y, v) <= y
      BY <1>3, <1>9, ShadeFacts
    <3> QED
      BY <3>1, <3>2
  <2>2. l <= g
    BY <1>3, <1>9, ShadeRises
  <2>3. 55 <= g
    BY <1>3, <1>9, ShadeVisible
  <2>4. 10 * l <= 7 * g + 6
    BY <1>3, <1>9, ShadeKeepsHue
  <2> QED
    BY <1>9, <2>1, <2>2, <2>3, <2>4
<1> HIDE DEF l, g
<1>12. ((Whitened(l, w) * n) \div d) * ((g * n) \div d)
         > ((l * n) \div d) * ((Whitened(g, w) * n) \div d)
  BY <1>4, <1>8, <1>11, WhiterScaled
<1>13. /\ frame[i][lo] = (Whitened(l, w) * n) \div d /\ frame[j][hi] = (g * n) \div d
       /\ frame[j][lo] = (l * n) \div d /\ frame[i][hi] = (Whitened(g, w) * n) \div d
  BY <1>1, <1>6, <1>7, <1>10 DEF ScaledBy
<1>14. /\ Smallest(frame[i]) = frame[i][lo] /\ Greatest(frame[i]) = frame[i][hi]
       /\ Smallest(frame[j]) = frame[j][lo] /\ Greatest(frame[j]) = frame[j][hi]
  BY <1>5, LightExtremes
<1> QED
  BY <1>12, <1>13, <1>14 DEF Whiter

(* Only a muted track is red alone.                                         *)
LEMMA MutedRed ==
  ASSUME Rendered, NEW t \in TrackIds
  PROVE  (t \in scene.muted) = (frame[TrackLed(t)][2] = 0 /\ frame[TrackLed(t)][3] = 0)
<1> DEFINE i == TrackLed(t)
<1>1. i \in Lights /\ scene \in Scenes
  BY DEF TrackLed, TrackIds, Lights, NumLeds, NumStepKeys, NumTracks, NumTransportKeys, Rendered
<1>2. Picked(scene)[i] = TrackKey(scene, t)
  BY <1>1, PickedLights
<1>3. 2 \in Channels /\ 3 \in Channels
  BY DEF Channels
<1> HIDE DEF i
<1>4. CASE t \in scene.muted
  <2>1. Picked(scene)[i][2] = 0 /\ Picked(scene)[i][3] = 0
    BY <1>1, <1>2, <1>4, TrackKeyFacts
  <2>2. frame[i][2] = 0 /\ frame[i][3] = 0
    BY <1>1, <1>3, <2>1, LightsCompare
  <2> QED
    BY <1>4, <2>2 DEF i
<1>5. CASE t \notin scene.muted
  <2>1. 4 <= Picked(scene)[i][2]
    BY <1>1, <1>2, <1>5, TrackKeyFacts
  <2>2. 1 <= frame[i][2] /\ frame[i][2] \in Nat
    BY <1>1, <1>3, <2>1, LightsCompare
  <2>3. frame[i][2] # 0
    BY <2>2
  <2> QED
    BY <1>5, <2>3 DEF i
<1> QED
  BY <1>4, <1>5

(* The selected track is the brightest track key, if it is not muted.       *)
LEMMA SelectedBrightest ==
  ASSUME Rendered, NEW t \in TrackIds, t # scene.track, scene.track \notin scene.muted
  PROVE  Brightness(frame[TrackLed(scene.track)]) > Brightness(frame[TrackLed(t)])
<1> DEFINE i == TrackLed(scene.track)
           j == TrackLed(t)
           p == Picked(scene)[i]
           q == Picked(scene)[j]
<1>1. scene \in Scenes /\ scene.track \in TrackIds
  BY DEF Rendered, Scenes
<1>2. i \in Lights /\ j \in Lights
  BY <1>1 DEF TrackLed, TrackIds, Lights, NumLeds, NumStepKeys, NumTracks, NumTransportKeys
<1>3. p = TrackKey(scene, scene.track) /\ q = TrackKey(scene, t)
  BY <1>1, PickedLights
<1>4. 325 <= Brightness(p)
  BY <1>1, <1>3, TrackKeyFacts
<1>5. Brightness(q) <= 255
  BY <1>1, <1>3, TrackKeyFacts
<1>6. PICK n, d : ScaledBy(frame, Picked(scene), n, d)
  BY FrameScaled
<1>7. n \in Nat \ {0} /\ d \in Nat \ {0} /\ d <= 4 * n
  BY <1>6 DEF ScaledBy
<1> HIDE DEF i, j
<1>8. ASSUME NEW k \in Channels
      PROVE  /\ p[k] \in Nat /\ q[k] \in Nat
             /\ frame[i][k] = (p[k] * n) \div d /\ frame[j][k] = (q[k] * n) \div d
  BY <1>2, <1>6, LightScaled
<1> HIDE DEF p, q
<1>9. ASSUME NEW k \in Channels
      PROVE  /\ frame[i][k] \in Nat /\ frame[j][k] \in Nat /\ p[k] \in Nat /\ q[k] \in Nat
             /\ d * frame[j][k] <= n * q[k] /\ n * p[k] < d * frame[i][k] + d
  <2> DEFINE x == p[k]
             y == q[k]
  <2>1. x \in Nat /\ y \in Nat
    BY <1>8
  <2> HIDE DEF x, y
  <2>2. x * n \in Nat /\ y * n \in Nat /\ x * n = n * x /\ y * n = n * y
    BY <1>7, <2>1
  <2>3. (x * n) \div d \in Nat /\ x * n < d * ((x * n) \div d) + d
    BY <1>7, <2>2, Quotient
  <2>4. (y * n) \div d \in Nat /\ d * ((y * n) \div d) <= y * n
    BY <1>7, <2>2, Quotient
  <2>5. frame[i][k] = (x * n) \div d /\ frame[j][k] = (y * n) \div d
    BY <1>8 DEF x, y
  <2> QED
    BY <2>1, <2>2, <2>3, <2>4, <2>5 DEF x, y
<1> DEFINE a == Brightness(frame[i])
           b == Brightness(frame[j])
           x == Brightness(p)
           y == Brightness(q)
<1>10. /\ a \in Nat /\ b \in Nat /\ x \in Nat /\ y \in Nat
       /\ d * b <= n * y /\ n * x < d * a + 3 * d
  <2> DEFINE a1 == frame[i][1]
             a2 == frame[i][2]
             a3 == frame[i][3]
             b1 == frame[j][1]
             b2 == frame[j][2]
             b3 == frame[j][3]
             p1 == p[1]
             p2 == p[2]
             p3 == p[3]
             q1 == q[1]
             q2 == q[2]
             q3 == q[3]
  <2>1. /\ a1 \in Nat /\ a2 \in Nat /\ a3 \in Nat /\ b1 \in Nat /\ b2 \in Nat /\ b3 \in Nat
        /\ p1 \in Nat /\ p2 \in Nat /\ p3 \in Nat /\ q1 \in Nat /\ q2 \in Nat /\ q3 \in Nat
        /\ d * b1 <= n * q1 /\ d * b2 <= n * q2 /\ d * b3 <= n * q3
        /\ n * p1 < d * a1 + d /\ n * p2 < d * a2 + d /\ n * p3 < d * a3 + d
    BY <1>9 DEF Channels
  <2>2. a = a1 + a2 + a3 /\ b = b1 + b2 + b3 /\ x = p1 + p2 + p3 /\ y = q1 + q2 + q3
    BY DEF Brightness
  <2> HIDE DEF a1, a2, a3, b1, b2, b3, p1, p2, p3, q1, q2, q3, a, b, x, y
  <2>3. /\ d * a = d * a1 + d * a2 + d * a3 /\ d * b = d * b1 + d * b2 + d * b3
        /\ n * x = n * p1 + n * p2 + n * p3 /\ n * y = n * q1 + n * q2 + n * q3
    BY <1>7, <2>1, <2>2
  <2> DEFINE A1 == d * a1
             A2 == d * a2
             A3 == d * a3
             B1 == d * b1
             B2 == d * b2
             B3 == d * b3
             P1 == n * p1
             P2 == n * p2
             P3 == n * p3
             Q1 == n * q1
             Q2 == n * q2
             Q3 == n * q3
  <2>4. /\ A1 \in Int /\ A2 \in Int /\ A3 \in Int /\ B1 \in Int /\ B2 \in Int /\ B3 \in Int
        /\ P1 \in Int /\ P2 \in Int /\ P3 \in Int /\ Q1 \in Int /\ Q2 \in Int /\ Q3 \in Int
    BY <1>7, <2>1
  <2> HIDE DEF A1, A2, A3, B1, B2, B3, P1, P2, P3, Q1, Q2, Q3
  <2>5. B1 + B2 + B3 <= Q1 + Q2 + Q3 /\ P1 + P2 + P3 < A1 + A2 + A3 + 3 * d
    BY <1>7, <2>1, <2>4 DEF A1, A2, A3, B1, B2, B3, P1, P2, P3, Q1, Q2, Q3
  <2>6. d * b <= n * y /\ n * x < d * a + 3 * d
    BY <2>3, <2>5 DEF A1, A2, A3, B1, B2, B3, P1, P2, P3, Q1, Q2, Q3
  <2> QED
    BY <2>1, <2>2, <2>6
<1>11. 325 <= x /\ y <= 255
  BY <1>4, <1>5
<1> HIDE DEF a, b, x, y
<1>12. n * y <= 255 * n /\ 325 * n <= n * x
  BY <1>7, <1>10, <1>11
<1>13. d * b < d * a
  <2> DEFINE A == d * a
             B == d * b
             X == n * x
             Y == n * y
  <2>1. A \in Int /\ B \in Int /\ X \in Int /\ Y \in Int
    BY <1>7, <1>10
  <2> HIDE DEF A, B, X, Y
  <2> QED
    BY <1>7, <1>10, <1>12, <2>1 DEF A, B, X, Y
<1>14. b < a
  BY <1>7, <1>10, <1>13
<1> QED
  BY <1>14 DEF a, b, i, j

(* Every rule holds of a rendered frame.                                    *)
LEMMA RenderedTells ==
  ASSUME Rendered
  PROVE  LightsTell
<1>1. Current(frame) <= Budget
  BY FrameScaled
<1>2. ASSUME NEW i \in {x \in StepKeys \ Playhead : scene.steps[x].active},
             NEW j \in {x \in StepKeys \ Playhead : scene.steps[x].active}
      PROVE  LET a == scene.steps[i] b == scene.steps[j]
             IN /\ a.locked = b.locked /\ a.velocity >= b.velocity =>
                     Brightness(frame[i]) >= Brightness(frame[j])
                /\ a.locked /\ ~b.locked /\ a.velocity = b.velocity => Whiter(frame[i], frame[j])
  BY LouderLight, LockedWhiter
<1>3. ASSUME NEW t \in TrackIds
      PROVE  LET c == frame[TrackLed(t)]
             IN /\ (t \in scene.muted) = (c[2] = 0 /\ c[3] = 0)
                /\ t # scene.track /\ scene.track \notin scene.muted =>
                     Brightness(frame[TrackLed(scene.track)]) > Brightness(c)
  BY MutedRed, SelectedBrightest
<1> QED
  BY <1>1, <1>2, <1>3, PlayheadBrightest, ActiveLit DEF LightsTell

(* The first frame is rendered.                                             *)
LEMMA RenderedInit ==
  ASSUME LedInit
  PROVE  Rendered
<1>1. PICK x \in StepsSeen :
        scene = [track |-> 0, steps |-> x, playing |-> FALSE, playhead |-> 0, muted |-> {},
                 content |-> TrackIds, shift |-> FALSE, external |-> FALSE, now |-> 0]
  BY DEF LedInit
<1>2. x \in [StepKeys -> Steps] /\ 0 \in TrackIds
  BY LedsAssumption DEF Steps, TrackIds, NumTracks
<1>3. scene \in Scenes
  BY <1>1, <1>2 DEF Scenes
<1> QED
  BY <1>3 DEF LedInit, Rendered

(* Whatever changes between two frames, the scene stays one.                *)
LEMMA SceneStays ==
  ASSUME scene \in Scenes, SomethingChanges
  PROVE  scene' \in Scenes
<1> DEFINE S == [StepKeys -> Steps]
<1>1. StepsSeen \subseteq S
  BY LedsAssumption DEF Steps
<1>2. HeadsSeen \subseteq Nat /\ MutedSeen \subseteq SUBSET TrackIds /\ TimesSeen \subseteq Nat
  BY LedsAssumption
<1>3. scene \in [track : TrackIds, steps : S, playing : BOOLEAN, playhead : Nat,
                muted : SUBSET TrackIds, content : SUBSET TrackIds, shift : BOOLEAN,
                external : BOOLEAN, now : Nat]
  BY DEF Scenes
<1> HIDE DEF S
<1>4. scene' \in [track : TrackIds, steps : S, playing : BOOLEAN, playhead : Nat,
                 muted : SUBSET TrackIds, content : SUBSET TrackIds, shift : BOOLEAN,
                 external : BOOLEAN, now : Nat]
  <2>1. CASE \E t \in TrackIds : scene' = [scene EXCEPT !.track = t]
    BY <1>3, <2>1
  <2>2. CASE \E x \in StepsSeen : scene' = [scene EXCEPT !.steps = x]
    BY <1>1, <1>3, <2>2
  <2>3. CASE \E h \in HeadsSeen : scene' = [scene EXCEPT !.playing = TRUE, !.playhead = h]
    BY <1>2, <1>3, <2>3
  <2>4. CASE scene' = [scene EXCEPT !.playing = FALSE]
    BY <1>3, <2>4
  <2>5. CASE \E m \in MutedSeen : scene' = [scene EXCEPT !.muted = m]
    BY <1>2, <1>3, <2>5
  <2>6. CASE \E x \in {{}, TrackIds} : scene' = [scene EXCEPT !.content = x]
    BY <1>3, <2>6
  <2>7. CASE scene' = [scene EXCEPT !.shift = ~@]
    BY <1>3, <2>7
  <2>8. CASE scene' = [scene EXCEPT !.external = ~@]
    BY <1>3, <2>8
  <2>9. CASE \E n \in TimesSeen : scene' = [scene EXCEPT !.now = n]
    BY <1>2, <1>3, <2>9
  <2> QED
    BY <2>1, <2>2, <2>3, <2>4, <2>5, <2>6, <2>7, <2>8, <2>9 DEF SomethingChanges
<1> QED
  BY <1>4 DEF Scenes, S

(* And every step renders it.                                               *)
LEMMA RenderedKept ==
  ASSUME Rendered, [Render]_ledVars
  PROVE  Rendered'
<1>1. CASE Render
  BY <1>1, SceneStays DEF Rendered, Render
<1>2. CASE UNCHANGED ledVars
  BY <1>2 DEF Rendered, ledVars, Frame, Picked, StepKey, TrackKey, TransportKeys, Lit, Pulse
<1> QED
  BY <1>1, <1>2

(* The LED language can be read off every frame: for every pattern, velocity *)
(* and lock, playhead, set of muted tracks and time, the playhead is the     *)
(* brightest step key, lit is active, louder is no dimmer, locked is whiter, *)
(* red alone is muted and the selected track brightest, after the clamp.     *)
THEOREM LightsAlwaysTell == Spec => []LightsTell
<1>1. Init => Rendered
  BY RenderedInit DEF Init
<1>2. Rendered /\ [Next]_vars => Rendered'
  <2> SUFFICES ASSUME Rendered, [Next]_vars PROVE [Render]_ledVars
    BY RenderedKept
  <2> QED
    BY DEF Next, vars
<1>3. Rendered => LightsTell
  BY RenderedTells
<1> QED
  BY <1>1, <1>2, <1>3, PTL DEF Spec
=============================================================================
