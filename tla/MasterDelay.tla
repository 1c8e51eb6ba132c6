---------------------------- MODULE MasterDelay -----------------------------
(***************************************************************************)
(* The stereo delay of the master bus: StereoDelay in src/engine/fx.h, a     *)
(* ring of Cap frames read a time behind where it is written, with a         *)
(* one-pole lowpass, a cross-feed by width and a feedback in the loop.        *)
(* Samples are integers, and feedback, width and tone percents; each product *)
(* is rounded to zero.                                                         *)
(***************************************************************************)
EXTENDS Integers

CONSTANTS
  Cap,         \* cap_: frames in the buffer
  Feedback,    \* the feedback at the top of its range, in percent: 95 in the code
  Loudest,     \* the largest magnitude a send can have
  Inputs,      \* the sends' samples
  TimeAtInit,  \* the length the default DELAY TIME asks for
  Times,       \* bound: the lengths DELAY TIME asks for, before clamping
  Percents     \* bound: the values of the other three parameters

ASSUME DelayAssumption ==
  /\ Cap \in Nat /\ Cap >= 2
  /\ Feedback \in 0 .. 99
  /\ Loudest \in Nat /\ Inputs \subseteq -Loudest .. Loudest
  /\ TimeAtInit \in Nat /\ Times \subseteq Nat /\ Percents \subseteq 0 .. 100

Slots == 0 .. Cap - 1
Sides == {"l", "r"}
Other(side) == IF side = "l" THEN "r" ELSE "l"

VARIABLES
  buf,     \* buf_: two samples in each slot
  write,   \* write_
  time,    \* time_
  fb, width, tone,   \* fb_, width_ and tone_, in percent
  lp,      \* lp_l_ and lp_r_
  age      \* history: how many samples ago each slot was written

delayVars == <<buf, write, time, fb, width, tone, lp, age>>
delayParams == <<time, fb, width, tone>>

Silence == [side \in Sides |-> 0]

(* The end of DelayTime's case.  Reading must stay behind writing. *)
Clamped(n) == IF n < 1 THEN 1 ELSE IF n > Cap - 1 THEN Cap - 1 ELSE n

(* Mutant of FeedbackOf: not capped. *)
FeedbackUncapped(v) == v

FeedbackOf(v) == (v * Feedback) \div 100

ToneOf(v) == 5 + (94 * v) \div 100

(* Init, zero-filled, as if the buffer had just been written in order.      *)
DelayInit ==
  /\ buf = [i \in Slots |-> Silence]
  /\ write = 0
  /\ time = Clamped(TimeAtInit)
  /\ fb = FeedbackOf(35) /\ width = 50 /\ tone = ToneOf(60)    \* kFxDefault
  /\ lp = Silence
  /\ age = [i \in Slots |-> Cap - i]

SetDelayTime(n) ==
  /\ time' = Clamped(n)
  /\ UNCHANGED <<buf, write, fb, width, tone, lp, age>>

SetDelayParam(v) ==
  /\ \/ fb' = FeedbackOf(v) /\ UNCHANGED <<width, tone>>
     \/ width' = v /\ UNCHANGED <<fb, tone>>
     \/ tone' = ToneOf(v) /\ UNCHANGED <<fb, width>>
  /\ UNCHANGED <<buf, write, time, lp, age>>

(* Mutant of ReadSlot: one slot off. *)
ReadSlotNext == (write + Cap - time + 1) % Cap

ReadSlot == (write + Cap - time) % Cap

(* A hundredth, rounded towards zero. *)
Percent(x) == IF x >= 0 THEN x \div 100 ELSE -((-x) \div 100)

(* a percent of the way from x to y: the lowpass, and the cross-feed. *)
Between(x, y, a) == Percent((100 - a) * x + a * y)

(* Process. *)
ProcessDelay(in) ==
  /\ lp' = [s \in Sides |-> Between(lp[s], buf[ReadSlot][s], tone)]
  /\ buf' = [buf EXCEPT ![write] =
       [s \in Sides |-> in[s] + Percent(Between(lp'[s], lp'[Other(s)], width) * fb)]]
  /\ write' = (write + 1) % Cap
  /\ age' = [i \in Slots |-> IF i = write THEN 1 ELSE age[i] + 1]
  /\ UNCHANGED delayParams

DelayNext ==
  \/ \E n \in Times : SetDelayTime(n)
  \/ \E v \in Percents : SetDelayParam(v)
  \/ \E in \in [Sides -> Inputs] : ProcessDelay(in)

DelaySpec == DelayInit /\ [][DelayNext]_delayVars

-----------------------------------------------------------------------------
(* Properties. *)

(* An echo comes back exactly the delay time after it went in: wherever the  *)
(* ring wraps, the slot about to be read was written time samples ago.       *)
EchoOnTime == ReadSlot \in Slots /\ age[ReadSlot] = time

(* The loudest the loop can get: an input, and what comes back of the        *)
(* loudest.                                                                  *)
Loud(x) == x * (100 - Feedback) <= 100 * Loudest

(* "Unity feedback is a slow-motion overflow": with the feedback capped, and *)
(* neither the lowpass nor the cross-feed adding to it, no sequence of       *)
(* inputs and settings makes the loop louder than its inputs by more than    *)
(* 1 / (1 - feedback), so every tail decays.                                 *)
Bounded ==
  \A s \in Sides :
    /\ \A i \in Slots : Loud(buf[i][s]) /\ Loud(-buf[i][s])
    /\ Loud(lp[s]) /\ Loud(-lp[s])
=============================================================================
