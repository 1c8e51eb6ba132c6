------------------------------ MODULE StepGrid ------------------------------
(***************************************************************************)
(* Where a step of a track falls on the tick grid: the arithmetic of       *)
(* src/seq/pattern.h and of the scan in Sequencer::EmitTick, without any   *)
(* state.                                                                  *)
(*                                                                         *)
(* A track is a record [steps, length, swing, speed, direction, muted],    *)
(* its steps a function from 0-based step indices to records               *)
(* [active, micro, chance, ratchet]; chance is TRUE for a step whose       *)
(* probability is below 100, the one thing probability decides.            *)
(***************************************************************************)
EXTENDS Integers

CONSTANTS
  TicksPerStep,   \* kTicksPerStep, ticks in a 16th: 24 in the program
  SwingRange      \* kSwingMax - kSwingStraight, in percent of a step: 25

ASSUME StepGridAssumption ==
  /\ TicksPerStep \in Nat \ {0}
  /\ SwingRange \in 0 .. 100

Least(a, b) == IF a <= b THEN a ELSE b
Clamp(x, lo, hi) == IF x < lo THEN lo ELSE IF x > hi THEN hi ELSE x

(* Track::ticks_per_step, for the speeds -1, 0, 1, ...: powers of two.      *)
TicksOf(tr) ==
  IF tr.speed >= 0 THEN TicksPerStep \div 2^tr.speed ELSE TicksPerStep * 2^(-tr.speed)

(* Track::positions_per_cycle: ping-pong walks out and back without         *)
(* repeating the end points.                                                *)
CycleOf(tr) ==
  IF tr.direction = "PingPong" /\ tr.length > 2 THEN 2 * tr.length - 2 ELSE tr.length

LoopTicks(tr) == CycleOf(tr) * TicksOf(tr)

(* Mutant of StepForPosition: the way back starts one step too far out. *)
StepTurnsLate(tr, pos) ==
  CASE tr.direction = "Reverse" -> tr.length - 1 - (pos % tr.length)
    [] tr.direction = "PingPong" ->
         LET p == pos % CycleOf(tr) IN IF p <= tr.length THEN p ELSE CycleOf(tr) - p
    [] OTHER -> pos % tr.length

(* Sequencer::StepForPosition: the step that plays at a position of the     *)
(* cycle.  Random shares the forward case.                                  *)
StepForPosition(tr, pos) ==
  CASE tr.direction = "Reverse" -> tr.length - 1 - (pos % tr.length)
    [] tr.direction = "PingPong" ->
         LET p == pos % CycleOf(tr) IN IF p < tr.length THEN p ELSE CycleOf(tr) - p
    [] OTHER -> pos % tr.length

(* Sequencer::SwingTicks, the swing given as what it adds to straight:      *)
(* odd positions are late by that percentage of a step.                     *)
SwingTicks(amount, pos, tps) ==
  IF pos % 2 = 0 THEN 0 ELSE (Clamp(amount, 0, SwingRange) * tps) \div 100

(* Mutant of MicroTicks: the stored micro offset is used as it is. *)
MicroUnclamped(micro, tps) == micro

(* EmitTick's clamp of a stored micro offset to the track's own step. *)
MicroTicks(micro, tps) == Clamp(micro, -(tps - 1), tps - 1)

(* The tick of the loop on which a position fires.  C++ % truncates; the    *)
(* code adds the modulus back, which is TLA+'s %.                           *)
FireTick(tps, cycle, pos, micro, swing) ==
  (pos * tps + MicroTicks(micro, tps) + SwingTicks(swing, pos, tps)) % (cycle * tps)

(* The positions EmitTick examines on a tick whose nominal position is      *)
(* given, in its order -1, 0, +1.  Positions already seen are skipped: the  *)
(* window wraps onto itself on a 1- or 2-position cycle, and only its first *)
(* one or two entries are left.                                             *)
Window(nominal, cycle) == [k \in 1 .. Least(3, cycle) |-> (nominal + k - 2) % cycle]

(* Position pos of track tr fires on tick `local` of its loop.              *)
Lands(tr, pos, local) ==
  FireTick(TicksOf(tr), CycleOf(tr), pos,
           tr.steps[StepForPosition(tr, pos)].micro, tr.swing) = local
=============================================================================
