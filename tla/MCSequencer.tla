---------------------------- MODULE MCSequencer -----------------------------
(* Two tracks at four ticks a step.                                         *)
EXTENDS Sequencer, Sequences, TLC

St(a, m, c, r) == [active |-> a, micro |-> m, chance |-> c, ratchet |-> r]
Tr(steps, swing, speed, dir) ==
  [steps |-> [i \in 0 .. Len(steps) - 1 |-> steps[i + 1]], length |-> Len(steps),
   swing |-> swing, speed |-> speed, direction |-> dir, muted |-> FALSE]
Muted(tr) == [tr EXCEPT !.muted = TRUE]

(* A swung pair with an early second step, against a single step that sits  *)
(* late in its own cycle: the window wraps on both.                         *)
Pair == Tr(<<St(TRUE, 3, FALSE, 1), St(TRUE, -2, TRUE, 1)>>, 25, 0, "Forward")
Single == Tr(<<St(TRUE, -1, FALSE, 2)>>, 0, 0, "Forward")
(* Three steps out and back at double speed, displaced further than a step. *)
PingPong == Tr(<<St(TRUE, 3, FALSE, 1), St(FALSE, 0, FALSE, 1), St(TRUE, -3, FALSE, 1)>>,
               25, 1, "PingPong")

P(a, b) == 0 :> a @@ 1 :> b
MCPatterns == {P(Pair, Single), P(Pair, Muted(Single)), P(PingPong, Single)}
=============================================================================
