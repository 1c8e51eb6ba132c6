---------------------------- MODULE MCStepFields ----------------------------
(* StepFields at the program's own resolutions.  A track's micro offsets are *)
(* all that the MICRO field stores, its speeds the four whose step is a      *)
(* whole number of ticks either side of 1x; turns are single detents, and a  *)
(* spin the scan coalesced.                                                 *)
EXTENDS StepFields

MCDetents == {-3, -1, 1, 3}
MCSpeeds == -1 .. 2
MCMicros == -KMicroRange .. KMicroRange

Off == [active |-> FALSE, velocity |-> 0, locked |-> FALSE]
On(v, l) == [active |-> TRUE, velocity |-> v, locked |-> l]

(* The even step keys alike, and the odd ones, but for the first: both ends *)
(* of the velocities, and enough light to exceed the budget or not.         *)
Mixed(a, b, c) == [i \in 0 .. 15 |-> IF i = 0 THEN c ELSE IF i % 2 = 0 THEN a ELSE b]

MCSteps == {Mixed(On(1, FALSE), On(127, TRUE), Off), Mixed(On(1, TRUE), On(127, FALSE), Off),
            Mixed(On(1, TRUE), On(1, FALSE), On(127, TRUE)),
            Mixed(On(127, TRUE), On(127, TRUE), On(127, FALSE)), Mixed(Off, Off, On(1, FALSE))}
MCMuted == {{}, {1, 8}}
=============================================================================
