----------------------------- MODULE StepFields -----------------------------
(***************************************************************************)
(* What becomes of a step's fields: the encoder that sets them (StepDetail), *)
(* the lights that show them (Leds) and the tick its micro timing moves it   *)
(* to (TrackGrid).                                                          *)
(***************************************************************************)
EXTENDS StepDetail, Leds, TrackGrid

VARIABLE part   \* bound: the one of the three that is exercised.  They share no
                \* variable, so what one can reach does not depend on the others.

vars == <<detailVars, ledVars, gridVars, part>>

Init ==
  /\ part \in {"detail", "lights", "grid"}
  /\ DetailInit /\ (part # "detail" => field = "Micro" /\ stored = 0)
  /\ GridInit /\ (part # "grid" => track.length = 1)
  /\ LedInit /\ (part # "lights" => scene.steps = CHOOSE x \in StepsSeen : TRUE)

Next ==
  /\ UNCHANGED part
  /\ \/ part = "detail" /\ DetailNext /\ UNCHANGED <<ledVars, gridVars>>
     \/ part = "lights" /\ Render /\ UNCHANGED <<detailVars, gridVars>>
     \/ part = "grid" /\ GridNext /\ UNCHANGED <<detailVars, ledVars>>

Spec == Init /\ [][Next]_vars
=============================================================================
