--------------------------------- MODULE Lfo ---------------------------------
(***************************************************************************)
(* The oscillator of src/engine/lfo.h: its phase, its fade and its end.    *)
(* The settings arrive through VoiceSlot::Dispatch, from a knob, from a    *)
(* step's locks and from the restore of the previous step's; Trigger comes *)
(* on the sample a step fires, Advance once per audio block.               *)
(*                                                                         *)
(* The phase is counted in parts of a cycle.  Speed, multiplier and tempo  *)
(* only decide how far a block moves it, fade length and tempo how far a   *)
(* block opens the fade; 0 is no fade.  What the shape makes of the phase  *)
(* is left out.                                                            *)
(***************************************************************************)
EXTENDS Integers

CONSTANTS
  Cycle,       \* parts in a cycle
  FadeMax,     \* parts in a fade
  StartPhases, \* start phases a knob or lock can set, Cycle included
  Incs,        \* parts a block can move the phase, more than a Cycle included
  FadeRates    \* parts a block can open the fade

ASSUME LfoAssumption ==
  /\ Cycle \in Nat \ {0} /\ FadeMax \in Nat \ {0}
  /\ StartPhases \subseteq 0 .. Cycle /\ 0 \in StartPhases
  /\ Incs \subseteq Nat \ {0}
  /\ FadeRates \subseteq 0 .. FadeMax /\ 0 \in FadeRates

LfoModes == {"Free", "Trig", "Hold", "OneShot"}

VARIABLES
  lfoMode,       \* mode_
  startPhase, \* start_phase_
  inc,        \* phase_inc_ times the block size
  fadeRate,   \* fade_rate_ times the block size
  phase,      \* phase_
  fadePos,    \* fade_pos_
  heldAt,     \* held_: the phase it was sampled at
  finished,   \* finished_
  shot,       \* history: a one-shot has been triggered, and how far it ran; -1 for none
  shotFrom    \* history: the phase that one-shot started from

lfoVars ==
  <<lfoMode, startPhase, inc, fadeRate, phase, fadePos, heldAt, finished, shot, shotFrom>>

LfoInit ==
  /\ lfoMode = "Free" /\ startPhase = 0
  /\ inc \in Incs /\ fadeRate = 0
  /\ phase = 0 /\ fadePos = FadeMax /\ heldAt = 0 /\ finished = FALSE
  /\ shot = -1 /\ shotFrom = 0

(* SetMode: none of the running state changes with it. *)
SetLfoMode(m) ==
  /\ lfoMode' = m
  /\ shot' = IF m = "OneShot" THEN shot ELSE -1
  /\ UNCHANGED <<startPhase, inc, fadeRate, phase, fadePos, heldAt, finished, shotFrom>>

SetStartPhase(p) ==
  /\ startPhase' = p
  /\ UNCHANGED <<lfoMode, inc, fadeRate, phase, fadePos, heldAt, finished, shot, shotFrom>>

(* SetSpeed, SetMult, SetTempo and SetFade end in Recalculate: without a    *)
(* fade the fade is open.                                                   *)
Recalculate(i, f) ==
  /\ inc' = i /\ fadeRate' = f
  /\ fadePos' = IF f = 0 THEN FadeMax ELSE fadePos
  /\ UNCHANGED <<lfoMode, startPhase, phase, heldAt, finished, shot, shotFrom>>

(* Mutant of Restarts: the end of a one-shot outlives the next trigger. *)
RestartsFinished(m) == finished

(* What `finished_` is once a trigger restarted the phase. *)
Restarts(m) == FALSE

LfoTrigger ==
  \/ /\ lfoMode = "Hold"
     /\ heldAt' = phase
     /\ UNCHANGED <<lfoMode, startPhase, inc, fadeRate, phase, fadePos, finished, shot, shotFrom>>
  \/ /\ lfoMode \in {"Trig", "OneShot"}
     /\ phase' = startPhase
     /\ fadePos' = IF fadeRate > 0 THEN 0 ELSE FadeMax
     /\ finished' = Restarts(lfoMode)
     /\ shot' = IF lfoMode = "OneShot" THEN 0 ELSE -1
     /\ shotFrom' = startPhase
     /\ UNCHANGED <<lfoMode, startPhase, inc, fadeRate, heldAt>>

(* Mutant of Ends: a one-shot loops. *)
EndsNever(moved) == FALSE

(* The first cycle of a one-shot ends where the phase wraps. *)
Ends(moved) == moved >= Cycle /\ lfoMode = "OneShot"

End == Cycle - 1

Faded == IF fadePos + fadeRate > FadeMax THEN FadeMax ELSE fadePos + fadeRate

(* A block may move the phase by more than a cycle; Advance takes off whole *)
(* cycles one by one, and a one-shot stops at the first.                    *)
LfoAdvance ==
  /\ ~finished
  /\ phase' = IF Ends(phase + inc) THEN End ELSE (phase + inc) % Cycle
  /\ finished' = Ends(phase + inc)
  /\ fadePos' = IF fadePos < FadeMax THEN Faded ELSE fadePos
  /\ shot' = IF shot = -1 THEN -1
             ELSE shot + (IF Ends(phase + inc) THEN Cycle - phase ELSE inc)
  /\ UNCHANGED <<lfoMode, startPhase, inc, fadeRate, heldAt, shotFrom>>

LfoNext ==
  \/ \E m \in LfoModes : SetLfoMode(m)
  \/ \E p \in StartPhases : SetStartPhase(p)
  \/ \E i \in Incs, f \in FadeRates : Recalculate(i, f)
  \/ LfoTrigger
  \/ LfoAdvance

LfoSpec == LfoInit /\ [][LfoNext]_lfoVars

(* The audio callback advances every LFO in every block. *)
FairLfoSpec == LfoSpec /\ WF_lfoVars(LfoAdvance)

-----------------------------------------------------------------------------
(* Properties. *)

LfoTypeOK ==
  /\ lfoMode \in LfoModes /\ startPhase \in StartPhases
  /\ inc \in Incs /\ fadeRate \in FadeRates
  /\ phase \in 0 .. Cycle /\ fadePos \in 0 .. FadeMax /\ heldAt \in 0 .. Cycle
  /\ finished \in BOOLEAN
  /\ shot \in -1 .. Cycle /\ shotFrom \in StartPhases

(* ONE never loops: from the trigger on it covers what is left of the cycle *)
(* at most once, however speed and start phase are moved or locked during   *)
(* the shot.                                                                *)
OneShotNeverLoops == shot >= 0 => shotFrom + shot <= Cycle

(* A one-shot that is left alone comes to rest: once no more triggers come  *)
(* and the mode stays, the LFO stops and holds its final value.             *)
OneShotSettles ==
  (<>[](lfoMode = "OneShot") /\ <>[][~LfoTrigger]_lfoVars) => <>[](finished /\ phase = End)

-----------------------------------------------------------------------------
(* Said of the code, and not true of it. *)

(* "One cycle from the start phase, then holds its final value": a shot     *)
(* that has ended ran for a whole cycle.                                    *)
OneShotIsOneCycle == finished /\ shot >= 0 => shot = Cycle

(* FREE never stops and HOLD runs free: an LFO that stays in one of them    *)
(* keeps moving, block after block.                                         *)
FreeRuns == <>[](lfoMode \in {"Free", "Hold"}) => []<><<phase' # phase>>_lfoVars
=============================================================================
