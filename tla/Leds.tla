-------------------------------- MODULE Leds --------------------------------
(***************************************************************************)
(* One frame of the panel's 34 lights: LedRenderer of src/ui/led.h.  A      *)
(* colour is <<r, g, b>>, each channel a byte; a product with a float that   *)
(* is cast to a byte is the exact product cut to a whole number (the code's  *)
(* may be one less where the exact product is whole).  Current is counted   *)
(* in units of one channel: 255 of them draw kMaPerChannelFull.             *)
(***************************************************************************)
EXTENDS Integers, FiniteSetsExt

NumStepKeys == 16
NumTracks == 12
NumTransportKeys == 6
NumLeds == NumStepKeys + NumTracks + NumTransportKeys
StepKeys == 0 .. NumStepKeys - 1
TrackIds == 0 .. NumTracks - 1

CONSTANTS
  StepsSeen,   \* bound: the selected track's first sixteen steps
  HeadsSeen,   \* bound: the playhead, within a length of up to 64 steps
  MutedSeen,   \* bound: the muted tracks
  TimesSeen    \* bound: milliseconds

ASSUME LedsAssumption ==
  /\ StepsSeen \subseteq
       [StepKeys -> [active : BOOLEAN, velocity : 0 .. 127, locked : BOOLEAN]]
  /\ HeadsSeen \subseteq 0 .. 63 /\ MutedSeen \subseteq SUBSET TrackIds /\ TimesSeen \subseteq Nat

VARIABLES
  scene,   \* what the renderer reads of Machine and Ui, and the time
  frame

ledVars == <<scene, frame>>

(* kTrackColour. *)
TrackColour == <<
  <<255, 40, 30>>, <<255, 130, 20>>, <<230, 220, 40>>, <<60, 230, 80>>,
  <<40, 220, 220>>, <<60, 110, 255>>, <<160, 70, 255>>, <<255, 60, 190>>,
  <<255, 170, 150>>, <<170, 245, 185>>, <<165, 200, 255>>, <<235, 175, 250>> >>

Hue(t) == TrackColour[t + 1]

Dark == <<0, 0, 0>>
White == <<255, 255, 255>>
Red == <<255, 0, 0>>

(* Rgb::Scale by num / den, and Rgb::Whiten. *)
ScaleRgb(c, num, den) == [i \in 1 .. 3 |-> (c[i] * num) \div den]

Whiten(c, num, den) == [i \in 1 .. 3 |-> c[i] + ((255 - c[i]) * num) \div den]

(* Triangle over 1200 ms, in 600ths. *)
Pulse(now) == LET p == now % 1200 IN IF p < 600 THEN p ELSE 1200 - p

(* An active step: velocity from a quarter up, a lock towards white. *)
Lit(s, step) ==
  LET c == ScaleRgb(Hue(s.track), 127 + 3 * step.velocity, 4 * 127)
  IN IF step.locked THEN Whiten(c, 840 + Pulse(s.now), 2400) ELSE c

(* Mutant of StepKey: a step's own light is looked at before the playhead. *)
StepKeyOwnFirst(s, i) ==
  CASE s.steps[i].active -> Lit(s, s.steps[i])
    [] s.playing /\ i = s.playhead -> White
    [] OTHER -> Dark

StepKey(s, i) ==
  CASE s.playing /\ i = s.playhead -> White
    [] ~(s.playing /\ i = s.playhead) /\ s.steps[i].active -> Lit(s, s.steps[i])
    [] OTHER -> Dark

TrackKey(s, t) ==
  IF t \in s.muted THEN Red
  ELSE ScaleRgb(Hue(t), IF t = s.track THEN 100 ELSE IF t \in s.content THEN 35 ELSE 10, 100)

(* PLAY, REC, SHIFT, PATT, SONG and TAP. *)
TransportKeys(s) ==
  <<IF s.playing THEN <<0, 255, 0>> ELSE <<0, 40, 0>>,
    <<40, 0, 0>>,
    IF s.shift THEN White ELSE <<40, 40, 40>>,
    <<0, 40, 60>>,
    <<0, 40, 60>>,
    IF s.external THEN <<0, 120, 255>> ELSE <<40, 30, 0>> >>

Brightness(c) == c[1] + c[2] + c[3]

(* FrameCurrentMa, light by light, and kLedBudgetMa. *)
Current(leds) ==
  LET total[n \in 0 .. NumLeds] == IF n = 0 THEN 0 ELSE total[n - 1] + Brightness(leds[n - 1])
  IN total[NumLeds]

Budget == (400 * 255) \div 20

(* Clamp: one factor for the whole frame. *)
WithinBudget(leds) ==
  LET total == Current(leds)
  IN IF total <= Budget THEN leds ELSE [i \in DOMAIN leds |-> ScaleRgb(leds[i], Budget, total)]

(* Where out, track and transport begin in the frame. *)
TrackLed(t) == NumStepKeys + t

(* The colours Render picks, and the frame it leaves. *)
Picked(s) ==
  [i \in 0 .. NumLeds - 1 |->
     IF i < NumStepKeys THEN StepKey(s, i)
     ELSE IF i < NumStepKeys + NumTracks THEN TrackKey(s, i - NumStepKeys)
     ELSE TransportKeys(s)[i - NumStepKeys - NumTracks + 1]]

Frame(s) == WithinBudget(Picked(s))

(* Machine::Init and Ui::Init, and a pattern. *)
LedInit ==
  /\ scene \in {[track |-> 0, steps |-> x, playing |-> FALSE, playhead |-> 0, muted |-> {},
                 content |-> TrackIds, shift |-> FALSE, external |-> FALSE, now |-> 0] :
                x \in StepsSeen}
  /\ frame = Frame(scene)

(* Between two frames one thing has changed. *)
SomethingChanges ==
  \/ \E t \in TrackIds : scene' = [scene EXCEPT !.track = t]
  \/ \E x \in StepsSeen : scene' = [scene EXCEPT !.steps = x]
  \/ \E h \in HeadsSeen : scene' = [scene EXCEPT !.playing = TRUE, !.playhead = h]
  \/ scene' = [scene EXCEPT !.playing = FALSE]
  \/ \E m \in MutedSeen : scene' = [scene EXCEPT !.muted = m]
  \/ \E x \in {{}, TrackIds} : scene' = [scene EXCEPT !.content = x]
  \/ scene' = [scene EXCEPT !.shift = ~@]
  \/ scene' = [scene EXCEPT !.external = ~@]
  \/ \E n \in TimesSeen : scene' = [scene EXCEPT !.now = n]

Render == SomethingChanges /\ frame' = Frame(scene')

LedSpec == LedInit /\ [][Render]_ledVars

-----------------------------------------------------------------------------
(* Properties. *)

Playhead == IF scene.playing /\ scene.playhead \in StepKeys THEN {scene.playhead} ELSE {}

Greatest(c) == Max({c[1], c[2], c[3]})
Smallest(c) == Min({c[1], c[2], c[3]})
Whiter(c, d) == Smallest(c) * Greatest(d) > Smallest(d) * Greatest(c)

(* The LED language can be read off every frame, after the whole of it has  *)
(* been scaled into the supply's budget and cut to bytes: the playhead is   *)
(* the brightest step key, an active step is lit and an inactive one dark,  *)
(* a louder step is no dimmer than a softer one, a locked one is whiter     *)
(* than a plain one as loud, only a muted track is red alone, and of the    *)
(* others the selected one is brightest.                                    *)
LightsTell ==
  /\ Current(frame) <= Budget
  /\ \A h \in Playhead, i \in StepKeys \ Playhead : Brightness(frame[h]) > Brightness(frame[i])
  /\ \A i \in StepKeys \ Playhead : (frame[i] = Dark) = ~scene.steps[i].active
  /\ \A i, j \in {i \in StepKeys \ Playhead : scene.steps[i].active} :
       LET a == scene.steps[i] b == scene.steps[j]
       IN /\ a.locked = b.locked /\ a.velocity >= b.velocity =>
               Brightness(frame[i]) >= Brightness(frame[j])
          /\ a.locked /\ ~b.locked /\ a.velocity = b.velocity => Whiter(frame[i], frame[j])
  /\ \A t \in TrackIds :
       LET c == frame[TrackLed(t)]
       IN /\ (t \in scene.muted) = (c[2] = 0 /\ c[3] = 0)
          /\ t # scene.track /\ scene.track \notin scene.muted =>
               Brightness(frame[TrackLed(scene.track)]) > Brightness(c)

-----------------------------------------------------------------------------
(* Said of the code, and not true of it. *)

(* An active step never renders below 25 % brightness.                      *)
QuarterBright ==
  \A i \in StepKeys : scene.steps[i].active => 4 * Greatest(frame[i]) >= Greatest(Hue(scene.track))

(* Only the playhead is white (of a whiteness over 0.8): it is never        *)
(* ambiguous.                                                               *)
OnlyPlayheadWhite ==
  \A i \in StepKeys \ Playhead :
    scene.steps[i].active => 10 * Smallest(frame[i]) <= 8 * Greatest(frame[i])

(* While the machine plays its playhead is somewhere on the step keys.      *)
PlayheadShown == scene.playing => Playhead # {}

(* Dim to bright is velocity.                                               *)
VelocityShows ==
  \A i, j \in {i \in StepKeys \ Playhead : scene.steps[i].active} :
    scene.steps[i].velocity > scene.steps[j].velocity =>
      Brightness(frame[i]) > Brightness(frame[j])
=============================================================================
