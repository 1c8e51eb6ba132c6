---------------------------- MODULE ChannelStrip ----------------------------
(***************************************************************************)
(* One track's channel strip (src/engine/channel.h): its two filters with   *)
(* the cached decision to pass each by, the saturator, pan and sends, and    *)
(* the routing of VoiceSlot::Dispatch (src/engine/voice.h) that brings it    *)
(* its parameters.  What the filters and the saturator make of the sound is  *)
(* left out.                                                                 *)
(***************************************************************************)
EXTENDS Integers

CONSTANTS
  VMax,         \* parameter values are 0 .. VMax
  Open, Still,  \* the bypass takes a cutoff from Open up for 1, a resonance to Still for 0
  StripInputs   \* bound: the <<parameter, value>> pairs that are sent

Filters == {0, 1}

ParamIds ==
  {"Tune", "Decay", "Tone", "Snap", "Drive", "Level", "Pan", "Note",
   "SatDrive", "Filter1Cutoff", "Filter1Res", "Filter1Mode", "Filter2Cutoff", "Filter2Res",
   "Filter2Mode", "FltrRsv1",
   "DelaySend", "ReverbSend", "FxRsv1", "FxRsv2", "FxRsv3", "FxRsv4", "FxRsv5", "FxRsv6",
   "LfoSpeed", "LfoMult", "LfoFade", "LfoDest", "LfoWave", "LfoMode", "LfoDepth",
   "LfoStartPhase"}

ASSUME StripAssumption ==
  /\ VMax \in Nat \ {0} /\ {Open, Still} \subseteq 0 .. VMax
  /\ StripInputs \subseteq ParamIds \X (0 .. VMax)

IsChannelParam(id) ==
  id \in {"Pan", "SatDrive", "Filter1Cutoff", "Filter1Res", "Filter1Mode",
          "Filter2Cutoff", "Filter2Res", "Filter2Mode", "DelaySend", "ReverbSend"}

IsLfoParam(id) ==
  id \in {"LfoSpeed", "LfoMult", "LfoFade", "LfoDest", "LfoWave", "LfoMode", "LfoDepth",
          "LfoStartPhase"}

VARIABLES
  asked,                 \* history: what each parameter was last set to, whoever owns it
  cutoff, res, mode,     \* cutoff_, res_ and mode_, by filter
  svf,                   \* what the filters themselves were given: <<frequency, resonance>>
  bypass,                \* bypass_
  mix                    \* sat_, the pan the gains come from, delay_send_, reverb_send_

stripVars == <<asked, cutoff, res, mode, svf, bypass, mix>>

(* ModeFromNorm: thirds of the range, the top included in the last. *)
ModeFromNorm(v) ==
  LET m == (v * 3) \div VMax
  IN CASE m <= 0 -> "LowPass" [] m = 1 -> "BandPass" [] OTHER -> "HighPass"

(* A wide-open lowpass with no resonance is passed by. *)
Transparent(m, c, r) == m = "LowPass" /\ c >= Open /\ r <= Still

(* Mutant of UpdateBypass: only when the mode is set. *)
BypassOnMode == bypass' = [i \in Filters |-> IF mode'[i] # mode[i]
                             THEN Transparent(mode'[i], cutoff'[i], res'[i]) ELSE bypass[i]]

UpdateBypass ==
  bypass' = [i \in Filters |-> Transparent(mode'[i], cutoff'[i], res'[i])]

(* The strip's Init, then the kit's values as ApplyKit sends them. *)
Default(id) ==
  CASE id \in {"Filter1Cutoff", "Filter2Cutoff"} -> VMax
    [] id = "Pan" -> VMax \div 2
    [] OTHER -> 0

StripInit ==
  /\ asked = [id \in ParamIds |-> Default(id)]
  /\ cutoff = [i \in Filters |-> VMax] /\ res = [i \in Filters |-> 0]
  /\ mode = [i \in Filters |-> "LowPass"]
  /\ svf = [i \in Filters |-> <<VMax, 0>>]
  /\ bypass = [i \in Filters |-> TRUE]
  /\ mix = [sat |-> 0, pan |-> VMax \div 2, delay |-> 0, reverb |-> 0]

SetCutoff(i, v) ==
  /\ cutoff' = [cutoff EXCEPT ![i] = v] /\ svf' = [svf EXCEPT ![i][1] = v]
  /\ UNCHANGED <<res, mode, mix>>

SetRes(i, v) ==
  /\ res' = [res EXCEPT ![i] = v] /\ svf' = [svf EXCEPT ![i][2] = v]
  /\ UNCHANGED <<cutoff, mode, mix>>

SetMode(i, v) ==
  /\ mode' = [mode EXCEPT ![i] = ModeFromNorm(v)]
  /\ UNCHANGED <<cutoff, res, svf, mix>>

SetMix(field, v) ==
  /\ mix' = [mix EXCEPT ![field] = v]
  /\ UNCHANGED <<cutoff, res, mode, svf>>

(* Dispatch and SetParam.  What is the voice's or the LFO's leaves the      *)
(* strip alone.                                                             *)
SetStripParam(id, v) ==
  /\ asked' = [asked EXCEPT ![id] = v]
  /\ IF IsLfoParam(id) \/ ~IsChannelParam(id)
     THEN UNCHANGED <<cutoff, res, mode, svf, bypass, mix>>
     ELSE /\ \/ id = "Filter1Cutoff" /\ SetCutoff(0, v)
             \/ id = "Filter1Res" /\ SetRes(0, v)
             \/ id = "Filter1Mode" /\ SetMode(0, v)
             \/ id = "Filter2Cutoff" /\ SetCutoff(1, v)
             \/ id = "Filter2Res" /\ SetRes(1, v)
             \/ id = "Filter2Mode" /\ SetMode(1, v)
             \/ id = "SatDrive" /\ SetMix("sat", v)
             \/ id = "Pan" /\ SetMix("pan", v)
             \/ id = "DelaySend" /\ SetMix("delay", v)
             \/ id = "ReverbSend" /\ SetMix("reverb", v)
          /\ UpdateBypass

StripNext == \E in \in StripInputs : SetStripParam(in[1], in[2])

StripSpec == StripInit /\ [][StripNext]_stripVars

-----------------------------------------------------------------------------
(* Properties. *)

Named(i, what) ==
  CASE what = "cutoff" -> IF i = 0 THEN "Filter1Cutoff" ELSE "Filter2Cutoff"
    [] what = "res" -> IF i = 0 THEN "Filter1Res" ELSE "Filter2Res"
    [] what = "mode" -> IF i = 0 THEN "Filter1Mode" ELSE "Filter2Mode"

(* In whatever order the ten parameters of the strip come, between those of  *)
(* the voice and the LFO, each reaches what it stands for, and a filter is   *)
(* passed by exactly while what was last asked of it is transparent: the     *)
(* cached bypass never outlives the setting it was decided from.             *)
StripCurrent ==
  /\ \A i \in Filters :
       /\ svf[i] = <<asked[Named(i, "cutoff")], asked[Named(i, "res")]>>
       /\ bypass[i] = Transparent(ModeFromNorm(asked[Named(i, "mode")]),
                                 asked[Named(i, "cutoff")], asked[Named(i, "res")])
  /\ mix = [sat |-> asked["SatDrive"], pan |-> asked["Pan"],
            delay |-> asked["DelaySend"], reverb |-> asked["ReverbSend"]]
=============================================================================
