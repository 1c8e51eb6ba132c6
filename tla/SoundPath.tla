----------------------------- MODULE SoundPath ------------------------------
(***************************************************************************)
(* What one track's sound goes through: its machine (Voices), its channel    *)
(* strip (ChannelStrip), the LFO that moves one of their parameters (Lfo)    *)
(* and, with the other tracks', the master delay (MasterDelay).  Only        *)
(* samples and a modulation pass from one to the next; parameters reach each *)
(* apart from the others, a machine's, the strip's and the LFO's through     *)
(* Dispatch, the delay's through SetFxParam.                                 *)
(***************************************************************************)
EXTENDS Voices, ChannelStrip, Lfo, MasterDelay

VARIABLE part   \* bound: the one of the four that is exercised.  They share no
                \* variable, so what one can reach does not depend on the others.

vars == <<voiceVars, stripVars, lfoVars, delayVars, part>>

Init ==
  /\ VoiceInit /\ StripInit /\ LfoInit /\ DelayInit
  /\ part \in {"voice", "strip", "lfo", "delay"}
  /\ part # "voice" => machine = "Silent"
  /\ part # "lfo" => inc = CHOOSE i \in Incs : TRUE

Next ==
  /\ UNCHANGED part
  /\ \/ part = "voice" /\ VoiceNext /\ UNCHANGED <<stripVars, lfoVars, delayVars>>
     \/ part = "strip" /\ StripNext /\ UNCHANGED <<voiceVars, lfoVars, delayVars>>
     \/ part = "lfo" /\ LfoNext /\ UNCHANGED <<voiceVars, stripVars, delayVars>>
     \/ part = "delay" /\ DelayNext /\ UNCHANGED <<voiceVars, stripVars, lfoVars>>

(* The callback renders for as long as the machine is on, and advances every *)
(* LFO in every block.                                                       *)
Spec ==
  /\ Init /\ [][Next]_vars
  /\ WF_vars(Process /\ UNCHANGED <<stripVars, lfoVars, delayVars, part>>)
  /\ WF_vars(part = "lfo" /\ LfoAdvance /\ UNCHANGED <<voiceVars, stripVars, delayVars, part>>)
=============================================================================
