---------------------------- MODULE MCSoundPath -----------------------------
(* SoundPath on a short delay, with inputs of one sign: the lowpass and the  *)
(* cross-feed only mix.                                                      *)
EXTENDS SoundPath

MCInputs == {0, Loudest}

(* The thresholds of the bypass and a value to either side of them. *)
MCStripInputs ==
  {<<"Filter1Cutoff", 0>>, <<"Filter1Cutoff", Open>>, <<"Filter1Cutoff", VMax>>,
   <<"Filter1Res", 0>>, <<"Filter1Res", Still>>, <<"Filter1Res", Still + 1>>,
   <<"Filter1Mode", 0>>, <<"Filter1Mode", 2>>, <<"Filter1Mode", VMax>>}
    \cup {"Filter2Cutoff", "Filter2Res", "Filter2Mode", "SatDrive", "Pan", "DelaySend",
          "ReverbSend", "Level", "LfoDepth"} \X {0, VMax}
=============================================================================
