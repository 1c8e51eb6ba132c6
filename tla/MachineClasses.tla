--------------------------- MODULE MachineClasses ---------------------------
(***************************************************************************)
(* The synthesis machines of src/engine/voices/synth.h and drums.h, each    *)
(* as what its class keeps and when it brings it up to date:                *)
(*                                                                         *)
(*   derives  every quantity the class keeps because of its parameters, with *)
(*            the parameters it is worked out from;                         *)
(*   onParam  what OnParam, with Retime, Retune and Recalculate, works out    *)
(*            again when a parameter is set;                                *)
(*   times    its envelopes and countdowns: the quantity that holds the time, *)
(*            and the time with that quantity's parameter at zero and at one; *)
(*   struck   the envelopes Trigger starts;                                 *)
(*   gate     those whose end closes the voice;                             *)
(*   heard    the envelopes the output is multiplied by.                    *)
(*                                                                         *)
(* What the oscillators, filters and resonators compute is left out.  Times *)
(* are in a coarse unit that keeps their order within a class.              *)
(***************************************************************************)

(* A time that no parameter sets. *)
Fixed == "fixed"

Tom ==
  [derives |-> [base_hz |-> {"Tune", "Note"}, sweep_amt |-> {"Tone"},
                amp_s |-> {"Decay"}, pitch_s |-> {"Snap"}],
   onParam |-> [Tune |-> {"base_hz"}, Decay |-> {"amp_s", "pitch_s"},
                Tone |-> {"sweep_amt"}, Snap |-> {"amp_s", "pitch_s"}],
   times |-> [amp |-> <<"amp_s", 2, 4>>, pitch |-> <<"pitch_s", 2, 1>>],
   struck |-> {"amp", "pitch"}, gate |-> {"amp"}, heard |-> {"amp"}]

(* Its bursts and its tail are started by Process. *)
Clap ==
  [derives |-> [bpf_hz |-> {"Tune", "Note"}, bpf_res |-> {"Tone"},
                tail_s |-> {"Decay"}, spread_s |-> {"Snap"}],
   onParam |-> [Tune |-> {"bpf_hz"}, Decay |-> {"tail_s"},
                Tone |-> {"bpf_res"}, Snap |-> {"spread_s"}],
   times |-> [burst |-> <<Fixed, 2, 2>>, tail |-> <<"tail_s", 3, 5>>,
              spread |-> <<"spread_s", 1, 4>>],
   struck |-> {}, gate |-> {"burst", "tail"}, heard |-> {"burst", "tail"}]

(* Snap moves the second oscillator, whose pitch is base_hz * detune. *)
RimShot ==
  [derives |-> [base_hz |-> {"Tune", "Note"}, a_hz |-> {"Tune", "Note"},
                b_hz |-> {"Tune", "Note", "Snap"}, detune |-> {"Snap"},
                bpf_hz |-> {"Tone"}, env_s |-> {"Decay"}],
   onParam |-> [Tune |-> {"base_hz", "a_hz", "b_hz"}, Decay |-> {"env_s"},
                Tone |-> {"bpf_hz"}, Snap |-> {"detune", "a_hz", "b_hz"}],
   times |-> [env |-> <<"env_s", 1, 3>>],
   struck |-> {"env"}, gate |-> {"env"}, heard |-> {"env"}]

(* ratio stands for ratio and ratio3, index for index and stack, grit for   *)
(* what DRIVE sets.                                                         *)
FmVoice ==
  [derives |-> [base_hz |-> {"Tune", "Note"}, amp_s |-> {"Decay"}, idx_s |-> {"Snap"},
                ratio |-> {"Tone"}, index |-> {"Snap"}, grit |-> {"Drive"}],
   onParam |-> [Tune |-> {"base_hz"}, Decay |-> {"amp_s", "idx_s"}, Tone |-> {"ratio"},
                Snap |-> {"index", "amp_s", "idx_s"}, Drive |-> {"grit"}],
   times |-> [amp |-> <<"amp_s", 2, 4>>, idx |-> <<"idx_s", 3, 1>>, pitch |-> <<Fixed, 1, 1>>],
   struck |-> {"amp", "idx", "pitch"}, gate |-> {"amp"}, heard |-> {"amp"}]

BassDrumBoom ==
  [derives |-> [base_hz |-> {"Tune", "Note"}, amp_s |-> {"Decay"}, sweep_coeff |-> {"Decay"},
                tone |-> {"Tone"}, depth |-> {"Snap"}],
   onParam |-> [Tune |-> {"base_hz"}, Decay |-> {"amp_s", "sweep_coeff"},
                Tone |-> {"tone"}, Snap |-> {"depth"}],
   times |-> [amp |-> <<"amp_s", 2, 5>>],
   struck |-> {"amp"}, gate |-> {"amp"}, heard |-> {"amp"}]

SnareDrumPunch ==
  [derives |-> [base_hz |-> {"Tune", "Note"}, rattle_s |-> {"Decay"}, body_s |-> {"Decay"},
                drop_coeff |-> {"Decay"}, hp_hz |-> {"Tone"}, snap |-> {"Snap"}],
   onParam |-> [Tune |-> {"base_hz"}, Decay |-> {"rattle_s", "body_s", "drop_coeff"},
                Tone |-> {"hp_hz"}, Snap |-> {"snap"}],
   times |-> [crack |-> <<Fixed, 3, 3>>, rattle |-> <<"rattle_s", 2, 5>>,
              body |-> <<"body_s", 1, 4>>],
   struck |-> {"crack", "rattle", "body"}, gate |-> {"crack", "rattle", "body"},
   heard |-> {"crack", "rattle", "body"}]

(* The click has no part in the gate: it is always shorter than the body. *)
BassDrum909 ==
  [derives |-> [base_hz |-> {"Tune", "Note"}, amp_s |-> {"Decay"}, click_amt |-> {"Tone"},
                depth |-> {"Snap"}],
   onParam |-> [Tune |-> {"base_hz"}, Decay |-> {"amp_s"}, Tone |-> {"click_amt"},
                Snap |-> {"depth", "amp_s"}],
   times |-> [amp |-> <<"amp_s", 2, 4>>, click |-> <<Fixed, 1, 1>>],
   struck |-> {"amp", "click"}, gate |-> {"amp"}, heard |-> {"amp", "click"}]

SnareDrum808 ==
  [derives |-> [hz |-> {"Tune", "Note"}, amp_s |-> {"Decay"}, tone |-> {"Tone"},
                snappy |-> {"Snap"}],
   onParam |-> [Tune |-> {"hz"}, Decay |-> {"amp_s"}, Tone |-> {"tone"}, Snap |-> {"snappy"}],
   times |-> [amp |-> <<"amp_s", 2, 4>>],
   struck |-> {"amp"}, gate |-> {"amp"}, heard |-> {"amp"}]

(* grains counts those of a hit: one, and one more for each seventh of SNAP. *)
GlitchPerc ==
  [derives |-> [base_hz |-> {"Tune", "Note"}, grain_s |-> {"Decay"}, crush |-> {"Tone"},
                chaos |-> {"Snap"}],
   onParam |-> [Tune |-> {"base_hz"}, Decay |-> {"grain_s"}, Tone |-> {"crush"},
                Snap |-> {"chaos"}],
   times |-> [grain |-> <<"grain_s", 1, 2>>, grains |-> <<"chaos", 1, 3>>],
   struck |-> {"grain"}, gate |-> {"grain"}, heard |-> {"grain"}]

(* Every parameter that matters recalculates the modes and the hold. *)
Triangle ==
  [derives |-> [base_hz |-> {"Tune", "Note"}, bright |-> {"Tone"}, stretch |-> {"Snap"},
                modes |-> {"Tune", "Note", "Decay", "Tone", "Snap"}, hold_samples |-> {"Decay"}],
   onParam |-> [Tune |-> {"base_hz", "modes", "hold_samples"}, Decay |-> {"modes", "hold_samples"},
                Tone |-> {"bright", "modes", "hold_samples"},
                Snap |-> {"stretch", "modes", "hold_samples"}],
   times |-> [strike |-> <<Fixed, 1, 1>>, hold |-> <<"hold_samples", 3, 6>>],
   struck |-> {"strike"}, gate |-> {}, heard |-> {"strike"}]

(* DaisySP's own models, which decay by themselves and have no gate here.   *)
(* They differ in what their setters are called.                            *)
Wrapped ==
  [derives |-> [hz |-> {"Tune", "Note"}, decay |-> {"Decay"}, tone |-> {"Tone"},
                snap |-> {"Snap"}],
   onParam |-> [Tune |-> {"hz"}, Decay |-> {"decay"}, Tone |-> {"tone"}, Snap |-> {"snap"}],
   times |-> <<>>, struck |-> {}, gate |-> {}, heard |-> {}]

BassDrum == Wrapped
SnareDrum == Wrapped
HiHatVoice == Wrapped

EmptySlot ==
  [derives |-> <<>>, onParam |-> <<>>, times |-> <<>>,
   struck |-> {}, gate |-> {}, heard |-> {}]

(* MachineSlot::Set: the class behind each MachineId. *)
ClassOf ==
  [Silent |-> EmptySlot, BdAnalog |-> BassDrum, Bd909 |-> BassDrum909, BdBoom |-> BassDrumBoom,
   SdSynth |-> SnareDrum, Sd808 |-> SnareDrum808, SdPunch |-> SnareDrumPunch,
   Glitch |-> GlitchPerc, HatClosed |-> HiHatVoice, HatOpen |-> HiHatVoice, Tom |-> Tom,
   Clap |-> Clap, RimShot |-> RimShot, FmPerc |-> FmVoice, Triangle |-> Triangle]

Machines == DOMAIN ClassOf
=============================================================================
