------------------------------- MODULE Voices -------------------------------
(***************************************************************************)
(* One track's machine: the MachineSlot of src/engine/machines.h with the   *)
(* voice constructed in it, VoiceBase of src/engine/voice.h and the         *)
(* Trigger, Process and OnParam of the voice classes (MachineClasses).       *)
(* Process is one step for every unit of time.  An envelope (DaisySP's      *)
(* AdEnv) runs from Trigger until its time is up, whatever its time is set   *)
(* to on the way; once over it reads zero.                                  *)
(***************************************************************************)
EXTENDS MachineClasses, Integers, Sequences

CONSTANT MaxStrikes   \* bound: triggers

ASSUME VoicesAssumption == MaxStrikes \in Nat

(* The parameters the classes look at, in the order Rebind pushes them.     *)
(* LEVEL and, but for FM, DRIVE are read where the sound is made.           *)
Place == [Tune |-> 0, Decay |-> 1, Tone |-> 2, Snap |-> 3, Drive |-> 4, Note |-> 7]

VoiceParams == DOMAIN Place

Levels == {0, 1}

(* kParamDefault, one half but for DRIVE, taken as the upper level. *)
ParamDefault == [p \in VoiceParams |-> IF p = "Drive" THEN 0 ELSE 1]

Off == -1

VARIABLES
  machine,   \* MachineSlot::id_
  param,     \* VoiceBase::params_
  derived,   \* for each quantity, the parameter values it was worked out from
  active,    \* active_
  env,       \* for each envelope, how long it has run, or Off
  hit,       \* bursts_left_, grains_left_ or left_; countdown_; tail_started_
  pending,   \* pending_: a trigger the DaisySP model has not been given yet
  rng,       \* Glitch: draws since the seed
  strikes,   \* triggers so far
  sounded    \* history: what the hit that sounds is made of so far (bursts and tail, or
             \* draws, or strikes given to a DaisySP model), and the SNAP it was struck at

voiceVars == <<machine, param, derived, active, env, hit, pending, rng, strikes, sounded>>

Class == ClassOf[machine]

(* Bound: the history is kept to one event more than any hit should have.   *)
Noted(played, event) == IF Len(played) < 5 THEN Append(played, event) ELSE played

Quantities(m) == DOMAIN ClassOf[m].derives

Envelopes(m) == ClassOf[m].struck \cup ClassOf[m].gate

-----------------------------------------------------------------------------
(* Parameters. *)

OnParam(m, p) == IF p \in DOMAIN ClassOf[m].onParam THEN ClassOf[m].onParam[p] ELSE {}

(* Mutant of Cases: NOTE changes the multiplier alone. *)
CasesOfOne(m, p) == OnParam(m, p)

(* VoiceBase::SetParam: NOTE is heard through TUNE, and runs that again.    *)
Cases(m, p) == IF p = "Note" THEN OnParam(m, "Tune") ELSE OnParam(m, p)

Stamp(m, q, values) == [p \in ClassOf[m].derives[q] |-> values[p]]

(* What a quantity holds that the constructor alone has set. *)
Built == <<>>

(* MachineSlot::Set and Rebind: a new voice starts from the defaults, then  *)
(* is told every value in turn; q keeps what the last parameter that works  *)
(* it out has seen.                                                         *)
Rebound(m, q, values) ==
  LET by == {p \in VoiceParams : q \in Cases(m, p)}
      last == CHOOSE p \in by : \A o \in by : Place[o] <= Place[p]
  IN IF by = {} THEN Built
     ELSE Stamp(m, q, [p \in VoiceParams |-> IF Place[p] <= Place[last] THEN values[p]
                                             ELSE ParamDefault[p]])

Fresh(m) ==
  /\ machine' = m
  /\ derived' = [q \in Quantities(m) |-> Rebound(m, q, param)]
  /\ active' = FALSE
  /\ env' = [e \in Envelopes(m) |-> Off]
  /\ hit' = [left |-> 0, wait |-> 0, tailed |-> TRUE]
  /\ pending' = FALSE
  /\ rng' = 0
  /\ sounded' = [snap |-> 0, what |-> <<>>]

(* Machine::Init leaves the voice as ApplyKit has set it. *)
VoiceInit ==
  /\ machine \in Machines
  /\ param = ParamDefault
  /\ derived = [q \in Quantities(machine) |-> Rebound(machine, q, ParamDefault)]
  /\ active = FALSE
  /\ env = [e \in Envelopes(machine) |-> Off]
  /\ hit = [left |-> 0, wait |-> 0, tailed |-> TRUE]
  /\ pending = FALSE /\ rng = 0 /\ strikes = 0
  /\ sounded = [snap |-> 0, what |-> <<>>]

SetVoiceParam(p, v) ==
  /\ param' = [param EXCEPT ![p] = v]
  /\ derived' = [q \in Quantities(machine) |->
                   IF q \in Cases(machine, p) THEN Stamp(machine, q, param') ELSE derived[q]]
  /\ UNCHANGED <<machine, active, env, hit, pending, rng, strikes, sounded>>

(* SetMachine to the machine that is there already changes nothing. *)
SetMachine(m) == m # machine /\ Fresh(m) /\ UNCHANGED <<param, strikes>>

-----------------------------------------------------------------------------
(* Trigger. *)

(* The time t's quantity gives now. *)
Time(t) ==
  LET q == Class.times[t][1]
      long == q # Fixed /\ \E p \in DOMAIN derived[q] : derived[q][p] = 1
  IN Class.times[t][IF long THEN 3 ELSE 2]

Chaos == derived["chaos"]["Snap"]

(* GlitchPerc::NextGrain, on the generator as r draws have left it. *)
NextGrain(r, played) ==
  /\ rng' = r + 1
  /\ sounded' = [sounded EXCEPT !.snap = IF played = <<>> THEN Chaos ELSE @,
                                !.what = Noted(played, r + 1)]

(* Reproducible at SNAP 0. *)
SeedFor == IF Chaos = 0 THEN 0 ELSE rng

Struck == [e \in DOMAIN env |-> IF e \in Class.struck THEN 0 ELSE env[e]]

Counted ==
  CASE machine = "Clap" -> 3
    [] machine = "Triangle" -> Time("hold")
    [] machine = "Glitch" -> Time("grains")
    [] OTHER -> 0

(* The wrappers of a whole DaisySP model leave the ending to it and are     *)
(* never gated.  Sd808 is one with an envelope around it.                   *)
Ungated == {"Silent", "BdAnalog", "SdSynth", "HatClosed", "HatOpen"}

Wrapping == (Ungated \ {"Silent"}) \cup {"Sd808"}

Trigger ==
  /\ strikes < MaxStrikes /\ strikes' = strikes + 1
  /\ active' = (machine \notin Ungated)
  /\ pending' = (machine \in Wrapping)
  /\ env' = Struck
  /\ hit' = [left |-> Counted, wait |-> 0, tailed |-> FALSE]
  /\ IF machine = "Glitch" THEN NextGrain(SeedFor, <<>>)
     ELSE UNCHANGED rng /\ sounded' = [snap |-> 0, what |-> <<>>]
  /\ UNCHANGED <<machine, param, derived>>

-----------------------------------------------------------------------------
(* Process.  A gated voice that is not active returns at once.              *)

Advanced(ages) ==
  [e \in DOMAIN ages |->
     IF ages[e] = Off \/ ages[e] + 1 >= Time(e) THEN Off ELSE ages[e] + 1]

AllOff(ages, es) == \A e \in es : ages[e] = Off

(* Mutant of GateShut: any envelope of the gate may close it. *)
GateShutByOne(ages) == \E e \in Class.gate : ages[e] = Off

(* An envelope reads zero on the sample it is over, so the classes that ask *)
(* for that too close no later than those that do not.                      *)
GateShut(ages) == AllOff(ages, Class.gate)

Passed == FALSE

Strike ==
  /\ pending' = Passed
  /\ sounded' = IF pending THEN [sounded EXCEPT !.what = Noted(@, "strike")] ELSE sounded

ProcessUngated ==
  /\ pending /\ machine \in Ungated
  /\ Strike
  /\ UNCHANGED <<machine, param, derived, active, env, hit, rng, strikes>>

ProcessGated ==
  /\ active /\ machine \notin {"Clap", "Glitch", "Triangle"}
  /\ Strike
  /\ env' = Advanced(env)
  /\ active' = ~GateShut(env')
  /\ UNCHANGED <<machine, param, derived, hit, rng, strikes>>

BurstDue == hit.left > 0 /\ hit.wait <= 0

(* Mutant of LeftAfterBurst: a burst is not counted. *)
LeftAfterBurstKept == hit.left

LeftAfterBurst == hit.left - 1

TailDue == ~BurstDue /\ hit.left = 0 /\ ~hit.tailed

ProcessClap ==
  /\ active /\ machine = "Clap"
  /\ hit' = [left |-> IF BurstDue THEN LeftAfterBurst ELSE hit.left,
             wait |-> (IF BurstDue THEN Time("spread") ELSE hit.wait) - 1,
             tailed |-> hit.tailed \/ TailDue]
  /\ env' = Advanced([burst |-> IF BurstDue THEN 0 ELSE env.burst,
                      tail |-> IF TailDue THEN 0 ELSE env.tail])
  /\ sounded' = [sounded EXCEPT !.what =
       IF BurstDue THEN Noted(@, "burst") ELSE IF TailDue THEN Noted(@, "tail") ELSE @]
  /\ active' = ~(hit'.left = 0 /\ hit'.tailed /\ GateShut(env'))
  /\ UNCHANGED <<machine, param, derived, pending, rng, strikes>>

(* Mutant of LastGrain: one grain more. *)
LastGrainAfter == hit.left - 1 < 0

LastGrain == hit.left - 1 <= 0

ProcessGlitch ==
  /\ active /\ machine = "Glitch"
  /\ IF ~GateShut(Advanced(env))
     THEN env' = Advanced(env) /\ UNCHANGED <<active, hit, rng, sounded>>
     ELSE /\ hit' = [hit EXCEPT !.left = @ - 1]
          /\ active' = ~LastGrain
          /\ IF LastGrain THEN env' = Advanced(env) /\ UNCHANGED <<rng, sounded>>
             ELSE env' = [grain |-> 0] /\ NextGrain(rng, sounded.what)
  /\ UNCHANGED <<machine, param, derived, pending, strikes>>

(* The hold counts down from what it was when the triangle was struck. *)
ProcessTriangle ==
  /\ active /\ machine = "Triangle"
  /\ hit' = [hit EXCEPT !.left = @ - 1]
  /\ active' = (hit'.left > 0)
  /\ env' = IF active' THEN Advanced(env) ELSE env
  /\ UNCHANGED <<machine, param, derived, pending, rng, strikes, sounded>>

Process == ProcessUngated \/ ProcessGated \/ ProcessClap \/ ProcessGlitch \/ ProcessTriangle

VoiceNext ==
  \/ \E p \in VoiceParams, v \in Levels : SetVoiceParam(p, v)
  \/ \E m \in Machines : SetMachine(m)
  \/ Trigger
  \/ Process

(* The callback renders for as long as the machine is on. *)
VoiceSpec == VoiceInit /\ [][VoiceNext]_voiceVars /\ WF_voiceVars(Process)

-----------------------------------------------------------------------------
(* Properties. *)

(* Whatever order knobs, locks, modulation and machine changes come in, what *)
(* a voice has worked out is what its parameters say now: no setter leaves   *)
(* behind a pitch, time or depth that another parameter has since moved.     *)
DerivedCurrent ==
  \A q \in Quantities(machine) : derived[q] = Stamp(machine, q, param)

(* The gate closes on silence: no envelope that is heard is still running    *)
(* when a voice goes idle, so no tail is cut.                                *)
ClosesOnSilence ==
  [][active /\ ~active' /\ machine' = machine => AllOff(env', Class.heard)]_voiceVars

(* A clap that has ended had its three bursts and then its tail, a glitch    *)
(* struck at SNAP 0 has its one grain, the same at every strike, and a       *)
(* DaisySP model is struck once, however the voice was struck again or       *)
(* turned meanwhile.                                                         *)
HitsWhole ==
  /\ machine = "Clap" /\ ~active /\ sounded.what # <<>> =>
       sounded.what = <<"burst", "burst", "burst", "tail">>
  /\ machine = "Glitch" /\ sounded.what # <<>> /\ sounded.snap = 0 => sounded.what = <<1>>
  /\ machine \in Wrapping /\ ~pending /\ sounded.what # <<>> => sounded.what = <<"strike">>

(* Every hit ends: once nothing strikes it any more a voice goes idle and    *)
(* costs nothing, whatever is turned while it rings.                         *)
HitEnds == <>[]~active

-----------------------------------------------------------------------------
(* Said of the code, and not true of it. *)

(* FM: the index envelope is always shorter than the amplitude envelope.     *)
IndexShorter == machine = "FmPerc" => Time("idx") < Time("amp")

(* Triangle: the gate is a countdown of six time constants; with DECAY       *)
(* turned up while it rings they are longer, and so is what is left.         *)
RingsOut ==
  [][machine = "Triangle" /\ active /\ SetVoiceParam("Decay", 1) /\ param.Decay = 0 =>
       hit'.left > hit.left]_voiceVars
=============================================================================
