--------------------------- MODULE SoundPathProofs ---------------------------
(***************************************************************************)
(* What each part of a track's sound promises, for every value of its        *)
(* constants: first that a step of the whole is a step of each part, then    *)
(* part by part.                                                             *)
(***************************************************************************)
EXTENDS SoundPath, TLAPS

(* The parts share no variable: each sees its own steps and stutters.        *)
LEMMA PartsStart == Init => VoiceInit /\ StripInit /\ LfoInit /\ DelayInit
BY DEF Init

LEMMA PartsStep ==
  [Next]_vars => /\ [VoiceNext]_voiceVars /\ [StripNext]_stripVars
                 /\ [LfoNext]_lfoVars /\ [DelayNext]_delayVars
<1>1. CASE UNCHANGED vars BY <1>1 DEF vars
<1>2. CASE Next BY <1>2 DEF Next
<1> QED BY <1>1, <1>2

-----------------------------------------------------------------------------
(* The machine.  First, class by class: every parameter a quantity depends on *)
(* works it out again.                                                       *)

Again(c, p) ==
  LET told == IF p = "Note" THEN "Tune" ELSE p
  IN IF told \in DOMAIN c.onParam THEN c.onParam[told] ELSE {}

Covers(c) ==
  \A q \in DOMAIN c.derives : \A p \in c.derives[q] : p \in VoiceParams /\ q \in Again(c, p)

LEMMA TomCovers == Covers(Tom) BY DEF Covers, Again, Tom, VoiceParams, Place
LEMMA ClapCovers == Covers(Clap) BY DEF Covers, Again, Clap, VoiceParams, Place
LEMMA RimShotCovers == Covers(RimShot) BY DEF Covers, Again, RimShot, VoiceParams, Place
LEMMA FmVoiceCovers == Covers(FmVoice) BY DEF Covers, Again, FmVoice, VoiceParams, Place
LEMMA BassDrumBoomCovers == Covers(BassDrumBoom)
BY DEF Covers, Again, BassDrumBoom, VoiceParams, Place
LEMMA SnareDrumPunchCovers == Covers(SnareDrumPunch)
BY DEF Covers, Again, SnareDrumPunch, VoiceParams, Place
LEMMA BassDrum909Covers == Covers(BassDrum909)
BY DEF Covers, Again, BassDrum909, VoiceParams, Place
LEMMA SnareDrum808Covers == Covers(SnareDrum808)
BY DEF Covers, Again, SnareDrum808, VoiceParams, Place
LEMMA GlitchPercCovers == Covers(GlitchPerc) BY DEF Covers, Again, GlitchPerc, VoiceParams, Place
LEMMA TriangleCovers == Covers(Triangle) BY DEF Covers, Again, Triangle, VoiceParams, Place
LEMMA WrappedCovers == Covers(Wrapped) BY DEF Covers, Again, Wrapped, VoiceParams, Place
LEMMA EmptySlotCovers == Covers(EmptySlot) BY DEF Covers, Again, EmptySlot

LEMMA EveryClassCovers ==
  ASSUME NEW m \in Machines
  PROVE  Covers(ClassOf[m])
<1>1. ClassOf[m] \in {EmptySlot, Wrapped, BassDrum909, BassDrumBoom, SnareDrum808,
                      SnareDrumPunch, GlitchPerc, Tom, Clap, RimShot, FmVoice, Triangle}
  BY DEF Machines, ClassOf, BassDrum, SnareDrum, HiHatVoice
<1> QED
  BY <1>1, TomCovers, ClapCovers, RimShotCovers, FmVoiceCovers, BassDrumBoomCovers,
     SnareDrumPunchCovers, BassDrum909Covers, SnareDrum808Covers, GlitchPercCovers,
     TriangleCovers, WrappedCovers, EmptySlotCovers

LEMMA CasesCover ==
  ASSUME NEW m \in Machines, NEW q \in Quantities(m), NEW p \in ClassOf[m].derives[q]
  PROVE  p \in VoiceParams /\ q \in Cases(m, p)
<1>1. Covers(ClassOf[m]) BY EveryClassCovers
<1>2. p \in VoiceParams /\ q \in Again(ClassOf[m], p) BY <1>1 DEF Covers, Quantities
<1>3. Again(ClassOf[m], p) = Cases(m, p) BY DEF Again, Cases, OnParam
<1> QED BY <1>2, <1>3

-----------------------------------------------------------------------------
(* A new voice has been told every value, whatever order Rebind goes in.     *)

LEMMA LastTold ==
  ASSUME NEW S \in SUBSET VoiceParams, S # {}
  PROVE  \E p \in S : \A o \in S : Place[o] <= Place[p]
<1>1. VoiceParams = {"Tune", "Decay", "Tone", "Snap", "Drive", "Note"}
  BY DEF VoiceParams, Place
<1>2. /\ Place["Tune"] = 0 /\ Place["Decay"] = 1 /\ Place["Tone"] = 2 /\ Place["Snap"] = 3
      /\ Place["Drive"] = 4 /\ Place["Note"] = 7
  BY DEF Place
<1>3. CASE "Note" \in S
  <2>1. "Note" \in S /\ \A o \in S : Place[o] <= Place["Note"] BY <1>1, <1>2, <1>3
  <2> QED BY <2>1
<1>4. CASE "Note" \notin S /\ "Drive" \in S
  <2>1. "Drive" \in S /\ \A o \in S : Place[o] <= Place["Drive"] BY <1>1, <1>2, <1>4
  <2> QED BY <2>1
<1>5. CASE S \cap {"Note", "Drive"} = {} /\ "Snap" \in S
  <2>1. "Snap" \in S /\ \A o \in S : Place[o] <= Place["Snap"] BY <1>1, <1>2, <1>5
  <2> QED BY <2>1
<1>6. CASE S \cap {"Note", "Drive", "Snap"} = {} /\ "Tone" \in S
  <2>1. "Tone" \in S /\ \A o \in S : Place[o] <= Place["Tone"] BY <1>1, <1>2, <1>6
  <2> QED BY <2>1
<1>7. CASE S \cap {"Note", "Drive", "Snap", "Tone"} = {} /\ "Decay" \in S
  <2>1. "Decay" \in S /\ \A o \in S : Place[o] <= Place["Decay"] BY <1>1, <1>2, <1>7
  <2> QED BY <2>1
<1>8. CASE S = {"Tune"}
  <2>1. "Tune" \in S /\ \A o \in S : Place[o] <= Place["Tune"] BY <1>1, <1>2, <1>8
  <2> QED BY <2>1
<1>9. CASE S \cap {"Note", "Drive", "Snap", "Tone", "Decay"} = {}
  <2>1. S = {"Tune"} BY <1>1, <1>9
  <2> QED BY <2>1, <1>8
<1> QED BY <1>3, <1>4, <1>5, <1>6, <1>7, <1>9

LEMMA ReboundCurrent ==
  ASSUME NEW m \in Machines, NEW q \in Quantities(m), NEW values \in [VoiceParams -> Levels],
         ClassOf[m].derives[q] # {}
  PROVE  Rebound(m, q, values) = Stamp(m, q, values)
<1> DEFINE by == {p \in VoiceParams : q \in Cases(m, p)}
           last == CHOOSE p \in by : \A o \in by : Place[o] <= Place[p]
           told == [p \in VoiceParams |-> IF Place[p] <= Place[last] THEN values[p]
                                          ELSE ParamDefault[p]]
<1>1. \A p \in ClassOf[m].derives[q] : p \in by BY CasesCover
<1>2. by # {} /\ by \in SUBSET VoiceParams BY <1>1
<1>3. \A o \in by : Place[o] <= Place[last]
  <2>1. \E p \in by : \A o \in by : Place[o] <= Place[p] BY <1>2, LastTold
  <2> HIDE DEF by
  <2> QED BY <2>1
<1>4. \A p \in ClassOf[m].derives[q] : told[p] = values[p]
  <2> HIDE DEF last
  <2> QED BY <1>1, <1>3
<1>5. Rebound(m, q, values) = Stamp(m, q, told) BY <1>2, Zenon DEF Rebound
<1>6. Stamp(m, q, told) = Stamp(m, q, values)
  <2> HIDE DEF told
  <2> QED BY <1>4 DEF Stamp
<1> QED BY <1>5, <1>6

(* No class keeps a quantity that depends on nothing. *)
LEMMA NoneConstant ==
  ASSUME NEW m \in Machines, NEW q \in Quantities(m)
  PROVE  ClassOf[m].derives[q] # {}
<1>1. ClassOf[m] \in {EmptySlot, Wrapped, BassDrum909, BassDrumBoom, SnareDrum808,
                      SnareDrumPunch, GlitchPerc, Tom, Clap, RimShot, FmVoice, Triangle}
  BY DEF Machines, ClassOf, BassDrum, SnareDrum, HiHatVoice
<1> DEFINE Depends(c) == \A r \in DOMAIN c.derives : c.derives[r] # {}
<1>2. Depends(EmptySlot) /\ Depends(Wrapped) /\ Depends(BassDrum909) /\ Depends(BassDrumBoom)
  BY DEF EmptySlot, Wrapped, BassDrum909, BassDrumBoom
<1>3. Depends(SnareDrum808) /\ Depends(SnareDrumPunch) /\ Depends(GlitchPerc) /\ Depends(Tom)
  BY DEF SnareDrum808, SnareDrumPunch, GlitchPerc, Tom
<1>4. Depends(Clap) /\ Depends(RimShot) /\ Depends(FmVoice) /\ Depends(Triangle)
  BY DEF Clap, RimShot, FmVoice, Triangle
<1>5. Depends(ClassOf[m])
  <2> HIDE DEF Depends
  <2> QED BY <1>1, <1>2, <1>3, <1>4
<1> QED BY <1>5 DEF Quantities

-----------------------------------------------------------------------------
VoiceInv ==
  /\ machine \in Machines
  /\ param \in [VoiceParams -> Levels]
  /\ derived = [q \in Quantities(machine) |-> Stamp(machine, q, param)]

LEMMA FreshCurrent ==
  ASSUME NEW m \in Machines, NEW values \in [VoiceParams -> Levels]
  PROVE  [q \in Quantities(m) |-> Rebound(m, q, values)]
           = [q \in Quantities(m) |-> Stamp(m, q, values)]
<1>1. \A q \in Quantities(m) : Rebound(m, q, values) = Stamp(m, q, values)
  BY ReboundCurrent, NoneConstant
<1> QED BY <1>1

LEMMA VoiceStep == VoiceInv /\ [VoiceNext]_voiceVars => VoiceInv'
<1> SUFFICES ASSUME VoiceInv, [VoiceNext]_voiceVars
             PROVE  VoiceInv'
  OBVIOUS
<1>1. ASSUME NEW p \in VoiceParams, NEW v \in Levels, SetVoiceParam(p, v)
      PROVE  VoiceInv'
  <2>1. machine' = machine /\ param' = [param EXCEPT ![p] = v]
    BY <1>1 DEF SetVoiceParam
  <2>2. param' \in [VoiceParams -> Levels] BY <2>1 DEF VoiceInv
  <2>3. \A q \in Quantities(machine) :
          q \notin Cases(machine, p) => Stamp(machine, q, param') = Stamp(machine, q, param)
    <3>1. ASSUME NEW q \in Quantities(machine), q \notin Cases(machine, p)
          PROVE  \A o \in ClassOf[machine].derives[q] : param'[o] = param[o]
      <4>1. p \notin ClassOf[machine].derives[q] BY <3>1, CasesCover DEF VoiceInv
      <4>2. \A o \in ClassOf[machine].derives[q] : o \in VoiceParams
        BY CasesCover DEF VoiceInv
      <4> QED BY <4>1, <4>2, <2>1 DEF VoiceInv
    <3> QED BY <3>1 DEF Stamp
  <2>4. derived' = [q \in Quantities(machine) |->
                      IF q \in Cases(machine, p) THEN Stamp(machine, q, param') ELSE derived[q]]
    BY <1>1 DEF SetVoiceParam
  <2>5. derived' = [q \in Quantities(machine) |-> Stamp(machine, q, param')]
    BY <2>3, <2>4 DEF VoiceInv
  <2> QED BY <2>1, <2>2, <2>5 DEF VoiceInv, Quantities, Stamp
<1>2. ASSUME NEW m \in Machines, SetMachine(m)
      PROVE  VoiceInv'
  <2>1. /\ machine' = m /\ param' = param
        /\ derived' = [q \in Quantities(m) |-> Rebound(m, q, param)]
    BY <1>2 DEF SetMachine, Fresh
  <2>2. derived' = [q \in Quantities(m) |-> Stamp(m, q, param)]
    BY <2>1, FreshCurrent DEF VoiceInv
  <2> QED BY <2>1, <2>2 DEF VoiceInv, Quantities, Stamp
<1>3. CASE Trigger \/ Process \/ UNCHANGED voiceVars
  <2>1. UNCHANGED <<machine, param, derived>>
    BY <1>3 DEF Trigger, Process, ProcessUngated, ProcessGated, ProcessClap, ProcessGlitch,
                ProcessTriangle, voiceVars
  <2> QED BY <2>1 DEF VoiceInv, Quantities, Stamp
<1> QED BY <1>1, <1>2, <1>3 DEF VoiceNext

(* Every setter of every machine brings up to date all that depends on it,  *)
(* and a new machine is told everything, so that nothing a voice has worked *)
(* out is ever stale.                                                        *)
THEOREM DerivedIsCurrent == Spec => []DerivedCurrent
<1>1. VoiceInit => VoiceInv
  <2>1. ParamDefault \in [VoiceParams -> Levels] BY DEF ParamDefault, Levels
  <2> QED BY <2>1, FreshCurrent DEF VoiceInit, VoiceInv
<1>2. VoiceInv => DerivedCurrent BY DEF VoiceInv, DerivedCurrent
<1> QED BY <1>1, <1>2, VoiceStep, PartsStart, PartsStep, PTL DEF Spec

-----------------------------------------------------------------------------
(* The hit that sounds.  HitsWhole looks at hits that have ended; on the     *)
(* way, what has sounded is told by what is left: a clap's bursts by its     *)
(* countdown, a glitch struck at SNAP 0 by the one grain it was given, a     *)
(* DaisySP model by its pending strike.                                      *)
ClapSounded ==
  CASE hit.left = 3 -> <<>>
    [] hit.left = 2 -> <<"burst">>
    [] hit.left = 1 -> <<"burst", "burst">>
    [] OTHER -> IF hit.tailed THEN <<"burst", "burst", "burst", "tail">>
                ELSE <<"burst", "burst", "burst">>

ClapInv ==
  /\ active => hit.left \in 0 .. 3 /\ (hit.tailed => hit.left = 0) /\ sounded.what = ClapSounded
  /\ ~active => sounded.what \in {<<>>, <<"burst", "burst", "burst", "tail">>}

GlitchInv ==
  /\ sounded.what \in Seq(Int)
  /\ active => sounded.what # <<>>
  /\ sounded.what # <<>> /\ sounded.snap = 0 =>
       sounded.what = <<1>> /\ (active => hit.left = 1)

WrappingInv ==
  /\ sounded.what \in {<<>>, <<"strike">>}
  /\ pending => sounded.what = <<>>

(* ClosesOnSilence: two classes are heard through an envelope that is no     *)
(* part of their gate, and is over before the gate can close.                *)
ClickInv == env.click \in {Off, 0} /\ (env.click = 0 => env.amp = 0)

StrikeInv == env.strike \in {Off, 0} /\ (env.strike = 0 => active /\ hit.left >= 2)

HitInv ==
  /\ active \in BOOLEAN /\ pending \in BOOLEAN
  /\ hit \in [left : Int, wait : Int, tailed : BOOLEAN]
  /\ rng \in Int
  /\ sounded = [snap |-> sounded.snap, what |-> sounded.what]
  /\ env \in [Envelopes(machine) -> Int]
  /\ machine = "Clap" => ClapInv
  /\ machine = "Glitch" => GlitchInv
  /\ machine \in Wrapping => WrappingInv
  /\ machine = "Bd909" => ClickInv
  /\ machine = "Triangle" => StrikeInv

(* What the classes above that the proofs look into are made of. *)
LEMMA ClassFacts ==
  /\ ClassOf["Clap"] = Clap /\ ClassOf["Glitch"] = GlitchPerc
  /\ ClassOf["Bd909"] = BassDrum909 /\ ClassOf["Triangle"] = Triangle
  /\ \A m \in Ungated : ClassOf[m] \in {EmptySlot, Wrapped}
BY DEF ClassOf, Ungated, BassDrum, SnareDrum, HiHatVoice

LEMMA EnvelopeNames ==
  /\ Envelopes("Clap") = {"burst", "tail"}
  /\ Envelopes("Glitch") = {"grain"}
  /\ Envelopes("Bd909") = {"amp", "click"}
  /\ Envelopes("Triangle") = {"strike"}
BY ClassFacts DEF Envelopes, Clap, GlitchPerc, BassDrum909, Triangle

(* A time is one of the two of its row. *)
LEMMA TimeOf ==
  ASSUME NEW t \in DOMAIN Class.times
  PROVE  Time(t) \in {Class.times[t][2], Class.times[t][3]}
BY Zenon DEF Time

LEMMA HeardIsGated ==
  ASSUME NEW m \in Machines \ {"Bd909", "Triangle"}
  PROVE  \A e \in ClassOf[m].heard : e \in ClassOf[m].gate
<1>1. ClassOf[m] \in {EmptySlot, Wrapped, BassDrumBoom, SnareDrum808, SnareDrumPunch,
                      GlitchPerc, Tom, Clap, RimShot, FmVoice}
  BY DEF Machines, ClassOf, BassDrum, SnareDrum, HiHatVoice
<1> DEFINE Ok(c) == \A e \in c.heard : e \in c.gate
<1>2. Ok(EmptySlot) /\ Ok(Wrapped) /\ Ok(BassDrumBoom) /\ Ok(SnareDrum808)
  BY DEF EmptySlot, Wrapped, BassDrumBoom, SnareDrum808
<1>3. Ok(SnareDrumPunch) /\ Ok(GlitchPerc) /\ Ok(Tom)
  BY DEF SnareDrumPunch, GlitchPerc, Tom
<1>4. Ok(Clap) /\ Ok(RimShot) /\ Ok(FmVoice)
  BY DEF Clap, RimShot, FmVoice
<1>5. Ok(ClassOf[m])
  <2> HIDE DEF Ok
  <2> QED BY <1>1, <1>2, <1>3, <1>4
<1> QED BY <1>5

LEMMA AdvancedTyped ==
  ASSUME NEW S, NEW ages \in [S -> Int]
  PROVE  Advanced(ages) \in [S -> Int]
BY DEF Advanced, Off

-----------------------------------------------------------------------------
LEMMA HitFresh ==
  ASSUME NEW m \in Machines, Fresh(m)
  PROVE  HitInv'
<1>1. /\ machine' = m /\ active' = FALSE /\ pending' = FALSE /\ rng' = 0
      /\ env' = [e \in Envelopes(m) |-> Off]
      /\ hit' = [left |-> 0, wait |-> 0, tailed |-> TRUE]
      /\ sounded' = [snap |-> 0, what |-> <<>>]
  BY DEF Fresh
<1>2. env' \in [Envelopes(m) -> Int] /\ Envelopes(machine)' = Envelopes(m)
  BY <1>1 DEF Off, Envelopes
<1>3. machine' = "Bd909" => ClickInv'
  BY <1>1, EnvelopeNames DEF ClickInv, Off
<1>4. machine' = "Triangle" => StrikeInv'
  BY <1>1, EnvelopeNames DEF StrikeInv, Off
<1>5. ClapInv' /\ GlitchInv' /\ WrappingInv'
  BY <1>1 DEF ClapInv, GlitchInv, WrappingInv
<1>6. /\ sounded' = [snap |-> sounded'.snap, what |-> sounded'.what]
      /\ hit' \in [left : Int, wait : Int, tailed : BOOLEAN]
      /\ rng' \in Int /\ active' \in BOOLEAN /\ pending' \in BOOLEAN
  <2>1. sounded'.snap = 0 /\ sounded'.what = <<>>
    BY <1>1
  <2>2. sounded' = [snap |-> sounded'.snap, what |-> sounded'.what]
    BY <1>1, <2>1
  <2>3. active' \in BOOLEAN /\ pending' \in BOOLEAN
    BY <1>1, Zenon
  <2> QED
    BY <1>1, <2>2, <2>3
<1> QED
  BY <1>1, <1>2, <1>3, <1>4, <1>5, <1>6 DEF HitInv

(* A strike starts a hit from nothing, whatever it cuts short. *)
LEMMA HitTrigger ==
  ASSUME VoiceInv, HitInv, Trigger
  PROVE  HitInv'
<1>1. /\ machine' = machine /\ active' = (machine \notin Ungated)
      /\ pending' = (machine \in Wrapping) /\ env' = Struck
      /\ hit' = [left |-> Counted, wait |-> 0, tailed |-> FALSE]
  BY DEF Trigger
<1>2. env' \in [Envelopes(machine) -> Int] /\ Envelopes(machine)' = Envelopes(machine)
  BY <1>1 DEF Struck, HitInv, Envelopes
<1>3. machine # "Glitch" => rng' = rng /\ sounded' = [snap |-> 0, what |-> <<>>]
  BY DEF Trigger
<1>4. CASE machine = "Clap"
  <2>1. hit' = [left |-> 3, wait |-> 0, tailed |-> FALSE]
    BY <1>1, <1>4 DEF Counted
  <2>2. active'
    BY <1>1, <1>4 DEF Ungated
  <2>3. ClapInv'
    BY <1>3, <1>4, <2>1, <2>2 DEF ClapInv, ClapSounded
  <2> QED
    BY <1>1, <1>2, <1>3, <1>4, <2>1, <2>3 DEF HitInv, Wrapping, Ungated
<1>5. CASE machine = "Glitch"
  <2>1. Class = GlitchPerc
    BY <1>5, ClassFacts DEF Class
  <2>2. derived["chaos"] = [p \in {"Snap"} |-> param[p]] /\ Chaos \in Levels
    <3>1. "chaos" \in Quantities(machine) /\ ClassOf[machine].derives["chaos"] = {"Snap"}
      BY <1>5, ClassFacts DEF Quantities, GlitchPerc
    <3>2. derived["chaos"] = [p \in {"Snap"} |-> param[p]]
      BY <3>1 DEF VoiceInv, Stamp
    <3>3. "Snap" \in VoiceParams
      BY DEF VoiceParams, Place
    <3> QED
      BY <3>2, <3>3 DEF VoiceInv, Chaos
  <2>3. Time("grains") = (IF Chaos = 1 THEN 3 ELSE 1)
    <3>1. Class.times["grains"] = <<"chaos", 1, 3>>
      BY <2>1 DEF GlitchPerc
    <3>2. (\E p \in DOMAIN derived["chaos"] : derived["chaos"][p] = 1) <=> Chaos = 1
      BY <2>2 DEF Chaos
    <3>3. "chaos" # Fixed
      BY DEF Fixed
    <3> QED
      BY <3>1, <3>2, <3>3 DEF Time
  <2>4. /\ rng' = SeedFor + 1
        /\ sounded' = [sounded EXCEPT !.snap = Chaos, !.what = Noted(<<>>, SeedFor + 1)]
    BY <1>5 DEF Trigger, NextGrain
  <2>5. Noted(<<>>, SeedFor + 1) = <<SeedFor + 1>>
    BY DEF Noted
  <2>6. sounded' = [snap |-> Chaos, what |-> <<SeedFor + 1>>]
    BY <2>4, <2>5 DEF HitInv
  <2>7. hit' = [left |-> Time("grains"), wait |-> 0, tailed |-> FALSE]
    BY <1>1, <1>5 DEF Counted
  <2>8. SeedFor \in Int /\ (Chaos = 0 => SeedFor = 0)
    BY DEF SeedFor, HitInv
  <2>9. GlitchInv'
    <3>1. sounded'.what = <<SeedFor + 1>> /\ sounded'.snap = Chaos /\ hit'.left = Time("grains")
      BY <2>6, <2>7
    <3>2. Chaos = 0 => hit'.left = 1 /\ sounded'.what = <<1>>
      BY <2>3, <2>8, <3>1
    <3>3. <<SeedFor + 1>> \in Seq(Int) /\ <<SeedFor + 1>> # <<>>
      BY <2>8
    <3> QED
      BY <3>1, <3>2, <3>3 DEF GlitchInv
  <2>10. rng' \in Int /\ hit' \in [left : Int, wait : Int, tailed : BOOLEAN]
    BY <2>3, <2>4, <2>7, <2>8
  <2>11. /\ sounded' = [snap |-> sounded'.snap, what |-> sounded'.what]
         /\ active' \in BOOLEAN /\ pending' \in BOOLEAN
    BY <1>1, <2>6
  <2> QED
    BY <1>1, <1>2, <1>5, <2>9, <2>10, <2>11 DEF HitInv, Wrapping, Ungated
<1>6. CASE machine = "Triangle"
  <2>1. Class = Triangle
    BY <1>6, ClassFacts DEF Class
  <2>2. Time("hold") \in {3, 6}
    <3>1. "hold" \in DOMAIN Class.times /\ Class.times["hold"] = <<"hold_samples", 3, 6>>
      BY <2>1 DEF Triangle
    <3>2. Time("hold") \in {Class.times["hold"][2], Class.times["hold"][3]}
      BY <3>1, TimeOf
    <3> QED
      BY <3>1, <3>2
  <2>3. hit' = [left |-> Time("hold"), wait |-> 0, tailed |-> FALSE] /\ active'
    BY <1>1, <1>6 DEF Counted, Ungated
  <2>4. env'.strike = 0
    BY <1>1, <1>6, <2>1, EnvelopeNames DEF Struck, HitInv, Triangle
  <2>5. StrikeInv'
    BY <2>2, <2>3, <2>4 DEF StrikeInv
  <2>6. hit' \in [left : Int, wait : Int, tailed : BOOLEAN]
    BY <2>2, <2>3
  <2> QED
    BY <1>1, <1>2, <1>3, <1>6, <2>5, <2>6 DEF HitInv, Wrapping, Ungated
<1>7. CASE machine \notin {"Clap", "Glitch", "Triangle"}
  <2>1. hit' = [left |-> 0, wait |-> 0, tailed |-> FALSE]
    BY <1>1, <1>7 DEF Counted
  <2>2. WrappingInv'
    BY <1>3, <1>7 DEF WrappingInv
  <2>3. ASSUME machine = "Bd909" PROVE ClickInv'
    <3>1. Class.struck = {"amp", "click"}
      BY <2>3, ClassFacts DEF Class, BassDrum909
    <3>2. env'.amp = 0 /\ env'.click = 0
      BY <1>1, <2>3, <3>1, EnvelopeNames DEF Struck, HitInv
    <3> QED
      BY <3>2 DEF ClickInv
  <2> QED
    BY <1>1, <1>2, <1>3, <1>7, <2>1, <2>2, <2>3 DEF HitInv
<1> QED
  BY <1>4, <1>5, <1>6, <1>7

(* One sample of a machine that has a plain gate, or none. *)
LEMMA HitPlain ==
  ASSUME HitInv, ProcessUngated \/ ProcessGated
  PROVE  HitInv'
<1>1. /\ UNCHANGED <<machine, hit, rng>> /\ Strike
      /\ machine \notin {"Clap", "Glitch", "Triangle"}
  BY DEF ProcessUngated, ProcessGated, Ungated
<1>2. /\ active' \in BOOLEAN /\ pending' = FALSE
      /\ env' = env \/ env' = Advanced(env)
  BY <1>1 DEF ProcessUngated, ProcessGated, HitInv, Strike, Passed, GateShut, AllOff
<1>3. env' \in [Envelopes(machine) -> Int] /\ Envelopes(machine)' = Envelopes(machine)
  BY <1>1, <1>2, AdvancedTyped DEF HitInv, Envelopes
<1>4. sounded' = [snap |-> sounded'.snap, what |-> sounded'.what]
  BY <1>1 DEF Strike, HitInv
<1>5. ASSUME machine \in Wrapping PROVE WrappingInv'
  <2>1. CASE pending
    <3>1. sounded'.what = Noted(<<>>, "strike")
      BY <1>1, <1>5, <2>1 DEF Strike, HitInv, WrappingInv
    <3>2. Noted(<<>>, "strike") = <<"strike">>
      BY DEF Noted
    <3> QED
      BY <1>2, <3>1, <3>2 DEF WrappingInv
  <2>2. CASE ~pending
    BY <1>1, <1>2, <1>5, <2>2 DEF Strike, HitInv, WrappingInv
  <2> QED
    BY <2>1, <2>2
<1>6. ASSUME machine = "Bd909" PROVE ClickInv'
  <2>1. CASE env' = env
    BY <1>6, <2>1 DEF HitInv, ClickInv
  <2>2. CASE env' = Advanced(env)
    <3>1. Class.times["click"] = <<Fixed, 1, 1>> /\ "click" \in DOMAIN Class.times
      BY <1>6, ClassFacts DEF Class, BassDrum909
    <3>2. Time("click") = 1
      BY <3>1, TimeOf
    <3>3. DOMAIN env = {"amp", "click"} /\ env.click \in {Off, 0}
      BY <1>6, EnvelopeNames DEF HitInv, ClickInv
    <3>4. env'.click = Off
      BY <2>2, <3>2, <3>3 DEF Advanced
    <3> QED
      BY <3>4 DEF ClickInv, Off
  <2> QED
    BY <1>2, <2>1, <2>2
<1> QED
  BY <1>1, <1>2, <1>3, <1>4, <1>5, <1>6 DEF HitInv

(* The second event of a hit. *)
LEMMA AppendSecond ==
  ASSUME NEW x, NEW y
  PROVE  Append(<<x>>, y) = <<x, y>>
<1> DEFINE a == Append(<<x>>, y)
           b == <<x, y>>
<1>1. a \in Seq({x, y}) /\ Len(a) = 2 /\ a[1] = x /\ a[2] = y
  OBVIOUS
<1>2. b \in Seq({x, y}) /\ Len(b) = 2 /\ b[1] = x /\ b[2] = y
  OBVIOUS
<1> HIDE DEF a, b
<1>3. a = [i \in 1 .. 2 |-> a[i]] /\ b = [i \in 1 .. 2 |-> b[i]]
  BY <1>1, <1>2
<1>4. \A i \in 1 .. 2 : a[i] = b[i]
  BY <1>1, <1>2
<1>5. a = b
  BY <1>3, <1>4
<1> QED
  BY <1>5 DEF a, b

(* A clap's burst or tail is noted as it is counted. *)
LEMMA HitClap ==
  ASSUME HitInv, ProcessClap
  PROVE  HitInv'
<1>1. /\ machine = "Clap" /\ machine' = "Clap" /\ active /\ UNCHANGED <<pending, rng>>
      /\ hit' = [left |-> IF BurstDue THEN LeftAfterBurst ELSE hit.left,
                 wait |-> (IF BurstDue THEN Time("spread") ELSE hit.wait) - 1,
                 tailed |-> hit.tailed \/ TailDue]
      /\ sounded' = [sounded EXCEPT !.what =
           IF BurstDue THEN Noted(@, "burst") ELSE IF TailDue THEN Noted(@, "tail") ELSE @]
      /\ active' = ~(hit'.left = 0 /\ hit'.tailed /\ GateShut(env'))
  BY DEF ProcessClap
<1>2. /\ hit.left \in 0 .. 3 /\ hit.wait \in Int /\ hit.tailed \in BOOLEAN
      /\ hit.tailed => hit.left = 0
      /\ sounded.what = ClapSounded
  BY <1>1 DEF HitInv, ClapInv
<1>3. Time("spread") \in {1, 4}
  <2>1. "spread" \in DOMAIN Class.times /\ Class.times["spread"] = <<"spread_s", 1, 4>>
    BY <1>1, ClassFacts DEF Class, Clap
  <2> QED
    BY <2>1, TimeOf
<1>4. hit' \in [left : Int, wait : Int, tailed : BOOLEAN]
  BY <1>1, <1>2, <1>3 DEF LeftAfterBurst, TailDue, BurstDue
<1>5. sounded' = [snap |-> sounded.snap, what |->
        IF BurstDue THEN Noted(sounded.what, "burst")
        ELSE IF TailDue THEN Noted(sounded.what, "tail") ELSE sounded.what]
  BY <1>1 DEF HitInv
<1>6. env' \in [Envelopes(machine) -> Int] /\ Envelopes(machine)' = Envelopes(machine)
  <2> DEFINE ages == [burst |-> IF BurstDue THEN 0 ELSE env.burst,
                      tail |-> IF TailDue THEN 0 ELSE env.tail]
  <2>1. env \in [{"burst", "tail"} -> Int]
    BY <1>1, EnvelopeNames DEF HitInv
  <2>2. ages \in [{"burst", "tail"} -> Int]
    BY <2>1
  <2>3. env' = Advanced(ages)
    BY DEF ProcessClap
  <2> HIDE DEF ages
  <2> QED
    BY <1>1, <2>2, <2>3, AdvancedTyped, EnvelopeNames DEF Envelopes
<1>7. hit'.left \in 0 .. 3 /\ (hit'.tailed => hit'.left = 0)
  BY <1>1, <1>2 DEF BurstDue, LeftAfterBurst, TailDue
<1>8. sounded'.what = ClapSounded'
  <2>1. CASE BurstDue
    <3>1. hit'.left = hit.left - 1 /\ hit.left \in 1 .. 3 /\ hit'.tailed = FALSE
      BY <1>1, <1>2, <2>1 DEF BurstDue, LeftAfterBurst, TailDue
    <3>2. sounded'.what = Noted(sounded.what, "burst")
      BY <1>5, <2>1
    <3>3. CASE hit.left = 3
      BY <1>2, <3>1, <3>2, <3>3 DEF ClapSounded, Noted
    <3>4. CASE hit.left = 2
      <4>1. sounded.what = <<"burst">> /\ Noted(<<"burst">>, "burst") = <<"burst", "burst">>
        <5>1. sounded.what = <<"burst">>
          BY <1>2, <3>4 DEF ClapSounded
        <5>2. Noted(<<"burst">>, "burst") = Append(<<"burst">>, "burst")
          BY DEF Noted
        <5>3. Append(<<"burst">>, "burst") = <<"burst", "burst">>
          BY AppendSecond
        <5> QED
          BY <5>1, <5>2, <5>3
      <4>2. ClapSounded' = <<"burst", "burst">>
        BY <3>1, <3>4 DEF ClapSounded
      <4> QED
        BY <3>2, <4>1, <4>2
    <3>5. CASE hit.left = 1
      BY <1>2, <3>1, <3>2, <3>5 DEF ClapSounded, Noted
    <3> QED
      BY <3>1, <3>3, <3>4, <3>5
  <2>2. CASE ~BurstDue /\ TailDue
    <3>1. hit'.left = 0 /\ hit.left = 0 /\ hit'.tailed = TRUE /\ hit.tailed = FALSE
      BY <1>1, <1>2, <2>2 DEF TailDue
    <3>2. sounded'.what = Noted(sounded.what, "tail")
      BY <1>5, <2>2
    <3> QED
      BY <1>2, <3>1, <3>2 DEF ClapSounded, Noted
  <2>3. CASE ~BurstDue /\ ~TailDue
    <3>1. hit'.left = hit.left /\ hit'.tailed = hit.tailed
      BY <1>1, <1>2, <2>3
    <3>2. sounded'.what = sounded.what
      BY <1>5, <2>3
    <3> QED
      BY <1>2, <3>1, <3>2 DEF ClapSounded
  <2> QED
    BY <2>1, <2>2, <2>3
<1>9. active' \in BOOLEAN /\ (~active' => hit'.left = 0 /\ hit'.tailed)
  BY <1>1
<1>10. ClapInv'
  BY <1>7, <1>8, <1>9 DEF ClapInv, ClapSounded
<1> QED
  BY <1>1, <1>4, <1>5, <1>6, <1>9, <1>10 DEF HitInv, Wrapping, Ungated

LEMMA HitGlitch ==
  ASSUME HitInv, ProcessGlitch
  PROVE  HitInv'
<1>1. machine = "Glitch" /\ machine' = "Glitch" /\ active /\ UNCHANGED pending
  BY DEF ProcessGlitch
<1>2. /\ hit.left \in Int /\ sounded.what \in Seq(Int) /\ sounded.what # <<>> /\ rng \in Int /\ pending \in BOOLEAN
      /\ sounded = [snap |-> sounded.snap, what |-> sounded.what]
      /\ sounded.snap = 0 => sounded.what = <<1>> /\ hit.left = 1
      /\ hit \in [left : Int, wait : Int, tailed : BOOLEAN]
      /\ env \in [{"grain"} -> Int]
  BY <1>1, EnvelopeNames DEF HitInv, GlitchInv
<1>3. Envelopes(machine)' = {"grain"}
  BY <1>1, EnvelopeNames DEF Envelopes
<1>4. CASE ~GateShut(Advanced(env))
  <2>1. env' = Advanced(env) /\ UNCHANGED <<active, hit, rng, sounded>>
    BY <1>4 DEF ProcessGlitch
  <2>2. env' \in [{"grain"} -> Int]
    BY <1>2, <2>1, AdvancedTyped
  <2> QED
    BY <1>1, <1>2, <1>3, <2>1, <2>2 DEF HitInv, GlitchInv, Wrapping, Ungated
<1>5. CASE GateShut(Advanced(env))
  <2>1. /\ hit' = [hit EXCEPT !.left = @ - 1] /\ active' = ~LastGrain
        /\ IF LastGrain THEN env' = Advanced(env) /\ UNCHANGED <<rng, sounded>>
           ELSE env' = [grain |-> 0] /\ NextGrain(rng, sounded.what)
    BY <1>5 DEF ProcessGlitch
  <2>2. hit' \in [left : Int, wait : Int, tailed : BOOLEAN]
    BY <1>2, <2>1, SMTT(30)
  <2>3. CASE LastGrain
    <3>1. env' = Advanced(env) /\ UNCHANGED <<rng, sounded>>
      BY <2>1, <2>3
    <3>2. env' \in [{"grain"} -> Int]
      BY <1>2, <3>1, AdvancedTyped
    <3>3. active' \in BOOLEAN /\ ~active'
      BY <2>1, <2>3, Zenon
    <3> QED
      BY <1>1, <1>2, <1>3, <2>2, <3>1, <3>2, <3>3 DEF HitInv, GlitchInv, Wrapping, Ungated
  <2>4. CASE ~LastGrain
    <3>1. sounded.snap # 0
      BY <1>2, <2>4 DEF LastGrain
    <3>2. /\ rng' = rng + 1
          /\ sounded' = [sounded EXCEPT !.snap = IF sounded.what = <<>> THEN Chaos ELSE @,
                                        !.what = Noted(sounded.what, rng + 1)]
      BY <2>1, <2>4 DEF NextGrain
    <3>3. sounded' = [snap |-> sounded.snap, what |-> Noted(sounded.what, rng + 1)]
      BY <1>2, <3>2
    <3>4. Noted(sounded.what, rng + 1) \in Seq(Int) /\ Noted(sounded.what, rng + 1) # <<>>
      BY <1>2 DEF Noted
    <3>5. GlitchInv'
      BY <3>1, <3>3, <3>4 DEF GlitchInv
    <3>6. env' \in [{"grain"} -> Int] /\ active' \in BOOLEAN /\ rng' \in Int
      BY <1>2, <2>1, <2>4, <3>2
    <3> QED
      BY <1>1, <1>2, <1>3, <2>2, <3>3, <3>5, <3>6 DEF HitInv, Wrapping, Ungated
  <2> QED
    BY <2>3, <2>4
<1> QED
  BY <1>4, <1>5

LEMMA HitTriangle ==
  ASSUME HitInv, ProcessTriangle
  PROVE  HitInv'
<1>1. /\ machine = "Triangle" /\ machine' = "Triangle" /\ active
      /\ hit' = [hit EXCEPT !.left = @ - 1] /\ active' = (hit'.left > 0)
      /\ env' = IF active' THEN Advanced(env) ELSE env
      /\ UNCHANGED <<pending, rng, sounded>>
  BY DEF ProcessTriangle
<1>2. /\ hit \in [left : Int, wait : Int, tailed : BOOLEAN]
      /\ env \in [{"strike"} -> Int] /\ env.strike \in {Off, 0}
      /\ env.strike = 0 => hit.left >= 2
  BY <1>1, EnvelopeNames DEF HitInv, StrikeInv
<1>3. hit' \in [left : Int, wait : Int, tailed : BOOLEAN] /\ hit'.left = hit.left - 1
  BY <1>1, <1>2
<1>4. env' \in [{"strike"} -> Int] /\ env'.strike = Off
  <2>1. CASE active'
    <3>1. Class.times["strike"] = <<Fixed, 1, 1>> /\ "strike" \in DOMAIN Class.times
      BY <1>1, ClassFacts DEF Class, Triangle
    <3>2. Time("strike") = 1
      BY <3>1, TimeOf
    <3> QED
      BY <1>1, <1>2, <2>1, <3>2, AdvancedTyped DEF Advanced
  <2>2. CASE ~active'
    <3>1. ~(hit'.left > 0)
      BY <1>1, <2>2, Zenon
    <3>2. env' = env /\ hit.left < 2
      BY <1>1, <1>2, <1>3, <2>2, <3>1
    <3> QED
      BY <1>2, <3>2
  <2> QED
    BY <2>1, <2>2
<1>5. StrikeInv'
  BY <1>4 DEF StrikeInv, Off
<1>6. Envelopes(machine)' = {"strike"} /\ active' \in BOOLEAN
  BY <1>1, EnvelopeNames DEF Envelopes
<1> QED
  BY <1>1, <1>3, <1>4, <1>5, <1>6 DEF HitInv, Wrapping, Ungated

LEMMA HitStep == VoiceInv /\ HitInv /\ [VoiceNext]_voiceVars => HitInv'
<1> SUFFICES ASSUME VoiceInv, HitInv, [VoiceNext]_voiceVars
             PROVE  HitInv'
  OBVIOUS
<1>1. ASSUME UNCHANGED <<machine, active, env, hit, pending, rng, sounded>> PROVE HitInv'
  BY <1>1 DEF HitInv, ClapInv, ClapSounded, GlitchInv, WrappingInv, ClickInv, StrikeInv,
              Envelopes
<1>2. ASSUME NEW p \in VoiceParams, NEW v \in Levels, SetVoiceParam(p, v) PROVE HitInv'
  BY <1>1, <1>2 DEF SetVoiceParam
<1>3. ASSUME NEW m \in Machines, SetMachine(m) PROVE HitInv'
  BY <1>3, HitFresh DEF SetMachine
<1>4. CASE Trigger
  BY <1>4, HitTrigger
<1>5. CASE Process
  BY <1>5, HitPlain, HitClap, HitGlitch, HitTriangle DEF Process
<1>6. CASE UNCHANGED voiceVars
  BY <1>1, <1>6 DEF voiceVars
<1> QED
  BY <1>2, <1>3, <1>4, <1>5, <1>6 DEF VoiceNext

LEMMA HitStarts == VoiceInit => VoiceInv /\ HitInv
<1> SUFFICES ASSUME VoiceInit PROVE VoiceInv /\ HitInv
  OBVIOUS
<1>1. ParamDefault \in [VoiceParams -> Levels]
  BY DEF ParamDefault, Levels
<1>2. VoiceInv
  BY <1>1, FreshCurrent DEF VoiceInit, VoiceInv
<1>3. /\ machine \in Machines /\ active = FALSE /\ pending = FALSE /\ rng = 0
      /\ env = [e \in Envelopes(machine) |-> Off]
      /\ hit = [left |-> 0, wait |-> 0, tailed |-> TRUE]
      /\ sounded = [snap |-> 0, what |-> <<>>]
  BY DEF VoiceInit
<1>4. env \in [Envelopes(machine) -> Int]
  BY <1>3 DEF Off
<1>5. (machine = "Bd909" => ClickInv) /\ (machine = "Triangle" => StrikeInv)
  BY <1>3, EnvelopeNames DEF ClickInv, StrikeInv, Off
<1>6. ClapInv /\ GlitchInv /\ WrappingInv
  BY <1>3 DEF ClapInv, GlitchInv, WrappingInv
<1>7. /\ sounded = [snap |-> sounded.snap, what |-> sounded.what]
      /\ hit \in [left : Int, wait : Int, tailed : BOOLEAN]
      /\ rng \in Int
  <2>1. sounded.snap = 0 /\ sounded.what = <<>>
    BY <1>3
  <2> QED
    BY <1>3, <2>1
<1>8. active \in BOOLEAN /\ pending \in BOOLEAN
  BY <1>3, Zenon
<1> QED
  BY <1>2, <1>4, <1>5, <1>6, <1>7, <1>8 DEF HitInv

(* No order of strikes, knobs, locks and machine changes leaves a clap that *)
(* has ended short of a burst or its tail, gives a glitch struck at SNAP 0   *)
(* a second or another grain, or strikes a DaisySP model twice or not at all.*)
THEOREM HitsSoundWhole == Spec => []HitsWhole
<1>1. VoiceInit => VoiceInv /\ HitInv BY HitStarts
<1>2. VoiceInv /\ HitInv => HitsWhole
  BY DEF HitsWhole, HitInv, ClapInv, GlitchInv, WrappingInv
<1> QED BY <1>1, <1>2, VoiceStep, HitStep, PartsStart, PartsStep, PTL DEF Spec

(* A gate that closes closes on silence. *)
LEMMA GateClosed ==
  ASSUME VoiceInv, HitInv, [VoiceNext]_voiceVars, active, ~active', machine' = machine
  PROVE  AllOff(env', Class.heard)
<1>1. machine \in Machines /\ env \in [Envelopes(machine) -> Int]
  BY DEF VoiceInv, HitInv
<1>2. ~UNCHANGED voiceVars
  BY DEF voiceVars
<1>3. ~(\E p \in VoiceParams, v \in Levels : SetVoiceParam(p, v))
  BY DEF SetVoiceParam
<1>4. ~(\E m \in Machines : SetMachine(m))
  BY DEF SetMachine, Fresh
<1>5. CASE Trigger
  <2>1. machine \in Ungated
    BY <1>5 DEF Trigger
  <2>2. Class.heard = {}
    BY <2>1, ClassFacts DEF Class, EmptySlot, Wrapped
  <2> QED
    BY <2>2 DEF AllOff
<1>6. CASE ProcessUngated
  BY <1>6 DEF ProcessUngated
<1>7. CASE ProcessGated
  <2>1. env' = Advanced(env) /\ GateShut(env') /\ machine \notin {"Clap", "Glitch", "Triangle"}
    BY <1>7 DEF ProcessGated
  <2>2. \A e \in Class.gate : env'[e] = Off
    BY <2>1 DEF GateShut, AllOff
  <2>3. CASE machine = "Bd909"
    <3>1. Class.gate = {"amp"} /\ Class.heard = {"amp", "click"}
      BY <2>3, ClassFacts DEF Class, BassDrum909
    <3>2. env'.amp = Off
      BY <2>2, <3>1
    <3>3. ClickInv'
      BY <1>7, <2>3, HitPlain DEF HitInv
    <3>4. env'.click = Off
      BY <3>2, <3>3 DEF ClickInv, Off
    <3> QED
      BY <3>1, <3>2, <3>4 DEF AllOff
  <2>4. CASE machine # "Bd909"
    BY <1>1, <2>1, <2>2, <2>4, HeardIsGated DEF AllOff, Class
  <2> QED
    BY <2>3, <2>4
<1>8. CASE ProcessClap
  <2>1. GateShut(env') /\ machine = "Clap"
    BY <1>8 DEF ProcessClap
  <2>2. Class.heard = Class.gate
    BY <2>1, ClassFacts DEF Class, Clap
  <2> QED
    BY <2>1, <2>2 DEF GateShut
<1>9. CASE ProcessGlitch
  <2>1. GateShut(Advanced(env)) /\ machine = "Glitch" /\ LastGrain
    BY <1>9 DEF ProcessGlitch
  <2>2. Class.heard = Class.gate
    BY <2>1, ClassFacts DEF Class, GlitchPerc
  <2>3. env' = Advanced(env)
    BY <1>9, <2>1 DEF ProcessGlitch
  <2> QED
    BY <2>1, <2>2, <2>3 DEF GateShut
<1>10. CASE ProcessTriangle
  <2>1. machine = "Triangle" /\ env' = env /\ ~(hit'.left > 0) /\ hit' = [hit EXCEPT !.left = @ - 1]
    <3>1. machine = "Triangle" /\ env' = env /\ hit' = [hit EXCEPT !.left = @ - 1]
      BY <1>10 DEF ProcessTriangle
    <3>2. ~(hit'.left > 0)
      BY <1>10, Zenon DEF ProcessTriangle
    <3> QED
      BY <3>1, <3>2
  <2>2. Class.heard = {"strike"}
    BY <2>1, ClassFacts DEF Class, Triangle
  <2>3. env.strike = Off
    BY <2>1 DEF HitInv, StrikeInv
  <2> QED
    BY <2>1, <2>2, <2>3 DEF AllOff
<1> QED
  BY <1>2, <1>3, <1>4, <1>5, <1>6, <1>7, <1>8, <1>9, <1>10 DEF VoiceNext, Process

(* Every voice of every class that goes idle does so with all it is heard    *)
(* through at zero, whatever its times were turned to while it rang.         *)
THEOREM SilentClose == Spec => ClosesOnSilence
<1>1. VoiceInit => VoiceInv /\ HitInv BY HitStarts
<1>2. VoiceInv /\ HitInv /\ [VoiceNext]_voiceVars =>
        [active /\ ~active' /\ machine' = machine => AllOff(env', Class.heard)]_voiceVars
  BY GateClosed
<1> QED
  BY <1>1, <1>2, VoiceStep, HitStep, PartsStart, PartsStep, PTL DEF Spec, ClosesOnSilence

-----------------------------------------------------------------------------
(* The channel strip.                                                        *)

(* StripCurrent says nothing of cutoff, res and mode, from which UpdateBypass *)
(* decides: they too are what was asked.                                     *)
StripInv ==
  /\ asked \in [ParamIds -> 0 .. VMax]
  /\ bypass \in [Filters -> BOOLEAN]
  /\ svf \in [Filters -> (0 .. VMax) \X (0 .. VMax)]
  /\ cutoff \in [Filters -> 0 .. VMax] /\ res \in [Filters -> 0 .. VMax]
  /\ mode \in [Filters -> {"LowPass", "BandPass", "HighPass"}]
  /\ \A i \in Filters :
       /\ cutoff[i] = asked[Named(i, "cutoff")]
       /\ res[i] = asked[Named(i, "res")]
       /\ mode[i] = ModeFromNorm(asked[Named(i, "mode")])
       /\ svf[i] = <<cutoff[i], res[i]>>
       /\ bypass[i] = Transparent(mode[i], cutoff[i], res[i])
  /\ mix = [sat |-> asked["SatDrive"], pan |-> asked["Pan"],
            delay |-> asked["DelaySend"], reverb |-> asked["ReverbSend"]]

LEMMA ModeTyped == \A v : ModeFromNorm(v) \in {"LowPass", "BandPass", "HighPass"}
BY DEF ModeFromNorm

LEMMA StartsCurrent == StripInit => StripInv
<1> SUFFICES ASSUME StripInit PROVE StripInv
  OBVIOUS
<1>1. VMax \in 0 .. VMax /\ 0 \in 0 .. VMax /\ VMax \div 2 \in 0 .. VMax
  BY StripAssumption
<1>2. asked \in [ParamIds -> 0 .. VMax]
  BY <1>1 DEF StripInit, Default
<1>3. ModeFromNorm(0) = "LowPass"
  BY StripAssumption DEF ModeFromNorm
<1>4. \A i \in Filters : /\ asked[Named(i, "cutoff")] = VMax
                         /\ asked[Named(i, "res")] = 0 /\ asked[Named(i, "mode")] = 0
  BY DEF StripInit, Default, Named, ParamIds, Filters
<1>5. Transparent("LowPass", VMax, 0)
  BY StripAssumption DEF Transparent
<1>6. asked["SatDrive"] = 0 /\ asked["Pan"] = VMax \div 2 /\ asked["DelaySend"] = 0
        /\ asked["ReverbSend"] = 0
  BY DEF StripInit, Default, ParamIds
<1>7. \A i \in Filters : bypass[i] = Transparent("LowPass", VMax, 0)
  <2>1. \A i \in Filters : bypass[i] = TRUE BY DEF StripInit
  <2> QED BY <2>1, <1>5, Zenon
<1>8. /\ svf \in [Filters -> (0 .. VMax) \X (0 .. VMax)]
      /\ \A i \in Filters : svf[i] = <<VMax, 0>> /\ cutoff[i] = VMax /\ res[i] = 0
                              /\ mode[i] = "LowPass"
  BY <1>1 DEF StripInit
<1>9. /\ bypass \in [Filters -> BOOLEAN]
      /\ cutoff \in [Filters -> 0 .. VMax] /\ res \in [Filters -> 0 .. VMax]
      /\ mode \in [Filters -> {"LowPass", "BandPass", "HighPass"}]
  BY <1>1 DEF StripInit
<1>10. mix = [sat |-> asked["SatDrive"], pan |-> asked["Pan"],
              delay |-> asked["DelaySend"], reverb |-> asked["ReverbSend"]]
  BY <1>6 DEF StripInit
<1>11. \A i \in Filters :
         /\ cutoff[i] = asked[Named(i, "cutoff")]
         /\ res[i] = asked[Named(i, "res")]
         /\ mode[i] = ModeFromNorm(asked[Named(i, "mode")])
         /\ svf[i] = <<cutoff[i], res[i]>>
         /\ bypass[i] = Transparent(mode[i], cutoff[i], res[i])
  <2> TAKE i \in Filters
  <2>1. bypass[i] = Transparent(mode[i], cutoff[i], res[i]) BY <1>7, <1>8
  <2> QED BY <2>1, <1>3, <1>4, <1>8
<1> QED BY <1>2, <1>8, <1>9, <1>10, <1>11 DEF StripInv

(* The names of a filter's parameters, each the strip's and none another's. *)
LEMMA NamesApart ==
  ASSUME NEW i \in Filters
  PROVE  /\ Named(i, "cutoff") \in ParamIds /\ Named(i, "res") \in ParamIds
         /\ Named(i, "mode") \in ParamIds
         /\ {Named(i, "cutoff"), Named(i, "res"), Named(i, "mode")} \subseteq
              {"Filter1Cutoff", "Filter1Res", "Filter1Mode",
               "Filter2Cutoff", "Filter2Res", "Filter2Mode"}
BY DEF Named, Filters, ParamIds

(* The bypass is decided for what the filters have been left with. *)
LEMMA BypassStep ==
  ASSUME UpdateBypass
  PROVE  /\ bypass' \in [Filters -> BOOLEAN]
         /\ \A i \in Filters : bypass'[i] = Transparent(mode'[i], cutoff'[i], res'[i])
<1>1. \A i \in Filters : Transparent(mode'[i], cutoff'[i], res'[i]) \in BOOLEAN
  BY DEF Transparent
<1> QED BY <1>1, Zenon DEF UpdateBypass

LEMMA StripStep == StripInv /\ [StripNext]_stripVars => StripInv'
<1> SUFFICES ASSUME StripInv, [StripNext]_stripVars
             PROVE  StripInv'
  OBVIOUS
<1>1. ASSUME NEW id \in ParamIds, NEW v \in 0 .. VMax, SetStripParam(id, v)
      PROVE  StripInv'
  <2>1. asked' = [asked EXCEPT ![id] = v] /\ asked' \in [ParamIds -> 0 .. VMax]
    BY <1>1 DEF SetStripParam, StripInv
  <2>2. \A p \in ParamIds : p # id => asked'[p] = asked[p]
    BY <2>1 DEF StripInv
  <2>3. asked'[id] = v BY <2>1 DEF StripInv
  <2>4. CASE ~IsChannelParam(id)
    <3>1. UNCHANGED <<cutoff, res, mode, svf, bypass, mix>> BY <1>1, <2>4 DEF SetStripParam
    <3>2. \A i \in Filters : /\ asked'[Named(i, "cutoff")] = asked[Named(i, "cutoff")]
                             /\ asked'[Named(i, "res")] = asked[Named(i, "res")]
                             /\ asked'[Named(i, "mode")] = asked[Named(i, "mode")]
      <4>1. id \notin {"Filter1Cutoff", "Filter1Res", "Filter1Mode",
                       "Filter2Cutoff", "Filter2Res", "Filter2Mode"}
        BY <2>4 DEF IsChannelParam
      <4> QED BY <4>1, <2>2, NamesApart
    <3>3. /\ asked'["SatDrive"] = asked["SatDrive"] /\ asked'["Pan"] = asked["Pan"]
          /\ asked'["DelaySend"] = asked["DelaySend"]
          /\ asked'["ReverbSend"] = asked["ReverbSend"]
      BY <2>4, <2>2 DEF IsChannelParam, ParamIds
    <3> QED BY <2>1, <3>1, <3>2, <3>3 DEF StripInv
  <2>5. CASE IsChannelParam(id)
    <3>1. ~IsLfoParam(id) BY <2>5 DEF IsChannelParam, IsLfoParam
    <3>2. UpdateBypass BY <1>1, <2>5, <3>1 DEF SetStripParam
    <3> DEFINE Current(i) ==
                 /\ cutoff'[i] = asked'[Named(i, "cutoff")]
                 /\ res'[i] = asked'[Named(i, "res")]
                 /\ mode'[i] = ModeFromNorm(asked'[Named(i, "mode")])
                 /\ svf'[i] = <<cutoff'[i], res'[i]>>
               Typed ==
                 /\ svf' \in [Filters -> (0 .. VMax) \X (0 .. VMax)]
                 /\ cutoff' \in [Filters -> 0 .. VMax] /\ res' \in [Filters -> 0 .. VMax]
                 /\ mode' \in [Filters -> {"LowPass", "BandPass", "HighPass"}]
               MixCurrent ==
                 mix' = [sat |-> asked'["SatDrive"], pan |-> asked'["Pan"],
                         delay |-> asked'["DelaySend"], reverb |-> asked'["ReverbSend"]]
    <3>3. ASSUME NEW i \in Filters, id = Named(i, "cutoff"), SetCutoff(i, v)
          PROVE  Typed /\ MixCurrent /\ \A j \in Filters : Current(j)
      BY <3>3, <2>1 DEF SetCutoff, StripInv, Named, Filters, ParamIds
    <3>4. ASSUME NEW i \in Filters, id = Named(i, "res"), SetRes(i, v)
          PROVE  Typed /\ MixCurrent /\ \A j \in Filters : Current(j)
      BY <3>4, <2>1 DEF SetRes, StripInv, Named, Filters, ParamIds
    <3>5. ASSUME NEW i \in Filters, id = Named(i, "mode"), SetMode(i, v)
          PROVE  Typed /\ MixCurrent /\ \A j \in Filters : Current(j)
      BY <3>5, <2>1, ModeTyped DEF SetMode, StripInv, Named, Filters, ParamIds
    <3>6. ASSUME NEW f \in {"sat", "pan", "delay", "reverb"}, SetMix(f, v),
                 <<id, f>> \in {<<"SatDrive", "sat">>, <<"Pan", "pan">>,
                                <<"DelaySend", "delay">>, <<"ReverbSend", "reverb">>}
          PROVE  Typed /\ MixCurrent /\ \A j \in Filters : Current(j)
      <4>1. UNCHANGED <<cutoff, res, mode, svf>>
        BY <3>6 DEF SetMix
      <4>2. \A i \in Filters : /\ asked'[Named(i, "cutoff")] = asked[Named(i, "cutoff")]
                               /\ asked'[Named(i, "res")] = asked[Named(i, "res")]
                               /\ asked'[Named(i, "mode")] = asked[Named(i, "mode")]
        <5>1. id \notin {"Filter1Cutoff", "Filter1Res", "Filter1Mode",
                         "Filter2Cutoff", "Filter2Res", "Filter2Mode"}
          BY <3>6
        <5> QED BY <5>1, <2>2, NamesApart
      <4>3. MixCurrent
        BY <3>6, <2>1 DEF SetMix, StripInv, ParamIds
      <4> QED BY <4>1, <4>2, <4>3 DEF StripInv
    <3>7. Typed /\ MixCurrent /\ \A j \in Filters : Current(j)
      <4>1. \/ \E i \in Filters : \/ id = Named(i, "cutoff") /\ SetCutoff(i, v)
                                  \/ id = Named(i, "res") /\ SetRes(i, v)
                                  \/ id = Named(i, "mode") /\ SetMode(i, v)
            \/ \E f \in {"sat", "pan", "delay", "reverb"} :
                 /\ SetMix(f, v)
                 /\ <<id, f>> \in {<<"SatDrive", "sat">>, <<"Pan", "pan">>,
                                   <<"DelaySend", "delay">>, <<"ReverbSend", "reverb">>}
        BY <1>1, <2>5, <3>1 DEF SetStripParam, Named, Filters
      <4> QED BY <4>1, <3>3, <3>4, <3>5, <3>6
    <3> QED BY <2>1, <3>2, <3>7, BypassStep DEF StripInv
  <2> QED BY <2>4, <2>5
<1>2. CASE UNCHANGED stripVars
  BY <1>2 DEF stripVars, StripInv
<1>3. StripNext => \E id \in ParamIds, v \in 0 .. VMax : SetStripParam(id, v)
  BY StripAssumption DEF StripNext
<1> QED BY <1>1, <1>2, <1>3

(* In whatever order the parameters of voice, strip and LFO come, and for   *)
(* any thresholds: each reaches what it stands for, and a filter is passed   *)
(* by exactly while what was last asked of it is transparent.                *)
THEOREM StripIsCurrent == Spec => []StripCurrent
<1>1. StripInv => StripCurrent
  <2> SUFFICES ASSUME StripInv PROVE StripCurrent
    OBVIOUS
  <2>1. \A i \in Filters :
          /\ svf[i] = <<asked[Named(i, "cutoff")], asked[Named(i, "res")]>>
          /\ bypass[i] = Transparent(ModeFromNorm(asked[Named(i, "mode")]),
                                    asked[Named(i, "cutoff")], asked[Named(i, "res")])
    BY Zenon DEF StripInv
  <2> QED BY <2>1, Zenon DEF StripInv, StripCurrent
<1> QED BY <1>1, StartsCurrent, StripStep, PartsStart, PartsStep, PTL DEF Spec

-----------------------------------------------------------------------------
(* The LFO.                                                                  *)

(* While a one-shot runs the phase is where it started plus how far it has  *)
(* come: that is what the end of the cycle is measured against.              *)
ShotInv ==
  shot >= 0 =>
    /\ lfoMode = "OneShot"
    /\ shotFrom + shot <= Cycle
    /\ ~finished => phase = shotFrom + shot

LfoInv == LfoTypeOK /\ ShotInv

LEMMA StartsStill == LfoInit => LfoInv
<1> SUFFICES ASSUME LfoInit PROVE LfoInv
  OBVIOUS
<1>1. finished \in BOOLEAN BY Zenon DEF LfoInit
<1>2. shot \in -1 .. Cycle BY LfoAssumption DEF LfoInit
<1>3. lfoMode \in LfoModes BY DEF LfoInit, LfoModes
<1>4. LfoTypeOK BY <1>1, <1>2, <1>3, LfoAssumption, SMT DEF LfoInit, LfoTypeOK
<1>5. ShotInv BY DEF LfoInit, ShotInv
<1> QED BY <1>4, <1>5 DEF LfoInv

LEMMA BlockStays ==
  ASSUME LfoInv, LfoAdvance
  PROVE  LfoInv'
<1> USE LfoAssumption DEF LfoInv, LfoTypeOK
<1>1. /\ phase \in 0 .. Cycle /\ inc \in Nat \ {0} /\ fadeRate \in Nat
      /\ shotFrom \in 0 .. Cycle /\ ~finished
  BY DEF LfoAdvance
<1>2. CASE Ends(phase + inc)
  <2>1. phase' = Cycle - 1 /\ finished' = TRUE /\ phase' \in 0 .. Cycle
    BY <1>2 DEF LfoAdvance, End
  <2>2. shot' = IF shot = -1 THEN -1 ELSE shot + (Cycle - phase)
    BY <1>2 DEF LfoAdvance
  <2>3. shot' \in -1 .. Cycle /\ ShotInv'
    BY <1>1, <2>1, <2>2 DEF ShotInv, LfoAdvance
  <2>4. fadePos' \in 0 .. FadeMax BY <1>1 DEF LfoAdvance, Faded
  <2> QED BY <2>1, <2>3, <2>4 DEF LfoAdvance
<1>3. CASE ~Ends(phase + inc)
  <2>1. phase' = (phase + inc) % Cycle /\ finished' = FALSE
    BY <1>3 DEF LfoAdvance
  <2>2. phase' \in 0 .. Cycle BY <1>1, <2>1
  <2>3. shot' = IF shot = -1 THEN -1 ELSE shot + inc BY <1>3 DEF LfoAdvance
  <2>4. ASSUME shot >= 0
        PROVE  phase' = phase + inc /\ phase + inc < Cycle
    <3>1. phase + inc < Cycle BY <1>1, <1>3, <2>4 DEF Ends, ShotInv
    <3> QED BY <1>1, <2>1, <3>1
  <2>5. shot' \in -1 .. Cycle /\ ShotInv'
    BY <1>1, <2>1, <2>3, <2>4 DEF ShotInv, LfoAdvance
  <2>6. fadePos' \in 0 .. FadeMax BY <1>1 DEF LfoAdvance, Faded
  <2> QED BY <2>1, <2>2, <2>5, <2>6 DEF LfoAdvance
<1> QED BY <1>2, <1>3

LEMMA LfoStep == LfoInv /\ [LfoNext]_lfoVars => LfoInv'
<1> SUFFICES ASSUME LfoInv, [LfoNext]_lfoVars
             PROVE  LfoInv'
  OBVIOUS
<1> USE LfoAssumption DEF LfoInv, LfoTypeOK, ShotInv
<1>1. ASSUME NEW m \in LfoModes, SetLfoMode(m) PROVE LfoInv' BY <1>1 DEF SetLfoMode
<1>2. ASSUME NEW p \in StartPhases, SetStartPhase(p) PROVE LfoInv'
  BY <1>2 DEF SetStartPhase
<1>3. ASSUME NEW i \in Incs, NEW f \in FadeRates, Recalculate(i, f) PROVE LfoInv'
  BY <1>3 DEF Recalculate
<1>4. CASE LfoTrigger
  <2>1. CASE lfoMode = "Hold" BY <1>4, <2>1 DEF LfoTrigger
  <2>2. CASE lfoMode # "Hold"
    <3>1. /\ finished' = FALSE /\ phase' = startPhase /\ shotFrom' = startPhase
          /\ shot' = IF lfoMode = "OneShot" THEN 0 ELSE -1
          /\ UNCHANGED <<lfoMode, startPhase, inc, fadeRate, heldAt>>
      BY <1>4, <2>2 DEF LfoTrigger, Restarts
    <3>2. fadePos' \in 0 .. FadeMax BY <1>4, <2>2 DEF LfoTrigger
    <3>3. shot' \in -1 .. Cycle BY <3>1
    <3>4. finished' \in BOOLEAN BY <3>1, Zenon
    <3> QED BY <3>1, <3>2, <3>3, <3>4
  <2> QED BY <2>1, <2>2
<1>5. CASE LfoAdvance BY <1>5, BlockStays
<1>6. CASE UNCHANGED lfoVars BY <1>6 DEF lfoVars
<1> QED BY <1>1, <1>2, <1>3, <1>4, <1>5, <1>6 DEF LfoNext

LEMMA LfoInvariant == Spec => []LfoInv
BY StartsStill, LfoStep, PartsStart, PartsStep, PTL DEF Spec

(* The state of the LFO stays in range. *)
THEOREM LfoTypeCorrect == Spec => []LfoTypeOK
<1>1. LfoInv => LfoTypeOK BY DEF LfoInv
<1> QED BY <1>1, LfoInvariant, PTL

(* ONE never loops, however speed and start phase are moved or locked while *)
(* it runs.                                                                  *)
THEOREM NeverLoops == Spec => []OneShotNeverLoops
<1>1. LfoInv => OneShotNeverLoops BY DEF LfoInv, ShotInv, OneShotNeverLoops
<1> QED BY <1>1, LfoInvariant, PTL

-----------------------------------------------------------------------------
(* The delay.                                                                *)

(* Where the ring stands: how long ago each slot was written follows from   *)
(* its distance to the write index alone, round the wrap.                   *)
Written == [i \in Slots |-> IF i < write THEN write - i ELSE write + Cap - i]

RingInv ==
  /\ write \in Slots
  /\ time \in 1 .. Cap - 1
  /\ age = Written

LevelInv ==
  /\ buf \in [Slots -> [Sides -> Int]] /\ lp \in [Sides -> Int]
  /\ fb \in 0 .. Feedback /\ width \in 0 .. 100 /\ tone \in 0 .. 100
  /\ Bounded

-----------------------------------------------------------------------------
(* The ring. *)

(* Inside the ring and one turn above it, the remainder by Cap is what the  *)
(* indices mean by it.                                                      *)
LEMMA RingWraps ==
  ASSUME NEW i \in Slots
  PROVE  i % Cap = i /\ (i + Cap) % Cap = i
BY DelayAssumption, SMT DEF Slots

LEMMA ClampedInRing ==
  ASSUME NEW n \in Nat
  PROVE  Clamped(n) \in 1 .. Cap - 1
BY DelayAssumption, SMT DEF Clamped

LEMMA RingStep == RingInv /\ [DelayNext]_delayVars => RingInv'
<1> SUFFICES ASSUME RingInv, [DelayNext]_delayVars
             PROVE  RingInv'
  OBVIOUS
<1> USE DEF RingInv, Slots
<1>1. ASSUME NEW n \in Times, SetDelayTime(n) PROVE RingInv'
  <2>1. n \in Nat BY DelayAssumption
  <2> QED BY <1>1, <2>1, ClampedInRing DEF SetDelayTime, Written
<1>2. ASSUME NEW v \in Percents, SetDelayParam(v) PROVE RingInv'
  BY <1>2 DEF SetDelayParam, Written
<1>3. ASSUME NEW in \in [Sides -> Inputs], ProcessDelay(in) PROVE RingInv'
  <2>1. time' = time BY <1>3 DEF ProcessDelay, delayParams
  <2>2. CASE write + 1 < Cap
    <3>1. write' = write + 1
      <4>1. write + 1 \in Slots BY <2>2, DelayAssumption
      <4> QED BY <4>1, <1>3, RingWraps DEF ProcessDelay
    <3>2. age' = Written' BY <1>3, <3>1, DelayAssumption DEF ProcessDelay, Written
    <3> QED BY <2>1, <2>2, <3>1, <3>2, DelayAssumption
  <2>3. CASE write = Cap - 1
    <3>1. write' = 0
      <4>1. 0 \in Slots /\ write + 1 = 0 + Cap BY <2>3, DelayAssumption
      <4> QED BY <4>1, <1>3, RingWraps DEF ProcessDelay
    <3>2. age' = Written' BY <1>3, <2>3, <3>1, DelayAssumption DEF ProcessDelay, Written
    <3> QED BY <2>1, <3>1, <3>2, DelayAssumption
  <2> QED BY <2>2, <2>3, DelayAssumption
<1>4. CASE UNCHANGED delayVars BY <1>4 DEF delayVars, Written
<1> QED BY <1>1, <1>2, <1>3, <1>4 DEF DelayNext

(* Wherever the ring wraps, and whatever the delay time is set to, the slot *)
(* about to be read was written exactly the delay time ago.                 *)
THEOREM EchoesOnTime == Spec => []EchoOnTime
<1>1. DelayInit => RingInv
  BY DelayAssumption, ClampedInRing DEF DelayInit, RingInv, Written, Slots
<1>2. RingInv => EchoOnTime
  <2> SUFFICES ASSUME RingInv PROVE EchoOnTime
    OBVIOUS
  <2> USE DEF RingInv, Slots
  <2>1. CASE time <= write
    <3>1. write - time \in Slots /\ write + Cap - time = (write - time) + Cap
      BY <2>1, DelayAssumption
    <3>2. ReadSlot = write - time BY <3>1, RingWraps DEF ReadSlot
    <3> QED BY <3>1, <3>2, DelayAssumption DEF EchoOnTime, Written
  <2>2. CASE time > write
    <3>1. write + Cap - time \in Slots BY <2>2, DelayAssumption
    <3>2. ReadSlot = write + Cap - time BY <3>1, RingWraps DEF ReadSlot
    <3> QED BY <2>2, <3>1, <3>2, DelayAssumption DEF EchoOnTime, Written
  <2> QED BY <2>1, <2>2, DelayAssumption
<1> QED BY <1>1, <1>2, RingStep, PartsStart, PartsStep, PTL DEF Spec

-----------------------------------------------------------------------------
(* The level.  A number is loud when it is beyond the bound; both signs are *)
(* looked at apart, and the arithmetic is odd.                              *)

LEMMA PercentShrinks ==
  ASSUME NEW x \in Int
  PROVE  /\ Percent(x) \in Int /\ Percent(-x) = -Percent(x)
         /\ x >= 0 => Percent(x) >= 0 /\ 100 * Percent(x) <= x
         /\ x < 0 => Percent(x) <= 0
BY SMT DEF Percent

LEMMA ProductMonotone ==
  ASSUME NEW x \in Int, NEW y \in Int, NEW k \in Nat, x <= y
  PROVE  k * x <= k * y
OBVIOUS

LEMMA ProductsTyped ==
  ASSUME NEW x \in Int, NEW y \in Int
  PROVE  x * y \in Int /\ x * y = y * x
OBVIOUS

(* What comes out of a mix of two bounded levels is bounded. *)
LEMMA MixBounded ==
  ASSUME NEW x \in Int, NEW y \in Int, NEW a \in 0 .. 100, Loud(x), Loud(y)
  PROVE  Between(x, y, a) \in Int /\ Loud(Between(x, y, a))
<1> DEFINE k == 100 - Feedback
           z == (100 - a) * x + a * y
           p == Percent(z)
<1>1. k \in Nat /\ 100 * Loudest \in Nat BY DelayAssumption
<1>2. z \in Int /\ (100 - a) \in Nat /\ a \in Nat OBVIOUS
<1>3. p \in Int /\ (z >= 0 => 100 * p <= z) /\ (z < 0 => p <= 0)
  BY <1>2, PercentShrinks
<1>4. p * k <= 100 * Loudest
  <2>1. CASE z < 0
    <3>1. k * p <= k * 0 BY <2>1, <1>1, <1>3, ProductMonotone
    <3> HIDE DEF k, p
    <3> QED BY <3>1, <1>1, <1>3
  <2>2. CASE z >= 0
    <3>1. k * (100 * p) <= k * z
      <4>1. 100 * p \in Int BY <1>3
      <4> QED BY <4>1, <2>2, <1>1, <1>2, <1>3, ProductMonotone
    <3>2. k * z = (100 - a) * (x * k) + a * (y * k)
      <4>1. k \in Int /\ (100 - a) \in Int /\ a \in Int BY <1>1
      <4> HIDE DEF k
      <4> QED BY <4>1, SMT
    <3>3. (100 - a) * (x * k) <= (100 - a) * (100 * Loudest)
      <4>1. x * k <= 100 * Loudest /\ x * k \in Int BY <1>1 DEF Loud
      <4> QED BY <4>1, <1>1, <1>2, ProductMonotone
    <3>4. a * (y * k) <= a * (100 * Loudest)
      <4>1. y * k <= 100 * Loudest /\ y * k \in Int BY <1>1 DEF Loud
      <4> QED BY <4>1, <1>1, <1>2, ProductMonotone
    <3>5. k * (100 * p) <= (100 - a) * (100 * Loudest) + a * (100 * Loudest)
      <4>1. x * k \in Int /\ y * k \in Int BY <1>1
      <4>2. (100 - a) * (x * k) \in Int /\ a * (y * k) \in Int BY <4>1
      <4>3. (100 - a) * (100 * Loudest) \in Int /\ a * (100 * Loudest) \in Int BY <1>1
      <4>4. k * (100 * p) \in Int BY <1>1, <1>3
      <4> HIDE DEF k, p, z
      <4> QED BY <4>2, <4>3, <4>4, <3>1, <3>2, <3>3, <3>4
    <3>6. (100 - a) * (100 * Loudest) + a * (100 * Loudest) = 100 * (100 * Loudest)
      BY DelayAssumption
    <3>7. k * (100 * p) = 100 * (p * k)
      <4> HIDE DEF k, p
      <4> QED BY <1>1, <1>3
    <3>8. p * k \in Int BY <1>1, <1>3
    <3> HIDE DEF k, p
    <3> QED BY <3>5, <3>6, <3>7, <3>8, <1>1
  <2> QED BY <2>1, <2>2, <1>2
<1> QED BY <1>3, <1>4 DEF Between, Loud

LEMMA MixOdd ==
  ASSUME NEW x \in Int, NEW y \in Int, NEW a \in 0 .. 100
  PROVE  Between(-x, -y, a) = -Between(x, y, a)
<1>1. (100 - a) * (-x) + a * (-y) = -((100 - a) * x + a * y) OBVIOUS
<1>2. (100 - a) * x + a * y \in Int OBVIOUS
<1> QED BY <1>1, <1>2, PercentShrinks DEF Between

(* What is fed back is an input away from the bound. *)
LEMMA FedBackBounded ==
  ASSUME NEW in \in Int, in <= Loudest, NEW y \in Int, Loud(y), NEW f \in 0 .. Feedback
  PROVE  in + Percent(y * f) \in Int /\ Loud(in + Percent(y * f))
<1> DEFINE k == 100 - Feedback
           p == Percent(y * f)
<1>1. k \in Nat /\ Loudest \in Nat /\ Feedback \in Nat /\ f \in Nat BY DelayAssumption
<1>2. y * f \in Int BY <1>1
<1>3. p \in Int /\ (y * f >= 0 => 100 * p <= y * f) /\ (y * f < 0 => p <= 0)
  BY <1>2, PercentShrinks
<1>4. p * k <= Loudest * Feedback
  <2>1. CASE p <= 0
    <3>1. k * p <= k * 0 BY <2>1, <1>1, <1>3, ProductMonotone
    <3>2. Loudest * Feedback \in Nat BY <1>1
    <3> HIDE DEF k, p
    <3> QED BY <3>1, <3>2, <1>1, <1>3
  <2>2. CASE p > 0
    <3>1. 100 * p <= y * f BY <2>2, <1>2, <1>3
    <3>2. y >= 0
      <4>1. ASSUME y < 0 PROVE FALSE
        <5>1. f * y <= f * 0 BY <4>1, <1>1, ProductMonotone
        <5> QED BY <5>1, <3>1, <2>2, <1>1, <1>2, <1>3, ProductsTyped
      <4> QED BY <4>1
    <3>3. 100 * p <= y * Feedback
      <4>1. y * f <= y * Feedback BY <3>2, <1>1, ProductMonotone
      <4>2. y * Feedback \in Int BY <1>1
      <4> HIDE DEF p
      <4> QED BY <4>1, <4>2, <3>1, <1>2, <1>3
    <3>4. k * (100 * p) <= k * (y * Feedback)
      <4>1. 100 * p \in Int /\ y * Feedback \in Int BY <1>1, <1>3
      <4> QED BY <4>1, <3>3, <1>1, ProductMonotone
    <3>5. k * (y * Feedback) <= Feedback * (100 * Loudest)
      <4>1. y * k <= 100 * Loudest /\ y * k \in Int BY <1>1 DEF Loud
      <4>2. Feedback * (y * k) <= Feedback * (100 * Loudest)
        BY <4>1, <1>1, ProductMonotone
      <4>3. Feedback * (y * k) = k * (y * Feedback)
        <5> HIDE DEF k
        <5> QED BY <1>1
      <4> QED BY <4>2, <4>3
    <3>6. k * (100 * p) = 100 * (p * k) /\ p * k \in Int
      <4> HIDE DEF k, p
      <4> QED BY <1>1, <1>3
    <3>7. Feedback * (100 * Loudest) = 100 * (Loudest * Feedback) /\ Loudest * Feedback \in Int
      BY <1>1
    <3>8. k * (y * Feedback) \in Int BY <1>1
    <3> HIDE DEF k, p
    <3> QED BY <3>4, <3>5, <3>6, <3>7, <3>8
  <2> QED BY <2>1, <2>2, <1>3
<1>5. in * k <= Loudest * k
  <2>1. k * in <= k * Loudest BY <1>1, ProductMonotone
  <2> HIDE DEF k
  <2> QED BY <2>1, <1>1
<1>6. Loudest * k + Loudest * Feedback = 100 * Loudest
  BY <1>1
<1>7. (in + p) * k = in * k + p * k /\ in * k \in Int /\ p * k \in Int /\ Loudest * k \in Int
  <2> HIDE DEF k, p
  <2> QED BY <1>1, <1>3
<1>8. Loudest * Feedback \in Int BY <1>1
<1>9. (in + p) * k <= 100 * Loudest
  <2> HIDE DEF k, p
  <2> QED BY <1>4, <1>5, <1>6, <1>7, <1>8
<1> QED BY <1>3, <1>9 DEF Loud

(* Both signs at once, as the invariant has them. *)
Bound(x) == Loud(x) /\ Loud(-x)

LEMMA MixBound ==
  ASSUME NEW x \in Int, NEW y \in Int, NEW a \in 0 .. 100, Bound(x), Bound(y)
  PROVE  Between(x, y, a) \in Int /\ Bound(Between(x, y, a))
<1>1. -x \in Int /\ -y \in Int OBVIOUS
<1>2. Between(x, y, a) \in Int /\ Loud(Between(x, y, a)) BY MixBounded DEF Bound
<1>3. Loud(Between(-x, -y, a)) BY <1>1, MixBounded DEF Bound
<1> QED BY <1>2, <1>3, MixOdd DEF Bound

LEMMA FedBackBound ==
  ASSUME NEW in \in Inputs, NEW y \in Int, Bound(y), NEW f \in 0 .. Feedback
  PROVE  in + Percent(y * f) \in Int /\ Bound(in + Percent(y * f))
<1>1. in \in Int /\ in <= Loudest /\ -in \in Int /\ -in <= Loudest BY DelayAssumption
<1>2. in + Percent(y * f) \in Int /\ Loud(in + Percent(y * f))
  BY <1>1, FedBackBounded DEF Bound
<1>3. Loud(-in + Percent((-y) * f))
  <2>1. -y \in Int OBVIOUS
  <2> QED BY <2>1, <1>1, FedBackBounded DEF Bound
<1>4. Percent((-y) * f) = -Percent(y * f) /\ Percent(y * f) \in Int
  <2>1. f \in Int BY DelayAssumption
  <2>2. y * f \in Int /\ (-y) * f = -(y * f) BY <2>1
  <2> QED BY <2>2, PercentShrinks
<1>5. -in + Percent((-y) * f) = -(in + Percent(y * f)) BY <1>1, <1>4
<1> QED BY <1>2, <1>3, <1>5 DEF Bound

LEMMA SettingsInRange ==
  ASSUME NEW v \in 0 .. 100
  PROVE  FeedbackOf(v) \in 0 .. Feedback /\ ToneOf(v) \in 0 .. 100
<1>1. Feedback \in Nat BY DelayAssumption
<1>2. v * Feedback \in Nat /\ v * Feedback <= 100 * Feedback
  <2>1. Feedback * v <= Feedback * 100 BY <1>1, ProductMonotone
  <2> QED BY <2>1, <1>1
<1>3. FeedbackOf(v) \in 0 .. Feedback
  <2> DEFINE w == v * Feedback
  <2>1. w \in Nat /\ w <= 100 * Feedback BY <1>2
  <2>2. FeedbackOf(v) = w \div 100 BY DEF FeedbackOf
  <2> HIDE DEF w
  <2> QED BY <1>1, <2>1, <2>2
<1> QED BY <1>3 DEF ToneOf

LEMMA LevelStep == RingInv /\ LevelInv /\ [DelayNext]_delayVars => LevelInv'
<1> SUFFICES ASSUME RingInv, LevelInv, [DelayNext]_delayVars
             PROVE  LevelInv'
  OBVIOUS
<1>1. ASSUME NEW n \in Times, SetDelayTime(n) PROVE LevelInv'
  BY <1>1 DEF LevelInv, SetDelayTime, Bounded, Loud
<1>2. ASSUME NEW v \in Percents, SetDelayParam(v) PROVE LevelInv'
  <2>1. v \in 0 .. 100 BY DelayAssumption
  <2>2. Bounded' BY <1>2 DEF LevelInv, SetDelayParam, Bounded, Loud
  <2> QED BY <1>2, <2>1, <2>2, SettingsInRange DEF LevelInv, SetDelayParam
<1>3. ASSUME NEW in \in [Sides -> Inputs], ProcessDelay(in) PROVE LevelInv'
  <2> DEFINE r == ReadSlot
  <2>1. r \in Slots
    BY SMT, DelayAssumption DEF ReadSlot, RingInv, Slots
  <2>2. \A s \in Sides : buf[r][s] \in Int /\ Bound(buf[r][s]) /\ lp[s] \in Int /\ Bound(lp[s])
    BY <2>1 DEF LevelInv, Bounded, Bound
  <2>3. \A s \in Sides : lp'[s] \in Int /\ Bound(lp'[s])
    <3>1. ASSUME NEW s \in Sides PROVE lp'[s] \in Int /\ Bound(lp'[s])
      <4>1. lp'[s] = Between(lp[s], buf[r][s], tone) BY <1>3 DEF ProcessDelay
      <4> QED BY <4>1, <2>2, MixBound DEF LevelInv
    <3> QED BY <3>1
  <2> DEFINE out(s) == in[s] + Percent(Between(lp'[s], lp'[Other(s)], width) * fb)
  <2>4. \A s \in Sides : out(s) \in Int /\ Bound(out(s))
    <3>1. ASSUME NEW s \in Sides PROVE out(s) \in Int /\ Bound(out(s))
      <4>1. Other(s) \in Sides BY DEF Other, Sides
      <4> DEFINE y == Between(lp'[s], lp'[Other(s)], width)
      <4>2. y \in Int /\ Bound(y) BY <4>1, <2>3, MixBound DEF LevelInv
      <4>3. in[s] \in Inputs /\ fb \in 0 .. Feedback BY DEF LevelInv
      <4> HIDE DEF y
      <4>4. in[s] + Percent(y * fb) \in Int /\ Bound(in[s] + Percent(y * fb))
        BY <4>2, <4>3, FedBackBound
      <4> QED BY <4>4 DEF y
    <3> QED BY <3>1
  <2>5. buf' = [buf EXCEPT ![write] = [s \in Sides |-> out(s)]] BY <1>3 DEF ProcessDelay
  <2> HIDE DEF out
  <2>6. buf' \in [Slots -> [Sides -> Int]] BY <2>4, <2>5 DEF LevelInv
  <2>7. \A s \in Sides, i \in Slots : Bound(buf'[i][s])
    BY <2>4, <2>5 DEF LevelInv, Bounded, Bound
  <2>8. lp' \in [Sides -> Int] BY <2>3, <1>3 DEF ProcessDelay
  <2>9. Bounded' BY <2>3, <2>7 DEF Bounded, Bound, Loud
  <2>10. fb' = fb /\ width' = width /\ tone' = tone BY <1>3 DEF ProcessDelay, delayParams
  <2> QED BY <2>6, <2>8, <2>9, <2>10 DEF LevelInv
<1>4. CASE UNCHANGED delayVars BY <1>4 DEF delayVars, LevelInv, Bounded, Loud
<1> QED BY <1>1, <1>2, <1>3, <1>4 DEF DelayNext

(* With the feedback below unity no sequence of inputs and settings takes   *)
(* the loop past inputs / (1 - feedback).                                    *)
THEOREM LoopBounded == Spec => []Bounded
<1>1. DelayInit => RingInv
  BY DelayAssumption, ClampedInRing DEF DelayInit, RingInv, Written, Slots
<1>2. DelayInit => LevelInv
  <2> SUFFICES ASSUME DelayInit PROVE LevelInv
    OBVIOUS
  <2>1. fb \in 0 .. Feedback /\ tone \in 0 .. 100 BY SettingsInRange DEF DelayInit
  <2>2. Bound(0) BY DelayAssumption DEF Bound, Loud
  <2>3. \A s \in Sides : lp[s] = 0 /\ \A i \in Slots : buf[i][s] = 0
    BY DEF DelayInit, Silence
  <2> QED BY <2>1, <2>2, <2>3 DEF LevelInv, DelayInit, Silence, Bounded, Bound
<1>3. LevelInv => Bounded BY DEF LevelInv
<1> QED BY <1>1, <1>2, <1>3, RingStep, LevelStep, PartsStart, PartsStep, PTL DEF Spec
=============================================================================
