--------------------------- MODULE VoiceSlotProofs ---------------------------
(***************************************************************************)
(* What holds of a track's VoiceSlot for any parameters, steps, locks and  *)
(* LFO.                                                                    *)
(***************************************************************************)
EXTENDS VoiceSlot, WellFoundedInduction, TLAPS

(* A set of numbers has a least one. *)
LEMMA LeastNumber ==
  ASSUME NEW S \in SUBSET Nat, S # {}
  PROVE  \E i \in S : \A j \in S : i <= j
<1> DEFINE R == {ss \in Nat \X Nat : ss[1] < ss[2]}
<1>1. IsWellFoundedOn(R, Nat)
  BY NatLessThanWellFounded DEF OpToRel
<1>2. \E i \in S : \A j \in S : ~ (<<j, i>> \in R)
  <2> HIDE DEF R
  <2> QED
    BY <1>1, WFMin
<1>3. \A i, j \in S : j < i => <<j, i>> \in R
  OBVIOUS
<1> QED
  <2> HIDE DEF R
  <2>1. PICK i \in S : \A j \in S : ~ (<<j, i>> \in R)
    BY <1>2
  <2>2. \A j \in S : ~ (j < i)
    BY <2>1, <1>3
  <2> QED
    BY <2>2

(* What a lock lookup returns is a parameter value. *)
LEMMA LockOnValue ==
  ASSUME TypeOK, NEW s \in Steps, NEW n \in 0 .. MaxLocks, NEW p \in Params, Has(s, n, p)
  PROVE  LockOn(s, n, p) \in Values
<1> DEFINE On == {i \in 1 .. n : steps[s].locks[i].param = p}
           First(i) == /\ steps[s].locks[i].param = p
                       /\ \A j \in 1 .. n : steps[s].locks[j].param = p => i <= j
<1>1. MaxLocks \in Nat /\ n \in Nat
  BY VoiceSlotAssumption
<1>2. \E i \in On : \A j \in On : i <= j
  <2>1. On \in SUBSET Nat /\ On # {}
    BY <1>1 DEF Has
  <2> HIDE DEF On
  <2> QED
    BY <2>1, LeastNumber
<1>3. \E i \in 1 .. n : First(i)
  BY <1>2
<1> DEFINE k == CHOOSE i \in 1 .. n : First(i)
<1>4. k \in 1 .. MaxLocks
  <2>1. k \in 1 .. n
    BY <1>3
  <2> HIDE DEF k
  <2> QED
    BY <2>1, <1>1
<1>5. steps[s].locks[k].value \in Values
  <2> HIDE DEF k
  <2> QED
    BY <1>4 DEF TypeOK, LockList, LockEntry
<1> QED
  BY <1>5 DEF LockOn

Source == [source : Steps \cup Lockless, count : 0 .. MaxLocks]

(* The value modulation starts from is the base, except on a locked         *)
(* parameter.                                                               *)
LEMMA PreMod ==
  ASSUME TypeOK, NEW src \in Source, NEW locked \in SUBSET Params, NEW p \in Params
  PROVE  /\ PreModValue(src, locked, p) \in Values
         /\ p \notin locked => PreModValue(src, locked, p) = base[p]
<1>1. CASE p \in locked /\ Has(src.source, src.count, p)
  <2>1. src.source \in Steps /\ src.count \in 0 .. MaxLocks
    BY <1>1 DEF Has, Source
  <2> QED
    BY <1>1, <2>1, LockOnValue DEF PreModValue
<1>2. CASE ~ (p \in locked /\ Has(src.source, src.count, p))
  BY <1>2 DEF PreModValue, TypeOK
<1> QED
  BY <1>1, <1>2

(* ApplyLfo modulates one parameter and leaves every other unlocked one at   *)
(* its base, whatever it modulated before.                                  *)
LEMMA ApplyLfoKeeps ==
  ASSUME TypeOK, NEW src \in Source, NEW locked \in SUBSET Params, NEW m \in LfoValues,
         NEW w \in [Params -> Values],
         \A p \in Params : p \notin locked /\ p # lastDest => w[p] = base[p],
         ApplyLfo(w, src, locked, m)
  PROVE  /\ lastDest' \in Params \cup {None}
         /\ written' \in [Params -> Values]
         /\ \A p \in Params : p \notin locked /\ p # lastDest' => written'[p] = base[p]
<1> DEFINE d == Dests[w[LfoDest]]
           left == LeaveDest(w, src, locked, d)
<1>1. d \in Params \cup {None} /\ lastDest' = d
  BY VoiceSlotAssumption DEF ApplyLfo
<1>2. /\ left \in [Params -> Values]
      /\ \A p \in Params : p \notin locked /\ p # d => left[p] = base[p]
  <2>1. CASE d # lastDest /\ lastDest # None
    <3>1. lastDest \in Params
      BY <2>1 DEF TypeOK
    <3>2. left = [q \in Params |-> IF q = lastDest THEN PreModValue(src, locked, lastDest)
                                   ELSE w[q]]
      BY <2>1 DEF LeaveDest, Put
    <3> HIDE DEF d, left
    <3> QED
      BY <3>1, <3>2, PreMod
  <2>2. CASE ~ (d # lastDest /\ lastDest # None)
    <3>1. left = w
      BY <2>2 DEF LeaveDest
    <3>2. \A p \in Params : p # d => p # lastDest
      <4> HIDE DEF d, left
      <4> QED
        BY <2>2, VoiceSlotAssumption
    <3> QED
      BY <3>1, <3>2
  <2> QED
    BY <2>1, <2>2
<1>3. CASE d = None
  <2>1. written' = left
    BY <1>3 DEF ApplyLfo
  <2> QED
    BY <1>1, <1>2, <1>3, <2>1
<1>4. CASE d # None
  <2> DEFINE v == Clamped(PreModValue(src, locked, d) + m)
  <2>1. v \in Values
    <3>1. PreModValue(src, locked, d) \in Values
      <4> HIDE DEF d
      <4> QED
        BY <1>1, <1>4, PreMod
    <3> HIDE DEF d
    <3> QED
      BY <3>1, VoiceSlotAssumption DEF Clamped, Values
  <2>2. written' = [q \in Params |-> IF q = d THEN v ELSE left[q]]
    BY <1>4 DEF ApplyLfo, Put
  <2> HIDE DEF d, v, left
  <2> QED
    BY <1>1, <1>2, <2>1, <2>2
<1> QED
  BY <1>3, <1>4

-----------------------------------------------------------------------------
(* The inductive invariant.  A step that is due has not been edited since:  *)
(* it is due before the block ends, and only then do commands run.          *)
DueInBlock ==
  delay >= 0 /\ sched.source \in Steps =>
    frame + delay < Frames /\ sched.count = steps[sched.source].count

IInv == TypeOK /\ NoLeak /\ DueInBlock

LEMMA InitIInv == Init => IInv
<1> SUFFICES ASSUME Init PROVE IInv
  OBVIOUS
<1>1. PICK patch \in Patches :
        base = patch.base /\ written = patch.base /\ steps = patch.steps
  BY DEF Init
<1>2. patch.base \in [Params -> Values] /\ patch.steps \in [Steps -> LockList]
  BY VoiceSlotAssumption
<1>3. TypeOK
  BY <1>1, <1>2, VoiceSlotAssumption DEF Init, TypeOK, NoLocksHeld, Lockless
<1> QED
  BY <1>1, <1>3, VoiceSlotAssumption DEF Init, IInv, NoLeak, DueInBlock

(* A list stays a list when a lock is written or the count is cleared. *)
LEMMA WrittenList ==
  ASSUME TypeOK, NEW s \in Steps, NEW p \in Params, NEW v \in Values, SetStepLock(s, p, v)
  PROVE  steps' \in [Steps -> LockList]
<1> DEFINE l == steps[s]
           same == {i \in 1 .. l.count : l.locks[i].param = p}
           new == [param |-> p, value |-> v]
           over == [l EXCEPT !.locks = [i \in 1 .. MaxLocks |->
                                          IF i \in same THEN new ELSE l.locks[i]]]
           grown == [count |-> l.count + 1, locks |-> [l.locks EXCEPT ![l.count + 1] = new]]
<1>1. l \in LockList /\ new \in LockEntry /\ MaxLocks \in Nat
  BY VoiceSlotAssumption DEF TypeOK, LockEntry
<1>2. over \in LockList
  <2> HIDE DEF new, same, l
  <2> QED
    BY <1>1 DEF LockList
<1>3. Room(l) => grown \in LockList
  <2> HIDE DEF new, l
  <2> QED
    BY <1>1 DEF LockList, Room
<1>4. steps' = [steps EXCEPT ![s] = IF same # {} THEN over ELSE IF Room(l) THEN grown ELSE l]
  BY DEF SetStepLock
<1> QED
  <2> HIDE DEF over, grown, l, same
  <2> QED
    BY <1>1, <1>2, <1>3, <1>4 DEF TypeOK

(* Firing gives every parameter either a lock of this step or its base.      *)
LEMMA FireKeeps ==
  ASSUME IInv, NEW m \in LfoValues, Fire(m), UNCHANGED base
  PROVE  /\ mask' \in SUBSET Params
         /\ held' \in [Params -> Values \cup {None}]
         /\ lastDest' \in Params \cup {None}
         /\ written' \in [Params -> Values]
         /\ NoLeak'
<1> DEFINE w == [p \in Params |-> IF p \in Locked THEN LockOn(sched.source, sched.count, p)
                                 ELSE Restored[p]]
<1>1. sched \in Source /\ Locked \in SUBSET Params
  BY DEF IInv, TypeOK, Source, Locked
<1>2. \A p \in Locked : LockOn(sched.source, sched.count, p) \in Values
  BY <1>1, LockOnValue DEF IInv, Locked, Has, Source
<1>3. w \in [Params -> Values]
  BY <1>2 DEF Restored, IInv, TypeOK
<1>4. \A p \in Params : p \notin Locked /\ p # lastDest => w[p] = base[p]
  BY DEF Restored, IInv, NoLeak
<1>5. ApplyLfo(w, sched, Locked, m)
  BY DEF Fire
<1>6. /\ lastDest' \in Params \cup {None}
      /\ written' \in [Params -> Values]
      /\ \A p \in Params : p \notin Locked /\ p # lastDest' => written'[p] = base[p]
  <2> HIDE DEF w
  <2> QED
    BY <1>1, <1>3, <1>4, <1>5, ApplyLfoKeeps DEF IInv
<1>7. mask' = Locked
  BY DEF Fire
<1>8. held' \in [Params -> Values \cup {None}]
  BY <1>2 DEF Fire
<1> QED
  BY <1>1, <1>6, <1>7, <1>8 DEF NoLeak

LEMMA NextIInv == IInv /\ [Next]_vars => IInv'
<1> SUFFICES ASSUME IInv, [Next]_vars PROVE IInv'
  OBVIOUS
<1> USE DEF IInv
<1>1. ASSUME NEW in \in BaseInputs, SetKitParam(in[1], in[2]) PROVE IInv'
  <2>1. in[1] \in Params /\ in[2] \in Values
    BY VoiceSlotAssumption
  <2>2. TypeOK'
    BY <1>1, <2>1 DEF SetKitParam, Pushed, TypeOK
  <2>3. NoLeak'
    BY <1>1, <2>1 DEF SetKitParam, Pushed, TypeOK, NoLeak
  <2>4. DueInBlock'
    BY <1>1 DEF SetKitParam, DueInBlock
  <2> QED
    BY <2>2, <2>3, <2>4
<1>2. ASSUME SetMachine PROVE IInv'
  <2>1. TypeOK'
    BY <1>2 DEF SetMachine, Rebind, NoLocksHeld, TypeOK
  <2> QED
    BY <1>2, <2>1 DEF SetMachine, Rebind, NoLeak, DueInBlock
<1>3. ASSUME TriggerTrack PROVE IInv'
  <2>1. TypeOK'
    BY <1>3, VoiceSlotAssumption DEF TriggerTrack, Schedule, TypeOK, Lockless
  <2>2. DueInBlock'
    BY <1>3, VoiceSlotAssumption DEF TriggerTrack, Schedule, DueInBlock, Lockless
  <2> QED
    BY <1>3, <2>1, <2>2 DEF TriggerTrack, NoLeak
<1>4. ASSUME NEW s \in Steps, NEW in \in LockInputs, SetStepLock(s, in[1], in[2]) PROVE IInv'
  <2>1. in[1] \in Params /\ in[2] \in Values
    BY VoiceSlotAssumption
  <2>2. steps' \in [Steps -> LockList]
    BY <1>4, <2>1, WrittenList
  <2>3. UNCHANGED <<base, written, mask, lastDest, delay, sched, frame, held>> /\ BetweenBlocks
    BY <1>4 DEF SetStepLock
  <2> QED
    BY <2>2, <2>3, VoiceSlotAssumption DEF TypeOK, NoLeak, DueInBlock, BetweenBlocks
<1>5. ASSUME NEW s \in Steps, ClearLocks(s) PROVE IInv'
  <2>1. steps' \in [Steps -> LockList]
    BY <1>5, VoiceSlotAssumption DEF ClearLocks, TypeOK, LockList
  <2>2. UNCHANGED <<base, written, mask, lastDest, delay, sched, frame, held>> /\ BetweenBlocks
    BY <1>5 DEF ClearLocks
  <2> QED
    BY <2>1, <2>2, VoiceSlotAssumption DEF TypeOK, NoLeak, DueInBlock, BetweenBlocks
<1>6. ASSUME NEW patch \in Patches, NEW other \in BOOLEAN, LoadPatch(patch, other) PROVE IInv'
  <2>1. patch.base \in [Params -> Values] /\ patch.steps \in [Steps -> LockList]
    BY VoiceSlotAssumption
  <2>2. TypeOK'
    BY <1>6, <2>1 DEF LoadPatch, Rebind, Pushed, NoLocksHeld, TypeOK
  <2>3. NoLeak'
    BY <1>6, <2>1 DEF LoadPatch, Rebind, Pushed, NoLeak, TypeOK
  <2>4. DueInBlock'
    BY <1>6, VoiceSlotAssumption DEF LoadPatch, BetweenBlocks, DueInBlock, TypeOK
  <2> QED
    BY <2>2, <2>3, <2>4
<1>7. ASSUME NEW e \in Events, NEW m \in LfoValues, BeginBlock(e, m) PROVE IInv'
  <2>1. /\ delay' \in -1 .. Frames /\ sched' \in Source /\ frame' = 0
        /\ DueInBlock'
    <3>1. CASE e = NoEvent
      BY <1>7, <3>1, VoiceSlotAssumption
      DEF BeginBlock, BetweenBlocks, TypeOK, DueInBlock, Source
    <3>2. CASE e # NoEvent
      <4>1. e.source \in Steps \cup {"repeat"} /\ e.offset \in 0 .. Frames - 1
        BY <3>2 DEF Events
      <4>2. steps[e.source].count \in 0 .. MaxLocks \/ e.source \notin Steps
        BY DEF TypeOK, LockList
      <4> QED
        BY <1>7, <3>2, <4>1, <4>2, VoiceSlotAssumption
        DEF BeginBlock, Schedule, EventOffset, DueInBlock, Source, Lockless
    <3> QED
      BY <3>1, <3>2
  <2>2. /\ lastDest' \in Params \cup {None}
        /\ written' \in [Params -> Values]
        /\ \A p \in Params : p \notin mask /\ p # lastDest' => written'[p] = base[p]
    <3>1. ApplyLfo(written, sched', mask, m)
      BY <1>7 DEF BeginBlock
    <3> QED
      BY <2>1, <3>1, ApplyLfoKeeps DEF TypeOK, NoLeak
  <2>3. UNCHANGED <<base, mask, steps, held>>
    BY <1>7 DEF BeginBlock
  <2> QED
    BY <2>1, <2>2, <2>3, VoiceSlotAssumption DEF TypeOK, NoLeak, Source
<1>8. ASSUME NEW m \in LfoValues, Frame(m) PROVE IInv'
  <2>1. frame' \in 0 .. Frames /\ delay' \in -1 .. Frames
    BY <1>8, VoiceSlotAssumption DEF Frame, TypeOK
  <2>2. UNCHANGED <<base, sched, steps>>
    BY <1>8 DEF Frame
  <2>3. DueInBlock'
    BY <1>8, VoiceSlotAssumption DEF Frame, DueInBlock, TypeOK
  <2>4. CASE delay = 0
    <3>1. Fire(m)
      BY <1>8, <2>4 DEF Frame
    <3>2. /\ mask' \in SUBSET Params
          /\ held' \in [Params -> Values \cup {None}]
          /\ lastDest' \in Params \cup {None}
          /\ written' \in [Params -> Values]
          /\ NoLeak'
      BY <2>2, <3>1, FireKeeps
    <3> QED
      BY <2>1, <2>2, <2>3, <3>2 DEF TypeOK
  <2>5. CASE delay # 0
    BY <1>8, <2>1, <2>2, <2>3, <2>5 DEF Frame, TypeOK, NoLeak
  <2> QED
    BY <2>4, <2>5
<1>9. CASE UNCHANGED vars
  BY <1>9 DEF vars, TypeOK, NoLeak, DueInBlock
<1> QED
  BY <1>1, <1>2, <1>3, <1>4, <1>5, <1>6, <1>7, <1>8, <1>9 DEF Next

LEMMA Invariant == Spec => []IInv
  BY InitIInv, NextIInv, PTL DEF Spec

(* Every variable keeps its type. *)
THEOREM TypeCorrect == Spec => []TypeOK
  BY Invariant, PTL DEF IInv

(* No lock and no modulation leaks: whatever came before, a parameter that  *)
(* is neither locked nor modulated reads its knob.                          *)
THEOREM LocksNeverLeak == Spec => []NoLeak
  BY Invariant, PTL DEF IInv

(* A step that fires does so with the lock list it was scheduled with.      *)
THEOREM FiresFresh == Spec => []FreshLocks
<1>1. IInv => FreshLocks
  BY VoiceSlotAssumption DEF IInv, DueInBlock, FreshLocks, TypeOK
<1> QED
  BY <1>1, Invariant, PTL

-----------------------------------------------------------------------------
(* A parameter the LFO leaves alone reads exactly the sounding step's lock  *)
(* or its base, and is in the mask just when that step locks it.            *)
Sounds(p) ==
  /\ p \in mask <=> held[p] # None
  /\ written[p] = Origin(p)

LEMMA LfoElsewhere ==
  ASSUME NEW p \in Params, lastDest # p, lastDest' # p,
         NEW src, NEW locked, NEW m, NEW w, ApplyLfo(w, src, locked, m),
         w \in [Params -> Values]
  PROVE  written'[p] = w[p]
BY VoiceSlotAssumption DEF ApplyLfo, LeaveDest, Put

LEMMA NextSounds ==
  ASSUME NEW p \in Params
  PROVE  IInv /\ Sounds(p) /\ lastDest # p /\ lastDest' # p /\ [Next]_vars => Sounds(p)'
<1> SUFFICES ASSUME IInv, Sounds(p), lastDest # p, lastDest' # p, [Next]_vars PROVE Sounds(p)'
  OBVIOUS
<1>t. TypeOK
  BY DEF IInv
<1>1. ASSUME NEW in \in BaseInputs, SetKitParam(in[1], in[2]) PROVE Sounds(p)'
  <2>1. in[1] \in Params
    BY VoiceSlotAssumption
  <2> QED
    BY <1>1, <1>t, <2>1 DEF SetKitParam, Pushed, Sounds, Origin, TypeOK
<1>2. ASSUME SetMachine PROVE Sounds(p)'
  BY <1>2, <1>t DEF SetMachine, Rebind, NoLocksHeld, Sounds, Origin
<1>3. ASSUME TriggerTrack PROVE Sounds(p)'
  BY <1>3 DEF TriggerTrack, Sounds, Origin
<1>4. ASSUME NEW s \in Steps, NEW in \in LockInputs, SetStepLock(s, in[1], in[2])
      PROVE  Sounds(p)'
  BY <1>4 DEF SetStepLock, Sounds, Origin
<1>5. ASSUME NEW s \in Steps, ClearLocks(s) PROVE Sounds(p)'
  BY <1>5 DEF ClearLocks, Sounds, Origin
<1>6. ASSUME NEW patch \in Patches, NEW other \in BOOLEAN, LoadPatch(patch, other)
      PROVE  Sounds(p)'
  BY <1>6 DEF LoadPatch, Rebind, Pushed, NoLocksHeld, Sounds, Origin
<1>7. ASSUME NEW e \in Events, NEW m \in LfoValues, BeginBlock(e, m) PROVE Sounds(p)'
  <2>1. written'[p] = written[p]
    BY <1>7, <1>t, LfoElsewhere DEF BeginBlock, TypeOK
  <2> QED
    BY <1>7, <2>1 DEF BeginBlock, Sounds, Origin
<1>8. ASSUME NEW m \in LfoValues, Frame(m) PROVE Sounds(p)'
  <2>1. CASE delay = 0
    <3> DEFINE w == [q \in Params |-> IF q \in Locked THEN LockOn(sched.source, sched.count, q)
                                     ELSE Restored[q]]
    <3>1. /\ ApplyLfo(w, sched, Locked, m) /\ mask' = Locked /\ base' = base
          /\ held' = [q \in Params |->
                IF q \in Locked THEN LockOn(sched.source, sched.count, q) ELSE None]
      BY <1>8, <2>1 DEF Frame, Fire
    <3>2. sched \in Source /\ Locked \in SUBSET Params
      BY <1>t DEF TypeOK, Source, Locked
    <3>3. \A q \in Locked : LockOn(sched.source, sched.count, q) \in Values
      BY <1>t, <3>2, LockOnValue DEF Locked, Has, Source
    <3>4. w \in [Params -> Values]
      BY <1>t, <3>3 DEF Restored, TypeOK
    <3>5. written'[p] = w[p]
      <4> HIDE DEF w
      <4> QED
        BY <3>1, <3>4, LfoElsewhere
    <3>6. p \notin mask => written[p] = base[p]
      BY DEF Sounds, Origin
    <3>7. \A q \in Locked : LockOn(sched.source, sched.count, q) # None
      BY <3>3, VoiceSlotAssumption DEF Values
    <3> QED
      BY <3>1, <3>2, <3>5, <3>6, <3>7 DEF Sounds, Origin, Restored
  <2>2. CASE delay # 0
    BY <1>8, <2>2 DEF Frame, Sounds, Origin
  <2> QED
    BY <2>1, <2>2
<1>9. CASE UNCHANGED vars
  BY <1>9 DEF vars, Sounds, Origin
<1> QED
  BY <1>1, <1>2, <1>3, <1>4, <1>5, <1>6, <1>7, <1>8, <1>9 DEF Next

(* Every sample is rendered with the locks of the step that sounds over the *)
(* knobs, in every parameter the LFO is never routed to and through any     *)
(* sequence of edits, loads and triggers.                                   *)
THEOREM LocksLastTheirStep == Spec => EffectiveValue
<1> DEFINE Reads(p) == frame < Frames /\ delay # 0 => written[p] = Origin(p)
<1>1. ASSUME NEW p \in Params PROVE Spec => ([](lastDest # p) => []Reads(p))
  <2>1. Init => Sounds(p)
    BY DEF Init, Sounds, Origin, NoLocksHeld
  <2>2. IInv /\ Sounds(p) /\ lastDest # p /\ (lastDest # p)' /\ [Next]_vars => Sounds(p)'
    BY NextSounds
  <2>3. Sounds(p) => Reads(p)
    BY DEF Sounds
  <2> HIDE DEF Reads
  <2> QED
    BY <2>1, <2>2, <2>3, Invariant, PTL DEF Spec
<1> QED
  BY <1>1 DEF EffectiveValue
=============================================================================
