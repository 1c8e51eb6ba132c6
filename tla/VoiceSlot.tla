------------------------------ MODULE VoiceSlot ------------------------------
(***************************************************************************)
(* One track's VoiceSlot (src/engine/voice.h) and what Machine::Process    *)
(* and Machine::Apply (src/machine.h) do to it, block by block: commands   *)
(* are drained, the sequencer's events of the block are scheduled, the LFO *)
(* is advanced once, then the block is rendered sample by sample.          *)
(*                                                                         *)
(* Parameter values are small integers.  The LFO's output is any member of *)
(* LfoValues; its destination is the value of the parameter LfoDest, with  *)
(* a depth of zero folded into "off".  written is what the voice, the      *)
(* channel strip and the LFO were last told: all three take parameters     *)
(* through Dispatch alone.                                                 *)
(***************************************************************************)
EXTENDS Integers

CONSTANTS
  Params,      \* ParamId
  LfoDest,     \* the parameter that names the LFO's destination
  None,        \* no destination, no lock
  VMax,        \* parameter values are 0 .. VMax
  Dests,       \* the destination each value of LfoDest names; 0 is off
  LfoValues,   \* what the LFO can add
  Steps,       \* the steps of the track that can play
  MaxLocks,    \* kMaxLocks
  Patches,     \* [base, steps] pairs that are there at start or can be loaded
  BaseInputs,  \* the <<parameter, value>> pairs the knobs send
  LockInputs,  \* the <<parameter, value>> pairs written to a step as locks
  Frames       \* samples per block

Values == 0 .. VMax
LockEntry == [param : Params, value : Values]
LockList == [count : 0 .. MaxLocks, locks : [1 .. MaxLocks -> LockEntry]]

(* What a trigger without a step's locks comes from. *)
Lockless == {"nothing", "repeat", "audition"}

ASSUME VoiceSlotAssumption ==
  /\ LfoDest \in Params /\ None \notin Params /\ None \notin Int
  /\ VMax \in Nat
  /\ Dests \in [Values -> Params \cup {None}] /\ Dests[0] = None
  /\ LfoValues \subseteq Int
  /\ Steps \cap Lockless = {}
  /\ MaxLocks \in Nat
  /\ Patches \subseteq [base : [Params -> Values], steps : [Steps -> LockList]]
  /\ \A p \in Patches : Dests[p.base[LfoDest]] = None
  /\ BaseInputs \subseteq Params \X Values
  /\ LockInputs \subseteq Params \X Values
  /\ Frames \in Nat \ {0}

VARIABLES
  base,      \* base_: what the knobs say
  written,   \* the value each parameter's owner was last given
  mask,      \* locked_mask_, as a set of parameters
  lastDest,  \* last_lfo_dest_
  delay,     \* delay_: samples until the trigger, -1 for none
  sched,     \* locks_ and lock_count_: whose locks, and how many
  steps,     \* the lock lists of the track's steps, in patch_
  frame,     \* the sample about to be rendered; Frames between blocks
  held       \* history: the locks of the step that sounds

vars == <<base, written, mask, lastDest, delay, sched, steps, frame, held>>

NoLocksHeld == [p \in Params |-> None]

(* Init, and ApplyKit at the end of Machine::Init. *)
Init ==
  /\ \E patch \in Patches : base = patch.base /\ written = patch.base /\ steps = patch.steps
  /\ mask = {} /\ lastDest = None
  /\ delay = -1 /\ sched = [source |-> "nothing", count |-> 0]
  /\ frame = Frames
  /\ held = NoLocksHeld

-----------------------------------------------------------------------------
(* Commands. *)

BetweenBlocks == frame = Frames

(* Mutant of Pushed: the knob writes through a lock. *)
PushedAlways(new) == new

(* SetBase's push-through: a locked parameter is left to the restore. *)
Pushed(new) == [p \in Params |-> IF p \in mask THEN written[p] ELSE new[p]]

SetKitParam(p, v) ==
  /\ BetweenBlocks
  /\ base' = [base EXCEPT ![p] = v]
  /\ written' = [written EXCEPT ![p] = Pushed([base EXCEPT ![p] = v])[p]]
  /\ UNCHANGED <<mask, lastDest, delay, sched, steps, frame, held>>

(* SetMachine to another machine: Rebind. *)
Rebind(b) ==
  /\ mask' = {} /\ lastDest' = None
  /\ written' = b
  /\ held' = NoLocksHeld

SetMachine ==
  /\ BetweenBlocks
  /\ Rebind(base)
  /\ UNCHANGED <<base, delay, sched, steps, frame>>

Schedule(offset, source, count) ==
  /\ delay' = offset
  /\ sched' = [source |-> source, count |-> count]

TriggerTrack ==
  /\ BetweenBlocks
  /\ Schedule(0, "audition", 0)
  /\ UNCHANGED <<base, written, mask, lastDest, steps, frame, held>>

(* Mutant of Room: one lock too many. *)
RoomAtEnd(l) == l.count <= MaxLocks

Room(l) == l.count < MaxLocks

(* WriteLock: replace the parameter's lock or append one; a full list       *)
(* ignores it.                                                              *)
SetStepLock(s, p, v) ==
  LET l == steps[s]
      same == {i \in 1 .. l.count : l.locks[i].param = p}
      new == [param |-> p, value |-> v]
  IN /\ BetweenBlocks
     /\ steps' = [steps EXCEPT ![s] =
          IF same # {} THEN
            [l EXCEPT !.locks = [i \in 1 .. MaxLocks |-> IF i \in same THEN new ELSE l.locks[i]]]
          ELSE IF Room(l) THEN
            [count |-> l.count + 1, locks |-> [l.locks EXCEPT ![l.count + 1] = new]]
          ELSE l]
     /\ UNCHANGED <<base, written, mask, lastDest, delay, sched, frame, held>>

(* ClearStepLocks, and ToggleStep on an active step: only the count goes. *)
ClearLocks(s) ==
  /\ BetweenBlocks
  /\ steps' = [steps EXCEPT ![s].count = 0]
  /\ UNCHANGED <<base, written, mask, lastDest, delay, sched, frame, held>>

(* LoadPatch and ApplyKit, for a kit with the same machine or another. *)
LoadPatch(patch, otherMachine) ==
  /\ BetweenBlocks
  /\ steps' = patch.steps
  /\ base' = patch.base
  /\ IF otherMachine THEN Rebind(patch.base)
     ELSE written' = Pushed(patch.base) /\ UNCHANGED <<mask, lastDest, held>>
  /\ UNCHANGED <<delay, sched, frame>>

-----------------------------------------------------------------------------
(* Rendering. *)

(* The index of the first of s's first n locks that is on p. *)
Has(s, n, p) == s \in Steps /\ \E i \in 1 .. n : steps[s].locks[i].param = p

LockOn(s, n, p) ==
  LET i == CHOOSE i \in 1 .. n :
             /\ steps[s].locks[i].param = p
             /\ \A j \in 1 .. n : steps[s].locks[j].param = p => i <= j
  IN steps[s].locks[i].value

(* PreModValue reads the lock list of the step scheduled last. *)
PreModValue(src, locked, p) ==
  IF p \in locked /\ Has(src.source, src.count, p) THEN LockOn(src.source, src.count, p)
  ELSE base[p]

Clamped(v) == IF v < 0 THEN 0 ELSE IF v > VMax THEN VMax ELSE v

Put(w, p, v) == [q \in Params |-> IF q = p THEN v ELSE w[q]]

(* A destination that moves must not leave the old one modulated. *)
LeaveDest(w, src, locked, d) ==
  IF d # lastDest /\ lastDest # None THEN Put(w, lastDest, PreModValue(src, locked, lastDest))
  ELSE w

(* ApplyLfo, on what the parameters hold: w, with the locks in `locked`.    *)
ApplyLfo(w, src, locked, m) ==
  LET d == Dests[w[LfoDest]]
      left == LeaveDest(w, src, locked, d)
  IN /\ lastDest' = d
     /\ written' = IF d = None THEN left
                   ELSE Put(left, d, Clamped(PreModValue(src, locked, d) + m))

(* Mutant of EventOffset: offsets count from one. *)
OffsetFromOne(o) == o + 1

(* Event::offset is the sample of this block the event falls on. *)
EventOffset(o) == o

(* The sequencer's events of the block are scheduled in order, each         *)
(* replacing the one before: only the last is left.  A repeat may follow    *)
(* anything: its own step may have been dropped by a full buffer, or an     *)
(* audition may have come between.                                          *)
NoEvent == [source |-> "nothing", offset |-> 0]

Events ==
  {NoEvent}
    \cup [source : Steps \cup {"repeat"}, offset : 0 .. Frames - 1]

BeginBlock(e, m) ==
  /\ BetweenBlocks
  /\ frame' = 0
  /\ IF e = NoEvent THEN UNCHANGED <<delay, sched>>
     ELSE Schedule(EventOffset(e.offset), e.source,
                   IF e.source \in Steps THEN steps[e.source].count ELSE 0)
  /\ ApplyLfo(written, sched', mask, m)
  /\ UNCHANGED <<base, mask, steps, held>>

(* Mutant of Restored: the previous step's locks stay. *)
NotRestored == written

(* ApplyLocks: first the previous step's locks go back to the base... *)
Restored == [p \in Params |-> IF p \in mask THEN base[p] ELSE written[p]]

(* ...then this step's are applied. *)
Locked == {p \in Params : Has(sched.source, sched.count, p)}

Fire(m) ==
  /\ mask' = Locked
  /\ held' = [p \in Params |->
               IF p \in Locked THEN LockOn(sched.source, sched.count, p) ELSE None]
  /\ ApplyLfo([p \in Params |-> IF p \in Locked THEN LockOn(sched.source, sched.count, p)
                                ELSE Restored[p]], sched, Locked, m)

(* Process: one sample. *)
Frame(m) ==
  /\ frame < Frames
  /\ frame' = frame + 1
  /\ IF delay = 0 THEN Fire(m) ELSE UNCHANGED <<written, mask, lastDest, held>>
  /\ delay' = IF delay >= 0 THEN delay - 1 ELSE delay
  /\ UNCHANGED <<base, sched, steps>>

Next ==
  \/ \E in \in BaseInputs : SetKitParam(in[1], in[2])
  \/ SetMachine
  \/ TriggerTrack
  \/ \E s \in Steps, in \in LockInputs : SetStepLock(s, in[1], in[2])
  \/ \E s \in Steps : ClearLocks(s)
  \/ \E patch \in Patches, other \in BOOLEAN : LoadPatch(patch, other)
  \/ \E e \in Events, m \in LfoValues : BeginBlock(e, m)
  \/ \E m \in LfoValues : Frame(m)

Spec == Init /\ [][Next]_vars

-----------------------------------------------------------------------------
(* Properties. *)

TypeOK ==
  /\ base \in [Params -> Values] /\ written \in [Params -> Values]
  /\ mask \in SUBSET Params
  /\ lastDest \in Params \cup {None}
  /\ delay \in -1 .. Frames
  /\ sched \in [source : Steps \cup Lockless, count : 0 .. MaxLocks]
  /\ steps \in [Steps -> LockList]
  /\ frame \in 0 .. Frames
  /\ held \in [Params -> Values \cup {None}]

(* A lock does not leak and neither does the LFO: whatever steps, knobs,    *)
(* loads and machine changes came before, a parameter that the sounding     *)
(* step does not lock and the LFO does not modulate reads what its knob     *)
(* says.                                                                    *)
NoLeak == \A p \in Params : p \notin mask /\ p # lastDest => written[p] = base[p]

(* Every step fires inside the block it was scheduled in, so no edit or     *)
(* load comes between: the lock list ApplyLocks walks through locks_ and    *)
(* lock_count_ is the step's own.                                           *)
FreshLocks ==
  delay >= 0 /\ sched.source \in Steps =>
    frame < Frames /\ sched.count = steps[sched.source].count

(* What the locks of the step that sounds and the knobs make of p. *)
Origin(p) == IF held[p] # None THEN held[p] ELSE base[p]

(* effective = locked ? lock : base, the lock being that of the step that   *)
(* sounds, at every sample rendered: until the next step fires its locks    *)
(* are not heard.  This is for a parameter the LFO is never routed to,      *)
(* wherever else it is routed.                                              *)
EffectiveValue ==
  \A p \in Params :
    [](lastDest # p) => [](frame < Frames /\ delay # 0 => written[p] = Origin(p))

-----------------------------------------------------------------------------
(* Said of the code, and not true of it. *)

(* The same of every parameter, with what the LFO adds.  AdvanceLfo runs    *)
(* before the step scheduled in the block fires, and reads that step's list.*)
ModulatedValue ==
  frame < Frames /\ delay # 0 => \A p \in Params :
    written[p] \in (IF p = lastDest THEN {Clamped(Origin(p) + m) : m \in LfoValues}
                    ELSE {Origin(p)})

(* Locks override a parameter for one step, and a ratchet subdivides the    *)
(* step: its repeats take away none of the locks that sound.                *)
RepeatKeepsLocks ==
  [][frame < Frames /\ delay = 0 /\ sched.source = "repeat" => held' = held]_vars

(* An audition sounds immediately: it is not held back by what the          *)
(* sequencer plays in the same block.                                       *)
AuditionImmediate ==
  [][sched.source = "audition" /\ delay = 0 /\ BetweenBlocks /\ frame' = 0 => delay' = 0]_vars
=============================================================================
