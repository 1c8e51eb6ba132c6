----------------------------- MODULE PanelProofs -----------------------------
(***************************************************************************)
(* Proofs about the panel state machine, for any number of tracks, keys,   *)
(* pages and banks, any range of values, and however far the audio         *)
(* callback is behind: its types, that a gesture's last value is the one   *)
(* stored, and that a lock written while a step is held leaves it on.      *)
(***************************************************************************)
EXTENDS Panel, TLAPS

(* What is in the queue is stronger than TypeOK says: each type of command  *)
(* carries an address and a value that its Apply can take.                  *)
StepCommands == {"SetStepActive", "SetStepLock", "SetStepField", "ToggleStep"}

WellFormed(c) ==
  /\ c.type \in StepCommands => c.step \in Keys
  /\ c.type \in {"SetKitParam", "SetStepLock"} => c.param \in Params
  /\ c.type = "SetFxParam" => c.param \in Banks
  /\ c.type \in {"SetKitParam", "SetFxParam", "SetStepLock", "SetStepField"} => c.value \in Values

Typed ==
  /\ TypeOK
  /\ \A i \in 1 .. Len(q) : WellFormed(q[i])

(* EditsLand follows the value on its way.  A gesture that nothing has      *)
(* overtaken has its last value either in the queue, for the place the      *)
(* encoder points at, or where Apply put it; and what was queued behind it writes *)
(* no place an encoder can point at.                                        *)
Harmless == {"Transport", "SetTrackMute", "LoadPatch"}

QuietAfter(i) == \A j \in 1 .. Len(q) : j > i => q[j].type \in Harmless

UnderWay ==
  \/ QuietAfter(0) /\ (Landed \/ NoRoom)
  \/ \E i \in 1 .. Len(q) : q[i] = Emitted(edit) /\ QuietAfter(i)

EditInv == turning => Kind # "None" /\ (overtaken \/ UnderWay)

(* LocksKeepStep: the step is on, or will be, and nothing queued after that *)
(* toggles it; and a key that may still toggle has no lock to its name.     *)
Ons(c, t, s) == c.type \in {"SetStepActive", "SetStepLock"} /\ c.track = t /\ c.step = s
Toggles(c, t, s) == c.type = "ToggleStep" /\ c.track = t /\ c.step = s

NoToggleAfter(i, t, s) == \A j \in 1 .. Len(q) : j > i => ~Toggles(q[j], t, s)

StaysOn(t, s) ==
  \/ patch.steps[t][s].active /\ NoToggleAfter(0, t, s)
  \/ \E i \in 1 .. Len(q) : Ons(q[i], t, s) /\ NoToggleAfter(i, t, s)

LockInv ==
  /\ mine \subseteq {"lock", "detail"} \X Tracks \X Keys
  /\ \A t \in Tracks, s \in Keys : <<"lock", t, s>> \in mine => StaysOn(t, s)
  /\ ~wroteLock => \A t \in Tracks : <<"lock", t, held>> \notin mine

-----------------------------------------------------------------------------
(* The queue: what an append and a tail leave at each place.                *)

LEMMA AppendAt ==
  ASSUME NEW S, NEW s \in Seq(S), NEW c \in S
  PROVE  /\ Append(s, c) \in Seq(S)
         /\ Len(Append(s, c)) = Len(s) + 1 /\ Len(s) \in Nat
         /\ Append(s, c)[Len(s) + 1] = c
         /\ \A i \in 1 .. Len(s) : Append(s, c)[i] = s[i]
OBVIOUS

LEMMA AppendTwo ==
  ASSUME NEW S, NEW s \in Seq(S), NEW a \in S, NEW b \in S
  PROVE  s \o <<a, b>> = Append(Append(s, a), b)
OBVIOUS

LEMMA TailAt ==
  ASSUME NEW S, NEW s \in Seq(S), s # <<>>
  PROVE  /\ Tail(s) \in Seq(S) /\ Head(s) \in S /\ Head(s) = s[1]
         /\ Len(Tail(s)) = Len(s) - 1 /\ Len(s) \in Nat /\ Len(s) >= 1
         /\ \A i \in 1 .. Len(Tail(s)) : i + 1 \in 1 .. Len(s) /\ Tail(s)[i] = s[i + 1]
         /\ \A i \in 2 .. Len(s) : i - 1 \in 1 .. Len(Tail(s)) /\ s[i] = Tail(s)[i - 1]
OBVIOUS

(* The queue's part of Typed. *)
Queued(s) == s \in Seq(CommandType) /\ \A i \in 1 .. Len(s) : WellFormed(s[i])

LEMMA PushTyped ==
  ASSUME NEW s, Queued(s), NEW c \in CommandType, WellFormed(c)
  PROVE  Queued(Append(s, c)) /\ Len(Append(s, c)) = Len(s) + 1 /\ Len(s) \in Nat
<1>1. /\ s \in Seq(CommandType) /\ \A i \in 1 .. Len(s) : WellFormed(s[i])
  BY DEF Queued
<1>2. ASSUME NEW i \in 1 .. Len(Append(s, c)) PROVE WellFormed(Append(s, c)[i])
  <2>1. CASE i = Len(s) + 1
    BY <1>1, <2>1, AppendAt
  <2>2. CASE i \in 1 .. Len(s)
    BY <1>1, <2>2, AppendAt
  <2> QED
    BY <1>1, <2>1, <2>2, AppendAt
<1> QED
  BY <1>1, <1>2, AppendAt DEF Queued

LEMMA PopTyped ==
  ASSUME NEW s, Queued(s), s # <<>>
  PROVE  /\ Queued(Tail(s)) /\ Len(Tail(s)) = Len(s) - 1 /\ Len(s) \in Nat
         /\ Head(s) \in CommandType /\ WellFormed(Head(s))
BY TailAt DEF Queued

-----------------------------------------------------------------------------
(* Types. *)

(* Rounding to the grid of a step's fields stays in range: the range is a   *)
(* whole number of its steps.                                               *)
LEMMA QuantisedInRange ==
  ASSUME NEW v \in Values
  PROVE  Quantised(v) \in Values
BY PanelAssumption DEF Values, Quantised

(* What WriteLock leaves: a step that is on, and either the value in its    *)
(* lock or, for want of room, no lock.                                      *)
LEMMA WriteLockTyped ==
  ASSUME NEW s \in Steps, NEW p \in Params, NEW v \in Values
  PROVE  /\ WriteLock(s, p, v) \in Steps
         /\ WriteLock(s, p, v).active
         /\ WriteLock(s, p, v).locks[p] = v \/ Unlockable(WriteLock(s, p, v), p)
<1>1. CASE Unlockable(s, p)
  BY <1>1 DEF WriteLock, Unlockable, Steps
<1>2. CASE ~Unlockable(s, p)
  <2> DEFINE n == IF s.locks[p] = NoLock THEN s.free - 1 ELSE s.free
  <2>1. n \in 0 .. MaxLocks
    BY <1>2, PanelAssumption DEF Unlockable, Steps
  <2> HIDE DEF n
  <2>2. WriteLock(s, p, v) = [s EXCEPT !.active = TRUE, !.locks[p] = v, !.free = n]
    BY <1>2 DEF WriteLock, n
  <2> QED
    BY <2>1, <2>2 DEF Steps
<1> QED
  BY <1>1, <1>2

(* Every command Apply can meet leaves a patch. *)
LEMMA AppliedTyped ==
  ASSUME patch \in Patches, NEW c \in CommandType, WellFormed(c)
  PROVE  Applied(c) \in Patches
<1> DEFINE t == c.track
           s == c.step
<1>1. ASSUME s \in Keys, NEW new \in Steps PROVE AtStep(c, new) \in Patches
  BY <1>1 DEF AtStep, Patches, CommandType
<1>2. ASSUME s \in Keys PROVE Target(c) \in Steps
  BY <1>2 DEF Target, Patches, CommandType
<1>3. CASE c.type = "SetKitParam"
  BY <1>3 DEF Applied, Patches, CommandType, WellFormed
<1>4. CASE c.type = "SetFxParam"
  BY <1>4 DEF Applied, Patches, CommandType, WellFormed
<1>5. CASE c.type = "SetStepActive"
  BY <1>1, <1>2, <1>5 DEF Applied, WellFormed, StepCommands, Steps
<1>6. CASE c.type = "SetStepLock"
  <2>1. s \in Keys /\ c.param \in Params /\ c.value \in Values
    BY <1>6 DEF WellFormed, StepCommands
  <2>2. WriteLock(Target(c), c.param, c.value) \in Steps
    BY <1>2, <2>1, WriteLockTyped
  <2> QED
    BY <1>1, <1>6, <2>1, <2>2 DEF Applied
<1>7. CASE c.type = "SetStepField"
  BY <1>1, <1>2, <1>7, QuantisedInRange DEF Applied, WellFormed, StepCommands, Steps
<1>8. CASE c.type = "ToggleStep"
  <2>1. NoLocks \in [Params -> Values \cup {NoLock}] /\ MaxLocks \in 0 .. MaxLocks
    BY PanelAssumption DEF NoLocks
  <2> QED
    BY <1>1, <1>2, <1>8, <2>1 DEF Applied, WellFormed, StepCommands, Steps
<1>9. CASE c.type = "SetTrackMute"
  BY <1>9 DEF Applied, Patches, CommandType
<1>10. CASE c.type \in {"Transport", "LoadPatch"}
  BY <1>10 DEF Applied
<1> QED
  BY <1>3, <1>4, <1>5, <1>6, <1>7, <1>8, <1>9, <1>10 DEF CommandType

(* The interface's own state, without the queue, the patch and the keys.    *)
UiTyped ==
  /\ mode \in {"Play", "Mute", "Pattern", "Keyboard"}
  /\ page \in Pages /\ track \in Tracks /\ held \in Keys \cup {NoStep}
  /\ shift \in BOOLEAN /\ wroteLock \in BOOLEAN /\ rec \in BOOLEAN
  /\ fxBank \in Banks /\ cursor \in Keys
  /\ request \in {"None", "SavePattern", "LoadPattern"}
  /\ turning \in BOOLEAN /\ edit \in Values
  /\ down \subseteq Keys /\ modsDown \subseteq {"Pattern", "Mute"}

LEMMA TypedParts ==
  Typed <=> UiTyped /\ Queued(q) /\ Len(q) <= MaxPending /\ patch \in Patches
            /\ inputs \in 0 .. MaxInputs
BY DEF Typed, TypeOK, UiTyped, Queued

LEMMA TypedInit == Init => Typed
<1> SUFFICES ASSUME Init PROVE Typed
  OBVIOUS
<1>1. UiTyped
  <2>1. 0 \in Pages /\ 0 \in Tracks /\ 0 \in Banks /\ 0 \in Keys /\ 0 \in Values
    BY PanelAssumption DEF Pages, Tracks, Keys, Banks, Values
  <2> QED
    BY <2>1 DEF Init, UiTyped
<1>2. Queued(q) /\ Len(q) <= MaxPending
  BY PanelAssumption DEF Init, Queued
<1>3. patch \in Patches /\ inputs \in 0 .. MaxInputs
  BY PanelAssumption DEF Init
<1> QED
  BY <1>1, <1>2, <1>3, TypedParts

(* The commands the interface makes. *)
LEMMA CommandTyped ==
  ASSUME Typed, NEW ty \in {"SetKitParam", "SetFxParam", "SetStepActive", "SetStepLock",
                            "SetStepField", "ToggleStep", "SetTrackMute", "Transport",
                            "LoadPatch"},
         NEW p \in Nat, NEW v \in Nat
  PROVE  Command(ty, p, v) \in CommandType
BY DEF Command, CommandType, Typed, TypeOK

LEMMA SmallNumbers ==
  /\ Pages \subseteq Nat /\ Banks \subseteq Nat /\ Values \subseteq Nat /\ NoteParam \in Nat
  /\ 0 \in Nat /\ 1 \in Nat
BY PanelAssumption DEF Pages, Banks, Values

(* What a detent pushes: a command for the place the encoder points at.     *)
LEMMA EmittedTyped ==
  ASSUME Typed, Kind # "None", NEW v \in Values
  PROVE  Emitted(v) \in CommandType /\ WellFormed(Emitted(v))
<1>1. v \in Nat /\ fxBank \in Nat /\ page \in Nat /\ 0 \in Nat /\ page \in Params
  BY SmallNumbers DEF Typed, TypeOK, Params
<1>2. CASE Kind = "Fx"
  <2>1. Emitted(v) = Command("SetFxParam", fxBank, v)
    BY <1>2 DEF Emitted
  <2> QED
    BY <1>1, <2>1, CommandTyped DEF WellFormed, Command, StepCommands, Typed, TypeOK
<1>3. CASE Kind = "StepField"
  <2>1. Emitted(v) = Command("SetStepField", 0, v) /\ held \in Keys
    BY <1>3 DEF Emitted, Kind, Typed, TypeOK
  <2> QED
    BY <1>1, <2>1, CommandTyped DEF WellFormed, Command, StepCommands
<1>4. CASE Kind = "Param" /\ held # NoStep
  <2>1. Emitted(v) = Command("SetStepLock", page, v) /\ held \in Keys
    BY <1>4 DEF Emitted, Typed, TypeOK
  <2> QED
    BY <1>1, <2>1, CommandTyped DEF WellFormed, Command, StepCommands
<1>5. CASE Kind = "Param" /\ held = NoStep
  <2>1. Emitted(v) = Command("SetKitParam", page, v)
    BY <1>5 DEF Emitted
  <2> QED
    BY <1>1, <2>1, CommandTyped DEF WellFormed, Command, StepCommands
<1> QED
  BY <1>2, <1>3, <1>4, <1>5 DEF Kind

(* Emit, from either of the inputs that reach it. *)
Detent == \E v \in Values : Kind # "None" /\ Emit(v)

LEMMA TurnsAreDetents ==
  ASSUME Typed
  PROVE  /\ \A delta \in {-1, 1} : Turn(delta) => Detent
         /\ PushEncoder => Detent
<1>1. ASSUME Kind # "None" PROVE CurrentValue \in Values
  <2>1. page \in Params /\ page \in Pages /\ track \in Tracks /\ fxBank \in Banks
    BY DEF Typed, TypeOK, Params
  <2>2. Kind = "StepField" \/ held # NoStep => held \in Keys
    BY DEF Kind, Typed, TypeOK
  <2>3. CASE Kind = "Fx"
    BY <2>1, <2>3 DEF CurrentValue, Typed, TypeOK, Patches
  <2>4. CASE Kind = "StepField"
    BY <2>1, <2>2, <2>4 DEF CurrentValue, Typed, TypeOK, Patches, Steps
  <2>5. CASE Kind = "Param"
    <3>1. patch.kit[track][page] \in Values
      BY <2>1 DEF Typed, TypeOK, Patches
    <3>2. held # NoStep => patch.steps[track][held].locks[page] \in Values \cup {NoLock}
      BY <2>1, <2>2 DEF Typed, TypeOK, Patches, Steps
    <3> QED
      BY <2>5, <3>1, <3>2 DEF CurrentValue
  <2> QED
    BY <1>1, <2>3, <2>4, <2>5 DEF Kind
<1>2. ASSUME NEW delta \in {-1, 1}, Turn(delta) PROVE Detent
  <2> DEFINE v == (IF turning THEN edit ELSE CurrentValue) + delta
             w == IF v < 0 THEN 0 ELSE IF v > VMax THEN VMax ELSE v
  <2>1. (IF turning THEN edit ELSE CurrentValue) \in Values
    BY <1>1, <1>2 DEF Turn, Typed, TypeOK
  <2>2. w \in Values
    BY <2>1, PanelAssumption DEF Values
  <2>3. Kind # "None" /\ Emit(w)
    BY <1>2 DEF Turn
  <2> QED
    BY <2>2, <2>3 DEF Detent
<1>3. ASSUME PushEncoder PROVE Detent
  BY <1>3, PanelAssumption DEF PushEncoder, Detent
<1> QED
  BY <1>2, <1>3

(* Three ways an input can end, as far as the queue is concerned. *)
LEMMA OnePushed ==
  ASSUME Typed, NEW c \in CommandType, WellFormed(c), Room(1), q' = Append(q, c)
  PROVE  Queued(q') /\ Len(q') <= MaxPending
<1>1. Queued(q) /\ Len(q) + 1 <= MaxPending /\ MaxPending \in Nat
  BY TypedParts, PanelAssumption DEF Room
<1> QED
  BY <1>1, PushTyped

LEMMA TypedInput ==
  ASSUME Typed, Input
  PROVE  UiTyped' /\ Queued(q') /\ Len(q') <= MaxPending /\ patch' \in Patches
<1> USE TypedParts
<1>1. UiTyped /\ Queued(q) /\ Len(q) <= MaxPending /\ patch \in Patches
  OBVIOUS
<1> USE SmallNumbers DEF uiVars, gestureVars, keyVars, historyVars
<1>2. ASSUME Detent PROVE UiTyped' /\ Queued(q') /\ Len(q') <= MaxPending /\ patch' \in Patches
  <2>1. PICK v \in Values : Kind # "None" /\ Emit(v)
    BY <1>2 DEF Detent
  <2>2. Queued(q') /\ Len(q') <= MaxPending
    BY <2>1, EmittedTyped, OnePushed DEF Emit
  <2>3. UiTyped'
    BY <1>1, <2>1 DEF Emit, UiTyped, LockWritten, Locking
  <2> QED
    BY <1>1, <2>1, <2>2, <2>3 DEF Emit
<1>3. CASE PressShift \/ ReleaseShift
  BY <1>1, <1>3 DEF PressShift, ReleaseShift, EndGestures, UiTyped
<1>4. CASE PressPattern \/ ReleasePattern \/ PressMute \/ ReleaseMute
  BY <1>1, <1>4 DEF PressPattern, ReleasePattern, PressMute, ReleaseMute, NewMode, Hold, LetGo,
                    UiTyped
<1>5. CASE SetKeyboard
  <2>1. 0 \in Keys
    BY PanelAssumption DEF Keys
  <2> QED
    BY <1>1, <1>5, <2>1 DEF SetKeyboard, NewMode, EndGestures, UiTyped
<1>6. CASE PressRec
  BY <1>1, <1>6 DEF PressRec, UiTyped
<1>7. CASE PressTransport
  <2>1. Command("Transport", 0, 0) \in CommandType /\ WellFormed(Command("Transport", 0, 0))
    BY CommandTyped DEF WellFormed, Command, StepCommands
  <2>2. Queued(q') /\ Len(q') <= MaxPending
    BY <1>7, <2>1, OnePushed DEF PressTransport
  <2> QED
    BY <1>1, <1>7, <2>2 DEF PressTransport, UiTyped
<1>8. ASSUME NEW p \in Pages, SetPage(p) PROVE UiTyped' /\ q' = q /\ patch' = patch
  BY <1>1, <1>8 DEF SetPage, EndGestures, UiTyped
<1>9. ASSUME NEW b \in Banks, SetFxBank(b) PROVE UiTyped' /\ q' = q /\ patch' = patch
  BY <1>1, <1>9 DEF SetFxBank, EndGestures, UiTyped
<1>10. ASSUME NEW t \in Tracks, SelectTrack(t) PROVE UiTyped' /\ q' = q /\ patch' = patch
  BY <1>1, <1>10 DEF SelectTrack, EndGestures, UiTyped
<1>11. ASSUME NEW t \in Tracks, MuteTrack(t)
       PROVE  UiTyped' /\ Queued(q') /\ Len(q') <= MaxPending /\ patch' = patch
  <2> DEFINE v == IF patch.muted[t] THEN 0 ELSE 1
             c == [Command("SetTrackMute", 0, v) EXCEPT !.track = t]
  <2>1. v \in Nat
    OBVIOUS
  <2> HIDE DEF v
  <2>2. Command("SetTrackMute", 0, v) \in CommandType
    BY <2>1, CommandTyped
  <2>3. c \in CommandType /\ c.type = "SetTrackMute"
    BY <2>2 DEF CommandType, Command
  <2>4. WellFormed(c)
    BY <2>3 DEF WellFormed, StepCommands
  <2>5. Room(1) /\ q' = Append(q, c)
    BY <1>11 DEF MuteTrack, v
  <2>6. Queued(q') /\ Len(q') <= MaxPending
    BY <2>3, <2>4, <2>5, OnePushed
  <2> QED
    BY <1>1, <1>11, <2>6 DEF MuteTrack, UiTyped
<1>12. ASSUME NEW k \in Keys, PressStep(k) PROVE UiTyped' /\ q' = q /\ patch' = patch
  BY <1>1, <1>12 DEF PressStep, Press, EndGestures, UiTyped
<1>13. ASSUME NEW k \in Keys, PressSlot(k) PROVE UiTyped' /\ q' = q /\ patch' = patch
  BY <1>1, <1>13 DEF PressSlot, Press, UiTyped
<1>14. ASSUME NEW k \in Keys, PressNote(k)
       PROVE  UiTyped' /\ Queued(q') /\ Len(q') <= MaxPending /\ patch' = patch
  <2>1. NextStep \in Keys
    BY <1>1, PanelAssumption, SMTT(30) DEF NextStep, Keys, UiTyped
  <2>2. UiTyped' /\ patch' = patch
    BY <1>1, <1>14, <2>1 DEF PressNote, Press, UiTyped
  <2>3. PICK a \in CommandType, b \in CommandType :
          q' = q \o <<a, b>> /\ WellFormed(a) /\ WellFormed(b)
    <3>1. PICK v \in Values :
            q' = IF rec THEN q \o <<[Command("SetStepLock", NoteParam, v) EXCEPT !.step = cursor],
                                    [Command("SetStepActive", 0, 1) EXCEPT !.step = cursor]>>
                 ELSE q \o <<Command("SetKitParam", NoteParam, v), Command("Transport", 0, 0)>>
      BY <1>14 DEF PressNote
    <3>2. /\ Command("SetStepLock", NoteParam, v) \in CommandType
          /\ Command("SetStepActive", 0, 1) \in CommandType
          /\ Command("SetKitParam", NoteParam, v) \in CommandType
          /\ Command("Transport", 0, 0) \in CommandType
      BY CommandTyped
    <3>3. cursor \in Keys /\ NoteParam \in Params
      BY <1>1 DEF UiTyped, Params
    <3>4. CASE rec
      <4> DEFINE a == [Command("SetStepLock", NoteParam, v) EXCEPT !.step = cursor]
                 b == [Command("SetStepActive", 0, 1) EXCEPT !.step = cursor]
      <4>1. a \in CommandType /\ b \in CommandType
        BY <3>2, <3>3 DEF CommandType, Command
      <4>2. WellFormed(a) /\ WellFormed(b)
        BY <3>3 DEF WellFormed, Command, StepCommands
      <4>3. q' = q \o <<a, b>>
        BY <3>1, <3>4
      <4> QED
        BY <4>1, <4>2, <4>3
    <3>5. CASE ~rec
      <4> DEFINE a == Command("SetKitParam", NoteParam, v)
                 b == Command("Transport", 0, 0)
      <4>1. WellFormed(a) /\ WellFormed(b)
        BY <3>3 DEF WellFormed, Command, StepCommands
      <4>2. q' = q \o <<a, b>>
        BY <3>1, <3>5
      <4> QED
        BY <3>2, <4>1, <4>2
    <3> QED
      BY <3>4, <3>5
  <2>4. q' = Append(Append(q, a), b)
    BY <1>1, <2>3, AppendTwo DEF Queued
  <2>5. Len(q) + 2 <= MaxPending /\ MaxPending \in Nat
    BY <1>14, PanelAssumption DEF PressNote, Room
  <2>6. Queued(Append(q, a)) /\ Len(Append(q, a)) = Len(q) + 1 /\ Len(q) \in Nat
    BY <1>1, <2>3, PushTyped
  <2>7. Queued(q') /\ Len(q') = Len(q) + 2
    <3> DEFINE s == Append(q, a)
    <3>1. Queued(s) /\ Len(s) = Len(q) + 1 /\ Len(q) \in Nat
      BY <2>6
    <3> HIDE DEF s
    <3>2. Queued(Append(s, b)) /\ Len(Append(s, b)) = Len(s) + 1
      BY <2>3, <3>1, PushTyped
    <3> QED
      BY <2>4, <3>1, <3>2 DEF s
  <2> QED
    BY <2>2, <2>5, <2>6, <2>7
<1>15. ASSUME NEW k \in Keys, ReleaseIgnored(k) PROVE UiTyped' /\ q' = q /\ patch' = patch
  BY <1>1, <1>15 DEF ReleaseIgnored, Release, UiTyped
<1>16. ASSUME NEW k \in Keys, ReleaseStep(k)
       PROVE  UiTyped' /\ Queued(q') /\ Len(q') <= MaxPending /\ patch' = patch
  <2>1. UiTyped' /\ patch' = patch
    BY <1>1, <1>16 DEF ReleaseStep, Release, EndGestures, UiTyped
  <2>2. CASE q' = q
    BY <1>1, <2>1, <2>2
  <2>3. CASE q' = Append(q, Command("ToggleStep", 0, 0))
    <3>1. Command("ToggleStep", 0, 0) \in CommandType
      BY CommandTyped
    <3>2. held \in Keys
      BY <1>16 DEF ReleaseStep, IgnoresRelease
    <3>3. WellFormed(Command("ToggleStep", 0, 0))
      BY <3>2 DEF WellFormed, Command
    <3> QED
      BY <1>16, <2>1, <2>3, <3>1, <3>3, OnePushed DEF ReleaseStep
  <2> QED
    BY <1>16, <2>2, <2>3 DEF ReleaseStep
<1> QED
  BY <1>1, <1>2, <1>3, <1>4, <1>5, <1>6, <1>7, <1>8, <1>9, <1>10, <1>11, <1>12, <1>13, <1>14,
     <1>15, <1>16, TurnsAreDetents
     DEF Input, PressShift, ReleaseShift, PressPattern, ReleasePattern, PressMute, ReleaseMute,
         NewMode, SetKeyboard, PressRec, EndGestures

LEMMA TypedNext == Typed /\ [Next]_vars => Typed'
<1> SUFFICES ASSUME Typed, [Next]_vars PROVE Typed'
  OBVIOUS
<1>1. Typed' <=> UiTyped' /\ Queued(q') /\ Len(q') <= MaxPending /\ patch' \in Patches
                 /\ inputs' \in 0 .. MaxInputs
  BY DEF Typed, TypeOK, UiTyped, Queued
<1>2. UiTyped /\ Queued(q) /\ Len(q) <= MaxPending /\ patch \in Patches
      /\ inputs \in 0 .. MaxInputs
  BY TypedParts
<1>3. CASE inputs < MaxInputs /\ inputs' = inputs + 1 /\ Input
  BY <1>1, <1>2, <1>3, TypedInput, PanelAssumption
<1>4. CASE Pause
  BY <1>1, <1>2, <1>4 DEF Pause, UiTyped, uiVars, keyVars
<1>5. CASE TakeRequest
  <2>1. UiTyped' /\ UNCHANGED <<patch, inputs>>
    BY <1>2, <1>5 DEF TakeRequest, UiTyped, gestureVars, keyVars
  <2>2. q' = q \/ q' = Append(q, Command("LoadPatch", 0, 0))
    BY <1>5 DEF TakeRequest
  <2>3. Command("LoadPatch", 0, 0) \in CommandType /\ WellFormed(Command("LoadPatch", 0, 0))
    BY SmallNumbers, CommandTyped DEF WellFormed, Command, StepCommands
  <2>4. Queued(q') /\ Len(q') <= MaxPending
    BY <1>2, <1>5, <2>2, <2>3, OnePushed DEF TakeRequest
  <2> QED
    BY <1>1, <1>2, <2>1, <2>4
<1>6. CASE Apply
  <2>1. UiTyped' /\ UNCHANGED inputs
    BY <1>2, <1>6 DEF Apply, UiTyped, uiVars, gestureVars, keyVars
  <2>2. Queued(q') /\ Len(q') <= MaxPending
    BY <1>2, <1>6, PopTyped, PanelAssumption DEF Apply
  <2>3. patch' \in Patches
    BY <1>2, <1>6, PopTyped, AppliedTyped, PanelAssumption DEF Apply
  <2> QED
    BY <1>1, <1>2, <2>1, <2>2, <2>3
<1>7. CASE UNCHANGED vars
  BY <1>1, <1>2, <1>7 DEF UiTyped, vars, uiVars, gestureVars, keyVars
<1> QED
  BY <1>3, <1>4, <1>5, <1>6, <1>7 DEF Next

(* Every command the interface pushes is one the audio side can take at the *)
(* place it names, and the patch, the gesture and the panel stay in range,  *)
(* whatever the keys and however late the commands are applied              *)
(* (Machine::Apply checks only the ranges).                                 *)
THEOREM TypeCorrect == Spec => []TypeOK
<1>1. Init => Typed
  BY TypedInit
<1>2. Typed /\ [Next]_vars => Typed'
  BY TypedNext
<1>3. Typed => TypeOK
  BY DEF Typed
<1> QED
  BY <1>1, <1>2, <1>3, PTL DEF Spec

-----------------------------------------------------------------------------
(* EditsLand. *)

(* Nothing an encoder can point at depends on the commands behind a gesture. *)
LEMMA HarmlessApplied ==
  ASSUME patch \in Patches, NEW c \in CommandType, c.type \in Harmless
  PROVE  /\ Applied(c).kit = patch.kit
         /\ Applied(c).fx = patch.fx
         /\ Applied(c).steps = patch.steps
BY DEF Applied, Harmless, Patches

(* The place the encoder points at, and what it says of the patch. *)
Place == <<shift, held, track, page, fxBank>>

LEMMA SamePlace ==
  ASSUME UNCHANGED Place
  PROVE  /\ Kind' = Kind
         /\ edit' = edit => Emitted(edit)' = Emitted(edit)
         /\ UNCHANGED <<patch.kit, patch.fx, patch.steps, edit>>
              => (Landed' <=> Landed) /\ (NoRoom' <=> NoRoom)
<1>1. Kind' = Kind /\ UNCHANGED <<shift, held, track, page, fxBank>>
  BY DEF Place, Kind
<1>2. edit' = edit => Emitted(edit)' = Emitted(edit)
  BY <1>1 DEF Emitted, Command
<1>3. ASSUME UNCHANGED <<patch.kit, patch.fx, patch.steps, edit>>
      PROVE  (Landed' <=> Landed) /\ (NoRoom' <=> NoRoom)
  BY <1>1, <1>3 DEF Landed, CurrentValue, NoRoom, Locking, Unlockable
<1> QED
  BY <1>1, <1>2, <1>3

(* Applying the command of a detent puts its value where CurrentValue reads *)
(* it, unless the list of the held step is full.                            *)
LEMMA EmittedLands ==
  ASSUME Typed, Kind # "None", UNCHANGED <<Place, edit>>, patch' = Applied(Emitted(edit))
  PROVE  (Landed \/ NoRoom)'
<1>1. /\ Kind' = Kind /\ UNCHANGED <<shift, held, track, page, fxBank, edit>>
      /\ edit \in Values /\ track \in Tracks /\ page \in Params /\ fxBank \in Banks
      /\ patch \in Patches /\ held \in Keys \cup {NoStep}
  BY SamePlace DEF Place, Typed, TypeOK, Params
<1>2. CASE Kind = "Fx"
  <2>1. patch' = [patch EXCEPT !.fx[fxBank] = edit]
    BY <1>2 DEF Emitted, Applied, Command
  <2> QED
    BY <1>1, <1>2, <2>1 DEF Landed, CurrentValue, Patches
<1>3. CASE Kind = "StepField"
  <2> DEFINE c == Command("SetStepField", 0, edit)
  <2>1. held \in Keys
    BY <1>1, <1>3 DEF Kind
  <2>2. patch' = AtStep(c, [Target(c) EXCEPT !.field = Quantised(edit)])
    BY <1>3 DEF Emitted, Applied, Command
  <2>3. Target(c) = patch.steps[track][held] /\ Target(c) \in Steps
    BY <1>1, <2>1 DEF Target, Command, Patches
  <2>4. patch'.steps[track][held] = [Target(c) EXCEPT !.field = Quantised(edit)]
    BY <1>1, <2>1, <2>2 DEF AtStep, Command, Patches
  <2>5. patch'.steps[track][held].field = Quantised(edit)
    BY <2>3, <2>4 DEF Steps
  <2> QED
    BY <1>1, <1>3, <2>5 DEF Landed, CurrentValue
<1>4. CASE Kind = "Param" /\ held # NoStep
  <2> DEFINE c == Command("SetStepLock", page, edit)
  <2>1. held \in Keys
    BY <1>1, <1>4
  <2>2. patch' = AtStep(c, WriteLock(Target(c), page, edit))
    BY <1>4 DEF Emitted, Applied, Command
  <2>3. Target(c) \in Steps
    BY <1>1, <2>1 DEF Target, Command, Patches
  <2>4. patch'.steps[track][held] = WriteLock(Target(c), page, edit)
    BY <1>1, <2>1, <2>2 DEF AtStep, Command, Patches
  <2>5. CASE patch'.steps[track][held].locks[page] = edit
    <3>1. edit # NoLock
      BY <1>1 DEF Values, NoLock
    <3> QED
      BY <1>1, <1>4, <2>5, <3>1 DEF Landed, CurrentValue
  <2>6. CASE Unlockable(patch'.steps[track][held], page)
    BY <1>1, <1>4, <2>6 DEF NoRoom, Locking, Unlockable
  <2> QED
    BY <1>1, <2>3, <2>4, <2>5, <2>6, WriteLockTyped
<1>5. CASE Kind = "Param" /\ held = NoStep
  <2>1. patch' = [patch EXCEPT !.kit[track][page] = edit]
    BY <1>5 DEF Emitted, Applied, Command
  <2>2. patch'.kit[track][page] = edit
    BY <1>1, <2>1 DEF Patches
  <2> QED
    BY <1>1, <1>5, <2>2 DEF Landed, CurrentValue
<1> QED
  BY <1>2, <1>3, <1>4, <1>5 DEF Kind

(* A command pushed behind a gesture's last value. *)
LEMMA QuietPush ==
  ASSUME Typed, EditInv, UNCHANGED <<Place, edit, patch, turning, overtaken>>,
         NEW c \in CommandType, c.type \in Harmless, q' = q \/ q' = Append(q, c)
  PROVE  EditInv'
<1> SUFFICES ASSUME turning, ~overtaken, Kind # "None", UnderWay PROVE UnderWay'
  BY SamePlace DEF EditInv
<1>1. /\ Emitted(edit)' = Emitted(edit) /\ (Landed' <=> Landed) /\ (NoRoom' <=> NoRoom)
  BY SamePlace
<1>2. CASE q' = q
  BY <1>1, <1>2 DEF UnderWay, QuietAfter
<1>3. CASE q' = Append(q, c)
  <2>1. /\ Len(q') = Len(q) + 1 /\ Len(q) \in Nat /\ q'[Len(q) + 1] = c
        /\ \A i \in 1 .. Len(q) : q'[i] = q[i]
    BY <1>3, AppendAt DEF Typed, TypeOK
  <2>2. ASSUME NEW i \in 0 .. Len(q), QuietAfter(i) PROVE QuietAfter(i)'
    BY <2>1, <2>2 DEF QuietAfter
  <2>3. CASE QuietAfter(0) /\ (Landed \/ NoRoom)
    BY <1>1, <2>1, <2>2, <2>3 DEF UnderWay
  <2>4. CASE \E i \in 1 .. Len(q) : q[i] = Emitted(edit) /\ QuietAfter(i)
    <3>1. PICK i \in 1 .. Len(q) : q[i] = Emitted(edit) /\ QuietAfter(i)
      BY <2>4
    <3>2. i \in 1 .. Len(q)' /\ q'[i] = Emitted(edit)' /\ QuietAfter(i)'
      BY <1>1, <2>1, <2>2, <3>1
    <3> QED
      BY <3>2 DEF UnderWay
  <2> QED
    BY <2>3, <2>4 DEF UnderWay
<1> QED
  BY <1>2, <1>3

(* A detent. *)
LEMMA DetentUnderWay ==
  ASSUME Typed, Detent
  PROVE  EditInv'
<1>1. PICK v \in Values : Kind # "None" /\ Emit(v)
  BY DEF Detent
<1>2. UNCHANGED Place /\ edit' = v /\ q' = Append(q, Emitted(v))
  BY <1>1 DEF Emit, Place
<1>3. Kind' = Kind
  BY <1>2, SamePlace
<1>4. Emitted(edit)' = Emitted(v)
  BY <1>2, <1>3 DEF Emitted, Command, Place
<1>5. Len(q') = Len(q) + 1 /\ Len(q) \in Nat /\ q'[Len(q) + 1] = Emitted(v)
  BY <1>1, <1>2, AppendAt, EmittedTyped DEF Typed, TypeOK
<1>6. PICK n \in Nat : n = Len(q) + 1
  BY <1>5
<1>7. n \in 1 .. Len(q') /\ q'[n] = Emitted(edit)' /\ QuietAfter(n)'
  BY <1>4, <1>5, <1>6 DEF QuietAfter
<1>8. UnderWay'
  BY <1>7 DEF UnderWay
<1> QED
  BY <1>1, <1>3, <1>8 DEF EditInv

(* The audio side takes the command at the head. *)
LEMMA ApplyUnderWay ==
  ASSUME Typed, EditInv, Apply
  PROVE  EditInv'
<1>1. UNCHANGED <<Place, edit, turning>>
  BY DEF Apply, Place, uiVars, gestureVars
<1>2. Kind' = Kind /\ Emitted(edit)' = Emitted(edit)
  BY <1>1, SamePlace
<1>3. CASE Head(q).type = "LoadPatch"
  BY <1>1, <1>2, <1>3 DEF Apply, EditInv
<1>4. CASE Head(q).type # "LoadPatch"
  <2>1. patch' = Applied(Head(q)) /\ q' = Tail(q) /\ q # <<>> /\ overtaken' = overtaken
    BY <1>4 DEF Apply, historyVars
  <2> SUFFICES ASSUME turning, ~overtaken, Kind # "None", UnderWay PROVE UnderWay'
    BY <1>1, <1>2, <2>1 DEF EditInv
  <2>2. /\ Head(q) \in CommandType /\ Head(q) = q[1] /\ Len(q') = Len(q) - 1
        /\ Len(q) \in Nat /\ Len(q) >= 1
        /\ \A i \in 1 .. Len(q') : i + 1 \in 1 .. Len(q) /\ q'[i] = q[i + 1]
        /\ \A i \in 2 .. Len(q) : i - 1 \in 1 .. Len(q') /\ q[i] = q'[i - 1]
    BY <2>1, TailAt DEF Typed, TypeOK
  <2>3. CASE QuietAfter(0) /\ (Landed \/ NoRoom)
    <3>1. q[1].type \in Harmless
      BY <2>2, <2>3 DEF QuietAfter
    <3>2. UNCHANGED <<patch.kit, patch.fx, patch.steps, edit>>
      BY <1>1, <2>1, <2>2, <3>1, HarmlessApplied DEF Typed, TypeOK
    <3>3. (Landed \/ NoRoom)'
      BY <1>1, <2>3, <3>2, SamePlace
    <3>4. QuietAfter(0)'
      BY <2>2, <2>3 DEF QuietAfter
    <3> QED
      BY <3>3, <3>4 DEF UnderWay
  <2>4. CASE \E i \in 1 .. Len(q) : q[i] = Emitted(edit) /\ QuietAfter(i)
    <3>1. PICK i \in 1 .. Len(q) : q[i] = Emitted(edit) /\ QuietAfter(i)
      BY <2>4
    <3>2. CASE i = 1
      <4>1. (Landed \/ NoRoom)'
        BY <1>1, <2>1, <2>2, <3>1, <3>2, EmittedLands
      <4>2. QuietAfter(0)'
        BY <2>2, <3>1, <3>2 DEF QuietAfter
      <4> QED
        BY <4>1, <4>2 DEF UnderWay
    <3>3. CASE i # 1
      <4>1. i \in 2 .. Len(q)
        BY <2>2, <3>3
      <4>2. i - 1 \in 1 .. Len(q') /\ q'[i - 1] = Emitted(edit)'
        BY <1>2, <2>2, <3>1, <4>1
      <4>3. QuietAfter(i - 1)'
        BY <2>2, <3>1, <4>1, SMTT(30) DEF QuietAfter
      <4> QED
        BY <4>2, <4>3 DEF UnderWay
    <3> QED
      BY <3>2, <3>3
  <2> QED
    BY <2>3, <2>4 DEF UnderWay
<1> QED
  BY <1>3, <1>4

LEMMA EditInput ==
  ASSUME Typed, EditInv, Input
  PROVE  EditInv'
<1> USE DEF uiVars, gestureVars, historyVars, Place
<1>1. CASE Detent
  BY <1>1, DetentUnderWay
<1>2. ASSUME NEW k \in Keys, PressNote(k) PROVE EditInv'
  <2>1. UNCHANGED Place /\ turning' = turning /\ overtaken' = TRUE
    BY <1>2 DEF PressNote
  <2> QED
    BY <2>1, SamePlace DEF EditInv
<1> DEFINE nop == Command("Transport", 0, 0)
<1>3. nop \in CommandType /\ nop.type \in Harmless
  BY SmallNumbers, CommandTyped DEF Command, Harmless
<1> HIDE DEF nop
<1>4. ASSUME UNCHANGED <<Place, edit, patch, turning, overtaken>>, q' = q \/ q' = Append(q, nop)
      PROVE  EditInv'
  BY <1>3, <1>4, QuietPush
<1>5. ASSUME NEW t \in Tracks, MuteTrack(t) PROVE EditInv'
  <2> DEFINE v == IF patch.muted[t] THEN 0 ELSE 1
             c == [Command("SetTrackMute", 0, v) EXCEPT !.track = t]
  <2>1. v \in Nat
    OBVIOUS
  <2> HIDE DEF v
  <2>2. c \in CommandType /\ c.type \in Harmless
    BY <2>1, SmallNumbers, CommandTyped DEF CommandType, Command, Harmless
  <2>3. UNCHANGED <<Place, edit, patch, turning, overtaken>> /\ q' = Append(q, c)
    BY <1>5 DEF MuteTrack, v
  <2> QED
    BY <2>2, <2>3, QuietPush
<1>6. CASE PressTransport
  BY <1>4, <1>6 DEF PressTransport, nop
<1>7. CASE PressPattern \/ ReleasePattern \/ PressMute \/ ReleaseMute \/ PressRec
  BY <1>4, <1>7 DEF PressPattern, ReleasePattern, PressMute, ReleaseMute, PressRec, NewMode
<1>8. ASSUME NEW k \in Keys, PressSlot(k) \/ ReleaseIgnored(k) PROVE EditInv'
  BY <1>4, <1>8 DEF PressSlot, ReleaseIgnored
<1>9. CASE PressShift \/ ReleaseShift \/ SetKeyboard
  BY <1>9 DEF PressShift, ReleaseShift, SetKeyboard, EndGestures, EditInv
<1>10. ASSUME (\E p \in Pages : SetPage(p)) \/ (\E b \in Banks : SetFxBank(b))
                \/ (\E t \in Tracks : SelectTrack(t))
       PROVE  EditInv'
  BY <1>10 DEF SetPage, SetFxBank, SelectTrack, EndGestures, EditInv
<1>11. ASSUME NEW k \in Keys, PressStep(k) \/ ReleaseStep(k) PROVE EditInv'
  BY <1>11 DEF PressStep, ReleaseStep, EndGestures, EditInv
<1> QED
  BY <1>1, <1>2, <1>5, <1>6, <1>7, <1>8, <1>9, <1>10, <1>11, TurnsAreDetents DEF Input

LEMMA EditNext == Typed /\ EditInv /\ [Next]_vars => EditInv'
<1> SUFFICES ASSUME Typed, EditInv, [Next]_vars PROVE EditInv'
  OBVIOUS
<1> DEFINE load == Command("LoadPatch", 0, 0)
<1>1. load \in CommandType /\ load.type \in Harmless
  BY SmallNumbers, CommandTyped DEF Command, Harmless
<1> HIDE DEF load
<1>2. ASSUME UNCHANGED <<Place, edit, patch, turning, overtaken>>, q' = q \/ q' = Append(q, load)
      PROVE  EditInv'
  BY <1>1, <1>2, QuietPush
<1>3. CASE Input
  BY <1>3, EditInput
<1>4. CASE Pause
  BY <1>4 DEF Pause, EditInv
<1>5. CASE TakeRequest
  BY <1>2, <1>5 DEF TakeRequest, load, Place, gestureVars, historyVars
<1>6. CASE Apply
  BY <1>6, ApplyUnderWay
<1>7. CASE UNCHANGED vars
  BY <1>2, <1>7 DEF vars, uiVars, gestureVars, historyVars, Place
<1> QED
  BY <1>3, <1>4, <1>5, <1>6, <1>7 DEF Next

(* A gesture never loses a detent to the patch it reads behind its own      *)
(* commands, and never carries its value to a page, bank, track or step it  *)
(* did not start on, however long the queue is; a value can only be dropped *)
(* by a full lock list.                                                     *)
THEOREM GesturesLand == Spec => []EditsLand
<1> DEFINE Inv == Typed /\ EditInv
<1>1. Init => Inv
  BY TypedInit DEF Init, EditInv
<1>2. Inv /\ [Next]_vars => Inv'
  BY TypedNext, EditNext
<1>3. Inv => EditsLand
  <2> SUFFICES ASSUME Inv, turning, q = <<>>, ~overtaken PROVE Landed \/ NoRoom
    BY DEF EditsLand
  <2>1. UnderWay /\ 1 .. Len(q) = {}
    BY DEF EditInv
  <2> QED
    BY <2>1 DEF UnderWay
<1> QED
  BY <1>1, <1>2, <1>3, PTL DEF Spec

-----------------------------------------------------------------------------
(* LocksKeepStep. *)

(* Only a toggle turns a step off; SetStepActive and SetStepLock, dropped   *)
(* value or not, turn it on.                                                *)
LEMMA AppliedKeepsOn ==
  ASSUME patch \in Patches, NEW c \in CommandType, WellFormed(c), NEW t \in Tracks, NEW s \in Keys,
         Ons(c, t, s) \/ (patch.steps[t][s].active /\ ~Toggles(c, t, s))
  PROVE  Applied(c).steps[t][s].active
<1> DEFINE here == c.track = t /\ c.step = s
<1>1. ASSUME NEW new \in Steps, c.step \in Keys, Applied(c) = AtStep(c, new),
             here => new.active, ~here => patch.steps[t][s].active
      PROVE  Applied(c).steps[t][s].active
  <2>1. patch.steps \in [Tracks -> [Keys -> Steps]] /\ c.track \in Tracks
    BY DEF Patches, CommandType
  <2>2. AtStep(c, new).steps = [patch.steps EXCEPT ![c.track][c.step] = new]
    BY DEF AtStep, Patches
  <2>3. AtStep(c, new).steps[t][s] = IF here THEN new ELSE patch.steps[t][s]
    BY <1>1, <2>1, <2>2
  <2> QED
    BY <1>1, <2>3
<1>2. ASSUME c.step \in Keys PROVE Target(c) \in Steps /\ (here => Target(c) = patch.steps[t][s])
  BY <1>2 DEF Target, Patches, CommandType
<1>3. CASE c.type = "SetStepActive"
  <2> DEFINE new == [Target(c) EXCEPT !.active = TRUE]
  <2>1. c.step \in Keys /\ Applied(c) = AtStep(c, new)
    BY <1>3 DEF WellFormed, StepCommands, Applied
  <2>2. new \in Steps /\ new.active
    BY <1>2, <2>1 DEF Steps
  <2>3. ~here => patch.steps[t][s].active
    BY DEF Ons
  <2> QED
    BY <1>1, <2>1, <2>2, <2>3
<1>4. CASE c.type = "SetStepLock"
  <2> DEFINE new == WriteLock(Target(c), c.param, c.value)
  <2>1. c.step \in Keys /\ Applied(c) = AtStep(c, new)
    BY <1>4 DEF WellFormed, StepCommands, Applied
  <2>2. new \in Steps /\ new.active
    BY <1>2, <1>4, <2>1, WriteLockTyped DEF WellFormed
  <2>3. ~here => patch.steps[t][s].active
    BY DEF Ons
  <2> QED
    BY <1>1, <2>1, <2>2, <2>3
<1>5. CASE c.type = "SetStepField"
  <2> DEFINE new == [Target(c) EXCEPT !.field = Quantised(c.value)]
  <2>1. c.step \in Keys /\ c.value \in Values /\ Applied(c) = AtStep(c, new)
    BY <1>5 DEF WellFormed, StepCommands, Applied
  <2>2. patch.steps[t][s].active
    BY <1>5 DEF Ons
  <2>3. new \in Steps /\ (here => new.active)
    BY <1>2, <2>1, <2>2, QuantisedInRange DEF Steps
  <2> QED
    BY <1>1, <2>1, <2>2, <2>3
<1>6. CASE c.type = "ToggleStep"
  <2> DEFINE new == IF Target(c).active
                    THEN [Target(c) EXCEPT !.active = FALSE, !.locks = NoLocks, !.free = MaxLocks]
                    ELSE [Target(c) EXCEPT !.active = TRUE]
  <2>1. c.step \in Keys /\ Applied(c) = AtStep(c, new)
    BY <1>6 DEF WellFormed, StepCommands, Applied
  <2>2. patch.steps[t][s].active /\ ~here
    BY <1>6 DEF Ons, Toggles
  <2>3. NoLocks \in [Params -> Values \cup {NoLock}] /\ MaxLocks \in 0 .. MaxLocks
    BY PanelAssumption DEF NoLocks
  <2>4. new \in Steps
    BY <1>2, <2>1, <2>3 DEF Steps
  <2> QED
    BY <1>1, <2>1, <2>2, <2>4
<1>7. CASE c.type \notin StepCommands
  <2>1. patch.steps[t][s].active
    BY <1>7 DEF Ons, StepCommands
  <2>2. Applied(c).steps = patch.steps
    BY <1>7 DEF Applied, StepCommands, Patches
  <2> QED
    BY <2>1, <2>2
<1> QED
  BY <1>3, <1>4, <1>5, <1>6, <1>7 DEF StepCommands

(* What a queue that has grown at the end keeps. *)
Grown(t, s) ==
  /\ Len(q') \in Nat /\ Len(q') >= Len(q)
  /\ \A i \in 1 .. Len(q) : q'[i] = q[i]
  /\ \A i \in 1 .. Len(q') : i > Len(q) => ~Toggles(q'[i], t, s)

LEMMA GrownStaysOn ==
  ASSUME Typed, NEW t \in Tracks, NEW s \in Keys, Grown(t, s), patch' = patch, StaysOn(t, s)
  PROVE  StaysOn(t, s)'
<1>1. Len(q) \in Nat
  BY DEF Typed, TypeOK
<1>2. ASSUME NEW i \in 0 .. Len(q), NoToggleAfter(i, t, s) PROVE NoToggleAfter(i, t, s)'
  <2> SUFFICES ASSUME NEW j \in 1 .. Len(q'), j > i PROVE ~Toggles(q'[j], t, s)
    BY DEF NoToggleAfter, Toggles
  <2>1. CASE j > Len(q)
    BY <2>1 DEF Grown
  <2>2. CASE j <= Len(q)
    <3>1. j \in 1 .. Len(q)
      BY <1>1, <2>2
    <3> QED
      BY <1>2, <3>1 DEF Grown, NoToggleAfter
  <2> QED
    BY <1>1, <2>1, <2>2 DEF Grown
<1>3. CASE patch.steps[t][s].active /\ NoToggleAfter(0, t, s)
  BY <1>1, <1>2, <1>3 DEF StaysOn
<1>4. CASE \E i \in 1 .. Len(q) : Ons(q[i], t, s) /\ NoToggleAfter(i, t, s)
  <2>1. PICK i \in 1 .. Len(q) : Ons(q[i], t, s) /\ NoToggleAfter(i, t, s)
    BY <1>4
  <2>2. i \in 1 .. Len(q') /\ Ons(q'[i], t, s) /\ NoToggleAfter(i, t, s)'
    BY <1>1, <1>2, <2>1 DEF Grown
  <2> QED
    BY <2>2 DEF StaysOn, Ons
<1> QED
  BY <1>3, <1>4 DEF StaysOn

LEMMA PushGrows ==
  ASSUME Typed, NEW t \in Tracks, NEW s \in Keys, NEW c \in CommandType, ~Toggles(c, t, s),
         q' = q \/ q' = Append(q, c)
  PROVE  Grown(t, s)
<1>1. q \in Seq(CommandType) /\ Len(q) \in Nat
  BY DEF Typed, TypeOK
<1>2. CASE q' = q
  BY <1>1, <1>2 DEF Grown
<1>3. CASE q' = Append(q, c)
  BY <1>1, <1>3, AppendAt DEF Grown
<1> QED
  BY <1>2, <1>3

(* The audio side takes the command at the head. *)
LEMMA ApplyStaysOn ==
  ASSUME Typed, Apply, Head(q).type # "LoadPatch",
         NEW t \in Tracks, NEW s \in Keys, StaysOn(t, s)
  PROVE  StaysOn(t, s)'
<1>1. patch' = Applied(Head(q)) /\ q' = Tail(q) /\ q # <<>>
  BY DEF Apply
<1>2. /\ Head(q) \in CommandType /\ Head(q) = q[1] /\ Len(q') = Len(q) - 1
      /\ Len(q) \in Nat /\ Len(q) >= 1
      /\ \A i \in 1 .. Len(q') : i + 1 \in 1 .. Len(q) /\ q'[i] = q[i + 1]
      /\ \A i \in 2 .. Len(q) : i - 1 \in 1 .. Len(q') /\ q[i] = q'[i - 1]
  BY <1>1, TailAt DEF Typed, TypeOK
<1>3. patch \in Patches /\ WellFormed(Head(q))
  BY <1>2 DEF Typed, TypeOK
<1>4. ASSUME NoToggleAfter(0, t, s) \/ NoToggleAfter(1, t, s) PROVE NoToggleAfter(0, t, s)'
  <2> SUFFICES ASSUME NEW j \in 1 .. Len(q') PROVE ~Toggles(q'[j], t, s)
    BY DEF NoToggleAfter, Toggles
  <2>1. j + 1 \in 1 .. Len(q) /\ j + 1 > 0 /\ j + 1 > 1 /\ q'[j] = q[j + 1]
    BY <1>2
  <2> QED
    BY <1>4, <2>1 DEF NoToggleAfter
<1>5. CASE patch.steps[t][s].active /\ NoToggleAfter(0, t, s)
  <2>1. ~Toggles(Head(q), t, s)
    BY <1>2, <1>5 DEF NoToggleAfter
  <2>2. patch'.steps[t][s].active
    BY <1>1, <1>2, <1>3, <1>5, <2>1, AppliedKeepsOn
  <2> QED
    BY <1>4, <1>5, <2>2 DEF StaysOn
<1>6. CASE \E i \in 1 .. Len(q) : Ons(q[i], t, s) /\ NoToggleAfter(i, t, s)
  <2>1. PICK i \in 1 .. Len(q) : Ons(q[i], t, s) /\ NoToggleAfter(i, t, s)
    BY <1>6
  <2>2. CASE i = 1
    <3>1. patch'.steps[t][s].active
      BY <1>1, <1>2, <1>3, <2>1, <2>2, AppliedKeepsOn
    <3> QED
      BY <1>4, <2>1, <2>2, <3>1 DEF StaysOn
  <2>3. CASE i # 1
    <3>1. i \in 2 .. Len(q)
      BY <1>2, <2>3
    <3>2. i - 1 \in 1 .. Len(q') /\ Ons(q'[i - 1], t, s)
      BY <1>2, <2>1, <3>1
    <3>3. NoToggleAfter(i - 1, t, s)'
      <4> SUFFICES ASSUME NEW j \in 1 .. Len(q'), j > i - 1 PROVE ~Toggles(q'[j], t, s)
        BY DEF NoToggleAfter, Toggles
      <4>1. j + 1 \in 1 .. Len(q) /\ j + 1 > i /\ q'[j] = q[j + 1]
        BY <1>2, <3>1
      <4> QED
        BY <2>1, <4>1 DEF NoToggleAfter
    <3> QED
      BY <3>2, <3>3 DEF StaysOn, Ons
  <2> QED
    BY <2>2, <2>3
<1> QED
  BY <1>5, <1>6 DEF StaysOn

(* A step that pushes nothing that toggles a step, locks nothing and        *)
(* neither takes a new step in hand nor forgets that a lock was written.    *)
LEMMA LockKept ==
  ASSUME Typed, LockInv, UNCHANGED <<patch, mine>>,
         wroteLock' = wroteLock, held' = held \/ held' = NoStep,
         \A t \in Tracks, s \in Keys : <<"lock", t, s>> \in mine => Grown(t, s)
  PROVE  LockInv'
<1>1. mine' \subseteq {"lock", "detail"} \X Tracks \X Keys
  BY DEF LockInv
<1>2. ASSUME NEW t \in Tracks, NEW s \in Keys, <<"lock", t, s>> \in mine'
      PROVE  StaysOn(t, s)'
  BY <1>2, GrownStaysOn DEF LockInv
<1>3. NoStep \notin Keys
  BY DEF NoStep, Keys
<1>4. ASSUME ~wroteLock', NEW t \in Tracks PROVE <<"lock", t, held'>> \notin mine'
  BY <1>1, <1>3, <1>4 DEF LockInv
<1> QED
  BY <1>1, <1>2, <1>4 DEF LockInv

(* A detent on a held step locks it, and the lock's command is the last.    *)
LEMMA DetentLocks ==
  ASSUME Typed, LockInv, Detent
  PROVE  LockInv'
<1>1. PICK v \in Values : Kind # "None" /\ Emit(v)
  BY DEF Detent
<1>2. /\ q' = Append(q, Emitted(v)) /\ patch' = patch /\ held' = held
      /\ wroteLock' = (wroteLock \/ Locking)
      /\ mine' = mine \cup (IF Locking THEN {<<"lock", track, held>>} ELSE {})
           \cup (IF Kind = "StepField" /\ patch.steps[track][held].active
                 THEN {<<"detail", track, held>>} ELSE {})
  BY <1>1 DEF Emit, LockWritten
<1>3. Emitted(v) \in CommandType /\ Emitted(v).type # "ToggleStep" /\ Emitted(v).track = track
  BY <1>1, EmittedTyped DEF Emitted, Command
<1>4. \A t \in Tracks, s \in Keys : Grown(t, s)
  BY <1>2, <1>3, PushGrows DEF Toggles
<1>5. Kind = "StepField" \/ Locking => held \in Keys
  BY DEF Kind, Locking, Typed, TypeOK
<1>6. track \in Tracks
  BY DEF Typed, TypeOK
<1>7. mine' \subseteq {"lock", "detail"} \X Tracks \X Keys
  BY <1>2, <1>5, <1>6 DEF LockInv
<1>8. ASSUME Locking PROVE StaysOn(track, held)'
  <2>1. Emitted(v) = Command("SetStepLock", page, v)
    BY <1>8 DEF Emitted, Locking
  <2>2. Len(q') = Len(q) + 1 /\ Len(q) \in Nat /\ q'[Len(q) + 1] = Emitted(v)
    BY <1>2, <1>3, AppendAt DEF Typed, TypeOK
  <2>3. PICK n \in Nat : n = Len(q) + 1
    BY <2>2
  <2>4. PICK tr \in Tracks, h \in Keys : tr = track /\ h = held
    BY <1>5, <1>6, <1>8
  <2>5. n \in 1 .. Len(q') /\ Ons(q'[n], tr, h) /\ NoToggleAfter(n, tr, h)'
    BY <2>1, <2>2, <2>3, <2>4 DEF Ons, Command, NoToggleAfter
  <2>6. StaysOn(tr, h)'
    BY <2>5 DEF StaysOn, Ons
  <2>7. track' = track /\ held' = held
    BY <1>1 DEF Emit
  <2> QED
    BY <2>4, <2>6, <2>7
<1>9. ASSUME NEW t \in Tracks, NEW s \in Keys, <<"lock", t, s>> \in mine'
      PROVE  StaysOn(t, s)'
  <2>1. CASE <<"lock", t, s>> \in mine
    BY <1>2, <1>4, <2>1, GrownStaysOn DEF LockInv
  <2>2. CASE <<"lock", t, s>> \notin mine
    <3>1. Locking /\ t = track /\ s = held
      BY <1>2, <1>9, <2>2
    <3>2. t = track' /\ s = held'
      BY <1>1, <3>1 DEF Emit
    <3> QED
      BY <1>8, <3>1, <3>2 DEF StaysOn, Ons, NoToggleAfter, Toggles
  <2> QED
    BY <2>1, <2>2
<1>10. ASSUME ~wroteLock', NEW t \in Tracks PROVE <<"lock", t, held'>> \notin mine'
  BY <1>2, <1>10 DEF LockInv
<1> QED
  BY <1>7, <1>9, <1>10 DEF LockInv

(* A key that toggles has no lock to its name. *)
LEMMA ReleaseKeepsLocks ==
  ASSUME Typed, LockInv, NEW k \in Keys, ReleaseStep(k)
  PROVE  LockInv'
<1> DEFINE c == Command("ToggleStep", 0, 0)
<1>1. c \in CommandType
  BY SmallNumbers, CommandTyped
<1>2. ASSUME NEW t \in Tracks, NEW s \in Keys, <<"lock", t, s>> \in mine PROVE Grown(t, s)
  <2>1. CASE wroteLock \/ shift
    <3>1. q' = q
      BY <2>1 DEF ReleaseStep
    <3> QED
      BY <3>1 DEF Grown, Typed, TypeOK
  <2>2. CASE ~wroteLock /\ ~shift
    <3>1. q' = Append(q, c)
      BY <2>2 DEF ReleaseStep
    <3>2. ~Toggles(c, t, s)
      BY <1>2, <2>2 DEF LockInv, Toggles, Command
    <3> QED
      BY <1>1, <3>1, <3>2, PushGrows
  <2> QED
    BY <2>1, <2>2
<1>3. UNCHANGED <<patch, mine, wroteLock>> /\ held' = NoStep
  BY DEF ReleaseStep, historyVars
<1> QED
  BY <1>2, <1>3, LockKept

(* A press takes the step's earlier locks out of account. *)
LEMMA PressForgets ==
  ASSUME Typed, LockInv, NEW k \in Keys, PressStep(k)
  PROVE  LockInv'
<1>1. held' = k /\ mine' = {m \in mine : m[3] # k} /\ UNCHANGED <<q, patch>>
  BY DEF PressStep
<1>2. mine' \subseteq {"lock", "detail"} \X Tracks \X Keys
  BY <1>1 DEF LockInv
<1>3. ASSUME NEW t \in Tracks, NEW s \in Keys, <<"lock", t, s>> \in mine' PROVE StaysOn(t, s)'
  BY <1>1, <1>3 DEF LockInv, StaysOn, Ons, Toggles, NoToggleAfter
<1>4. \A t \in Tracks : <<"lock", t, held'>> \notin mine'
  BY <1>1
<1> QED
  BY <1>2, <1>3, <1>4 DEF LockInv

LEMMA LockInput ==
  ASSUME Typed, LockInv, Input
  PROVE  LockInv'
<1> USE DEF uiVars, historyVars
<1>1. CASE Detent
  BY <1>1, DetentLocks
<1> DEFINE nop == Command("Transport", 0, 0)
<1>2. nop \in CommandType /\ nop.type # "ToggleStep"
  BY SmallNumbers, CommandTyped DEF Command
<1> HIDE DEF nop
<1>3. ASSUME UNCHANGED <<patch, mine, wroteLock, held>>, q' = q \/ q' = Append(q, nop)
      PROVE  LockInv'
  BY <1>2, <1>3, PushGrows, LockKept DEF Toggles
<1>4. ASSUME NEW t \in Tracks, MuteTrack(t) PROVE LockInv'
  <2> DEFINE v == IF patch.muted[t] THEN 0 ELSE 1
             c == [Command("SetTrackMute", 0, v) EXCEPT !.track = t]
  <2>1. v \in Nat
    OBVIOUS
  <2> HIDE DEF v
  <2>2. c \in CommandType /\ c.type # "ToggleStep"
    BY <2>1, SmallNumbers, CommandTyped DEF CommandType, Command
  <2>3. UNCHANGED <<patch, mine, wroteLock, held>> /\ q' = Append(q, c)
    BY <1>4 DEF MuteTrack, v
  <2> QED
    BY <2>2, <2>3, PushGrows, LockKept DEF Toggles
<1>5. ASSUME NEW k \in Keys, PressNote(k) PROVE LockInv'
  <2>1. UNCHANGED <<patch, mine, wroteLock, held>>
    BY <1>5 DEF PressNote
  <2>2. PICK a, b : q' = q \o <<a, b>> /\ a.type # "ToggleStep" /\ b.type # "ToggleStep"
    <3>1. PICK v \in Values :
            q' = IF rec THEN q \o <<[Command("SetStepLock", NoteParam, v) EXCEPT !.step = cursor],
                                    [Command("SetStepActive", 0, 1) EXCEPT !.step = cursor]>>
                 ELSE q \o <<Command("SetKitParam", NoteParam, v), Command("Transport", 0, 0)>>
      BY <1>5 DEF PressNote
    <3>2. /\ [Command("SetStepLock", NoteParam, v) EXCEPT !.step = cursor].type = "SetStepLock"
          /\ [Command("SetStepActive", 0, 1) EXCEPT !.step = cursor].type = "SetStepActive"
          /\ Command("SetKitParam", NoteParam, v).type = "SetKitParam"
          /\ Command("Transport", 0, 0).type = "Transport"
      BY DEF Command
    <3> QED
      BY <3>1, <3>2
  <2>3. q \in Seq(CommandType) /\ Len(q) \in Nat
    BY DEF Typed, TypeOK
  <2>4. /\ Len(q') = Len(q) + 2
        /\ \A i \in 1 .. Len(q) : q'[i] = q[i]
        /\ q'[Len(q) + 1] = a /\ q'[Len(q) + 2] = b
    BY <2>2, <2>3
  <2>5. ASSUME NEW t \in Tracks, NEW s \in Keys PROVE Grown(t, s)
    BY <2>2, <2>3, <2>4 DEF Grown, Toggles
  <2> QED
    BY <2>1, <2>5, LockKept
<1>6. CASE PressTransport
  BY <1>3, <1>6 DEF PressTransport, nop
<1>7. CASE PressPattern \/ ReleasePattern \/ PressMute \/ ReleaseMute \/ PressRec
             \/ PressShift \/ ReleaseShift \/ SetKeyboard
  BY <1>3, <1>7 DEF PressPattern, ReleasePattern, PressMute, ReleaseMute, PressRec, NewMode,
                    PressShift, ReleaseShift, SetKeyboard
<1>8. ASSUME (\E p \in Pages : SetPage(p)) \/ (\E b \in Banks : SetFxBank(b))
                \/ (\E t \in Tracks : SelectTrack(t))
      PROVE  LockInv'
  BY <1>3, <1>8 DEF SetPage, SetFxBank, SelectTrack
<1>9. ASSUME NEW k \in Keys, PressSlot(k) \/ ReleaseIgnored(k) PROVE LockInv'
  BY <1>3, <1>9 DEF PressSlot, ReleaseIgnored
<1>10. ASSUME NEW k \in Keys, PressStep(k) \/ ReleaseStep(k) PROVE LockInv'
  BY <1>10, PressForgets, ReleaseKeepsLocks
<1> QED
  BY <1>1, <1>4, <1>5, <1>6, <1>7, <1>8, <1>9, <1>10, TurnsAreDetents DEF Input

LEMMA LockNext == Typed /\ LockInv /\ [Next]_vars => LockInv'
<1> SUFFICES ASSUME Typed, LockInv, [Next]_vars PROVE LockInv'
  OBVIOUS
<1> DEFINE load == Command("LoadPatch", 0, 0)
<1>1. load \in CommandType /\ load.type # "ToggleStep"
  BY SmallNumbers, CommandTyped DEF Command
<1> HIDE DEF load
<1>2. ASSUME UNCHANGED <<patch, mine, wroteLock, held>>, q' = q \/ q' = Append(q, load)
      PROVE  LockInv'
  BY <1>1, <1>2, PushGrows, LockKept DEF Toggles
<1>3. CASE Input
  BY <1>3, LockInput
<1>4. CASE Pause
  BY <1>2, <1>4 DEF Pause, uiVars, historyVars
<1>5. CASE TakeRequest
  BY <1>2, <1>5 DEF TakeRequest, load, historyVars
<1>6. CASE Apply
  <2>1. wroteLock' = wroteLock /\ held' = held
    BY <1>6 DEF Apply, uiVars
  <2>2. CASE Head(q).type = "LoadPatch"
    BY <1>6, <2>2 DEF Apply, LockInv
  <2>3. CASE Head(q).type # "LoadPatch"
    <3>1. mine' = mine
      BY <1>6, <2>3 DEF Apply, historyVars
    <3>2. \A t \in Tracks, s \in Keys : <<"lock", t, s>> \in mine => StaysOn(t, s)'
      BY <1>6, <2>3, ApplyStaysOn DEF LockInv
    <3> QED
      BY <2>1, <3>1, <3>2 DEF LockInv, StaysOn, Ons, NoToggleAfter, Toggles
  <2> QED
    BY <2>2, <2>3
<1>7. CASE UNCHANGED vars
  BY <1>2, <1>7 DEF vars, uiVars, historyVars
<1> QED
  BY <1>3, <1>4, <1>5, <1>6, <1>7 DEF Next

(* A step locked under its key is on, and stays on until that key is        *)
(* pressed again, whatever track is selected, mode entered or key let go of *)
(* in between, and however far the audio side is behind the toggles and     *)
(* locks it is sent.                                                        *)
THEOREM LocksHold == Spec => []LocksKeepStep
<1> DEFINE Inv == Typed /\ LockInv
<1>1. Init => Inv
  BY TypedInit DEF Init, LockInv
<1>2. Inv /\ [Next]_vars => Inv'
  BY TypedNext, LockNext
<1>3. Inv => LocksKeepStep
  <2> SUFFICES ASSUME Inv, q = <<>>, NEW m \in mine, m[1] = "lock"
               PROVE  patch.steps[m[2]][m[3]].active
    BY DEF LocksKeepStep
  <2>1. m[2] \in Tracks /\ m[3] \in Keys /\ m = <<"lock", m[2], m[3]>>
    BY DEF LockInv
  <2>2. StaysOn(m[2], m[3]) /\ 1 .. Len(q) = {}
    BY <2>1 DEF LockInv
  <2> QED
    BY <2>2 DEF StaysOn
<1> QED
  BY <1>1, <1>2, <1>3, PTL DEF Spec
=============================================================================
