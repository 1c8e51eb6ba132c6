------------------------------- MODULE Panel --------------------------------
(***************************************************************************)
(* The panel state machine of src/ui/ui.h, together with the commands it   *)
(* pushes and what Machine::Apply (src/machine.h) makes of them.  Key      *)
(* edges and detents arrive in the main loop; the commands wait in the     *)
(* queue until the audio callback applies them, so the UI reads a patch    *)
(* that is behind what it has asked for.                                   *)
(*                                                                         *)
(* The panel is seen from one of its eight macro encoders: page p gives it *)
(* parameter p, and master-FX bank b its FX parameter b.  The others meet  *)
(* this one only in EndGestures, which ends every gesture at once.  Values *)
(* are 0 .. VMax.                                                          *)
(***************************************************************************)
EXTENDS Integers, Sequences

CONSTANTS
  NumTracks, NumKeys, NumPages, NumBanks,  \* tracks, step keys, pages, FX banks
  VMax,          \* the top of a parameter's range
  Default,       \* what pushing the encoder writes
  NoteParam,     \* NOTE: one of the pages if this encoder reaches it
  MaxLocks,      \* kMaxLocks: parameters a step can lock
  HasField,      \* this encoder is one of the four that address step detail
  MaxPending,    \* bound: commands the callback may be behind
  MaxInputs,     \* bound: key edges and detents
  Stored         \* the patches there may be at start, and in the slots

Tracks == 0 .. NumTracks - 1
Keys == 0 .. NumKeys - 1
Pages == 0 .. NumPages - 1
Banks == 0 .. NumBanks - 1
Values == 0 .. VMax
Params == Pages \cup {NoteParam}
NoStep == -1
NoLock == -1

(* A step: its locks on this encoder's parameters, and how many more its    *)
(* list takes, which the other encoders' parameters share.                  *)
Steps == [active : BOOLEAN, locks : [Params -> Values \cup {NoLock}], free : 0 .. MaxLocks,
          field : Values]
Patches == [kit : [Tracks -> [Params -> Values]], fx : [Banks -> Values],
            steps : [Tracks -> [Keys -> Steps]], muted : [Tracks -> BOOLEAN]]

ASSUME PanelAssumption ==
  /\ {NumTracks, NumKeys, NumPages, NumBanks} \subseteq Nat \ {0}
  /\ VMax \in Nat /\ VMax % 2 = 0 /\ Default \in Values /\ NoteParam \in Nat
  /\ MaxLocks \in Nat /\ HasField \in BOOLEAN
  /\ MaxPending \in Nat /\ MaxPending >= 2 /\ MaxInputs \in Nat
  /\ Stored \subseteq Patches

VARIABLES
  mode, page, track, held,   \* mode_, page_, selected_track_, held_step_
  shift, wroteLock, rec,     \* shift_, wrote_lock_while_held_, rec_armed_
  fxBank, cursor,            \* fx_bank_, kb_cursor_
  request,                   \* storage_req_.type; which slot is left out
  turning, edit,             \* turning_ and edit_value_ of this encoder
  q,                         \* commands pushed and not yet applied
  patch,                     \* Machine::patch_
  down, modsDown,            \* the step keys, and of PATTERN and MUTE, that are down
  inputs,                    \* key edges and detents so far
  mine,                      \* history: steps edited while held, <<how, track, step>>
  overtaken                  \* history: since the last detent something else has written
                             \* what the encoder points at, or may have

uiVars == <<mode, page, track, held, shift, wroteLock, rec, fxBank, cursor, request>>
gestureVars == <<turning, edit>>
keyVars == <<down, modsDown>>
historyVars == <<mine, overtaken>>
vars == <<uiVars, gestureVars, q, patch, keyVars, inputs, historyVars>>

NoLocks == [p \in Params |-> NoLock]

Init ==
  /\ mode = "Play" /\ page = 0 /\ track = 0 /\ held = NoStep
  /\ shift = FALSE /\ wroteLock = FALSE /\ rec = FALSE
  /\ fxBank = 0 /\ cursor = 0 /\ request = "None"
  /\ turning = FALSE /\ edit = 0
  /\ q = <<>>
  /\ patch \in Stored
  /\ down = {} /\ modsDown = {} /\ inputs = 0
  /\ mine = {} /\ overtaken = FALSE

-----------------------------------------------------------------------------
(* The audio side: what each command does to the patch.                     *)

(* A step's fields are kept in whole ticks, percents and repeats: a grid    *)
(* coarser than the encoder's steps, to which a value is rounded.           *)
Quantised(v) == 2 * ((v + 1) \div 2)

AtStep(c, new) == [patch EXCEPT !.steps[c.track][c.step] = new]

Target(c) == patch.steps[c.track][c.step]

(* WriteLock.  The step comes on; its parameter's lock is replaced, or one  *)
(* is added, or, in a list that is full, the value is dropped.              *)
Unlockable(s, p) == s.locks[p] = NoLock /\ s.free = 0

WriteLock(s, p, v) ==
  IF Unlockable(s, p) THEN [s EXCEPT !.active = TRUE]
  ELSE [s EXCEPT !.active = TRUE, !.locks[p] = v,
                 !.free = IF s.locks[p] = NoLock THEN s.free - 1 ELSE s.free]

Applied(c) ==
  CASE c.type = "SetKitParam" -> [patch EXCEPT !.kit[c.track][c.param] = c.value]
    [] c.type = "SetFxParam" -> [patch EXCEPT !.fx[c.param] = c.value]
    [] c.type = "SetStepActive" -> AtStep(c, [Target(c) EXCEPT !.active = TRUE])
    [] c.type = "SetStepLock" -> AtStep(c, WriteLock(Target(c), c.param, c.value))
    [] c.type = "SetStepField" -> AtStep(c, [Target(c) EXCEPT !.field = Quantised(c.value)])
    [] c.type = "ToggleStep" ->
         AtStep(c, IF Target(c).active
                   THEN [Target(c) EXCEPT !.active = FALSE, !.locks = NoLocks, !.free = MaxLocks]
                   ELSE [Target(c) EXCEPT !.active = TRUE])
    [] c.type = "SetTrackMute" -> [patch EXCEPT !.muted[c.track] = (c.value = 1)]
    [] OTHER -> patch     \* TriggerTrack, SetTempo, transport: nothing the UI reads back

Apply ==
  /\ q # <<>>
  /\ q' = Tail(q)
  /\ IF Head(q).type = "LoadPatch"
     THEN patch' \in Stored /\ mine' = {} /\ overtaken' = TRUE
     ELSE patch' = Applied(Head(q)) /\ UNCHANGED historyVars
  /\ UNCHANGED <<uiVars, gestureVars, keyVars, inputs>>

-----------------------------------------------------------------------------
(* What the encoder points at, and the edits it makes.                      *)

Command(type, param, value) ==
  [type |-> type, track |-> track, step |-> held, param |-> param, value |-> value]

(* The bound: the callback, which runs more often than the panel is read,   *)
(* is never further behind, so the queue (of 127) does not fill.            *)
Room(n) == Len(q) + n <= MaxPending

(* TargetFor. *)
Kind ==
  IF shift /\ held # NoStep THEN (IF HasField THEN "StepField" ELSE "None")
  ELSE IF shift THEN "Fx" ELSE "Param"

(* CurrentValueFor: a held step's lock before the track's own value.        *)
CurrentValue ==
  CASE Kind = "Fx" -> patch.fx[fxBank]
    [] Kind = "StepField" -> patch.steps[track][held].field
    [] Kind = "Param" ->
         IF held # NoStep /\ patch.steps[track][held].locks[page] # NoLock
         THEN patch.steps[track][held].locks[page]
         ELSE patch.kit[track][page]

Emitted(v) ==
  CASE Kind = "Fx" -> Command("SetFxParam", fxBank, v)
    [] Kind = "StepField" -> Command("SetStepField", 0, v)
    [] OTHER -> Command(IF held # NoStep THEN "SetStepLock" ELSE "SetKitParam", page, v)

Locking == Kind = "Param" /\ held # NoStep

(* Mutant of LockWritten: a lock written does not stop the toggle. *)
LockForgotten == wroteLock

LockWritten == wroteLock \/ Locking

Emit(v) ==
  /\ Room(1)
  /\ turning' = TRUE /\ edit' = v /\ overtaken' = FALSE
  /\ q' = Append(q, Emitted(v))
  /\ wroteLock' = LockWritten
  /\ mine' = mine
       \cup (IF Locking THEN {<<"lock", track, held>>} ELSE {})
       \cup (IF Kind = "StepField" /\ patch.steps[track][held].active
             THEN {<<"detail", track, held>>} ELSE {})
  /\ UNCHANGED <<mode, page, track, held, shift, rec, fxBank, cursor, request, patch, keyVars>>

(* EncoderTurn.  A gesture goes on from the value it last pushed.           *)
Turn(delta) ==
  /\ Kind # "None"
  /\ LET v == (IF turning THEN edit ELSE CurrentValue) + delta
     IN Emit(IF v < 0 THEN 0 ELSE IF v > VMax THEN VMax ELSE v)

PushEncoder == Kind # "None" /\ Emit(Default)

(* kEditContinueMs go by without a detent: far longer than the queue takes. *)
Pause ==
  /\ turning /\ q = <<>>
  /\ turning' = FALSE
  /\ UNCHANGED <<uiVars, edit, q, patch, keyVars, inputs, historyVars>>

(* Mutant of EndGestures. *)
GesturesGoOn == UNCHANGED gestureVars

EndGestures == turning' = FALSE /\ UNCHANGED edit

-----------------------------------------------------------------------------
(* Keys. *)

Press(k) == k \notin down /\ down' = down \cup {k} /\ UNCHANGED modsDown
Release(k) == k \in down /\ down' = down \ {k} /\ UNCHANGED modsDown
Hold(m) == m \notin modsDown /\ modsDown' = modsDown \cup {m} /\ UNCHANGED down
LetGo(m) == m \in modsDown /\ modsDown' = modsDown \ {m} /\ UNCHANGED down

PressShift ==
  /\ ~shift
  /\ shift' = TRUE /\ EndGestures
  /\ UNCHANGED <<mode, page, track, held, wroteLock, rec, fxBank, cursor, request, q, patch,
                 keyVars, historyVars>>

ReleaseShift ==
  /\ shift
  /\ shift' = FALSE /\ EndGestures
  /\ UNCHANGED <<mode, page, track, held, wroteLock, rec, fxBank, cursor, request, q, patch,
                 keyVars, historyVars>>

NewMode(m) ==
  /\ mode' = m
  /\ UNCHANGED <<page, track, held, shift, wroteLock, rec, fxBank, request, q, patch, historyVars>>

PressPattern == Hold("Pattern") /\ NewMode("Pattern") /\ UNCHANGED <<gestureVars, cursor>>

ReleasePattern ==
  /\ LetGo("Pattern")
  /\ NewMode(IF mode = "Pattern" THEN "Play" ELSE mode)
  /\ UNCHANGED <<gestureVars, cursor>>

(* SetMuteHeld. *)
PressMute == Hold("Mute") /\ NewMode("Mute") /\ UNCHANGED <<gestureVars, cursor>>

ReleaseMute ==
  /\ LetGo("Mute")
  /\ NewMode(IF mode = "Mute" THEN "Play" ELSE mode)
  /\ UNCHANGED <<gestureVars, cursor>>

(* SetKeyboard, in either direction. *)
SetKeyboard ==
  /\ NewMode(IF mode = "Keyboard" THEN "Play" ELSE "Keyboard")
  /\ cursor' = 0 /\ EndGestures
  /\ UNCHANGED keyVars

PressRec ==
  /\ rec' = ~rec
  /\ UNCHANGED <<mode, page, track, held, shift, wroteLock, fxBank, cursor, request,
                 gestureVars, q, patch, keyVars, historyVars>>

(* PLAY, TAP, and the value encoder in the modes where it sets the tempo.   *)
PressTransport ==
  /\ Room(1)
  /\ q' = Append(q, Command("Transport", 0, 0))
  /\ UNCHANGED <<uiVars, gestureVars, patch, keyVars, historyVars>>

(* NavTurn, and SetPage: the new page and FX bank are always different.     *)
SetPage(p) ==
  /\ ~shift /\ p # page
  /\ page' = p /\ EndGestures
  /\ UNCHANGED <<mode, track, held, shift, wroteLock, rec, fxBank, cursor, request, q, patch,
                 keyVars, historyVars>>

SetFxBank(b) ==
  /\ shift /\ b # fxBank
  /\ fxBank' = b /\ EndGestures
  /\ UNCHANGED <<mode, page, track, held, shift, wroteLock, rec, cursor, request, q, patch,
                 keyVars, historyVars>>

SelectTrack(t) ==
  /\ mode # "Mute"
  /\ t # track
  /\ track' = t /\ EndGestures
  /\ UNCHANGED <<mode, page, held, shift, wroteLock, rec, fxBank, cursor, request, q, patch,
                 keyVars, historyVars>>

MuteTrack(t) ==
  /\ mode = "Mute" /\ Room(1)
  /\ q' = Append(q, [Command("SetTrackMute", 0, IF patch.muted[t] THEN 0 ELSE 1)
                       EXCEPT !.track = t])
  /\ UNCHANGED <<uiVars, gestureVars, patch, keyVars, historyVars>>

-----------------------------------------------------------------------------
(* Step keys. *)

PressStep(k) ==
  /\ mode \in {"Play", "Mute"}
  /\ Press(k)
  /\ held' = k /\ wroteLock' = FALSE /\ EndGestures
  /\ mine' = {m \in mine : m[3] # k} /\ UNCHANGED overtaken
  /\ UNCHANGED <<mode, page, track, shift, rec, fxBank, cursor, request, q, patch>>

(* PATTERN: the key is a slot.  A request not yet taken is replaced.        *)
PressSlot(k) ==
  /\ mode = "Pattern"
  /\ Press(k)
  /\ request' = IF shift THEN "SavePattern" ELSE "LoadPattern"
  /\ UNCHANGED <<mode, page, track, held, shift, wroteLock, rec, fxBank, cursor, gestureVars,
                 q, patch, historyVars>>

NextStep == (cursor + 1) % NumKeys

(* KEYBOARD: REC decides whether the note is written or auditioned.         *)
PressNote(k) ==
  /\ mode = "Keyboard" /\ Room(2)
  /\ Press(k)
  /\ \E v \in Values :
       IF rec
       THEN /\ q' = q \o <<[Command("SetStepLock", NoteParam, v) EXCEPT !.step = cursor],
                           [Command("SetStepActive", 0, 1) EXCEPT !.step = cursor]>>
            /\ cursor' = NextStep
       ELSE /\ q' = q \o <<Command("SetKitParam", NoteParam, v), Command("Transport", 0, 0)>>
            /\ UNCHANGED cursor
  /\ overtaken' = TRUE
  /\ UNCHANGED <<mode, page, track, held, shift, wroteLock, rec, fxBank, request, gestureVars,
                 patch, mine>>

(* StepRelease.  Nothing happens in PATTERN and KEYBOARD mode, or for a key *)
(* that is not the one held last.                                           *)
IgnoresRelease(k) == mode \in {"Pattern", "Keyboard"} \/ k # held

ReleaseIgnored(k) ==
  /\ Release(k) /\ IgnoresRelease(k)
  /\ UNCHANGED <<uiVars, gestureVars, q, patch, historyVars>>

ReleaseStep(k) ==
  /\ Room(1)
  /\ Release(k) /\ ~IgnoresRelease(k)
  /\ q' = IF wroteLock \/ shift THEN q ELSE Append(q, Command("ToggleStep", 0, 0))
  /\ held' = NoStep /\ EndGestures
  /\ UNCHANGED <<mode, page, track, shift, wroteLock, rec, fxBank, cursor, request, patch,
                 historyVars>>

(* The main loop takes the request up: the load of a slot that is not empty *)
(* ends in a LoadPatch command.                                             *)
TakeRequest ==
  /\ request # "None" /\ Room(1)
  /\ request' = "None"
  /\ \E c \in {"none", "LoadPatch"} :
       /\ c = "LoadPatch" => request = "LoadPattern"
       /\ q' = IF c = "none" THEN q ELSE Append(q, Command(c, 0, 0))
  /\ UNCHANGED <<mode, page, track, held, shift, wroteLock, rec, fxBank, cursor, gestureVars,
                 patch, keyVars, inputs, historyVars>>

Input ==
  \/ \E delta \in {-1, 1} : Turn(delta)
  \/ PushEncoder
  \/ PressShift \/ ReleaseShift \/ PressPattern \/ ReleasePattern \/ PressMute \/ ReleaseMute
  \/ SetKeyboard \/ PressRec \/ PressTransport
  \/ \E p \in Pages : SetPage(p)
  \/ \E b \in Banks : SetFxBank(b)
  \/ \E t \in Tracks : SelectTrack(t) \/ MuteTrack(t)
  \/ \E k \in Keys : PressStep(k) \/ PressSlot(k) \/ PressNote(k)
                       \/ ReleaseIgnored(k) \/ ReleaseStep(k)

Next ==
  \/ inputs < MaxInputs /\ inputs' = inputs + 1 /\ Input
  \/ Pause \/ TakeRequest \/ Apply

Spec == Init /\ [][Next]_vars

-----------------------------------------------------------------------------
(* Properties. *)

CommandType ==
  [type : {"SetKitParam", "SetFxParam", "SetStepActive", "SetStepLock", "SetStepField",
           "ToggleStep", "SetTrackMute", "Transport", "LoadPatch"},
   track : Tracks, step : Keys \cup {NoStep}, param : Nat, value : Nat]

TypeOK ==
  /\ mode \in {"Play", "Mute", "Pattern", "Keyboard"}
  /\ page \in Pages /\ track \in Tracks /\ held \in Keys \cup {NoStep}
  /\ shift \in BOOLEAN /\ wroteLock \in BOOLEAN /\ rec \in BOOLEAN
  /\ fxBank \in Banks /\ cursor \in Keys
  /\ request \in {"None", "SavePattern", "LoadPattern"}
  /\ turning \in BOOLEAN /\ edit \in Values
  /\ q \in Seq(CommandType) /\ Len(q) <= MaxPending
  /\ patch \in Patches /\ inputs \in 0 .. MaxInputs
  /\ down \subseteq Keys /\ modsDown \subseteq {"Pattern", "Mute"}

Landed == CurrentValue = IF Kind = "StepField" THEN Quantised(edit) ELSE edit

(* A held step whose lock list is full of other parameters takes no more.   *)
NoRoom == Locking /\ Unlockable(patch.steps[track][held], page)

(* Once the audio side has caught up, the value a gesture goes on from is   *)
(* the value stored where the encoder points: no detent is lost to the      *)
(* stale patch, and none lands on a page, bank, track or step the gesture   *)
(* did not start on.  The one place a value does not reach is a held step   *)
(* that has no room for it.                                                 *)
EditsLand == turning /\ q = <<>> /\ ~overtaken => Landed \/ NoRoom

(* Writing a lock never flips the step off under the finger: a step locked  *)
(* while its key was held is on until that key is pressed again.            *)
LocksKeepStep ==
  q = <<>> => \A m \in mine : m[1] = "lock" => patch.steps[m[2]][m[3]].active

-----------------------------------------------------------------------------
(* Said of the code, and not true of it. *)

(* What a macro shows while it is turned is what is stored, but for the     *)
(* block the queue takes: a loaded patch, a note played on the keyboard or  *)
(* a full lock list does not leave it with a value that is not there.       *)
EditShown == turning /\ q = <<>> => Landed

(* A step whose detail was edited while it was held is not turned off by    *)
(* letting go of it.                                                        *)
DetailKeepsStep ==
  q = <<>> => \A m \in mine : m[1] = "detail" => patch.steps[m[2]][m[3]].active

(* There is no state to get stuck in: the step that the encoders lock is    *)
(* one whose key is down.                                                   *)
NoStuckHold == held # NoStep => held \in down
=============================================================================
