---------------------------- MODULE PatchExchange ----------------------------
(***************************************************************************)
(* How a patch crosses between the main loop and the audio callback: the   *)
(* snapshot and load handshakes of src/machine.h, the loop of host/play.cpp *)
(* that drives them, the staging buffer and slots of src/io/storage.h, and *)
(* the command queue between them (the abstract one, which SpscQueue       *)
(* implements).                                                            *)
(*                                                                         *)
(* A patch is copied with memcpy while the other side runs, so every copy  *)
(* takes two steps, one for each half of it.  What a half holds is the     *)
(* number of the edit that made it: a patch is coherent when both halves   *)
(* hold the same number.                                                   *)
(***************************************************************************)
EXTENDS Integers, Sequences

CONSTANTS
  Slots,        \* pattern slots in flash
  NoSlot,
  Capacity,     \* commands the queue holds
  Overlaps,     \* which of "save", "load" the user asks for while one is under way
  MaxEdits, MaxRequests   \* bounds on what the user does

ASSUME PatchExchangeAssumption ==
  /\ NoSlot \notin Slots
  /\ Capacity \in Nat \ {0}
  /\ Overlaps \subseteq {"save", "load"}
  /\ MaxEdits \in Nat /\ MaxRequests \in Nat

Commands == {"Edit", "Snapshot", "LoadPatch"}

VARIABLES
  (* shared between the two sides *)
  q, pushResult, popResult,   \* queue_, what its last Push and Pop returned
  snapshotDone, loadDone,     \* snapshot_done_, load_done_
  staging,                    \* Storage::staging_, which the audio side fills
  loaded,                     \* play.cpp's static Patch
  (* main loop *)
  pc,         \* where it is in its pass
  request,    \* Ui::storage_req_, [type, slot]
  pending,    \* g_pending_save
  flash,      \* the slots
  edits, requests,   \* how much the user has done
  (* audio callback *)
  apc,        \* where it is in DrainCommands
  patch,      \* patch_
  nextEdit,   \* the number of the next edit
  (* history *)
  since,      \* what patch_ held since the last snapshot was asked for
  loading,    \* a load has been asked for and not been installed
  wanted      \* the slot contents it asked for

queueVars == <<q, pushResult, popResult>>
mainVars == <<pc, request, pending, flash, edits, requests>>
audioVars == <<apc, patch, nextEdit>>
historyVars == <<since, loading, wanted>>
vars == <<queueVars, snapshotDone, loadDone, staging, loaded, mainVars, audioVars,
          historyVars>>

Queue == INSTANCE CommandQueue WITH Item <- Commands, NoItem <- "none"

Whole(n) == [lo |-> n, hi |-> n]
Blank == Whole(-1)          \* an erased slot
Fresh == Whole(0)           \* InitPatch

Nothing == [type |-> "None", slot |-> NoSlot]

(* The slots hold patches saved earlier, each unlike the others, or none.   *)
Init ==
  /\ Queue!Init
  /\ snapshotDone = FALSE /\ loadDone = FALSE
  /\ staging = Fresh /\ loaded = Fresh
  /\ pc = "keys" /\ request = Nothing /\ pending = NoSlot
  /\ \E f \in [Slots -> {-1} \cup {-2 - n : n \in 1 .. 2}] :
       /\ \A s, t \in Slots : s # t => f[s] # f[t]
       /\ flash = [s \in Slots |-> Whole(f[s])]
  /\ edits = 0 /\ requests = 0
  /\ apc = "drain" /\ patch = Fresh /\ nextEdit = 1
  /\ since = {} /\ loading = FALSE /\ wanted = Blank

-----------------------------------------------------------------------------
(* The main loop. *)

(* Machine::Push; its result is not looked at. *)
Push(c) == Queue!Accept(c) \/ Queue!Refuse

(* A key that sends an edit. *)
PressEdit ==
  /\ pc = "keys" /\ edits < MaxEdits
  /\ edits' = edits + 1
  /\ Push("Edit")
  /\ UNCHANGED <<snapshotDone, loadDone, staging, loaded, pc, request, pending, flash,
                 requests, audioVars, historyVars>>

(* A save and a load may overlap; whether two of a kind do is the user's    *)
(* doing.  A request that no pass has taken yet is just replaced.           *)
MayAsk(type) ==
  \/ type = "SavePattern" /\ (pending = NoSlot \/ "save" \in Overlaps)
  \/ type = "LoadPattern" /\ (~loading \/ "load" \in Overlaps)

(* Ui::StepPress in PATTERN mode: only the last request of a pass is kept.  *)
PressStorage(type, s) ==
  /\ pc = "keys" /\ requests < MaxRequests
  /\ MayAsk(type)
  /\ requests' = requests + 1
  /\ request' = [type |-> type, slot |-> s]
  /\ UNCHANGED <<queueVars, snapshotDone, loadDone, staging, loaded, pc, pending, flash,
                 edits, audioVars, historyVars>>

(* Mutant of RequestSnapshot: the flag is cleared once the command is out.  *)
CommandFirst == <<"pushSnapshot", "clearDone">>

(* The steps of RequestSnapshot: the flag first, then the command.          *)
RequestSnapshot == <<"clearDone", "pushSnapshot">>

AfterStep(step) == IF step = RequestSnapshot[1] THEN RequestSnapshot[2] ELSE "poll"

(* The keys are read: TakeStorageRequest, whose result the next steps use.  *)
EndKeys ==
  /\ pc = "keys"
  /\ pc' = CASE request.type = "SavePattern" -> RequestSnapshot[1]
             [] request.type = "LoadPattern" -> "read1"
             [] OTHER -> "poll"
  /\ UNCHANGED <<queueVars, snapshotDone, loadDone, staging, loaded, request, pending,
                 flash, edits, requests, audioVars, historyVars>>

(* Mutant of Cleared: the flag of the last snapshot stays up. *)
NotCleared(done) == done

Cleared(done) == FALSE

ClearDone ==
  /\ pc = "clearDone"
  /\ snapshotDone' = Cleared(snapshotDone)
  /\ since' = {patch.lo, patch.hi}
  /\ pc' = AfterStep("clearDone")
  /\ UNCHANGED <<queueVars, loadDone, staging, loaded, request, pending, flash, edits,
                 requests, audioVars, loading, wanted>>

PushSnapshot ==
  /\ pc = "pushSnapshot"
  /\ Push("Snapshot")
  /\ pending' = request.slot /\ request' = Nothing
  /\ pc' = AfterStep("pushSnapshot")
  /\ UNCHANGED <<snapshotDone, loadDone, staging, loaded, flash, edits, requests,
                 audioVars, historyVars>>

(* Mutant of AfterHalf: the load is requested before the copy is complete. *)
AfterHalfTooSoon == "pushLoad"

AfterHalf == "read2"

(* Storage::LoadPatch: an empty slot is refused, any other is copied.       *)
ReadFirst ==
  /\ pc = "read1"
  /\ IF flash[request.slot] = Blank
     THEN pc' = "poll" /\ request' = Nothing /\ UNCHANGED loaded
     ELSE pc' = AfterHalf /\ loaded' = [loaded EXCEPT !.lo = flash[request.slot].lo]
                /\ UNCHANGED request
  /\ UNCHANGED <<queueVars, snapshotDone, loadDone, staging, pending, flash, edits,
                 requests, audioVars, historyVars>>

ReadSecond ==
  /\ pc = "read2"
  /\ loaded' = [loaded EXCEPT !.hi = flash[request.slot].hi]
  /\ pc' = "pushLoad"
  /\ UNCHANGED <<queueVars, snapshotDone, loadDone, staging, request, pending, flash,
                 edits, requests, audioVars, historyVars>>

(* RequestLoad.  Nothing waits on load_done_, so it is cleared with the push. *)
PushLoad ==
  /\ pc = "pushLoad"
  /\ loadDone' = FALSE
  /\ Push("LoadPatch")
  /\ loading' = TRUE /\ wanted' = flash[request.slot]
  /\ request' = Nothing
  /\ pc' = "poll"
  /\ UNCHANGED <<snapshotDone, staging, loaded, pending, flash, edits, requests,
                 audioVars, since>>

(* Mutant of MayWrite: the save does not wait for the snapshot. *)
MayWriteAtOnce == pending # NoSlot

(* g_pending_save >= 0 && SnapshotReady() *)
MayWrite == pending # NoSlot /\ snapshotDone

Poll ==
  /\ pc = "poll"
  /\ pc' = IF MayWrite THEN "write1" ELSE "keys"
  /\ UNCHANGED <<queueVars, snapshotDone, loadDone, staging, loaded, request, pending,
                 flash, edits, requests, audioVars, historyVars>>

(* SaveStaged: the slot is written from the staging buffer. *)
WriteFirst ==
  /\ pc = "write1"
  /\ flash' = [flash EXCEPT ![pending] = [lo |-> staging.lo, hi |-> -1]]
  /\ pc' = "write2"
  /\ UNCHANGED <<queueVars, snapshotDone, loadDone, staging, loaded, request, pending,
                 edits, requests, audioVars, historyVars>>

WriteSecond ==
  /\ pc = "write2"
  /\ flash' = [flash EXCEPT ![pending].hi = staging.hi]
  /\ pending' = NoSlot
  /\ pc' = "keys"
  /\ UNCHANGED <<queueVars, snapshotDone, loadDone, staging, loaded, request, edits,
                 requests, audioVars, historyVars>>

MainStep == EndKeys \/ ClearDone \/ PushSnapshot \/ ReadFirst \/ ReadSecond \/ PushLoad
              \/ Poll \/ WriteFirst \/ WriteSecond

-----------------------------------------------------------------------------
(* The audio callback: DrainCommands. *)

Pop ==
  /\ apc = "drain"
  /\ Queue!Take
  /\ apc' = "apply"
  /\ UNCHANGED <<snapshotDone, loadDone, staging, loaded, mainVars, patch, nextEdit,
                 historyVars>>

(* Any command that changes the patch does so within Apply, unseen by the   *)
(* main loop's copies.                                                      *)
ApplyEdit ==
  /\ apc = "apply" /\ popResult = "Edit"
  /\ patch' = Whole(nextEdit) /\ nextEdit' = nextEdit + 1
  /\ since' = since \cup {nextEdit}
  /\ apc' = "drain"
  /\ UNCHANGED <<queueVars, snapshotDone, loadDone, staging, loaded, mainVars, loading,
                 wanted>>

(* *snapshot_dst_ = patch_, then the flag. *)
SnapshotFirst ==
  /\ apc = "apply" /\ popResult = "Snapshot"
  /\ staging' = [staging EXCEPT !.lo = patch.lo]
  /\ apc' = "snapshot2"
  /\ UNCHANGED <<queueVars, snapshotDone, loadDone, loaded, mainVars, patch, nextEdit,
                 historyVars>>

SnapshotSecond ==
  /\ apc = "snapshot2"
  /\ staging' = [staging EXCEPT !.hi = patch.hi]
  /\ snapshotDone' = TRUE
  /\ apc' = "drain"
  /\ UNCHANGED <<queueVars, loadDone, loaded, mainVars, patch, nextEdit, historyVars>>

(* patch_ = *load_src_, SetPattern, ApplyKit, then the flag. *)
LoadFirst ==
  /\ apc = "apply" /\ popResult = "LoadPatch"
  /\ patch' = [patch EXCEPT !.lo = loaded.lo]
  /\ apc' = "load2"
  /\ UNCHANGED <<queueVars, snapshotDone, loadDone, staging, loaded, mainVars, nextEdit,
                 historyVars>>

LoadSecond ==
  /\ apc = "load2"
  /\ patch' = [patch EXCEPT !.hi = loaded.hi]
  /\ loadDone' = TRUE
  /\ since' = since \cup {patch.lo, loaded.hi}
  /\ loading' = FALSE
  /\ apc' = "drain"
  /\ UNCHANGED <<queueVars, snapshotDone, staging, loaded, mainVars, nextEdit, wanted>>

AudioStep == Pop \/ ApplyEdit \/ SnapshotFirst \/ SnapshotSecond \/ LoadFirst \/ LoadSecond

Next ==
  \/ PressEdit
  \/ \E type \in {"SavePattern", "LoadPattern"}, s \in Slots : PressStorage(type, s)
  \/ MainStep
  \/ AudioStep

Spec == Init /\ [][Next]_vars

(* The main loop passes on every 16 ms and the device keeps calling back.   *)
FairSpec == Spec /\ WF_vars(MainStep) /\ WF_vars(AudioStep)

-----------------------------------------------------------------------------
(* Properties. *)

HalfPatch == [lo : Int, hi : Int]

TypeOK ==
  /\ q \in Seq(Commands) /\ Len(q) <= Capacity
  /\ popResult \in Commands \cup {"none"}
  /\ pushResult \in {"none", "accepted", "refused"}
  /\ snapshotDone \in BOOLEAN /\ loadDone \in BOOLEAN
  /\ staging \in HalfPatch /\ loaded \in HalfPatch /\ patch \in HalfPatch
  /\ pc \in {"keys", "clearDone", "pushSnapshot", "read1", "read2", "pushLoad", "poll",
             "write1", "write2"}
  /\ apc \in {"drain", "apply", "snapshot2", "load2"}
  /\ request \in [type : {"None", "SavePattern", "LoadPattern"}, slot : Slots \cup {NoSlot}]
  /\ pending \in Slots \cup {NoSlot}
  /\ flash \in [Slots -> HalfPatch]
  /\ edits \in 0 .. MaxEdits /\ requests \in 0 .. MaxRequests
  /\ nextEdit \in Nat \ {0}
  /\ since \subseteq Int /\ loading \in BOOLEAN /\ wanted \in HalfPatch

Coherent(p) == p.lo = p.hi

(* No save is torn: what a slot holds once it is written is one state of    *)
(* the patch.                                                               *)
SavedCoherent == pc # "write2" => \A s \in Slots : Coherent(flash[s])

(* A save holds the patch as it was at some moment after it was asked for,  *)
(* never what an earlier snapshot left in the staging buffer.               *)
SavedIsCurrent ==
  [][pc = "write2" /\ pc' # "write2" =>
       flash'[pending].lo \in since /\ flash'[pending].hi \in since]_vars

(* A load installs what its slot held when it was asked for, all of it.     *)
LoadedExactly == [][apc = "load2" /\ apc' = "drain" => patch' = wanted]_vars

(* Every save whose command the queue has taken is eventually written to    *)
(* its slot: the flag it waits for is neither missed nor cleared again.     *)
SaveLands == \A s \in Slots :
  pending = s /\ (\E i \in DOMAIN q : q[i] = "Snapshot") ~> pending # s

-----------------------------------------------------------------------------
(* Said of the code, and not true of it. *)

(* Every save that has been taken up is written: the command of one may be  *)
(* refused by a full queue, and nobody looks.                               *)
EverySaveLands == \A s \in Slots : pending = s ~> pending # s
=============================================================================
