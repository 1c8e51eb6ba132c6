----------------------------- MODULE StepDetail -----------------------------
(***************************************************************************)
(* One field of a step's detail under its macro encoder: what Ui           *)
(* (src/ui/ui.h) reads, adds to and pushes as a value of 0 to 1, and what   *)
(* Machine::Apply (src/machine.h) keeps of it in the step's byte.           *)
(*                                                                         *)
(* Values are exact, in 1/(256 * Scale) of the range, so that the finest    *)
(* detent and one unit of the stored byte are both whole numbers.  Every    *)
(* command is applied before a gesture ends: the queue takes less than a    *)
(* block, a gesture ends after kEditContinueMs.                             *)
(***************************************************************************)
EXTENDS Integers

CONSTANTS
  Detents   \* detents that one turn may bring, of either sign

VARIABLES
  field,     \* which StepField the encoder addresses
  stored,    \* the byte in the step
  edit,      \* edit_value_
  turning,   \* turning_, and the last detent was within kEditContinueMs
  clicks     \* history: fine upward clicks in a row, in one gesture, that left the
             \* byte as it was

detailVars == <<field, stored, edit, turning, clicks>>

Fields == {"Velocity", "Micro", "Probability", "Ratchet"}

KMicroRange == 23

ASSUME StepDetailAssumption == Detents \subseteq Int

(* What the range of the stored byte is worth in units of it.               *)
Scale == CASE field = "Velocity" -> 127
           [] field = "Micro" -> 2 * KMicroRange
           [] field = "Probability" -> 100
           [] field = "Ratchet" -> 7

Lowest == CASE field = "Micro" -> -KMicroRange [] field = "Ratchet" -> 1 [] OTHER -> 0

Highest == Lowest + Scale

(* A Step as it is before anyone has touched it. *)
Untouched == CASE field = "Velocity" -> 100
               [] field = "Micro" -> 0
               [] field = "Probability" -> 100
               [] field = "Ratchet" -> 1

Top == 256 * Scale    \* the value 1

DetailInit ==
  field \in Fields /\ stored \in Lowest .. Highest /\ edit = 0 /\ turning = FALSE /\ clicks = 0

(* StepFieldValue. *)
Read == 256 * (stored - Lowest)

Rounded(v) == (v + 128) \div 256

(* The cast to int8_t drops the fraction, towards zero. *)
Truncated(v) == IF v >= 0 THEN v \div 256 ELSE -((-v) \div 256)

(* Apply, SetStepField. *)
Kept(v) ==
  IF field = "Micro" THEN Truncated(v - 256 * KMicroRange) ELSE Lowest + Rounded(v)

Emit(v) ==
  /\ edit' = v /\ turning' = TRUE
  /\ stored' = Kept(v)
  /\ UNCHANGED field

Unit(v) == IF v < 0 THEN 0 ELSE IF v > Top THEN Top ELSE v

(* kFineStep, kMidStep and kCoarseStep, in detents of 1/256.  The first     *)
(* detent of a gesture is always fine.                                      *)
Paces == IF turning THEN {1, 4, 16} ELSE {1}

(* Mutants of From: a gesture starts from what the last one pushed; every   *)
(* detent starts from the byte.                                             *)
FromEdit == edit
FromByte == Read

From == IF turning THEN edit ELSE Read

Turn(delta, pace) ==
  /\ Emit(Unit(From + delta * pace * Scale))
  /\ clicks' = IF delta = 1 /\ pace = 1 /\ stored' = stored /\ stored < Highest
               THEN clicks + 1 ELSE 0

(* EncoderPush: DefaultFor. *)
PushEncoder ==
  /\ Emit(IF field = "Micro" THEN Top \div 2 ELSE Top)
  /\ clicks' = 0

Pause == turning /\ turning' = FALSE /\ clicks' = 0 /\ UNCHANGED <<field, stored, edit>>

MaxClicks == 2 * (256 \div Scale) + 2

DetailNext ==
  \/ clicks < MaxClicks /\ \E delta \in Detents : \E pace \in Paces : Turn(delta, pace)
  \/ PushEncoder
  \/ Pause

DetailSpec == DetailInit /\ [][DetailNext]_detailVars

-----------------------------------------------------------------------------
(* Properties. *)

(* Turning up never lowers the field and turning down never raises it, from *)
(* whatever the byte kept of the last gesture.                              *)
TurnsTheRightWay ==
  [][\A delta \in Detents, pace \in {1, 4, 16} : Turn(delta, pace) =>
       IF delta > 0 THEN stored' >= stored ELSE stored' <= stored]_detailVars

(* The finest detent is 1/256 of the range: however slowly the encoder is   *)
(* turned in one gesture, a unit of the field takes no more clicks than fit *)
(* in it.  MICRO is cut towards zero, and there takes those of two.         *)
ClicksAddUp ==
  clicks <= (IF field = "Micro" THEN 2 ELSE 1) * (256 \div Scale) + 1

-----------------------------------------------------------------------------
(* Said of the code, and not true of it. *)

(* "Default" for a step field means as if you had never touched it.         *)
PushRestores == [][PushEncoder => stored' = Untouched]_detailVars

(* A deliberate click, after a pause, is fine: it moves the field.  What is *)
(* rounded away is lost when the next gesture starts from the byte.         *)
ClickMoves == [][~turning /\ stored < Highest /\ Turn(1, 1) => stored' > stored]_detailVars
=============================================================================
