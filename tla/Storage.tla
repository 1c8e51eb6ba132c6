------------------------------- MODULE Storage -------------------------------
(***************************************************************************)
(* The slots of src/io/storage.h on the flash chip: the layout of          *)
(* src/io/storage_layout.h, the erase-then-write of a save, and the header *)
(* that a load checks.  The chip is that of src/io/flash.h: an erase takes *)
(* whole sectors, its start aligned down, and a write only clears bits, so *)
(* a page written over another one is garbage.                             *)
(*                                                                         *)
(* A page is the unit that is written in one step, the header being in the *)
(* first page of a slot; a sector is the unit that is erased.  The power   *)
(* may go, or the driver report an error, between any two steps.           *)
(***************************************************************************)
EXTENDS Integers

CONSTANTS
  SectorPages,                \* pages in a sector
  KitPages, PatternPages,     \* pages a kit and a pattern take, headers included
  KitSlots, PatternSlots,     \* slots of each
  ChipPages,                  \* pages of the chip, from kUserBase
  MaxSaves                    \* bound: saves begun

VARIABLES
  chip,     \* the pages
  target,   \* the slot being saved, or NoSlot
  phase,    \* "idle", "erase" or "write"
  pos,      \* the page the erase or the write has reached
  saves,    \* saves begun; numbers them
  held,     \* history: the last save of each slot that was completed, 0 for none
  cut       \* history: the slots that have had a later save begun and not completed

vars == <<chip, target, phase, pos, saves, held, cut>>

-----------------------------------------------------------------------------
(* The layout. *)

(* Rounded up to whole sectors. *)
SlotStride(payload) == ((payload + SectorPages - 1) \div SectorPages) * SectorPages

KitBase == SectorPages       \* the settings sector comes first
PatternBase == KitBase + KitSlots * SlotStride(KitPages)
FreeBase == PatternBase + PatternSlots * SlotStride(PatternPages)

ASSUME StorageAssumption ==
  /\ {SectorPages, KitPages, PatternPages, KitSlots, PatternSlots} \subseteq Nat \ {0}
  /\ MaxSaves \in Nat
  /\ ChipPages \in Nat /\ FreeBase <= ChipPages

Kits == {"kit"} \X (0 .. KitSlots - 1)
Patterns == {"pattern"} \X (0 .. PatternSlots - 1)
Slots == Kits \cup Patterns
NoSlot == <<"none", 0>>

Payload(s) == IF s \in Kits THEN KitPages ELSE PatternPages
Addr(s) == IF s \in Kits THEN KitBase + s[2] * SlotStride(KitPages)
                         ELSE PatternBase + s[2] * SlotStride(PatternPages)

-----------------------------------------------------------------------------
(* The chip.  A page is a page of a save, erased, or garbage. *)

Page(n, i) == <<n, i>>

Erased == <<0, 0>>
Garbage == <<-1, 0>>

Sector(p) == LET first == p - (p % SectorPages) IN first .. first + SectorPages - 1

EraseSector(p) == [q \in DOMAIN chip |-> IF q \in Sector(p) THEN Erased ELSE chip[q]]

Program(p, v) == [chip EXCEPT ![p] = IF @ = Erased \/ @ = v THEN v ELSE Garbage]

Init ==
  /\ chip = [p \in 0 .. ChipPages - 1 |-> Erased]
  /\ target = NoSlot /\ phase = "idle" /\ pos = 0
  /\ saves = 0
  /\ held = [s \in Slots |-> 0] /\ cut = {}

(* SavePatch, SaveStaged or SaveKit: the payload is staged whole with its   *)
(* header, then WriteSlot.                                                  *)
BeginSave(s) ==
  /\ phase = "idle" /\ saves < MaxSaves
  /\ saves' = saves + 1
  /\ target' = s /\ phase' = "erase" /\ pos' = Addr(s)
  /\ cut' = cut \cup {s}
  /\ UNCHANGED <<chip, held>>

(* Mutants of EraseEnd: only the first sector is erased; one too many is. *)
EraseEndShort(s) == Addr(s)
EraseEndPast(s) == Addr(s) + SlotStride(Payload(s))

(* The inclusive end address of the erase. *)
EraseEnd(s) == Addr(s) + SlotStride(Payload(s)) - 1

EraseStep ==
  /\ phase = "erase"
  /\ chip' = EraseSector(pos)
  /\ IF pos + SectorPages > EraseEnd(target)
     THEN phase' = "write" /\ pos' = Addr(target)
     ELSE phase' = phase /\ pos' = pos + SectorPages
  /\ UNCHANGED <<target, saves, held, cut>>

WriteStep ==
  /\ phase = "write"
  /\ chip' = Program(pos, Page(saves, pos - Addr(target)))
  /\ IF pos + 1 < Addr(target) + Payload(target)
     THEN pos' = pos + 1 /\ UNCHANGED <<target, phase, held, cut>>
     ELSE /\ phase' = "idle" /\ target' = NoSlot /\ pos' = 0
          /\ held' = [held EXCEPT ![target] = saves] /\ cut' = cut \ {target}
  /\ UNCHANGED saves

(* The power goes or the driver fails (WriteFailed), in the middle of a     *)
(* step or between two; what the step was changing may be left as garbage.  *)
Cut ==
  /\ phase # "idle"
  /\ \E torn \in SUBSET (IF phase = "erase" THEN Sector(pos) ELSE {pos}) :
       chip' = [p \in DOMAIN chip |-> IF p \in torn THEN Garbage ELSE chip[p]]
  /\ target' = NoSlot /\ phase' = "idle" /\ pos' = 0
  /\ UNCHANGED <<saves, held, cut>>

Next == (\E s \in Slots : BeginSave(s)) \/ EraseStep \/ WriteStep \/ Cut

Spec == Init /\ [][Next]_vars

-----------------------------------------------------------------------------
(* ReadSlot: what a load returns, by the header alone. *)

Validate(s) == LET header == chip[Addr(s)] IN
  IF header = Erased THEN "Empty" ELSE IF header = Garbage THEN "BadMagic" ELSE "Ok"

Read(s) == [i \in 0 .. Payload(s) - 1 |-> chip[Addr(s) + i]]

-----------------------------------------------------------------------------
(* Properties. *)

PageContents == {Erased, Garbage} \cup {Page(n, i) : n \in 1 .. MaxSaves, i \in 0 .. ChipPages}

TypeOK ==
  /\ chip \in [0 .. ChipPages - 1 -> PageContents]
  /\ target \in Slots \cup {NoSlot}
  /\ phase \in {"idle", "erase", "write"}
  /\ phase = "idle" <=> target = NoSlot
  /\ pos \in 0 .. ChipPages - 1
  /\ saves \in 0 .. MaxSaves
  /\ held \in [Slots -> 0 .. MaxSaves] /\ cut \subseteq Slots

Holds(s, n) == Validate(s) = "Ok" /\ Read(s) = [i \in 0 .. Payload(s) - 1 |-> Page(n, i)]

(* Every slot but the one being saved, and those whose save was cut short,  *)
(* loads what its last save wrote, all of it; one never saved loads Empty.  *)
(* No save, whole or cut, reaches into another slot.                        *)
LoadsLastSave ==
  \A s \in Slots \ cut : IF held[s] = 0 THEN Validate(s) = "Empty" ELSE Holds(s, held[s])

-----------------------------------------------------------------------------
(* Said of the code, and not true of it. *)

(* A power cycle loses nothing: a slot that was saved once loads that save  *)
(* or a later one, whatever became of the later ones.                       *)
LosesNothing ==
  phase = "idle" =>
    \A s \in Slots : held[s] # 0 => \E n \in held[s] .. saves : Holds(s, n)
=============================================================================
