------------------------------ MODULE DataProofs ------------------------------
(***************************************************************************)
(* Patterns and kits at rest and on the wire.                              *)
(*                                                                         *)
(* That no save reaches into another slot, for any number of slots, any    *)
(* payload and any size of sector.  First the layout: the slots are whole  *)
(* sectors, on the chip and apart from each other.  Then the invariant: a  *)
(* save has changed its own slot and nothing else, and where it has got to *)
(* says which pages of it are erased and which are written.                *)
(*                                                                         *)
(* That no two transfers are spliced, for any transfers, any size of chunk *)
(* and of buffer.  First the codec: what it packs it unpacks, on every     *)
(* sequence of bytes.  Then the invariant: the buffer falls short of the   *)
(* chunks taken by at most a byte each, and while it does not each byte is *)
(* where it was sent from.                                                 *)
(***************************************************************************)
EXTENDS Storage, SysExBulk, SequenceTheorems, TLAPS

Stride(s) == SlotStride(Payload(s))

LEMMA SlotTypes ==
  ASSUME NEW s \in Slots
  PROVE  /\ Payload(s) \in Nat \ {0}
         /\ \/ s \in Kits /\ s = <<"kit", s[2]>> /\ s[2] \in 0 .. KitSlots - 1
            \/ s \notin Kits /\ s \in Patterns /\ s = <<"pattern", s[2]>>
                 /\ s[2] \in 0 .. PatternSlots - 1
  BY StorageAssumption DEF Payload, Slots, Kits, Patterns

(* A stride is whole sectors and holds its payload. *)
LEMMA StrideWhole ==
  ASSUME NEW p \in Nat \ {0}
  PROVE  /\ SlotStride(p) \in Nat
         /\ SlotStride(p) >= p
         /\ \E k \in Nat : SlotStride(p) = SectorPages * k
  <1>1. SectorPages \in Nat \ {0} BY StorageAssumption
  <1> DEFINE k == (p + SectorPages - 1) \div SectorPages
  <1>2. k \in Nat BY <1>1
  <1>3. k * SectorPages >= p BY <1>1
  <1>4. SlotStride(p) = k * SectorPages BY DEF SlotStride
  <1> HIDE DEF k
  <1>5. k * SectorPages = SectorPages * k /\ k * SectorPages \in Nat BY <1>1, <1>2
  <1> QED BY <1>2, <1>3, <1>4, <1>5

(* A multiple of a stride is a multiple of the sector. *)
LEMMA MultiplesWhole ==
  ASSUME NEW d \in Nat, NEW k \in Nat, NEW m \in Nat, NEW n \in Nat, d = n * k
  PROVE  /\ m * d \in Nat /\ m * d = n * (m * k) /\ m * k \in Nat
  OBVIOUS

LEMMA SumsWhole ==
  ASSUME NEW n \in Nat, NEW k \in Nat, NEW m \in Nat
  PROVE  n * k + n * m = n * (k + m)
  OBVIOUS

LEMMA StepUp ==
  ASSUME NEW d \in Nat, NEW i \in Nat, NEW j \in Nat, i < j
  PROVE  i * d + d <= j * d
  OBVIOUS

LEMMA StepApart ==
  ASSUME NEW d \in Nat, NEW i \in Nat, NEW j \in Nat, i # j
  PROVE  i * d + d <= j * d \/ j * d + d <= i * d
  <1>1. i < j \/ j < i OBVIOUS
  <1> QED BY <1>1, StepUp

(* The bases, as sectors. *)
LEMMA BasesWhole ==
  /\ \E k \in Nat : KitBase = SectorPages * k
  /\ \E k \in Nat : PatternBase = SectorPages * k
  /\ KitBase \in Nat /\ PatternBase \in Nat /\ FreeBase \in Nat
  <1>1. SectorPages \in Nat /\ KitPages \in Nat \ {0} /\ PatternPages \in Nat \ {0}
          /\ KitSlots \in Nat /\ PatternSlots \in Nat
    BY StorageAssumption
  <1>2. KitBase = SectorPages * 1 BY <1>1 DEF KitBase
  <1>3. PICK k \in Nat : SlotStride(KitPages) = SectorPages * k BY <1>1, StrideWhole
  <1>4. /\ KitSlots * SlotStride(KitPages) \in Nat
        /\ KitSlots * SlotStride(KitPages) = SectorPages * (KitSlots * k)
        /\ KitSlots * k \in Nat
    BY <1>1, <1>3, StrideWhole, MultiplesWhole
  <1>5. PatternBase = SectorPages * (1 + KitSlots * k)
    BY <1>1, <1>2, <1>4, SumsWhole DEF PatternBase
  <1>6. PICK m \in Nat : SlotStride(PatternPages) = SectorPages * m BY <1>1, StrideWhole
  <1>7. PatternSlots * SlotStride(PatternPages) \in Nat
    BY <1>1, <1>6, StrideWhole, MultiplesWhole
  <1>8. KitBase \in Nat /\ PatternBase \in Nat BY <1>1, <1>4 DEF KitBase, PatternBase
  <1> QED BY <1>2, <1>4, <1>5, <1>7, <1>8 DEF FreeBase

(* A slot starts on a sector, is whole sectors, and is on the chip. *)
LEMMA SlotsOnChip ==
  ASSUME NEW s \in Slots
  PROVE  /\ Addr(s) \in Nat /\ Stride(s) \in Nat
         /\ Payload(s) <= Stride(s)
         /\ Addr(s) + Stride(s) <= ChipPages
         /\ \E k \in Nat : Addr(s) = SectorPages * k
         /\ \E k \in Nat : Addr(s) + Stride(s) = SectorPages * k
  <1>0. SectorPages \in Nat /\ KitSlots \in Nat /\ PatternSlots \in Nat
          /\ KitPages \in Nat \ {0} /\ PatternPages \in Nat \ {0} /\ ChipPages \in Nat
          /\ FreeBase <= ChipPages
    BY StorageAssumption
  <1> DEFINE base == IF s \in Kits THEN KitBase ELSE PatternBase
             count == IF s \in Kits THEN KitSlots ELSE PatternSlots
  <1>1. Addr(s) = base + s[2] * Stride(s) BY DEF Addr, Stride, Payload
  <1>2. s[2] \in Nat /\ s[2] < count /\ Payload(s) \in Nat \ {0} /\ count \in Nat
    BY <1>0, SlotTypes
  <1>3. PICK k \in Nat : Stride(s) = SectorPages * k BY <1>2, StrideWhole DEF Stride
  <1>4. Stride(s) \in Nat /\ Payload(s) <= Stride(s) BY <1>2, StrideWhole DEF Stride
  <1>5. PICK b \in Nat : base = SectorPages * b BY BasesWhole
  <1>6. base \in Nat BY BasesWhole
  <1>7. /\ s[2] * Stride(s) \in Nat /\ s[2] * Stride(s) = SectorPages * (s[2] * k)
        /\ s[2] * k \in Nat
    BY <1>0, <1>2, <1>3, <1>4, MultiplesWhole
  <1>8. count * Stride(s) \in Nat BY <1>0, <1>2, <1>3, <1>4, MultiplesWhole
  <1>9. s[2] * Stride(s) + Stride(s) <= count * Stride(s) BY <1>2, <1>4, StepUp
  <1>10. base + count * Stride(s) <= FreeBase
    <2>1. PatternSlots * SlotStride(PatternPages) \in Nat
      BY <1>0, StrideWhole, MultiplesWhole
    <2> QED BY <2>1, BasesWhole DEF PatternBase, FreeBase, Stride, Payload
  <1> HIDE DEF base, count
  <1>11. Addr(s) + Stride(s) <= ChipPages
    BY <1>0, <1>1, <1>4, <1>6, <1>7, <1>8, <1>9, <1>10, BasesWhole
  <1>12. Addr(s) = SectorPages * (b + s[2] * k)
    BY <1>0, <1>1, <1>5, <1>7, SumsWhole
  <1>13. Addr(s) + Stride(s) = SectorPages * (b + s[2] * k + k)
    BY <1>0, <1>3, <1>7, <1>12, SumsWhole
  <1> QED BY <1>1, <1>4, <1>6, <1>7, <1>11, <1>12, <1>13

(* Two slots have no page in common. *)
LEMMA SlotsApart ==
  ASSUME NEW s \in Slots, NEW t \in Slots, s # t
  PROVE  Addr(s) + Stride(s) <= Addr(t) \/ Addr(t) + Stride(t) <= Addr(s)
  <1>0. KitSlots \in Nat /\ KitPages \in Nat \ {0} /\ PatternPages \in Nat \ {0}
    BY StorageAssumption
  <1>1. ASSUME NEW base \in Nat, NEW i \in Nat, NEW j \in Nat, i # j,
               Stride(s) = Stride(t),
               Addr(s) = base + i * Stride(s), Addr(t) = base + j * Stride(s)
        PROVE  Addr(s) + Stride(s) <= Addr(t) \/ Addr(t) + Stride(t) <= Addr(s)
    <2>1. Stride(s) \in Nat BY SlotsOnChip
    <2>2. i * Stride(s) + Stride(s) <= j * Stride(s)
            \/ j * Stride(s) + Stride(s) <= i * Stride(s)
      BY <1>1, <2>1, StepApart
    <2>3. i * Stride(s) \in Nat /\ j * Stride(s) \in Nat BY <2>1
    <2> QED BY <1>1, <2>1, <2>2, <2>3
  <1>2. CASE s \in Kits /\ t \in Kits
    <2>1. s = <<"kit", s[2]>> /\ t = <<"kit", t[2]>> BY <1>2, SlotTypes
    <2>2. s[2] \in Nat /\ t[2] \in Nat /\ s[2] # t[2] BY <1>0, <1>2, <2>1, SlotTypes
    <2>3. Stride(s) = Stride(t) BY <1>2 DEF Stride, Payload
    <2>4. Addr(s) = KitBase + s[2] * Stride(s) /\ Addr(t) = KitBase + t[2] * Stride(s)
      BY <1>2 DEF Addr, Stride, Payload
    <2> QED BY <1>1, <2>2, <2>3, <2>4, BasesWhole
  <1>3. CASE s \notin Kits /\ t \notin Kits
    <2>1. s = <<"pattern", s[2]>> /\ t = <<"pattern", t[2]>> BY <1>3, SlotTypes
    <2>2. s[2] \in Nat /\ t[2] \in Nat /\ s[2] # t[2]
      BY <1>3, <2>1, SlotTypes, StorageAssumption
    <2>3. Stride(s) = Stride(t) BY <1>3 DEF Stride, Payload
    <2>4. Addr(s) = PatternBase + s[2] * Stride(s) /\ Addr(t) = PatternBase + t[2] * Stride(s)
      BY <1>3 DEF Addr, Stride, Payload
    <2> QED BY <1>1, <2>2, <2>3, <2>4, BasesWhole
  <1>4. ASSUME NEW u \in Slots, NEW v \in Slots, u \in Kits, v \notin Kits
        PROVE  Addr(u) + Stride(u) <= Addr(v)
    <2>1. u[2] \in Nat /\ u[2] < KitSlots /\ v[2] \in Nat
      BY <1>0, <1>4, SlotTypes, StorageAssumption
    <2>2. Stride(u) = SlotStride(KitPages) /\ Stride(u) \in Nat /\ Stride(v) \in Nat
      BY <1>4, SlotsOnChip DEF Stride, Payload
    <2>3. u[2] * Stride(u) + Stride(u) <= KitSlots * Stride(u) BY <1>0, <2>1, <2>2, StepUp
    <2>4. Addr(u) = KitBase + u[2] * Stride(u) /\ Addr(v) = PatternBase + v[2] * Stride(v)
      BY <1>4 DEF Addr, Stride, Payload
    <2>5. u[2] * Stride(u) \in Nat /\ v[2] * Stride(v) \in Nat /\ KitSlots * Stride(u) \in Nat
      BY <1>0, <2>1, <2>2
    <2>6. PatternBase = KitBase + KitSlots * Stride(u) BY <2>2 DEF PatternBase
    <2> QED BY <2>2, <2>3, <2>4, <2>5, <2>6, BasesWhole
  <1> QED BY <1>2, <1>3, <1>4

(* The sector of a page that starts one. *)
LEMMA WholeSector ==
  ASSUME NEW k \in Nat
  PROVE  Sector(SectorPages * k) = SectorPages * k .. SectorPages * k + SectorPages - 1
  <1>1. SectorPages \in Nat \ {0} BY StorageAssumption
  <1>2. (SectorPages * k) % SectorPages = 0 /\ SectorPages * k \in Nat BY <1>1
  <1> QED BY <1>1, <1>2 DEF Sector

-----------------------------------------------------------------------------
(* The invariant. *)

Region(s) == Addr(s) .. Addr(s) + Stride(s) - 1

(* How far the save in progress has got. *)
Progress ==
  /\ phase \in {"erase", "write"} => target \in cut /\ target \in Slots /\ saves >= 1
  /\ phase = "erase" =>
       /\ pos \in Region(target)
       /\ \E k \in Nat : pos = SectorPages * k
       /\ \A p \in Addr(target) .. pos - 1 : chip[p] = Erased
  /\ phase = "write" =>
       /\ pos \in Addr(target) .. Addr(target) + Payload(target) - 1
       /\ \A p \in Addr(target) .. pos - 1 : chip[p] = Page(saves, p - Addr(target))
       /\ \A p \in pos .. Addr(target) + Payload(target) - 1 : chip[p] = Erased

IInv == TypeOK /\ Progress /\ LoadsLastSave

(* A page that has been written is neither erased nor garbage. *)
LEMMA PageIsWritten ==
  ASSUME NEW n \in Nat, n # 0, NEW i
  PROVE  Page(n, i) # Erased /\ Page(n, i) # Garbage
  <1>1. Page(n, i)[1] = n /\ Erased[1] = 0 /\ Garbage[1] = -1
    BY DEF Page, Erased, Garbage
  <1> QED BY <1>1

LEMMA NoSlotIsNone == NoSlot \notin Slots
  BY DEF NoSlot, Slots, Kits, Patterns

(* A slot whose pages are left alone keeps what it holds. *)
LEMMA Untouched ==
  ASSUME NEW s \in Slots, TypeOK, s \notin cut, LoadsLastSave,
         held'[s] = held[s],
         \A p \in Region(s) : chip'[p] = chip[p]
  PROVE  IF held'[s] = 0 THEN Validate(s)' = "Empty" ELSE Holds(s, held[s])'
  <1>1. Payload(s) \in Nat \ {0} /\ Addr(s) \in Nat /\ Stride(s) \in Nat
          /\ Payload(s) <= Stride(s)
    BY SlotTypes, SlotsOnChip
  <1>2. \A i \in 0 .. Payload(s) - 1 : chip'[Addr(s) + i] = chip[Addr(s) + i]
    BY <1>1 DEF Region
  <1>3. chip'[Addr(s)] = chip[Addr(s)] BY <1>1 DEF Region
  <1>4. Read(s)' = Read(s) BY <1>2 DEF Read
  <1>5. Validate(s)' = Validate(s) BY <1>3 DEF Validate
  <1> QED BY <1>4, <1>5 DEF LoadsLastSave, Holds

LEMMA InitIInv == Init => IInv
  <1> SUFFICES ASSUME Init PROVE IInv OBVIOUS
  <1>1. ChipPages \in Nat /\ ChipPages >= 1 /\ MaxSaves \in Nat
    <2>1. SectorPages \in Nat \ {0} BY StorageAssumption
    <2>2. <<"kit", 0>> \in Slots BY StorageAssumption DEF Slots, Kits
    <2> QED BY <2>2, SlotsOnChip, SlotTypes, StorageAssumption
  <1>2. TypeOK BY <1>1, NoSlotIsNone DEF Init, TypeOK, PageContents
  <1>3. Progress BY DEF Init, Progress
  <1>4. LoadsLastSave
    <2> SUFFICES ASSUME NEW s \in Slots PROVE Validate(s) = "Empty"
      BY DEF LoadsLastSave, Init
    <2>1. Addr(s) \in 0 .. ChipPages - 1 BY SlotsOnChip, SlotTypes, <1>1
    <2> QED BY <2>1 DEF Init, Validate
  <1> QED BY <1>2, <1>3, <1>4 DEF IInv

LEMMA NextIInv == IInv /\ [Next]_vars => IInv'
  <1> SUFFICES ASSUME IInv, [Next]_vars PROVE IInv' OBVIOUS
  <1>0. SectorPages \in Nat \ {0} /\ ChipPages \in Nat /\ MaxSaves \in Nat
    BY StorageAssumption
  <1>00. TypeOK /\ Progress /\ LoadsLastSave BY DEF IInv
  <1>1. ASSUME NEW s \in Slots, BeginSave(s) PROVE IInv'
    <2>0. Addr(s) \in Nat /\ Stride(s) \in Nat /\ Payload(s) \in Nat \ {0}
            /\ Payload(s) <= Stride(s) /\ Addr(s) + Stride(s) <= ChipPages
      BY SlotsOnChip, SlotTypes
    <2>1. TypeOK' BY <1>0, <1>00, <1>1, <2>0, NoSlotIsNone DEF TypeOK, BeginSave
    <2>2. Progress'
      <3>1. Addr(s) \in Region(s) BY <2>0 DEF Region
      <3>2. \E k \in Nat : Addr(s) = SectorPages * k BY SlotsOnChip
      <3> QED BY <1>00, <1>1, <2>0, <3>1, <3>2 DEF Progress, BeginSave, TypeOK
    <2>3. LoadsLastSave'
      <3> SUFFICES ASSUME NEW t \in Slots, t \notin cut'
                   PROVE IF held'[t] = 0 THEN Validate(t)' = "Empty" ELSE Holds(t, held[t])'
        BY <1>1 DEF LoadsLastSave, BeginSave
      <3> QED BY <1>00, <1>1, Untouched DEF BeginSave
    <2> QED BY <2>1, <2>2, <2>3 DEF IInv
  <1>2. CASE EraseStep
    <2>1. target \in Slots /\ target \in cut /\ saves >= 1 /\ pos \in Region(target)
      BY <1>00, <1>2 DEF Progress, EraseStep
    <2>2. /\ Addr(target) \in Nat /\ Stride(target) \in Nat /\ Payload(target) \in Nat \ {0}
          /\ Payload(target) <= Stride(target) /\ Addr(target) + Stride(target) <= ChipPages
      BY <2>1, SlotsOnChip, SlotTypes
    <2>3. PICK k \in Nat : pos = SectorPages * k BY <1>00, <1>2 DEF Progress, EraseStep
    <2>4. PICK m \in Nat : Addr(target) + Stride(target) = SectorPages * m
      BY <2>1, SlotsOnChip
    <2>5. Sector(pos) = pos .. pos + SectorPages - 1 BY <2>3, WholeSector
    <2>6. pos + SectorPages <= Addr(target) + Stride(target)
      <3>1. SectorPages * k < SectorPages * m BY <2>1, <2>2, <2>3, <2>4 DEF Region
      <3>2. k < m BY <3>1, <1>0
      <3>3. k * SectorPages + SectorPages <= m * SectorPages BY <1>0, <3>2, StepUp
      <3> QED BY <1>0, <2>3, <2>4, <3>3
    <2>7. EraseEnd(target) = Addr(target) + Stride(target) - 1 BY DEF EraseEnd, Stride
    <2>8. pos \in Nat BY <2>1, <2>2 DEF Region
    <2>9. \A p \in 0 .. ChipPages - 1 :
            chip'[p] = IF p \in pos .. pos + SectorPages - 1 THEN Erased ELSE chip[p]
      BY <1>00, <1>2, <2>5 DEF EraseStep, EraseSector, TypeOK
    <2>10. TypeOK'
      <3>1. chip' \in [0 .. ChipPages - 1 -> PageContents]
        BY <1>00, <1>2 DEF TypeOK, EraseStep, EraseSector, PageContents
      <3> QED BY <1>0, <1>00, <1>2, <2>1, <2>2, <2>6, <2>7, <2>8, <3>1, NoSlotIsNone
              DEF TypeOK, EraseStep
    <2>11. Progress'
      <3>1. \A p \in Addr(target) .. pos - 1 : chip[p] = Erased
        BY <1>00, <1>2 DEF Progress, EraseStep
      <3>2. \A p \in Addr(target) .. pos + SectorPages - 1 : chip'[p] = Erased
        BY <1>0, <2>2, <2>6, <2>8, <2>9, <3>1
      <3>3. CASE pos + SectorPages > EraseEnd(target)
        <4>1. phase' = "write" /\ pos' = Addr(target) /\ target' = target /\ saves' = saves
                /\ cut' = cut
          BY <1>2, <3>3 DEF EraseStep
        <4>2. \A p \in pos' .. Addr(target) + Payload(target) - 1 : chip'[p] = Erased
          BY <1>0, <2>2, <2>7, <2>8, <3>2, <3>3, <4>1
        <4> QED BY <2>1, <2>2, <4>1, <4>2 DEF Progress
      <3>4. CASE ~(pos + SectorPages > EraseEnd(target))
        <4>1. phase' = "erase" /\ pos' = pos + SectorPages /\ target' = target
                /\ saves' = saves /\ cut' = cut
          BY <1>2, <3>4 DEF EraseStep
        <4>2. pos' \in Region(target)
          BY <1>0, <2>1, <2>2, <2>7, <2>8, <3>4, <4>1 DEF Region
        <4>3. pos' = SectorPages * (k + 1) /\ k + 1 \in Nat BY <1>0, <2>3, <4>1, SumsWhole
        <4>4. \A p \in Addr(target') .. pos' - 1 : chip'[p] = Erased
          BY <2>8, <1>0, <3>2, <4>1
        <4>5. pos' \in Region(target') BY <4>1, <4>2
        <4> QED BY <2>1, <4>1, <4>3, <4>4, <4>5 DEF Progress
      <3> QED BY <3>3, <3>4
    <2>12. LoadsLastSave'
      <3> SUFFICES ASSUME NEW t \in Slots, t \notin cut'
                   PROVE IF held'[t] = 0 THEN Validate(t)' = "Empty" ELSE Holds(t, held[t])'
        BY <1>2 DEF LoadsLastSave, EraseStep
      <3>1. t \notin cut /\ t # target /\ held' = held BY <1>2, <2>1 DEF EraseStep
      <3>2. Addr(t) \in Nat /\ Stride(t) \in Nat /\ Addr(t) + Stride(t) <= ChipPages
        BY SlotsOnChip
      <3>3. Addr(t) + Stride(t) <= Addr(target) \/ Addr(target) + Stride(target) <= Addr(t)
        BY <2>1, <3>1, SlotsApart
      <3>4. \A p \in Region(t) : chip'[p] = chip[p]
        BY <1>0, <2>1, <2>2, <2>6, <2>8, <2>9, <3>2, <3>3 DEF Region
      <3> QED BY <1>00, <3>1, <3>4, Untouched
    <2> QED BY <2>10, <2>11, <2>12 DEF IInv
  <1>3. CASE WriteStep
    <2>1. /\ target \in Slots /\ target \in cut /\ saves >= 1
          /\ pos \in Addr(target) .. Addr(target) + Payload(target) - 1
          /\ \A p \in Addr(target) .. pos - 1 : chip[p] = Page(saves, p - Addr(target))
          /\ \A p \in pos .. Addr(target) + Payload(target) - 1 : chip[p] = Erased
      BY <1>00, <1>3 DEF Progress, WriteStep
    <2>2. /\ Addr(target) \in Nat /\ Stride(target) \in Nat /\ Payload(target) \in Nat \ {0}
          /\ Payload(target) <= Stride(target) /\ Addr(target) + Stride(target) <= ChipPages
      BY <2>1, SlotsOnChip, SlotTypes
    <2>3. pos \in 0 .. ChipPages - 1 /\ saves \in 1 .. MaxSaves
      BY <1>00, <2>1 DEF TypeOK
    <2>4. chip' = [chip EXCEPT ![pos] = Page(saves, pos - Addr(target))]
      <3>1. chip[pos] = Erased BY <2>1, <2>2
      <3> QED BY <1>3, <3>1 DEF WriteStep, Program
    <2>5. \A p \in 0 .. ChipPages - 1 :
            chip'[p] = IF p = pos THEN Page(saves, pos - Addr(target)) ELSE chip[p]
      BY <1>00, <2>3, <2>4 DEF TypeOK
    <2>6. \A p \in Addr(target) .. pos : chip'[p] = Page(saves, p - Addr(target))
      BY <1>0, <2>1, <2>2, <2>3, <2>5
    <2>7. Page(saves, pos - Addr(target)) \in PageContents
      BY <1>0, <2>1, <2>2, <2>3 DEF PageContents
    <2>8. TypeOK'
      <3>1. chip' \in [0 .. ChipPages - 1 -> PageContents]
        BY <1>00, <2>3, <2>4, <2>7 DEF TypeOK
      <3>2. CASE pos + 1 < Addr(target) + Payload(target)
        BY <1>0, <1>00, <1>3, <2>1, <2>2, <2>3, <3>1, <3>2, NoSlotIsNone DEF TypeOK, WriteStep
      <3>3. CASE ~(pos + 1 < Addr(target) + Payload(target))
        <4>1. held' \in [Slots -> 0 .. MaxSaves] BY <1>00, <1>3, <2>3, <3>3 DEF TypeOK, WriteStep
        <4> QED BY <1>0, <1>00, <1>3, <2>3, <3>1, <3>3, <4>1, NoSlotIsNone DEF TypeOK, WriteStep
      <3> QED BY <3>2, <3>3
    <2>9. Progress'
      <3>1. CASE pos + 1 < Addr(target) + Payload(target)
        <4>1. phase' = "write" /\ pos' = pos + 1 /\ target' = target /\ cut' = cut
                /\ saves' = saves
          BY <1>3, <3>1 DEF WriteStep
        <4>2. \A p \in pos' .. Addr(target) + Payload(target) - 1 : chip'[p] = Erased
          BY <1>0, <2>1, <2>2, <2>3, <2>5, <4>1
        <4> QED BY <2>1, <2>2, <2>6, <3>1, <4>1, <4>2 DEF Progress
      <3>2. CASE ~(pos + 1 < Addr(target) + Payload(target))
        BY <1>3, <3>2 DEF WriteStep, Progress
      <3> QED BY <3>1, <3>2
    <2>10. LoadsLastSave'
      <3>1. ASSUME NEW t \in Slots, t # target, t \notin cut
            PROVE IF held'[t] = 0 THEN Validate(t)' = "Empty" ELSE Holds(t, held[t])'
        <4>1. Addr(t) \in Nat /\ Stride(t) \in Nat /\ Addr(t) + Stride(t) <= ChipPages
          BY SlotsOnChip
        <4>2. Addr(t) + Stride(t) <= Addr(target) \/ Addr(target) + Stride(target) <= Addr(t)
          BY <2>1, <3>1, SlotsApart
        <4>3. \A p \in Region(t) : chip'[p] = chip[p]
          BY <1>0, <2>1, <2>2, <2>3, <2>5, <4>1, <4>2 DEF Region
        <4>4. held'[t] = held[t] BY <1>00, <1>3, <3>1 DEF WriteStep, TypeOK
        <4> QED BY <1>00, <3>1, <4>3, <4>4, Untouched
      <3>2. CASE pos + 1 < Addr(target) + Payload(target)
        <4>1. cut' = cut BY <1>3, <3>2 DEF WriteStep
        <4> QED BY <2>1, <3>1, <4>1 DEF LoadsLastSave
      <3>3. CASE ~(pos + 1 < Addr(target) + Payload(target))
        <4>1. cut' = cut \ {target} /\ held' = [held EXCEPT ![target] = saves]
          BY <1>3, <3>3 DEF WriteStep
        <4>2. PICK s \in Slots : s = target BY <2>1
        <4>3. held'[s] = saves /\ saves # 0 BY <1>00, <2>1, <2>3, <4>1, <4>2 DEF TypeOK
        <4>4. \A i \in 0 .. Payload(s) - 1 : chip'[Addr(s) + i] = Page(saves, i)
          BY <2>1, <2>2, <2>3, <2>6, <3>3, <4>2
        <4>5. chip'[Addr(s)] = Page(saves, 0) BY <2>2, <4>2, <4>4
        <4>6. chip'[Addr(s)] # Erased /\ chip'[Addr(s)] # Garbage
          BY <1>0, <2>3, <4>5, PageIsWritten
        <4>7. Validate(s)' = "Ok" BY <4>6 DEF Validate
        <4>8. Read(s)' = [i \in 0 .. Payload(s) - 1 |-> Page(saves, i)] BY <4>4 DEF Read
        <4>9. Holds(s, held[s])' BY <4>3, <4>7, <4>8 DEF Holds
        <4> QED BY <2>3, <3>1, <4>1, <4>2, <4>3, <4>9 DEF LoadsLastSave
      <3> QED BY <3>2, <3>3
    <2> QED BY <2>8, <2>9, <2>10 DEF IInv
  <1>4. CASE Cut
    <2>1. target \in Slots /\ target \in cut
      BY <1>00, <1>4 DEF Progress, Cut, TypeOK
    <2>2. /\ Addr(target) \in Nat /\ Stride(target) \in Nat /\ Payload(target) \in Nat \ {0}
          /\ Payload(target) <= Stride(target) /\ Addr(target) + Stride(target) <= ChipPages
      BY <2>1, SlotsOnChip, SlotTypes
    <2>3. ASSUME phase = "erase" PROVE Sector(pos) \subseteq Region(target)
      <3>1. pos \in Region(target) BY <1>00, <2>3 DEF Progress
      <3>2. PICK k \in Nat : pos = SectorPages * k BY <1>00, <2>3 DEF Progress
      <3>3. PICK m \in Nat : Addr(target) + Stride(target) = SectorPages * m
        BY <2>1, SlotsOnChip
      <3>4. SectorPages * k < SectorPages * m BY <2>2, <3>1, <3>2, <3>3 DEF Region
      <3>5. k < m BY <3>4, <1>0
      <3>6. k * SectorPages + SectorPages <= m * SectorPages BY <1>0, <3>5, StepUp
      <3>7. pos + SectorPages <= Addr(target) + Stride(target) BY <1>0, <3>2, <3>3, <3>6
      <3>8. Sector(pos) = pos .. pos + SectorPages - 1 BY <3>2, WholeSector
      <3>9. pos \in Nat /\ pos >= Addr(target) BY <2>2, <3>1 DEF Region
      <3> QED BY <1>0, <2>2, <3>7, <3>8, <3>9 DEF Region
    <2>4. ASSUME phase = "write" PROVE {pos} \subseteq Region(target)
      BY <1>00, <2>2, <2>4 DEF Progress, Region
    <2>5. PICK torn \in SUBSET Region(target) :
            chip' = [p \in DOMAIN chip |-> IF p \in torn THEN Garbage ELSE chip[p]]
      BY <1>00, <1>4, <2>3, <2>4 DEF Cut, TypeOK
    <2>6. TypeOK'
      BY <1>00, <1>0, <1>4, <2>5 DEF TypeOK, Cut, PageContents
    <2>7. Progress' BY <1>4 DEF Progress, Cut
    <2>8. LoadsLastSave'
      <3> SUFFICES ASSUME NEW t \in Slots, t \notin cut'
                   PROVE IF held'[t] = 0 THEN Validate(t)' = "Empty" ELSE Holds(t, held[t])'
        BY <1>4 DEF LoadsLastSave, Cut
      <3>1. t \notin cut /\ t # target /\ held' = held BY <1>4, <2>1 DEF Cut
      <3>2. Addr(t) \in Nat /\ Stride(t) \in Nat /\ Addr(t) + Stride(t) <= ChipPages
        BY SlotsOnChip
      <3>3. Addr(t) + Stride(t) <= Addr(target) \/ Addr(target) + Stride(target) <= Addr(t)
        BY <2>1, <3>1, SlotsApart
      <3>4. \A p \in Region(t) : p \in DOMAIN chip /\ p \notin Region(target)
        BY <1>0, <1>00, <2>2, <3>2, <3>3 DEF Region, TypeOK
      <3>5. \A p \in Region(t) : chip'[p] = chip[p] BY <2>5, <3>4
      <3> QED BY <1>00, <3>1, <3>5, Untouched
    <2> QED BY <2>6, <2>7, <2>8 DEF IInv
  <1>5. CASE UNCHANGED vars
    BY <1>5 DEF IInv, TypeOK, Progress, LoadsLastSave, Holds, Validate, Read, vars
  <1> QED BY <1>1, <1>2, <1>3, <1>4, <1>5 DEF Next

(* The types of the state, for any layout. *)
THEOREM TypeCorrect == Spec => []TypeOK
  <1>1. IInv => TypeOK BY DEF IInv
  <1> QED BY InitIInv, NextIInv, <1>1, PTL DEF Spec

(* Whatever is saved and wherever saves are cut short, every slot that is   *)
(* not the victim of a cut loads exactly what its last save wrote.          *)
THEOREM SlotsKeepSaves == Spec => []LoadsLastSave
  <1>1. IInv => LoadsLastSave BY DEF IInv
  <1> QED BY InitIInv, NextIInv, <1>1, PTL DEF Spec

-----------------------------------------------------------------------------
(* The wire.  What Pack7 makes of any bytes Unpack7 makes them of again.     *)

LEMMA BulkFacts ==
  /\ ChunkData \in Nat /\ ChunkData > 0 /\ Cap \in Nat /\ Group = 7
  /\ \A c \in Cmds : Size[c] \in 1 .. Cap
  /\ \A t \in Transfers : /\ t.cmd \in Cmds /\ t.slot \in Nat
                          /\ t.data \in Seq(Bytes) /\ Len(t.data) \in Nat /\ Len(t.data) > 0
BY SysExBulkAssumption DEF Group

LEMMA SevenBits ==
  ASSUME NEW n \in Nat
  PROVE  \E q \in Nat, r \in 0 .. 6 : n = 7 * q + r
<1> WITNESS n \div 7 \in Nat, n % 7 \in 0 .. 6
<1> QED
  OBVIOUS

(* The position of a byte on the wire, and of the mask of its group. *)
LEMMA Places ==
  ASSUME NEW q \in Nat, NEW k \in 0 .. 7
  PROVE  /\ (8 * q + k) \div 8 = q /\ (8 * q + k) % 8 = k
OBVIOUS

LEMMA UnpackedAt ==
  ASSUME NEW q \in Nat, NEW k \in 1 .. 7
  PROVE  Unpacked7Size(8 * q + k) = 7 * q + (k - 1)
<1>1. (8 * q + k) \div 8 = q /\ (8 * q + k) % 8 = k
  OBVIOUS
<1>2. 7 + 1 = 8
  OBVIOUS
<1> QED
  BY <1>1, <1>2 DEF Unpacked7Size, Group

LEMMA UnpackedWhole ==
  ASSUME NEW q \in Nat PROVE Unpacked7Size(8 * q) = 7 * q
BY DEF Unpacked7Size, Group

(* The sizes of a packing, and of one a byte short. *)
LEMMA PackedSizes ==
  ASSUME NEW n \in Nat
  PROVE  /\ Packed7Size(n) \in Nat
         /\ Unpacked7Size(Packed7Size(n)) = n
         /\ n > 0 => Packed7Size(n) >= 2 /\ Unpacked7Size(Packed7Size(n) - 1) = n - 1
<1>1. PICK q \in Nat, r \in 0 .. 6 : n = 7 * q + r
  BY SevenBits
<1>2. Packed7Size(n) = IF r = 0 THEN 8 * q ELSE 8 * q + (r + 1)
  BY <1>1 DEF Packed7Size, CeilDiv, Group
<1>3. CASE r = 0
  <2>1. Packed7Size(n) = 8 * q /\ Unpacked7Size(8 * q) = 7 * q
    BY <1>2, <1>3, UnpackedWhole
  <2>2. CASE n > 0
    <3>1. PICK p \in Nat : q = p + 1
      BY <1>1, <1>3, <2>2
    <3>2. Unpacked7Size(8 * p + 7) = 7 * p + 6
      BY UnpackedAt
    <3>3. Packed7Size(n) - 1 = 8 * p + 7 /\ Packed7Size(n) >= 2
      BY <2>1, <3>1
    <3> QED
      BY <1>1, <1>3, <2>1, <3>1, <3>2, <3>3
  <2> QED
    BY <1>1, <1>3, <2>1, <2>2
<1>4. CASE r # 0
  <2>1. PICK k \in 2 .. 7 : k = r + 1
    BY <1>4
  <2>2. Unpacked7Size(8 * q + k) = 7 * q + (k - 1)
    <3>1. ASSUME NEW j \in 1 .. 7 PROVE Unpacked7Size(8 * q + j) = 7 * q + (j - 1)
      BY UnpackedAt
    <3> QED
      BY <3>1
  <2>3. Unpacked7Size(8 * q + r) = 7 * q + (r - 1)
    <3>1. ASSUME NEW j \in 1 .. 7 PROVE Unpacked7Size(8 * q + j) = 7 * q + (j - 1)
      BY UnpackedAt
    <3>2. r \in 1 .. 7
      BY <1>4
    <3> QED
      BY <3>1, <3>2
  <2>4. Packed7Size(n) = 8 * q + k
    BY <1>2, <1>4, <2>1
  <2>5. Packed7Size(n) - 1 = 8 * q + r /\ Packed7Size(n) >= 2
    BY <2>1, <2>4
  <2> QED
    BY <1>1, <2>1, <2>2, <2>3, <2>4, <2>5
<1> QED
  BY <1>3, <1>4

LEMMA PackedRoom ==
  ASSUME NEW n \in Nat, NEW q \in Nat, NEW k \in 1 .. 7, 7 * q + k <= n
  PROVE  8 * q + 1 + k <= Packed7Size(n)
BY DEF Packed7Size, CeilDiv, Group

Bit(s, j) == IF j <= Len(s) /\ s[j] >= 128 THEN 1 ELSE 0

LEMMA BitTypes ==
  ASSUME NEW s \in Seq(Bytes), NEW j \in Nat PROVE Bit(s, j) \in {0, 1}
BY DEF Bit

LEMMA MaskBits ==
  ASSUME NEW s \in Seq(Bytes), NEW q \in Nat
  PROVE  /\ Mask(s, q) \in 0 .. 127
         /\ \A k \in 1 .. 7 : HighBit(Mask(s, q), k) = Bit(s, 7 * q + k)
<1> DEFINE B(k) == Bit(s, 7 * q + k)
<1>1. \A k \in 1 .. 7 : B(k) \in {0, 1}
  BY BitTypes
<1>2. Mask(s, q) = B(1) + 2 * B(2) + 4 * B(3) + 8 * B(4) + 16 * B(5) + 32 * B(6) + 64 * B(7)
  <2>1. /\ Weight[1] = 1 /\ Weight[2] = 2 /\ Weight[3] = 4 /\ Weight[4] = 8
        /\ Weight[5] = 16 /\ Weight[6] = 32 /\ Weight[7] = 64
    BY DEF Weight
  <2> DEFINE W(k) == IF 7 * q + k <= Len(s) /\ s[7 * q + k] >= 128 THEN Weight[k] ELSE 0
  <2>2. Mask(s, q) = W(1) + W(2) + W(3) + W(4) + W(5) + W(6) + W(7)
    BY DEF Mask, Group
  <2>3. /\ W(1) = B(1) /\ W(2) = 2 * B(2) /\ W(3) = 4 * B(3) /\ W(4) = 8 * B(4)
        /\ W(5) = 16 * B(5) /\ W(6) = 32 * B(6) /\ W(7) = 64 * B(7)
    BY <2>1 DEF Bit
  <2> HIDE DEF W, B
  <2> QED
    BY <2>2, <2>3
<1> HIDE DEF B
<1>3. PICK a \in {0, 1}, b \in {0, 1}, c \in {0, 1}, d \in {0, 1},
           e \in {0, 1}, f \in {0, 1}, g \in {0, 1} :
        /\ a = B(1) /\ b = B(2) /\ c = B(3) /\ d = B(4) /\ e = B(5) /\ f = B(6) /\ g = B(7)
  BY <1>1
<1>4. PICK m : m = Mask(s, q)
  OBVIOUS
<1>5. /\ a \in {0, 1} /\ b \in {0, 1} /\ c \in {0, 1} /\ d \in {0, 1}
      /\ e \in {0, 1} /\ f \in {0, 1} /\ g \in {0, 1}
      /\ m = a + 2 * b + 4 * c + 8 * d + 16 * e + 32 * f + 64 * g
  BY <1>2, <1>3, <1>4
<1>6. /\ Weight[1] = 1 /\ Weight[2] = 2 /\ Weight[3] = 4 /\ Weight[4] = 8
      /\ Weight[5] = 16 /\ Weight[6] = 32 /\ Weight[7] = 64
  BY DEF Weight
<1>7. m \in 0 .. 127
  BY ONLY <1>5
<1>8. HighBit(m, 1) = a
  <2>1. m \div 1 = a + 2 * b + 4 * c + 8 * d + 16 * e + 32 * f + 64 * g
    BY ONLY <1>5
  <2>2. (a + 2 * b + 4 * c + 8 * d + 16 * e + 32 * f + 64 * g) % 2 = a
    BY ONLY <1>5
  <2> QED
    BY ONLY <1>6, <2>1, <2>2 DEF HighBit
<1>9. HighBit(m, 2) = b
  <2>1. m \div 2 = b + 2 * c + 4 * d + 8 * e + 16 * f + 32 * g
    BY ONLY <1>5
  <2>2. (b + 2 * c + 4 * d + 8 * e + 16 * f + 32 * g) % 2 = b
    BY ONLY <1>5
  <2> QED
    BY ONLY <1>6, <2>1, <2>2 DEF HighBit
<1>10. HighBit(m, 3) = c
  <2>1. m \div 4 = c + 2 * d + 4 * e + 8 * f + 16 * g
    BY ONLY <1>5
  <2>2. (c + 2 * d + 4 * e + 8 * f + 16 * g) % 2 = c
    BY ONLY <1>5
  <2> QED
    BY ONLY <1>6, <2>1, <2>2 DEF HighBit
<1>11. HighBit(m, 4) = d
  <2>1. m \div 8 = d + 2 * e + 4 * f + 8 * g
    BY ONLY <1>5
  <2>2. (d + 2 * e + 4 * f + 8 * g) % 2 = d
    BY ONLY <1>5
  <2> QED
    BY ONLY <1>6, <2>1, <2>2 DEF HighBit
<1>12. HighBit(m, 5) = e
  <2>1. m \div 16 = e + 2 * f + 4 * g
    BY ONLY <1>5
  <2>2. (e + 2 * f + 4 * g) % 2 = e
    BY ONLY <1>5
  <2> QED
    BY ONLY <1>6, <2>1, <2>2 DEF HighBit
<1>13. HighBit(m, 6) = f
  <2>1. m \div 32 = f + 2 * g
    BY ONLY <1>5
  <2>2. (f + 2 * g) % 2 = f
    BY ONLY <1>5
  <2> QED
    BY ONLY <1>6, <2>1, <2>2 DEF HighBit
<1>14. HighBit(m, 7) = g
  <2>1. m \div 64 = g
    BY ONLY <1>5
  <2>2. g % 2 = g
    BY ONLY <1>5
  <2> QED
    BY ONLY <1>6, <2>1, <2>2 DEF HighBit
<1> QED
  BY <1>3, <1>4, <1>7, <1>8, <1>9, <1>10, <1>11, <1>12, <1>13, <1>14 DEF B

LEMMA PackLength ==
  ASSUME NEW s \in Seq(Bytes)
  PROVE  /\ Pack7(s) \in Seq(Int) /\ Len(Pack7(s)) = Packed7Size(Len(s))
         /\ \A i \in 1 .. Len(Pack7(s)) : Pack7(s)[i] \in 0 .. 127
         /\ \A q \in Nat : /\ 8 * q + 1 <= Packed7Size(Len(s)) => Pack7(s)[8 * q + 1] = Mask(s, q)
                           /\ \A k \in 1 .. 7 : 7 * q + k <= Len(s) =>
                                Pack7(s)[8 * q + 1 + k] = s[7 * q + k] % 128
<1> DEFINE n == Packed7Size(Len(s))
           At(i) == LET g == (i - 1) \div 8
                        k == (i - 1) % 8
                    IN IF k = 0 THEN Mask(s, g) ELSE s[7 * g + k] % 128
<1>1. n \in Nat /\ Len(s) \in Nat
  BY PackedSizes
<1>2. Pack7(s) = [i \in 1 .. n |-> At(i)]
  BY DEF Pack7, Group
<1>3. ASSUME NEW i \in 1 .. n PROVE At(i) \in 0 .. 127
  <2> DEFINE g == (i - 1) \div 8
             k == (i - 1) % 8
  <2>1. g \in Nat /\ k \in 0 .. 7 /\ i = 8 * g + k + 1
    BY <1>1
  <2> HIDE DEF g, k
  <2>2. CASE k = 0
    BY <2>1, <2>2, MaskBits DEF g, k
  <2>3. CASE k # 0
    <3>1. 7 * g + k <= Len(s)
      <4>1. n = Len(s) + ((Len(s) + 6) \div 7)
        BY DEF Packed7Size, CeilDiv, Group
      <4> QED
        BY <1>1, <2>1, <2>3, <4>1
    <3>2. 7 * g + k \in 1 .. Len(s)
      BY <1>1, <2>1, <2>3, <3>1
    <3>3. s[7 * g + k] % 128 \in 0 .. 127
      <4>1. ASSUME NEW b \in Bytes PROVE b % 128 \in 0 .. 127
        BY DEF Bytes
      <4>2. s[7 * g + k] \in Bytes
        BY <3>2, ElementOfSeq
      <4> QED
        BY <4>1, <4>2
    <3> QED
      BY <2>3, <3>3 DEF g, k
  <2> QED
    BY <2>2, <2>3
<1>4. ASSUME NEW q \in Nat PROVE 8 * q + 1 <= n => Pack7(s)[8 * q + 1] = Mask(s, q)
  <2>1. (8 * q + 0) \div 8 = q /\ (8 * q + 0) % 8 = 0
    BY Places
  <2>2. At(8 * q + 1) = Mask(s, q)
    BY <2>1
  <2> QED
    BY <1>1, <1>2, <2>2
<1>5. ASSUME NEW q \in Nat, NEW k \in 1 .. 7, 7 * q + k <= Len(s)
      PROVE  Pack7(s)[8 * q + 1 + k] = s[7 * q + k] % 128
  <2>1. (8 * q + k) \div 8 = q /\ (8 * q + k) % 8 = k
    OBVIOUS
  <2>2. 8 * q + 1 + k \in 1 .. n
    BY <1>1, <1>5, PackedRoom
  <2>3. At(8 * q + 1 + k) = s[7 * q + k] % 128
    BY <2>1
  <2> QED
    BY <1>2, <2>2, <2>3
<1> HIDE DEF At, n
<1>6. Pack7(s) \in Seq(Int) /\ Len(Pack7(s)) = n
  <2>1. Pack7(s) \in [1 .. n -> Int]
    BY <1>2, <1>3
  <2> QED
    BY <1>1, <2>1, SeqDef, LenProperties
<1> QED
  BY <1>1, <1>2, <1>3, <1>4, <1>5, <1>6 DEF n

(* The codec is exact, on every sequence of bytes. *)
LEMMA UnpackPack ==
  ASSUME NEW s \in Seq(Bytes)
  PROVE  Unpacked(Pack7(s)) = s
<1> DEFINE w == Pack7(s)
<1>0. Len(s) \in Nat
  OBVIOUS
<1>1. Len(w) = Packed7Size(Len(s)) /\ Unpacked7Size(Len(w)) = Len(s)
  BY <1>0, PackLength, PackedSizes
<1>2. ASSUME NEW i \in 1 .. Len(s)
      PROVE  w[8 * ((i - 1) \div 7) + 1 + ((i - 1) % 7) + 1]
               + 128 * HighBit(w[8 * ((i - 1) \div 7) + 1], ((i - 1) % 7) + 1) = s[i]
  <2> DEFINE q == (i - 1) \div 7
             k == ((i - 1) % 7) + 1
  <2>1. q \in Nat /\ k \in 1 .. 7 /\ i = 7 * q + k
    BY <1>1
  <2> HIDE DEF q, k
  <2>2. w[8 * q + 1 + k] = s[i] % 128 /\ 8 * q + 1 <= Packed7Size(Len(s))
    <3>1. 7 * q + k <= Len(s)
      BY <1>0, <2>1
    <3>2. w[8 * q + 1 + k] = s[7 * q + k] % 128
      BY <2>1, <3>1, PackLength
    <3>3. 8 * q + 1 + k <= Packed7Size(Len(s)) /\ Packed7Size(Len(s)) \in Nat
      BY <1>0, <2>1, <3>1, PackedRoom, PackedSizes
    <3> QED
      BY <2>1, <3>2, <3>3
  <2>3. HighBit(w[8 * q + 1], k) = Bit(s, i)
    BY <2>1, <2>2, PackLength, MaskBits
  <2>4. s[i] \in Bytes /\ i <= Len(s)
    BY <1>0
  <2>5. (s[i] % 128) + 128 * Bit(s, i) = s[i]
    <3>1. ASSUME NEW b \in Bytes
          PROVE  (b % 128) + (IF b >= 128 THEN 128 ELSE 0) = b
      BY DEF Bytes
    <3>2. 128 * Bit(s, i) = IF s[i] >= 128 THEN 128 ELSE 0
      BY <2>4 DEF Bit
    <3> QED
      BY <2>4, <3>1, <3>2
  <2>6. w[8 * q + 1 + ((i - 1) % 7) + 1] = w[8 * q + 1 + k]
    <3>1. 8 * q + 1 + ((i - 1) % 7) + 1 = 8 * q + 1 + k
      BY <2>1 DEF k
    <3> QED
      BY <3>1
  <2> QED
    BY <2>2, <2>3, <2>5, <2>6 DEF q, k
<1> QED
  BY <1>0, <1>1, <1>2 DEF Unpacked, Group

-----------------------------------------------------------------------------
(* The chunks of a transfer, and what arrives of them. *)

ChunkLen(t, c) == IF c = Chunks(t) - 1 THEN Len(t.data) - c * ChunkData ELSE ChunkData

LEMMA CeilBounds ==
  ASSUME NEW n \in Nat, NEW d \in Int, d > 0
  PROVE  /\ CeilDiv(n, d) \in Nat
         /\ CeilDiv(n, d) * d >= n /\ CeilDiv(n, d) * d < n + d
<1> DEFINE a == n + d - 1
           k == a \div d
<1>1. a \in Nat
  OBVIOUS
<1> HIDE DEF a
<1>2. k \in Int /\ a % d \in 0 .. d - 1
  BY <1>1
<1>3. a % d = a - d * k
  BY <1>1
<1> HIDE DEF k
<1>4. k * d = d * k /\ d * k \in Int
  BY <1>2
<1>5. k * d <= a /\ k * d > a - d
  BY <1>1, <1>2, <1>3, <1>4
<1>6. k \in Nat
  <2>1. k < 0 => k * d <= -d
    BY <1>2
  <2> QED
    BY <1>1, <1>2, <1>4, <1>5, <2>1
<1> QED
  BY <1>4, <1>5, <1>6 DEF CeilDiv, a, k

LEMMA ChunkTypes ==
  ASSUME NEW t \in Transfers
  PROVE  /\ Chunks(t) \in Nat /\ Chunks(t) > 0
         /\ \A c \in 0 .. Chunks(t) - 1 :
              /\ c * ChunkData \in Nat
              /\ ChunkLen(t, c) \in 1 .. ChunkData
              /\ (c + 1) * ChunkData = c * ChunkData + ChunkData
              /\ c * ChunkData + ChunkLen(t, c) <= Len(t.data)
<1> DEFINE n == Len(t.data)
           k == Chunks(t)
<1>1. n \in Nat /\ n > 0 /\ ChunkData \in Nat /\ ChunkData > 0
  BY BulkFacts
<1>2. k \in Nat /\ k * ChunkData >= n /\ k * ChunkData < n + ChunkData
  <2>1. k = CeilDiv(n, ChunkData)
    BY DEF Chunks, ChunkCount
  <2> HIDE DEF k, n
  <2> QED
    BY <1>1, <2>1, CeilBounds
<1> HIDE DEF k, n
<1>3. k > 0
  <2>1. k = 0 => k * ChunkData = 0
    BY <1>1
  <2> QED
    BY <1>1, <1>2, <2>1
<1>4. ASSUME NEW c \in 0 .. k - 1
      PROVE  /\ c * ChunkData \in Nat
             /\ (IF c = k - 1 THEN n - c * ChunkData ELSE ChunkData) \in 1 .. ChunkData
             /\ (c + 1) * ChunkData = c * ChunkData + ChunkData
             /\ c * ChunkData + (IF c = k - 1 THEN n - c * ChunkData ELSE ChunkData) <= n
  <2>1. c \in Nat /\ c * ChunkData \in Nat /\ (c + 1) * ChunkData = c * ChunkData + ChunkData
    BY <1>1, <1>2
  <2>2. CASE c = k - 1
    <3>1. k * ChunkData = c * ChunkData + ChunkData
      BY <1>2, <2>1, <2>2
    <3> QED
      BY <1>1, <1>2, <2>1, <2>2, <3>1
  <2>3. CASE c # k - 1
    <3>1. PICK j \in Nat : k = c + 2 + j
      BY <1>2, <2>3
    <3>2. k * ChunkData = c * ChunkData + 2 * ChunkData + j * ChunkData /\ j * ChunkData \in Nat
      BY <1>1, <2>1, <3>1
    <3> QED
      BY <1>1, <1>2, <2>1, <2>3, <3>2
  <2> QED
    BY <2>2, <2>3
<1> QED
  BY <1>2, <1>3, <1>4 DEF k, n, ChunkLen

LEMMA ChunkBytes ==
  ASSUME NEW t \in Transfers, NEW c \in 0 .. Chunks(t) - 1
  PROVE  /\ Chunk(t, c) \in Seq(Bytes) /\ Len(Chunk(t, c)) = ChunkLen(t, c)
         /\ \A j \in 1 .. ChunkLen(t, c) : Chunk(t, c)[j] = t.data[c * ChunkData + j]
<1> DEFINE first == c * ChunkData + 1
           last == c * ChunkData + ChunkLen(t, c)
<1>1. /\ c * ChunkData \in Nat /\ ChunkLen(t, c) \in 1 .. ChunkData /\ last <= Len(t.data)
      /\ (c + 1) * ChunkData = c * ChunkData + ChunkData
      /\ t.data \in Seq(Bytes) /\ Len(t.data) \in Nat /\ ChunkData \in Nat
      /\ Chunks(t) \in Nat
  BY ChunkTypes, BulkFacts
<1>2. Min({(c + 1) * ChunkData, Len(t.data)}) = last
  <2>1. ASSUME NEW x \in Nat, NEW y \in Nat, x <= y PROVE Min({x, y}) = x /\ Min({y, x}) = x
    BY <2>1 DEF Min
  <2>2. CASE c = Chunks(t) - 1
    <3>0. ChunkLen(t, c) = Len(t.data) - c * ChunkData
      BY <2>2 DEF ChunkLen
    <3>1. last = Len(t.data) /\ last <= (c + 1) * ChunkData
      BY <1>1, <3>0
    <3> QED
      BY <1>1, <2>1, <3>1
  <2>3. CASE c # Chunks(t) - 1
    <3>1. last = (c + 1) * ChunkData
      BY <1>1, <2>3 DEF ChunkLen
    <3> QED
      BY <1>1, <2>1, <3>1, SMTT(30)
  <2> QED
    BY <2>2, <2>3
<1>3. Chunk(t, c) = SubSeq(t.data, first, last)
  BY <1>2 DEF Chunk
<1>4. first \in Int /\ last \in Int /\ \A i \in first .. last : t.data[i] \in Bytes
  BY <1>1, ElementOfSeq
<1>5. first <= last /\ last - first + 1 = ChunkLen(t, c)
  BY <1>1
<1>6. \A j \in 1 .. ChunkLen(t, c) : first + j - 1 = c * ChunkData + j
  BY <1>1
<1> HIDE DEF first, last
<1> QED
  BY <1>3, <1>4, <1>5, <1>6, SubSeqProperties

LEMMA WholeFrame ==
  ASSUME NEW t \in Transfers, NEW c \in 0 .. Chunks(t) - 1
  PROVE  LET w == Frame(t, c).wire
         IN /\ w = Pack7(Chunk(t, c)) /\ w \in Seq(Int)
            /\ Len(w) = Packed7Size(ChunkLen(t, c)) /\ Len(w) \in Nat /\ Len(w) >= 2
            /\ Unpacked7Size(Len(w)) = ChunkLen(t, c)
            /\ Unpacked7Size(Len(w) - 1) = ChunkLen(t, c) - 1
            /\ \A i \in 1 .. Len(w) : w[i] \in 0 .. 127
<1>1. Frame(t, c).wire = Pack7(Chunk(t, c))
  BY DEF Frame, Wires
<1>2. ChunkLen(t, c) \in Nat /\ ChunkLen(t, c) > 0
  BY ChunkTypes, BulkFacts
<1> QED
  BY <1>1, <1>2, ChunkBytes, PackLength, PackedSizes

(* The bytes of a damaged frame that decodes are one fewer. *)
LEMMA Arrived ==
  ASSUME NEW t \in Transfers, NEW c \in 0 .. Chunks(t) - 1,
         NEW f \in {Frame(t, c)} \cup Damaged(Frame(t, c)), Decodes(f)
  PROVE  /\ f.cmd = t.cmd /\ f.slot = t.slot /\ f.chunk = c /\ f.total = Chunks(t)
         /\ \/ f = Frame(t, c) /\ Unpacked7Size(Len(f.wire)) = ChunkLen(t, c)
            \/ Unpacked7Size(Len(f.wire)) = ChunkLen(t, c) - 1
<1> DEFINE o == Frame(t, c)
           w == o.wire
<1>1. /\ o.cmd = t.cmd /\ o.slot = t.slot /\ o.chunk = c /\ o.total = Chunks(t)
      /\ o = [cmd |-> o.cmd, slot |-> o.slot, chunk |-> o.chunk, total |-> o.total, wire |-> o.wire]
  BY DEF Frame
<1>2. /\ w \in Seq(Int) /\ Len(w) \in Nat /\ Len(w) >= 2
      /\ Unpacked7Size(Len(w)) = ChunkLen(t, c)
      /\ Unpacked7Size(Len(w) - 1) = ChunkLen(t, c) - 1
      /\ \A i \in 1 .. Len(w) : w[i] \in 0 .. 127
  BY WholeFrame
<1> HIDE DEF o
<1>3. CASE f = o
  BY <1>1, <1>2, <1>3 DEF o
<1>4. CASE f = [o EXCEPT !.wire = SubSeq(@, 1, Len(@) - 1)]
  <2>1. f.wire = SubSeq(w, 1, Len(w) - 1)
    BY <1>1, <1>4
  <2>2. Len(f.wire) = Len(w) - 1
    BY <1>2, <2>1
  <2>3. f.cmd = o.cmd /\ f.slot = o.slot /\ f.chunk = o.chunk /\ f.total = o.total
    BY <1>1, <1>4
  <2> QED
    BY <1>1, <1>2, <2>2, <2>3
<1>5. CASE f = [o EXCEPT !.wire[Len(o.wire)] = @ + 128]
  <2>1. f.wire = [w EXCEPT ![Len(w)] = @ + 128]
    BY <1>1, <1>5
  <2>2. Len(w) \in DOMAIN f.wire /\ f.wire[Len(w)] = w[Len(w)] + 128
    BY <1>2, <2>1
  <2>3. f.wire[Len(w)] < 128
    BY <2>2 DEF Decodes
  <2>4. Len(w) \in 1 .. Len(w)
    BY <1>2
  <2>5. w[Len(w)] \in 0 .. 127
    BY <1>2, <2>4
  <2>6. ASSUME NEW x \in 0 .. 127 PROVE ~(x + 128 < 128)
    OBVIOUS
  <2> QED
    BY <2>2, <2>3, <2>5, <2>6
<1> QED
  BY <1>3, <1>4, <1>5 DEF Damaged, o

(* What an undamaged chunk leaves in the buffer. *)
LEMMA BufferTakes ==
  ASSUME NEW t \in Transfers, NEW c \in 0 .. Chunks(t) - 1, Decodes(Frame(t, c)),
         From(Frame(t, c)) = c * ChunkData,
         NEW i \in 1 .. Cap
  PROVE  Buffer(Frame(t, c))[i] =
           IF i > c * ChunkData /\ i <= c * ChunkData + ChunkLen(t, c) THEN t.data[i] ELSE bulk[i]
<1> DEFINE f == Frame(t, c)
           w == f.wire
           s == Chunk(t, c)
<1>1. /\ w = Pack7(s) /\ w \in Seq(Int) /\ Len(w) \in Nat
      /\ \A j \in 1 .. Len(w) : w[j] \in 0 .. 127
  BY WholeFrame
<1>2. /\ s \in Seq(Bytes) /\ Len(s) = ChunkLen(t, c) /\ ChunkLen(t, c) \in Nat
      /\ \A j \in 1 .. ChunkLen(t, c) : s[j] = t.data[c * ChunkData + j]
      /\ c * ChunkData \in Nat
  BY ChunkBytes, ChunkTypes, BulkFacts
<1> HIDE DEF f, w, s
<1>3. Clean(w) = Len(w)
  <2> DEFINE P(n) == (n < Len(w) => w[n + 1] >= 128) /\ \A j \in 1 .. n : w[j] < 128
  <2>0. \A j \in 1 .. Len(w) : w[j] < 128 /\ ~(w[j] >= 128)
    <3>1. ASSUME NEW x \in 0 .. 127 PROVE x < 128 /\ ~(x >= 128)
      OBVIOUS
    <3> QED
      BY <1>1, <3>1
  <2>1. P(Len(w)) /\ Len(w) \in 0 .. Len(w)
    BY <1>1, <2>0
  <2>2. ASSUME NEW n \in 0 .. Len(w), P(n) PROVE n = Len(w)
    <3>1. n < Len(w) => n + 1 \in 1 .. Len(w)
      BY <1>1
    <3> QED
      BY <1>1, <2>0, <2>2, <3>1
  <2>3. Clean(w) = CHOOSE n \in 0 .. Len(w) : P(n)
    BY DEF Clean
  <2> HIDE DEF P
  <2> QED
    BY <2>1, <2>2, <2>3
<1>4. SubSeq(w, 1, Clean(w)) = w
  BY <1>1, <1>3, SubSeqFull
<1>5. Unpacked(SubSeq(w, 1, Clean(w))) = s
  BY <1>1, <1>2, <1>4, UnpackPack
<1>6. HasRoom(f)
  BY DEF Decodes, f
<1>7. Buffer(f) = [j \in 1 .. Cap |-> IF j - From(f) \in DOMAIN s THEN s[j - From(f)] ELSE bulk[j]]
  BY <1>5, <1>6 DEF Buffer, w
<1>8. Buffer(f)[i] = IF i - c * ChunkData \in 1 .. ChunkLen(t, c) THEN s[i - c * ChunkData] ELSE bulk[i]
  <2>1. From(f) = c * ChunkData
    BY DEF f
  <2>2. DOMAIN s = 1 .. ChunkLen(t, c)
    BY <1>2
  <2> QED
    BY <1>7, <2>1, <2>2
<1>9. c * ChunkData + (i - c * ChunkData) = i /\ i \in Int
  BY <1>2, BulkFacts
<1>10. CASE i - c * ChunkData \in 1 .. ChunkLen(t, c)
  <2>1. s[i - c * ChunkData] = t.data[c * ChunkData + (i - c * ChunkData)]
    BY <1>2, <1>10
  <2>2. i > c * ChunkData /\ i <= c * ChunkData + ChunkLen(t, c)
    BY <1>2, <1>9, <1>10
  <2> QED
    BY <1>8, <1>9, <1>10, <2>1, <2>2 DEF f
<1>11. CASE ~(i - c * ChunkData \in 1 .. ChunkLen(t, c))
  <2>1. ~(i > c * ChunkData /\ i <= c * ChunkData + ChunkLen(t, c))
    BY <1>2, <1>9, <1>11
  <2> QED
    BY <1>8, <1>11, <2>1 DEF f
<1> QED
  BY <1>10, <1>11 DEF f

-----------------------------------------------------------------------------
(* The transfer being put together. *)

(* A transfer not of the size expected is not longer than it by as little as *)
(* its chunks could lose if each lost one byte.                             *)
NoNearMiss ==
  \A t \in Transfers :
    LET n == Size[t.cmd] IN Len(t.data) > n => Len(t.data) > n + Chunks(t)

(* The i-th byte is one of a transfer the frames cannot tell from this one. *)
OwnByte(c, s, k, b, i) ==
  \E t \in Transfers :
    t.cmd = c /\ t.slot = s /\ Chunks(t) = k /\ i \in DOMAIN t.data /\ b[i] = t.data[i]

(* What is in the buffer falls short of the chunks taken by at most a byte    *)
(* each; while it does not, each byte is where it was sent from.             *)
Gathered ==
  active =>
    /\ next \in Nat /\ next > 0 /\ len \in Nat /\ len <= Cap
    /\ next * ChunkData - next <= len /\ len <= next * ChunkData
    /\ len = next * ChunkData => \A i \in 1 .. len : OwnByte(cmd, slot, total, bulk, i)

BulkInv == Gathered /\ NoSplice

LEMMA BulkAtInit == BulkInit => BulkInv
BY DEF BulkInit, BulkInv, Gathered, NoSplice, None

(* Where a chunk goes, and how far the buffer is filled then. *)
LEMMA Filling ==
  ASSUME Gathered, NEW t \in Transfers, NEW c \in 0 .. Chunks(t) - 1,
         NEW f \in {Frame(t, c)} \cup Damaged(Frame(t, c)), Fits(f), Decodes(f)
  PROVE  /\ c * ChunkData - c <= From(f) /\ From(f) <= c * ChunkData /\ From(f) \in Nat
         /\ Filled(f) \in Nat /\ Filled(f) <= Cap
         /\ c * ChunkData - c + ChunkLen(t, c) - 1 <= Filled(f)
         /\ Filled(f) <= c * ChunkData + ChunkLen(t, c)
         /\ Filled(f) = c * ChunkData + ChunkLen(t, c) =>
              f = Frame(t, c) /\ From(f) = c * ChunkData
<1>1. /\ f.cmd = t.cmd /\ f.slot = t.slot /\ f.chunk = c /\ f.total = Chunks(t)
      /\ \/ f = Frame(t, c) /\ Unpacked7Size(Len(f.wire)) = ChunkLen(t, c)
         \/ Unpacked7Size(Len(f.wire)) = ChunkLen(t, c) - 1
  BY Arrived
<1>2. PICK p \in Nat : p = c * ChunkData
  BY ChunkTypes
<1>3. c \in Nat /\ ChunkLen(t, c) \in Nat /\ ChunkLen(t, c) > 0 /\ Cap \in Nat
  BY ChunkTypes, BulkFacts
<1>4. p - c <= From(f) /\ From(f) <= p /\ From(f) \in Nat
  <2>1. CASE c = 0
    BY <1>1, <1>2, <1>3, <2>1, BulkFacts DEF From
  <2>2. CASE c # 0
    <3>1. active /\ next = c /\ From(f) = len
      BY <1>1, <2>2 DEF Fits, Continues, From
    <3> QED
      BY <1>2, <3>1 DEF Gathered
  <2> QED
    BY <2>1, <2>2
<1>5. HasRoom(f) /\ Unpacked7Size(Len(f.wire)) \in Nat
  BY <1>1, <1>3 DEF Decodes
<1>6. Filled(f) <= Cap /\ Filled(f) = From(f) + Unpacked7Size(Len(f.wire))
  BY <1>3, <1>4, <1>5 DEF HasRoom, Filled
<1> QED
  BY <1>1, <1>2, <1>3, <1>4, <1>5, <1>6

(* When every chunk so far came whole, so does its place in the buffer.      *)
LEMMA Placed ==
  ASSUME Gathered, NEW t \in Transfers, NEW c \in 0 .. Chunks(t) - 1, NEW f,
         f = Frame(t, c), Fits(f), Decodes(f), From(f) = c * ChunkData,
         NEW i \in 1 .. c * ChunkData + ChunkLen(t, c), i <= Cap
  PROVE  OwnByte(f.cmd, f.slot, f.total, Buffer(f), i)
<1>1. f.cmd = t.cmd /\ f.slot = t.slot /\ f.chunk = c /\ f.total = Chunks(t)
  BY DEF Frame
<1>2. PICK p \in Nat : p = c * ChunkData
  BY ChunkTypes
<1>3. /\ c \in Nat /\ ChunkLen(t, c) \in Nat /\ p + ChunkLen(t, c) <= Len(t.data)
      /\ Cap \in Nat /\ DOMAIN t.data = 1 .. Len(t.data) /\ Len(t.data) \in Nat
  BY <1>2, ChunkTypes, BulkFacts
<1>4. i \in 1 .. Cap
  BY <1>2, <1>3
<1>5. Buffer(f)[i] = IF i > p THEN t.data[i] ELSE bulk[i]
  <2>1. Buffer(f)[i] = IF i > p /\ i <= p + ChunkLen(t, c) THEN t.data[i] ELSE bulk[i]
    BY <1>2, <1>4, BufferTakes
  <2>2. i <= p + ChunkLen(t, c)
    BY <1>2, <1>3
  <2> QED
    BY <2>1, <2>2
<1>6. CASE i > p
  <2>1. i \in DOMAIN t.data
    BY <1>2, <1>3, <1>6
  <2> QED
    BY <1>1, <1>5, <1>6, <2>1 DEF OwnByte
<1>7. CASE ~(i > p)
  <2>1. c # 0
    <3>1. c = 0 => c * ChunkData = 0
      BY BulkFacts
    <3> QED
      BY <1>2, <1>4, <1>7, <3>1
  <2>2. active /\ cmd = f.cmd /\ slot = f.slot /\ next = c /\ total = f.total /\ len = p
    BY <1>1, <1>2, <2>1 DEF Fits, Continues, From
  <2>3. i \in 1 .. len
    BY <1>2, <1>4, <1>7, <2>2
  <2>4. OwnByte(f.cmd, f.slot, f.total, bulk, i)
    BY <1>2, <2>2, <2>3 DEF Gathered
  <2> QED
    BY <1>5, <1>7, <2>4 DEF OwnByte
<1> QED
  BY <1>6, <1>7

LEMMA ChunkTaken ==
  ASSUME Gathered, NEW t \in Transfers, NEW c \in 0 .. Chunks(t) - 1,
         NEW f \in {Frame(t, c)} \cup Damaged(Frame(t, c)), AcceptChunk(f)
  PROVE  BulkInv'
<1>1. /\ Fits(f) /\ Decodes(f) /\ f.chunk + 1 < f.total
      /\ active' = TRUE /\ cmd' = f.cmd /\ slot' = f.slot /\ total' = f.total
      /\ next' = f.chunk + 1 /\ len' = Filled(f) /\ bulk' = Buffer(f)
      /\ result'.kind = "BulkPartial"
  BY DEF AcceptChunk, Answer
<1>2. f.chunk = c /\ f.total = Chunks(t)
  BY <1>1, Arrived
<1>3. /\ c \in Nat /\ ChunkLen(t, c) = ChunkData /\ ChunkData \in Nat /\ Chunks(t) \in Nat
      /\ (c + 1) * ChunkData = c * ChunkData + ChunkData /\ c * ChunkData \in Nat
  <2>1. /\ c \in Nat /\ Chunks(t) \in Nat /\ ChunkData \in Nat
        /\ (c + 1) * ChunkData = c * ChunkData + ChunkData /\ c * ChunkData \in Nat
    BY ChunkTypes, BulkFacts
  <2>2. c # Chunks(t) - 1
    BY <1>1, <1>2, <2>1
  <2> QED
    BY <2>1, <2>2 DEF ChunkLen
<1>4. PICK p \in Nat : p = c * ChunkData
  BY <1>3
<1>5. /\ Filled(f) \in Nat /\ Filled(f) <= Cap
      /\ p - c + ChunkData - 1 <= Filled(f) /\ Filled(f) <= p + ChunkData
      /\ Filled(f) = p + ChunkData => f = Frame(t, c) /\ From(f) = p
  BY <1>1, <1>3, <1>4, Filling
<1>6. next' = c + 1 /\ next' * ChunkData = p + ChunkData
  BY <1>1, <1>2, <1>3, <1>4
<1>7. len' = next' * ChunkData =>
        \A i \in 1 .. len' : OwnByte(cmd', slot', total', bulk', i)
  <2> SUFFICES ASSUME len' = next' * ChunkData, NEW i \in 1 .. len'
               PROVE  OwnByte(f.cmd, f.slot, f.total, Buffer(f), i)
    BY <1>1
  <2>1. f = Frame(t, c) /\ From(f) = c * ChunkData /\ i \in 1 .. c * ChunkData + ChunkLen(t, c)
    BY <1>1, <1>3, <1>4, <1>5, <1>6
  <2>2. i <= Cap
    BY <1>1, <1>5, BulkFacts
  <2> QED
    BY <1>1, <2>1, <2>2, Placed
<1>8. next' - 1 = c /\ next' \in Nat /\ next' > 0 /\ next' * ChunkData - next' <= len'
      /\ len' <= next' * ChunkData
  BY <1>1, <1>3, <1>4, <1>5, <1>6
<1>9. Gathered'
  BY <1>1, <1>5, <1>7, <1>8 DEF Gathered
<1> QED
  BY <1>1, <1>9 DEF BulkInv, NoSplice

LEMMA TransferDone ==
  ASSUME NoNearMiss, Gathered, NEW t \in Transfers, NEW c \in 0 .. Chunks(t) - 1,
         NEW f \in {Frame(t, c)} \cup Damaged(Frame(t, c)), LastChunk(f)
  PROVE  BulkInv'
<1>1. /\ Fits(f) /\ Decodes(f) /\ f.chunk + 1 = f.total /\ active' = FALSE
      /\ bulk' = Buffer(f)
      /\ result' = [kind |-> ValidateBulk(f.cmd, Buffer(f), Filled(f)),
                    cmd |-> f.cmd, slot |-> f.slot, len |-> Filled(f)]
  BY DEF LastChunk, Answer, Reset
<1>2. f.cmd = t.cmd /\ f.slot = t.slot /\ f.chunk = c /\ f.total = Chunks(t)
  BY <1>1, Arrived
<1>3. Gathered'
  BY <1>1 DEF Gathered
<1>4. NoSplice'
  <2> SUFFICES ASSUME result'.kind = "BulkComplete" PROVE NoSplice'
    BY DEF NoSplice
  <2>1. Filled(f) = Size[t.cmd]
    BY <1>1, <1>2 DEF ValidateBulk
  <2>2. PICK p \in Nat : p = c * ChunkData
    BY ChunkTypes
  <2>3. /\ c \in Nat /\ c + 1 = Chunks(t) /\ Len(t.data) = p + ChunkLen(t, c)
        /\ ChunkLen(t, c) \in Nat /\ Len(t.data) \in Nat /\ Size[t.cmd] \in 1 .. Cap /\ Cap \in Nat
    <3>1. /\ c \in Nat /\ Chunks(t) \in Nat /\ ChunkLen(t, c) \in Nat
          /\ Len(t.data) \in Nat /\ Size[t.cmd] \in 1 .. Cap /\ Cap \in Nat
      BY ChunkTypes, BulkFacts
    <3>2. c + 1 = Chunks(t)
      BY <1>1, <1>2
    <3>3. ChunkLen(t, c) = Len(t.data) - p
      BY <2>2, <3>1, <3>2 DEF ChunkLen
    <3> QED
      BY <2>2, <3>1, <3>2, <3>3
  <2>4. /\ p - c + ChunkLen(t, c) - 1 <= Filled(f) /\ Filled(f) <= p + ChunkLen(t, c)
        /\ Filled(f) = p + ChunkLen(t, c) => f = Frame(t, c) /\ From(f) = c * ChunkData
    BY <1>1, <2>2, Filling
  <2>5. Len(t.data) = Size[t.cmd]
    <3>1. /\ Len(t.data) >= Size[t.cmd] /\ Len(t.data) <= Size[t.cmd] + Chunks(t)
          /\ Size[t.cmd] \in Nat
      BY <2>1, <2>2, <2>3, <2>4
    <3>2. Len(t.data) > Size[t.cmd] => Len(t.data) > Size[t.cmd] + Chunks(t)
      BY DEF NoNearMiss
    <3> QED
      BY <2>3, <3>1, <3>2
  <2>6. f = Frame(t, c) /\ From(f) = c * ChunkData
    BY <2>1, <2>3, <2>4, <2>5
  <2>7. ASSUME NEW i \in 1 .. Filled(f)
        PROVE  OwnByte(f.cmd, f.slot, f.total, Buffer(f), i)
    <3>1. i \in 1 .. c * ChunkData + ChunkLen(t, c) /\ i <= Cap
      BY <2>1, <2>2, <2>3, <2>5
    <3> QED
      BY <1>1, <2>6, <3>1, Placed
  <2>8. f.total = ChunkCount(Size[t.cmd])
    BY <1>2, <2>5 DEF Chunks
  <2> QED
    BY <1>1, <1>2, <2>1, <2>7, <2>8 DEF NoSplice, OwnByte, Alike
<1> QED
  BY <1>3, <1>4 DEF BulkInv

LEMMA BulkStep == NoNearMiss /\ BulkInv /\ [BulkNext]_bulkVars => BulkInv'
<1> SUFFICES ASSUME NoNearMiss, BulkInv, [BulkNext]_bulkVars PROVE BulkInv'
  OBVIOUS
<1>1. ASSUME NEW t \in Transfers, NEW c \in 0 .. Chunks(t) - 1,
             NEW f \in {Frame(t, c)} \cup Damaged(Frame(t, c)), Bulk(f)
      PROVE  BulkInv'
  <2>1. CASE RefuseChunk(f) \/ SpoiltChunk(f)
    BY <2>1 DEF RefuseChunk, SpoiltChunk, Reset, Bad, None, BulkInv, Gathered, NoSplice
  <2> QED
    BY <1>1, <2>1, ChunkTaken, TransferDone DEF Bulk, BulkInv
<1>2. CASE OtherFrame
  BY <1>2 DEF OtherFrame, parserVars, None, BulkInv, Gathered, NoSplice
<1>3. CASE UNCHANGED bulkVars
  BY <1>3 DEF bulkVars, parserVars, BulkInv, Gathered, NoSplice
<1> QED
  BY <1>1, <1>2, <1>3 DEF BulkNext, Receive, ReceiveDamaged

(* Whatever transfers are sent, in whatever order and with whatever frames    *)
(* of them lost, repeated, damaged or cut short: what is handed over as      *)
(* complete is spliced from no two commands, slots or numbers of chunks.     *)
THEOREM NothingSpliced == ASSUME NoNearMiss PROVE BulkSpec => []NoSplice
<1>1. BulkInv => NoSplice
  BY DEF BulkInv
<1>2. BulkInv /\ [BulkNext]_bulkVars => BulkInv'
  BY BulkStep
<1> QED
  BY <1>1, <1>2, BulkAtInit, PTL DEF BulkSpec

-----------------------------------------------------------------------------
(* A transfer received in order. *)

(* Such a transfer, so far as it has come, is in the buffer, and the parser  *)
(* waits for its next chunk.                                                *)
Followed ==
  /\ streak.n \in Nat
  /\ streak.n > 0 => streak.of \in Transfers
  /\ streak.n > 0 /\ streak.n < Chunks(streak.of) /\ Len(streak.of.data) <= Cap =>
       /\ active /\ cmd = streak.of.cmd /\ slot = streak.of.slot
       /\ total = Chunks(streak.of) /\ next = streak.n /\ len = streak.n * ChunkData
       /\ \A i \in 1 .. len : bulk[i] = streak.of.data[i]

LEMMA FollowedAtInit == BulkInit => Followed
BY DEF BulkInit, Followed, NoStreak

(* The next chunk of it is taken, whatever else is sent. *)
LEMMA NextTaken ==
  ASSUME Followed, NEW t \in Transfers, NEW c \in 0 .. Chunks(t) - 1,
         c = 0 \/ streak = [of |-> t, n |-> c], Len(t.data) <= Cap, Bulk(Frame(t, c))
  PROVE  /\ AcceptChunk(Frame(t, c)) \/ LastChunk(Frame(t, c))
         /\ Filled(Frame(t, c)) = c * ChunkData + ChunkLen(t, c)
         /\ bulk' = Buffer(Frame(t, c))
         /\ \A i \in 1 .. c * ChunkData + ChunkLen(t, c) : Buffer(Frame(t, c))[i] = t.data[i]
<1> DEFINE f == Frame(t, c)
<1>1. f.cmd = t.cmd /\ f.slot = t.slot /\ f.chunk = c /\ f.total = Chunks(t)
  BY DEF Frame
<1>2. PICK p \in Nat : p = c * ChunkData
  BY ChunkTypes
<1>3. /\ c \in Nat /\ ChunkLen(t, c) \in Nat /\ ChunkLen(t, c) > 0 /\ p + ChunkLen(t, c) <= Cap
      /\ Cap \in Nat /\ Chunks(t) \in Nat /\ ChunkData \in Nat
  <2>1. c \in Nat /\ Len(t.data) \in Nat /\ Cap \in Nat /\ Chunks(t) \in Nat /\ ChunkData \in Nat
    BY ChunkTypes, BulkFacts
  <2>2. ChunkLen(t, c) \in 1 .. ChunkData /\ c * ChunkData + ChunkLen(t, c) <= Len(t.data)
    BY ChunkTypes
  <2> QED
    BY <1>2, <2>1, <2>2
<1>4. c # 0 => /\ active /\ cmd = t.cmd /\ slot = t.slot /\ total = Chunks(t) /\ next = c /\ len = p
               /\ \A i \in 1 .. len : bulk[i] = t.data[i]
  BY <1>2, <1>3 DEF Followed
<1>5. c = 0 => p = 0
  BY <1>2, <1>3
<1>6. Fits(f) /\ From(f) = p
  BY <1>1, <1>4, <1>5 DEF Fits, Continues, From
<1>7. Unpacked7Size(Len(f.wire)) = ChunkLen(t, c)
  BY WholeFrame
<1>8. Decodes(f)
  <2>1. HasRoom(f)
    BY <1>3, <1>6, <1>7 DEF HasRoom
  <2>2. \A i \in DOMAIN f.wire : f.wire[i] < 128
    <3>1. f.wire \in Seq(Int) /\ \A i \in 1 .. Len(f.wire) : f.wire[i] \in 0 .. 127
      BY WholeFrame
    <3>2. ASSUME NEW x \in 0 .. 127 PROVE x < 128
      OBVIOUS
    <3> DEFINE w == f.wire
    <3>3. w \in Seq(Int) /\ \A i \in 1 .. Len(w) : w[i] \in 0 .. 127
      BY <3>1
    <3> HIDE DEF w
    <3>4. DOMAIN w = 1 .. Len(w)
      BY <3>3
    <3>5. \A i \in DOMAIN w : w[i] < 128
      BY <3>2, <3>3, <3>4
    <3> QED
      BY <3>5 DEF w
  <2> QED
    BY <1>3, <1>7, <2>1, <2>2 DEF Decodes
<1>9. AcceptChunk(f) \/ LastChunk(f)
  BY <1>6, <1>8 DEF Bulk, RefuseChunk, SpoiltChunk
<1>10. Filled(f) = p + ChunkLen(t, c) /\ bulk' = Buffer(f)
  BY <1>6, <1>7, <1>9 DEF Filled, AcceptChunk, LastChunk
<1>11. ASSUME NEW i \in 1 .. p + ChunkLen(t, c) PROVE Buffer(f)[i] = t.data[i]
  <2>1. i \in 1 .. Cap
    BY <1>3
  <2>2. Buffer(f)[i] = IF i > p /\ i <= p + ChunkLen(t, c) THEN t.data[i] ELSE bulk[i]
    BY <1>2, <1>6, <1>8, <2>1, BufferTakes
  <2>3. CASE i > p
    BY <1>3, <2>2, <2>3
  <2>4. CASE ~(i > p)
    <3>1. c # 0 /\ i \in 1 .. p
      BY <1>5, <1>3, <2>4
    <3> QED
      BY <1>4, <2>2, <2>4, <3>1
  <2> QED
    BY <2>3, <2>4
<1> QED
  BY <1>2, <1>9, <1>10, <1>11

LEMMA FollowedStep == Followed /\ [BulkNext]_bulkVars => Followed'
<1> SUFFICES ASSUME Followed, [BulkNext]_bulkVars PROVE Followed'
  OBVIOUS
<1>1. ASSUME NEW t \in Transfers, NEW c \in 0 .. Chunks(t) - 1, Receive(t, c) PROVE Followed'
  <2> DEFINE f == Frame(t, c)
  <2>1. CASE c = 0 \/ streak = [of |-> t, n |-> c]
    <3>1. streak' = [of |-> t, n |-> c + 1] /\ c \in Nat /\ Chunks(t) \in Nat
      BY <1>1, <2>1, ChunkTypes DEF Receive
    <3>2. streak'.n = c + 1 /\ streak'.of = t
      BY <3>1
    <3>3. ASSUME c + 1 < Chunks(t), Len(t.data) <= Cap
          PROVE  /\ active' /\ cmd' = t.cmd /\ slot' = t.slot
                 /\ total' = Chunks(t) /\ next' = c + 1 /\ len' = (c + 1) * ChunkData
                 /\ \A i \in 1 .. len' : bulk'[i] = t.data[i]
      <4>1. /\ AcceptChunk(f) \/ LastChunk(f)
            /\ Filled(f) = c * ChunkData + ChunkLen(t, c) /\ bulk' = Buffer(f)
            /\ \A i \in 1 .. c * ChunkData + ChunkLen(t, c) : Buffer(f)[i] = t.data[i]
        BY <1>1, <2>1, <3>3, NextTaken DEF Receive
      <4>2. f.cmd = t.cmd /\ f.slot = t.slot /\ f.chunk = c /\ f.total = Chunks(t)
        BY DEF Frame
      <4>3. AcceptChunk(f)
        BY <3>1, <3>3, <4>1, <4>2 DEF LastChunk
      <4>4. c # Chunks(t) - 1 /\ (c + 1) * ChunkData = c * ChunkData + ChunkData
        BY <3>1, <3>3, ChunkTypes
      <4>5. c * ChunkData + ChunkLen(t, c) = (c + 1) * ChunkData
        BY <4>4 DEF ChunkLen
      <4> HIDE DEF f
      <4>6. active' /\ cmd' = t.cmd /\ slot' = t.slot /\ total' = Chunks(t) /\ next' = c + 1
            /\ len' = Filled(f)
        BY <4>2, <4>3 DEF AcceptChunk
      <4> QED
        BY <4>1, <4>5, <4>6
    <3> QED
      BY <3>1, <3>2, <3>3 DEF Followed
  <2>2. CASE ~(c = 0 \/ streak = [of |-> t, n |-> c])
    BY <1>1, <2>2 DEF Receive, Followed, NoStreak
  <2> QED
    BY <2>1, <2>2
<1>2. ASSUME NEW t \in Transfers, NEW c \in 0 .. Chunks(t) - 1, ReceiveDamaged(t, c)
      PROVE  Followed'
  BY <1>2 DEF ReceiveDamaged, Followed, NoStreak
<1>3. CASE OtherFrame \/ UNCHANGED bulkVars
  BY <1>3 DEF OtherFrame, bulkVars, parserVars, Followed
<1> QED
  BY <1>1, <1>2, <1>3 DEF BulkNext

(* However the parser was left by lost, repeated and damaged frames, a        *)
(* transfer that fits the buffer and is received once in order is handed     *)
(* over byte by byte, or refused for its own header or size.                *)
THEOREM InOrderRestores == BulkSpec => Restores
<1> DEFINE A == LET t == streak'.of
                IN streak' # streak /\ streak'.n > 0 /\ streak'.n = Chunks(t)
                     /\ Len(t.data) <= Cap =>
                     /\ result'.kind = ValidateBulk(t.cmd, t.data, Len(t.data))
                     /\ \A i \in 1 .. Len(t.data) : bulk'[i] = t.data[i]
<1>1. Followed /\ BulkNext => A
  <2> SUFFICES ASSUME Followed, BulkNext, streak' # streak, streak'.n > 0,
                      streak'.n = Chunks(streak'.of), Len(streak'.of.data) <= Cap
               PROVE  /\ result'.kind = ValidateBulk(streak'.of.cmd, streak'.of.data, Len(streak'.of.data))
                      /\ \A i \in 1 .. Len(streak'.of.data) : bulk'[i] = streak'.of.data[i]
    OBVIOUS
  <2>1. NoStreak.n = 0
    BY DEF NoStreak
  <2>2. PICK t \in Transfers : \E c \in 0 .. Chunks(t) - 1 : Receive(t, c) \/ ReceiveDamaged(t, c)
    <3>1. ~OtherFrame
      BY DEF OtherFrame
    <3> QED
      BY <3>1 DEF BulkNext
  <2>3. PICK c \in 0 .. Chunks(t) - 1 : Receive(t, c) \/ ReceiveDamaged(t, c)
    BY <2>2
  <2>4. streak' # NoStreak
    BY <2>1
  <2>5. Receive(t, c) /\ streak' = [of |-> t, n |-> c + 1]
    BY <2>3, <2>4 DEF Receive, ReceiveDamaged
  <2> DEFINE f == Frame(t, c)
  <2>6. c = 0 \/ streak = [of |-> t, n |-> c]
    BY <2>4, <2>5 DEF Receive
  <2>7. streak'.of = t /\ c + 1 = Chunks(t) /\ Chunks(t) \in Nat /\ Len(t.data) <= Cap
    BY <2>5, ChunkTypes
  <2>8. /\ AcceptChunk(f) \/ LastChunk(f)
        /\ Filled(f) = c * ChunkData + ChunkLen(t, c) /\ bulk' = Buffer(f)
        /\ \A i \in 1 .. c * ChunkData + ChunkLen(t, c) : Buffer(f)[i] = t.data[i]
    BY <2>5, <2>6, <2>7, NextTaken DEF Receive
  <2>9. f.cmd = t.cmd /\ f.slot = t.slot /\ f.chunk = c /\ f.total = Chunks(t)
    BY DEF Frame
  <2>10. LastChunk(f)
    BY <2>7, <2>8, <2>9 DEF AcceptChunk
  <2>11. c * ChunkData + ChunkLen(t, c) = Len(t.data) /\ Len(t.data) \in Nat /\ Len(t.data) > 0
    <3>1. c * ChunkData \in Nat /\ Len(t.data) \in Nat /\ Len(t.data) > 0
      BY ChunkTypes, BulkFacts
    <3>2. c = Chunks(t) - 1
      BY <2>7
    <3>3. ChunkLen(t, c) = Len(t.data) - c * ChunkData
      BY <3>2 DEF ChunkLen
    <3> QED
      BY <3>1, <3>3
  <2> HIDE DEF f
  <2>12. result'.kind = ValidateBulk(t.cmd, Buffer(f), Len(t.data))
    BY <2>8, <2>9, <2>10, <2>11 DEF LastChunk, Answer
  <2>13. Buffer(f)[1] = t.data[1]
    BY <2>8, <2>11
  <2>14. result'.kind = ValidateBulk(t.cmd, t.data, Len(t.data))
    BY <2>12, <2>13 DEF ValidateBulk
  <2> QED
    BY <2>7, <2>8, <2>11, <2>14
<1>2. Followed /\ [BulkNext]_bulkVars => [A]_bulkVars
  BY <1>1
<1> QED
  BY <1>2, FollowedAtInit, FollowedStep, PTL DEF BulkSpec, Restores
=============================================================================
