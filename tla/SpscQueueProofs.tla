-------------------------- MODULE SpscQueueProofs ---------------------------
(***************************************************************************)
(* Proofs about the command ring, for every ring size and every set of     *)
(* items: it is free of data races and implements the atomic bounded FIFO  *)
(* of CommandQueue.                                                        *)
(***************************************************************************)
EXTENDS SpscQueue, TLAPS

(* TypeOK and NoDataRace are not inductive by themselves.  What carries     *)
(* them: a producer past its full test keeps its room and a consumer past   *)
(* its empty test keeps its item, whatever the other side does meanwhile;   *)
(* the item being read or written stays in its slot; and only the slot being written   *)
(* (read) can be missing from what the last release store published.        *)
RoomKept == ppc \in {"write", "publish"} => Succ(head) # tail
ItemKept == cpc \in {"read", "publish"} => head # tail
ReadValue == cpc = "publish" => cout = buf[tail]
PushedItem ==
  /\ ppc # "idle" => pitem \in Item
  /\ ppc = "publish" => buf[head] = pitem
WritesPublished ==
  \A i \in Slots : i \in unseenW /\ i \notin headRel => i = head /\ ppc = "publish"
ReadsPublished ==
  \A i \in Slots : i \in unseenR /\ i \notin tailRel => i = tail /\ cpc = "publish"

IInv ==
  /\ TypeOK
  /\ RoomKept
  /\ ItemKept
  /\ ReadValue
  /\ PushedItem
  /\ WritesPublished
  /\ ReadsPublished
  /\ NoDataRace

-----------------------------------------------------------------------------
(* Succ stays in the ring and is injective: two indices that differ still   *)
(* differ after both advance.                                               *)
LEMMA SuccRing ==
  /\ \A i \in Slots : Succ(i) \in Slots
  /\ \A i, j \in Slots : Succ(i) = Succ(j) => i = j
  /\ \A i \in Slots : Succ(i) # i
BY NAssumption DEF Slots, Succ

LEMMA InitIInv == Init => IInv
BY NAssumption, ItemAssumption
   DEF Init, IInv, TypeOK, RoomKept, ItemKept, ReadValue, PushedItem,
       WritesPublished, ReadsPublished, NoDataRace, Slots

(* The producer's half of the induction. *)
LEMMA ProducerIInv == IInv /\ Producer => IInv'
<1> SUFFICES ASSUME IInv, Producer PROVE IInv'
  OBVIOUS
<1> USE SuccRing DEF IInv, TypeOK, RoomKept, ItemKept, ReadValue, PushedItem,
        WritesPublished, ReadsPublished, NoDataRace, hbVars, consumerVars
<1>1. CASE \E v \in Item : PushCall(v)
  BY <1>1 DEF PushCall
<1>2. CASE RejectFull
  BY <1>2 DEF RejectFull, AcquireTail
<1>3. CASE FoundRoom
  BY <1>3 DEF FoundRoom, AcquireTail, Full
<1>4. CASE WriteSlot
  BY <1>4 DEF WriteSlot
<1>5. CASE StoreHead
  BY <1>5 DEF StoreHead
<1> QED
  BY <1>1, <1>2, <1>3, <1>4, <1>5 DEF Producer, PushStep

(* The consumer's half. *)
LEMMA ConsumerIInv == IInv /\ Consumer => IInv'
<1> SUFFICES ASSUME IInv, Consumer PROVE IInv'
  OBVIOUS
<1> USE SuccRing DEF IInv, TypeOK, RoomKept, ItemKept, ReadValue, PushedItem,
        WritesPublished, ReadsPublished, NoDataRace, hbVars, producerVars
<1>1. CASE FoundEmpty
  BY <1>1 DEF FoundEmpty, AcquireHead
<1>2. CASE FoundItem
  BY <1>2 DEF FoundItem, AcquireHead, Empty
<1>3. CASE ReadSlot
  BY <1>3 DEF ReadSlot
<1>4. CASE StoreTail
  BY <1>4 DEF StoreTail
<1> QED
  BY <1>1, <1>2, <1>3, <1>4 DEF Consumer

LEMMA StutterIInv == IInv /\ UNCHANGED vars => IInv'
BY DEF IInv, TypeOK, RoomKept, ItemKept, ReadValue, PushedItem, WritesPublished,
       ReadsPublished, NoDataRace, vars, hbVars, producerVars, consumerVars

LEMMA Invariance == Spec => []IInv
<1>1. IInv /\ [Next]_vars => IInv'
  BY ProducerIInv, ConsumerIInv, StutterIInv DEF Next
<1> QED
  BY <1>1, InitIInv, PTL DEF Spec

-----------------------------------------------------------------------------
(* Every variable of the ring keeps its type: head and tail never leave the *)
(* ring and a slot holds nothing but items.                                 *)
THEOREM TypeCorrect == Spec => []TypeOK
<1>1. IInv => TypeOK
  BY DEF IInv
<1> QED
  BY <1>1, Invariance, PTL

(* The plain accesses to buf_ in Push and Pop never race, for any ring size. *)
THEOREM RaceFree == Spec => []NoDataRace
<1>1. IInv => NoDataRace
  BY DEF IInv
<1> QED
  BY <1>1, Invariance, PTL
-----------------------------------------------------------------------------
(* The refinement.  Contents is a sequence of Size items; the two index     *)
(* stores extend it at the end and shorten it at the front.                 *)
LEMMA SizeRing ==
  ASSUME head \in Slots, tail \in Slots
  PROVE  /\ Size \in 0 .. N - 1
         /\ Size = 0 <=> head = tail
         /\ Size = N - 1 <=> Succ(head) = tail
BY NAssumption DEF Slots, Size, Succ

(* The i-th item lies in a slot of the ring other than the one head points  *)
(* to.                                                                      *)
LEMMA ItemSlot ==
  ASSUME head \in Slots, tail \in Slots, NEW i \in 1 .. Size
  PROVE  /\ Wrap(tail + i - 1) \in Slots
         /\ Wrap(tail + i - 1) # head
BY NAssumption DEF Slots, Size, Wrap

ContentsShape ==
  /\ Size \in Nat
  /\ Contents \in Seq(Item \cup {NoItem})
  /\ Len(Contents) = Size
  /\ \A i \in 1 .. Size : Contents[i] = buf[Wrap(tail + i - 1)]

LEMMA ContentsSeq == TypeOK => ContentsShape
<1> SUFFICES ASSUME TypeOK PROVE ContentsShape
  OBVIOUS
<1>1. Size \in Nat
  BY SizeRing, NAssumption DEF TypeOK, Slots
<1>2. \A i \in 1 .. Size : buf[Wrap(tail + i - 1)] \in Item \cup {NoItem}
  BY ItemSlot DEF TypeOK
<1> QED
  BY <1>1, <1>2 DEF Contents, ContentsShape

LEMMA ContentsSeqNext == TypeOK' => ContentsShape'
BY ContentsSeq, PTL

(* Two sequences of the same length with the same elements are equal. *)
LEMMA SeqExt ==
  ASSUME NEW S, NEW s \in Seq(S), NEW t \in Seq(S), Len(s) = Len(t),
         \A i \in 1 .. Len(s) : s[i] = t[i]
  PROVE  s = t
OBVIOUS

(* A write to the slot at head does not show in the contents. *)
LEMMA WriteInvisible ==
  ASSUME TypeOK, WriteSlot
  PROVE  Contents' = Contents
<1>1. Size' = Size
  BY DEF WriteSlot, Size
<1>2. \A i \in 1 .. Size : buf'[Wrap(tail + i - 1)] = buf[Wrap(tail + i - 1)]
  BY ItemSlot DEF WriteSlot, TypeOK
<1> QED
  BY <1>1, <1>2 DEF Contents, WriteSlot, Wrap

(* Storing head appends the item just written. *)
LEMMA StoreHeadAppends ==
  ASSUME IInv, IInv', StoreHead
  PROVE  /\ Size < N - 1
         /\ Contents' = Append(Contents, pitem)
<1> USE DEF IInv
<1>1. Size < N - 1 /\ Size' = Size + 1
  BY NAssumption DEF StoreHead, TypeOK, RoomKept, Size, Slots, Succ
<1>2. Wrap(tail + Size) = head
  BY NAssumption DEF TypeOK, Size, Slots, Wrap
<1>3. ContentsShape /\ ContentsShape'
  BY ContentsSeq, ContentsSeqNext
<1>4. pitem \in Item /\ buf[head] = pitem
  BY DEF PushedItem, StoreHead
<1>5. /\ Append(Contents, pitem) \in Seq(Item \cup {NoItem})
      /\ Len(Append(Contents, pitem)) = Size + 1
  BY <1>3, <1>4 DEF ContentsShape
<1>6. \A i \in 1 .. Size + 1 : Contents'[i] = Append(Contents, pitem)[i]
  <2> SUFFICES ASSUME NEW i \in 1 .. Size + 1
               PROVE  Contents'[i] = Append(Contents, pitem)[i]
    OBVIOUS
  <2>1. Contents'[i] = buf[Wrap(tail + i - 1)]
    BY <1>1, <1>3 DEF ContentsShape, StoreHead, Wrap
  <2>2. CASE i = Size + 1
    <3>1. Append(Contents, pitem)[i] = pitem
      BY <1>3, <1>4, <2>2 DEF ContentsShape
    <3>2. tail + i - 1 = tail + Size
      BY <1>3, <2>2 DEF ContentsShape, TypeOK, Slots
    <3> QED
      BY <1>2, <1>4, <2>1, <3>1, <3>2
  <2>3. CASE i \in 1 .. Size
    BY <1>3, <1>4, <2>1, <2>3 DEF ContentsShape
  <2> QED
    BY <1>3, <2>2, <2>3 DEF ContentsShape
<1>7. Contents' = Append(Contents, pitem)
  BY <1>1, <1>3, <1>5, <1>6, SeqExt DEF ContentsShape
<1> QED
  BY <1>1, <1>7

(* Storing tail removes the oldest item, which is the one the consumer read. *)
LEMMA StoreTailTakes ==
  ASSUME IInv, IInv', StoreTail
  PROVE  /\ Size > 0
         /\ Contents' = Tail(Contents)
         /\ cout = Head(Contents)
<1> USE DEF IInv
<1>1. Size > 0 /\ Size' = Size - 1
  BY NAssumption DEF StoreTail, TypeOK, ItemKept, Size, Slots, Succ
<1>2. \A i \in 1 .. Size - 1 : Wrap(Succ(tail) + i - 1) = Wrap(tail + i)
  BY NAssumption DEF TypeOK, Slots, Wrap, Succ, Size
<1>3. ContentsShape /\ ContentsShape'
  BY ContentsSeq, ContentsSeqNext
<1>4. /\ Contents # <<>>
      /\ Tail(Contents) \in Seq(Item \cup {NoItem})
      /\ Len(Tail(Contents)) = Size - 1
      /\ \A i \in 1 .. Size - 1 : Tail(Contents)[i] = Contents[i + 1]
      /\ Head(Contents) = Contents[1]
  BY <1>1, <1>3 DEF ContentsShape
<1>5. \A i \in 1 .. Size - 1 : Contents'[i] = Tail(Contents)[i]
  <2> SUFFICES ASSUME NEW i \in 1 .. Size - 1
               PROVE  Contents'[i] = Tail(Contents)[i]
    OBVIOUS
  <2>1. Contents'[i] = buf[Wrap(Succ(tail) + i - 1)]
    BY <1>1, <1>3 DEF ContentsShape, StoreTail, Wrap
  <2>2. Contents[i + 1] = buf[Wrap(tail + i)]
    BY <1>3 DEF ContentsShape, TypeOK, Slots
  <2> QED
    BY <1>2, <1>4, <2>1, <2>2
<1>6. Contents' = Tail(Contents)
  BY <1>1, <1>3, <1>4, <1>5, SeqExt DEF ContentsShape
<1>7. cout = Head(Contents)
  <2>1. Contents[1] = buf[Wrap(tail + 1 - 1)]
    BY <1>1, <1>3 DEF ContentsShape
  <2>2. Wrap(tail + 1 - 1) = tail
    BY NAssumption DEF TypeOK, Slots, Wrap
  <2>3. cout = buf[tail]
    BY DEF ReadValue, StoreTail
  <2> QED
    BY <1>4, <2>1, <2>2, <2>3
<1> QED
  BY <1>1, <1>6, <1>7

-----------------------------------------------------------------------------
(* Each step of the ring is a step of the abstract queue or a stutter. *)
LEMMA StepRefines == IInv /\ IInv' /\ [Next]_vars => [Abstract!Next]_Abstract!vars
<1> SUFFICES ASSUME IInv, IInv', [Next]_vars
             PROVE  [Abstract!Next]_Abstract!vars
  OBVIOUS
<1> USE DEF Abstract!vars, producerVars, consumerVars, hbVars
<1>0. /\ TypeOK
      /\ Size = N - 1 <=> Succ(head) = tail
      /\ Size = 0 <=> head = tail
      /\ ContentsShape
  BY SizeRing, ContentsSeq DEF IInv, TypeOK
<1>1. CASE \E v \in Item : PushCall(v)
  BY <1>1 DEF PushCall, Contents, Size, Wrap
<1>2. CASE RejectFull
  <2>1. Abstract!Refuse
    BY <1>0, <1>2 DEF Abstract!Refuse, Abstract!Room, RejectFull, Full, Contents, Size, Wrap, ContentsShape
  <2> QED
    BY <2>1 DEF Abstract!Next
<1>3. CASE FoundRoom
  BY <1>3 DEF FoundRoom, Contents, Size, Wrap
<1>4. CASE WriteSlot
  BY <1>0, <1>4, WriteInvisible DEF WriteSlot
<1>5. CASE StoreHead
  <2>1. pitem \in Item
    BY <1>5 DEF IInv, PushedItem, StoreHead
  <2>2. Abstract!Accept(pitem)
    BY <1>0, <1>5, StoreHeadAppends DEF Abstract!Accept, Abstract!Room, StoreHead, ContentsShape
  <2> QED
    BY <2>1, <2>2 DEF Abstract!Next
<1>6. CASE FoundEmpty
  <2>1. Abstract!Miss
    BY <1>0, <1>6 DEF Abstract!Miss, FoundEmpty, Empty, Contents, Size, Wrap, ContentsShape
  <2> QED
    BY <2>1 DEF Abstract!Next
<1>7. CASE FoundItem
  BY <1>7 DEF FoundItem, Contents, Size, Wrap
<1>8. CASE ReadSlot
  BY <1>8 DEF ReadSlot, Contents, Size, Wrap
<1>9. CASE StoreTail
  <2>1. Contents # <<>>
    BY <1>0, <1>9, StoreTailTakes DEF ContentsShape
  <2>2. Abstract!Take
    BY <2>1, <1>9, StoreTailTakes DEF Abstract!Take, StoreTail
  <2> QED
    BY <2>2 DEF Abstract!Next
<1>10. CASE UNCHANGED vars
  BY <1>10 DEF vars, Contents, Size, Wrap
<1> QED
  BY <1>1, <1>2, <1>3, <1>4, <1>5, <1>6, <1>7, <1>8, <1>9, <1>10
     DEF Next, Producer, PushStep, Consumer

(* The ring implements the atomic bounded FIFO of capacity N - 1, for every *)
(* ring size: what ImplementsFifo says of four slots holds of all.          *)
THEOREM Refinement == Spec => ImplementsFifo
<1>1. Init => Abstract!Init
  BY NAssumption DEF Init, Abstract!Init, Contents, Size
<1> QED
  BY <1>1, Invariance, StepRefines, PTL DEF Spec, ImplementsFifo, Abstract!Spec
=============================================================================
