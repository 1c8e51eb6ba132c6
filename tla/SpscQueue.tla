----------------------------- MODULE SpscQueue ------------------------------
(***************************************************************************)
(* The lock-free single-producer single-consumer ring of src/util/spsc.h:  *)
(* the main loop pushes commands, the audio callback pops them.            *)
(*                                                                         *)
(* Push and Pop are split at every access to memory the other side also    *)
(* touches, so that all interleavings of the two are explored.  The index  *)
(* a thread owns is read with a relaxed load; only its owner writes it, so *)
(* that load is folded into the step that follows.                         *)
(*                                                                         *)
(* What release and acquire buy is modelled as a happens-before relation   *)
(* on slots.  unseenW is the set of slots whose latest write the consumer  *)
(* is not yet guaranteed to see, headRel the slots whose latest write was  *)
(* made before the release store that gave head_ its current value; an     *)
(* acquire load of head_ makes those visible.  unseenR and tailRel say the *)
(* same of the consumer's reads and the producer.                          *)
(***************************************************************************)
EXTENDS Integers, Sequences

CONSTANTS
  N,       \* slots in the ring
  Item,    \* the values pushed
  NoItem   \* a slot never written, and the result of a Pop that found nothing

ASSUME NAssumption == N \in Nat /\ N >= 2
ASSUME ItemAssumption == NoItem \notin Item

VARIABLES
  buf,         \* buf_
  head,        \* head_, written by the producer only
  tail,        \* tail_, written by the consumer only
  ppc,         \* where the producer is inside Push
  pitem,       \* the argument of that Push
  pushResult,  \* what the last Push returned
  cpc,         \* where the consumer is inside Pop
  cout,        \* the out parameter of that Pop
  popResult,   \* what the last Pop delivered
  unseenW, headRel,   \* happens-before, producer to consumer
  unseenR, tailRel    \* happens-before, consumer to producer

producerVars == <<ppc, pitem, pushResult>>
consumerVars == <<cpc, cout, popResult>>
hbVars == <<unseenW, headRel, unseenR, tailRel>>
vars == <<buf, head, tail, producerVars, consumerVars, hbVars>>

Slots == 0 .. N - 1

(* Mutant of Succ: the mask is forgotten. *)
SuccUnmasked(i) == i + 1

(* (i + 1) & kMask: N is a power of two, so the mask is the remainder. *)
Succ(i) == IF i + 1 = N THEN 0 ELSE i + 1

(* size(): (h - t) & kMask. *)
Size == IF head >= tail THEN head - tail ELSE head - tail + N

Init ==
  /\ buf = [i \in Slots |-> NoItem]
  /\ head = 0 /\ tail = 0
  /\ ppc = "idle" /\ pitem = NoItem /\ pushResult = "none"
  /\ cpc = "idle" /\ cout = NoItem /\ popResult = NoItem
  /\ unseenW = {} /\ headRel = Slots
  /\ unseenR = {} /\ tailRel = Slots

-----------------------------------------------------------------------------
(* The producer: Push(item). *)

PushCall(v) ==
  /\ ppc = "idle"
  /\ ppc' = "check"
  /\ pitem' = v
  /\ UNCHANGED <<buf, head, tail, pushResult, consumerVars, hbVars>>

(* Mutant of AcquireTail: a relaxed load, which makes nothing visible. *)
RelaxedTail == UNCHANGED unseenR

(* What an acquire load of tail_ makes visible to the producer. *)
AcquireTail == unseenR' = unseenR \ tailRel

(* Mutant of Full: every slot is used, so a full ring looks empty. *)
FullAtN == head = tail /\ buf[head] # NoItem

(* next == tail_ *)
Full == Succ(head) = tail

(* Mutant of RejectFull: Push waits for room instead of refusing. *)
SpinWhileFull == ppc = "check" /\ Full /\ UNCHANGED vars

(* if(next == tail_.load(acquire)) return false; *)
RejectFull ==
  /\ ppc = "check"
  /\ Full
  /\ AcquireTail
  /\ ppc' = "idle"
  /\ pushResult' = "refused"
  /\ UNCHANGED <<buf, head, tail, pitem, consumerVars, unseenW, headRel, tailRel>>

FoundRoom ==
  /\ ppc = "check"
  /\ ~Full
  /\ AcquireTail
  /\ ppc' = "write"
  /\ UNCHANGED <<buf, head, tail, pitem, pushResult, consumerVars,
                 unseenW, headRel, tailRel>>

(* buf_[head] = item; *)
WriteSlot ==
  /\ ppc = "write"
  /\ buf' = [buf EXCEPT ![head] = pitem]
  /\ unseenW' = unseenW \cup {head}
  /\ headRel' = headRel \ {head}
  /\ ppc' = "publish"
  /\ UNCHANGED <<head, tail, pitem, pushResult, consumerVars, unseenR, tailRel>>

(* head_.store(next, release); return true; *)
StoreHead ==
  /\ ppc = "publish"
  /\ head' = Succ(head)
  /\ headRel' = Slots
  /\ ppc' = "idle"
  /\ pushResult' = "accepted"
  /\ UNCHANGED <<buf, tail, pitem, consumerVars, unseenW, unseenR, tailRel>>

-----------------------------------------------------------------------------
(* The consumer: Pop(out). *)

AcquireHead == unseenW' = unseenW \ headRel

(* Mutant of Empty: an off-by-one that never delivers the newest item. *)
EmptyButOne == tail = head \/ Succ(tail) = head

(* tail == head_ *)
Empty == tail = head

(* if(tail == head_.load(acquire)) return false; *)
FoundEmpty ==
  /\ cpc = "idle"
  /\ Empty
  /\ AcquireHead
  /\ popResult' = NoItem
  /\ UNCHANGED <<buf, head, tail, producerVars, cpc, cout, headRel, unseenR, tailRel>>

FoundItem ==
  /\ cpc = "idle"
  /\ ~Empty
  /\ AcquireHead
  /\ cpc' = "read"
  /\ UNCHANGED <<buf, head, tail, producerVars, cout, popResult,
                 headRel, unseenR, tailRel>>

(* out = buf_[tail]; *)
ReadSlot ==
  /\ cpc = "read"
  /\ cout' = buf[tail]
  /\ unseenR' = unseenR \cup {tail}
  /\ tailRel' = tailRel \ {tail}
  /\ cpc' = "publish"
  /\ UNCHANGED <<buf, head, tail, producerVars, popResult, unseenW, headRel>>

(* tail_.store((tail + 1) & kMask, release); return true; *)
StoreTail ==
  /\ cpc = "publish"
  /\ tail' = Succ(tail)
  /\ tailRel' = Slots
  /\ cpc' = "idle"
  /\ popResult' = cout
  /\ UNCHANGED <<buf, head, producerVars, cout, unseenW, headRel, unseenR>>

-----------------------------------------------------------------------------
PushStep == RejectFull \/ FoundRoom \/ WriteSlot \/ StoreHead
Producer == (\E v \in Item : PushCall(v)) \/ PushStep
Consumer == FoundEmpty \/ FoundItem \/ ReadSlot \/ StoreTail

Next == Producer \/ Consumer

Spec == Init /\ [][Next]_vars

(* The main loop may stop pushing, but not inside a Push.  Nothing is asked *)
(* of the consumer, which stalls for good when the audio device dies.       *)
FairSpec == Spec /\ WF_vars(PushStep)

-----------------------------------------------------------------------------
(* Properties. *)

TypeOK ==
  /\ buf \in [Slots -> Item \cup {NoItem}]
  /\ head \in Slots /\ tail \in Slots
  /\ ppc \in {"idle", "check", "write", "publish"}
  /\ pitem \in Item \cup {NoItem}
  /\ pushResult \in {"none", "accepted", "refused"}
  /\ cpc \in {"idle", "read", "publish"}
  /\ cout \in Item \cup {NoItem}
  /\ popResult \in Item \cup {NoItem}
  /\ unseenW \subseteq Slots /\ headRel \subseteq Slots
  /\ unseenR \subseteq Slots /\ tailRel \subseteq Slots

(* No slot is written while a read of it may still be under way or is not   *)
(* ordered before the write, and none is read before its latest write is    *)
(* visible: the plain accesses to buf_ in Push and Pop never race, which is *)
(* what the two acquire/release pairs of spsc.h are there for.              *)
NoDataRace ==
  /\ ppc = "write" => head \notin unseenR
  /\ cpc = "read" => tail \notin unseenW

(* The queue contents as the abstract specification sees them. *)
Wrap(j) == IF j >= N THEN j - N ELSE j
Contents == [i \in 1 .. Size |-> buf[Wrap(tail + i - 1)]]

Abstract == INSTANCE CommandQueue WITH q <- Contents, Capacity <- N - 1

(* The ring behaves as an atomic bounded FIFO: nothing accepted is lost,    *)
(* duplicated or reordered, a Push is refused exactly when N - 1 items are  *)
(* in, and a Pop reports nothing exactly when none is in.                   *)
ImplementsFifo == Abstract!Spec

(* Every accepted item is eventually taken, if the callback keeps running:  *)
(* it drains the queue in every block.                                      *)
DeliversEverything == WF_vars(Consumer) => Abstract!Drained

(* Push returns whatever the consumer does: the main loop never blocks on   *)
(* the audio side, full queue or not.                                       *)
PushWaitFree == ppc # "idle" ~> ppc = "idle"
=============================================================================
