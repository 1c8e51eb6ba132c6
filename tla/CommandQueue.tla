---------------------------- MODULE CommandQueue ----------------------------
(***************************************************************************)
(* What the UI -> audio queue promises its two users: a bounded FIFO whose *)
(* operations are atomic.  Push either appends the item or, when the queue *)
(* is full, refuses it and changes nothing; Pop either takes the oldest    *)
(* item or reports that there is none.                                     *)
(***************************************************************************)
EXTENDS Naturals, Sequences

CONSTANTS
  Item,      \* the values pushed (Command structs)
  NoItem,    \* "no item": what a Pop that found nothing returns
  Capacity   \* items the queue holds: SpscQueue::capacity(), N - 1

VARIABLES
  q,           \* the items accepted and not yet taken, oldest first
  pushResult,  \* outcome of the last Push: "none", "accepted" or "refused"
  popResult    \* outcome of the last Pop: an item, or NoItem

vars == <<q, pushResult, popResult>>

Init ==
  /\ q = <<>>
  /\ pushResult = "none"
  /\ popResult = NoItem

Room == Len(q) < Capacity

Accept(v) ==
  /\ Room
  /\ q' = Append(q, v)
  /\ pushResult' = "accepted"
  /\ UNCHANGED popResult

Refuse ==
  /\ ~Room
  /\ pushResult' = "refused"
  /\ UNCHANGED <<q, popResult>>

Take ==
  /\ q # <<>>
  /\ q' = Tail(q)
  /\ popResult' = Head(q)
  /\ UNCHANGED pushResult

Miss ==
  /\ q = <<>>
  /\ popResult' = NoItem
  /\ UNCHANGED <<q, pushResult>>

Next == (\E v \in Item : Accept(v)) \/ Refuse \/ Take \/ Miss

Spec == Init /\ [][Next]_vars

(* An accepted item is eventually taken. *)
Drained == WF_vars(Take)
=============================================================================
