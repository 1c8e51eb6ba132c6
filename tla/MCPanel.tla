------------------------------ MODULE MCPanel -------------------------------
(* A patch with nothing in it and one with every step on, its lock
   list full: one lock of this encoder's and one of another's. *)
EXTENDS Panel

Plain(v, step) ==
  [kit |-> [t \in Tracks |-> [p \in Params |-> v]], fx |-> [b \in Banks |-> v],
   steps |-> [t \in Tracks |-> [k \in Keys |-> step]], muted |-> [t \in Tracks |-> FALSE]]

MCStored ==
  {Plain(1, [active |-> FALSE, locks |-> NoLocks, free |-> 2, field |-> VMax]),
   Plain(0, [active |-> TRUE, locks |-> [NoLocks EXCEPT ![0] = 2], free |-> 0,
             field |-> 0])}
=============================================================================
