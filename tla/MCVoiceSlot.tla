---------------------------- MODULE MCVoiceSlot -----------------------------
(* Two sound parameters and the LFO's destination; two steps, the first     *)
(* locking a parameter and the destination, the second nothing at first.    *)
EXTENDS VoiceSlot, TLC

CONSTANTS tune, tone, dest, a, b

L(p, v) == [param |-> p, value |-> v]
Locks(n, x, y) == [count |-> n, locks |-> <<x, y>>]
Patch(kit, la, lb) == [base |-> kit, steps |-> a :> la @@ b :> lb]
Base(t, n) == tune :> t @@ tone :> n @@ dest :> 0

MCDests == 0 :> None @@ 1 :> tune @@ 2 :> dest

One == Patch(Base(0, 2), Locks(2, L(tune, 2), L(dest, 1)), Locks(0, L(tune, 0), L(tune, 0)))
Other == Patch(Base(1, 0), Locks(1, L(tone, 1), L(tone, 1)), Locks(1, L(tune, 1), L(dest, 2)))
MCPatches == {One, Other}

MCBaseInputs == {<<tune, 1>>, <<dest, 1>>}
MCLockInputs == {<<tune, 0>>, <<dest, 2>>}
=============================================================================
