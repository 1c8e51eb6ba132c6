----------------------------- MODULE TrackGrid ------------------------------
(***************************************************************************)
(* One track under the edits that move its steps on the grid: micro        *)
(* timing, swing, and the length, speed and direction a loaded pattern     *)
(* brings.  Checks the scan of StepGrid over whole loops at the program's  *)
(* own constants.                                                          *)
(***************************************************************************)
EXTENDS StepGrid, FiniteSets

CONSTANTS Lengths, Speeds, Micros, Swings

Directions == {"Forward", "Reverse", "PingPong", "Random"}

(* A step lasts a tick at least at every speed, and at the one a track       *)
(* starts with.                                                             *)
ASSUME TrackGridAssumption ==
  /\ Lengths \subseteq Nat \ {0} /\ Speeds \subseteq Int
  /\ Micros \subseteq Int /\ Swings \subseteq Int
  /\ \A sp \in Speeds \cup {0} : TicksOf([speed |-> sp]) \in Nat \ {0}

VARIABLES track
gridVars == <<track>>

SameMicro(len, m) ==
  [i \in 0 .. len - 1 |-> [active |-> TRUE, micro |-> m, chance |-> FALSE, ratchet |-> 1]]

GridInit ==
  \E len \in Lengths :
    track = [steps |-> SameMicro(len, 0), length |-> len, swing |-> 0, speed |-> 0,
             direction |-> "Forward", muted |-> FALSE]

(* StepField::Micro: the stored offset is within +/-kMicroRange. *)
SetMicro(m) == track' = [track EXCEPT !.steps = SameMicro(track.length, m)]

SetSwing(s) == track' = [track EXCEPT !.swing = s]

(* Only a loaded pattern changes these three. *)
LoadTrack(len, sp, d) ==
  track' = [track EXCEPT !.length = len, !.speed = sp, !.direction = d,
                         !.steps = SameMicro(len, track.steps[0].micro)]

GridNext ==
  \/ \E m \in Micros : SetMicro(m)
  \/ \E s \in Swings : SetSwing(s)
  \/ \E len \in Lengths, sp \in Speeds, d \in Directions : LoadTrack(len, sp, d)

GridSpec == GridInit /\ [][GridNext]_gridVars

Positions == 0 .. CycleOf(track) - 1

(* Where in one loop position p fires: the tick, and the place in the       *)
(* window it is examined at.                                                *)
Firings(p) ==
  {f \in (0 .. LoopTicks(track) - 1) \X (1 .. 3) :
     LET window == Window(f[1] \div TicksOf(track), CycleOf(track))
     IN f[2] \in DOMAIN window /\ window[f[2]] = p /\ Lands(track, p, f[1])}

(* However its steps are displaced and however fast it runs, every position *)
(* of the cycle fires exactly once in each pass over the loop: the three    *)
(* positions EmitTick looks at are enough, and no step is dropped, doubled, *)
(* or looked at twice on its tick, which would roll its chance again.       *)
FiresOncePerLoop == \A p \in Positions : Cardinality(Firings(p)) = 1

(* Over a cycle every step is played: once going forward or backward, and   *)
(* the inner steps twice, the end points once, in ping-pong.                *)
StepVisits(s) == Cardinality({p \in Positions : StepForPosition(track, p) = s})
CycleCoversSteps ==
  \A s \in 0 .. track.length - 1 :
    StepVisits(s) = IF track.direction = "PingPong" /\ s \notin {0, track.length - 1}
                    THEN 2 ELSE 1

-----------------------------------------------------------------------------
(* Said of the code, and not true of it. *)

(* The four playback directions the README promises are four: no two of     *)
(* them play a track of three or more steps in the same order.              *)
DistinctDirections ==
  \A d, e \in Directions :
    d # e /\ track.length > 2 =>
      \E p \in 0 .. 2 * track.length - 3 :
        StepForPosition([track EXCEPT !.direction = d], p)
          # StepForPosition([track EXCEPT !.direction = e], p)
=============================================================================
