----------------------------- MODULE Sequencer ------------------------------
(***************************************************************************)
(* The step sequencer of src/seq/sequencer.h, which runs inside the audio  *)
(* callback.  Process walks its block sample by sample; here each round of *)
(* that loop is a step, and offset is the loop counter.  Everything else   *)
(* -- transport, tempo, edits of the pattern, which Machine::Apply makes   *)
(* between blocks -- happens only when offset is 0.                        *)
(*                                                                         *)
(* One stands for 1 << 16, the accumulator's unit per sample: a rate that  *)
(* is not a multiple of One is a tick of a fractional number of samples.   *)
(* A step's probability draw is a free choice; velocity is left out.  Of   *)
(* the events written to the block's buffer only the order in which they   *)
(* are pushed and how many there are is kept.                               *)
(***************************************************************************)
EXTENDS StepGrid, FiniteSetsExt

CONSTANTS
  NumTracks,   \* kNumTracks
  Patterns,    \* the patterns that can be loaded or edited into place
  Rates,       \* the values samples_per_tick_q16_ takes
  One,         \* 1 << 16, scaled
  BlockSize,   \* samples per callback
  MaxEvents,   \* room in Process's output buffer: 32
  TickPeriod   \* stands in for 2^64: where tick_ wraps, a multiple of every loop

Tracks == 0 .. NumTracks - 1

ASSUME SequencerAssumption ==
  /\ NumTracks \in Nat \ {0}
  /\ One \in Nat \ {0}
  /\ Rates \subseteq Nat
  /\ \A r \in Rates : r >= One
  /\ BlockSize \in Nat \ {0}
  /\ MaxEvents \in Nat
  /\ TickPeriod \in Nat \ {0}
  /\ \A p \in Patterns : \A t \in Tracks :
       /\ p[t].length \in Nat /\ p[t].swing \in Int /\ TicksOf(p[t]) \in Nat
       /\ \A i \in 0 .. p[t].length - 1 : p[t].steps[i].micro \in Int
       /\ p[t].length > 0 /\ LoopTicks(p[t]) > 0 => TickPeriod % LoopTicks(p[t]) = 0

VARIABLES
  pattern,    \* *pattern_: a track record for each track
  playing,    \* playing_
  tick,       \* tick_: ticks since Start
  pos,        \* pos_q16_: the tick accumulator
  pending,    \* tick_pending_: a tick is due on the next sample
  rate,       \* samples_per_tick_q16_
  position,   \* position_: the playhead of each track
  ratchet,    \* ratchet_: countdown, interval and repeats left, per track
  offset,     \* the sample of the block being rendered
  count,      \* the events Process has written to `out` in this block
  hits,       \* history: how often each position fired in the current loop
  lost,       \* history: a step of the current loop found `out` full
  whole,      \* history: the current loop was played undisturbed so far
  origin,     \* history: the tick playback started from
  elapsed,    \* history: samples played since then
  steady      \* history: the rate has not changed since then

seqVars == <<pattern, playing, tick, pos, pending, rate, position, ratchet>>
historyVars == <<hits, lost, whole, origin, elapsed, steady>>
vars == <<seqVars, offset, count, historyVars>>

NoRatchet == [countdown |-> 0, interval |-> 0, left |-> 0]

(* The counts of a loop in which nothing has fired yet. *)
NoHits(tr) == [p \in 0 .. CycleOf(tr) - 1 |-> 0]

(* Machine::Init: the pattern is in place before the transport starts.      *)
Init ==
  /\ pattern \in Patterns
  /\ playing = FALSE
  /\ tick = 0 /\ pos = 0 /\ pending = TRUE
  /\ rate \in Rates
  /\ position = [t \in Tracks |-> 0]
  /\ ratchet = [t \in Tracks |-> NoRatchet]
  /\ offset = 0 /\ count = 0
  /\ hits = [t \in Tracks |-> NoHits(pattern[t])]
  /\ lost = [t \in Tracks |-> FALSE]
  /\ whole = [t \in Tracks |-> FALSE]
  /\ origin = 0 /\ elapsed = 0 /\ steady = TRUE

-----------------------------------------------------------------------------
(* Between blocks: what Machine::Apply makes of a command. *)

BetweenBlocks == offset = 0

(* Reset() and what the histories make of it. *)
RestartAt(tk) ==
  /\ tick' = tk /\ pos' = 0 /\ pending' = TRUE
  /\ ratchet' = [t \in Tracks |-> NoRatchet]
  /\ whole' = [t \in Tracks |-> FALSE]
  /\ origin' = tk /\ elapsed' = 0 /\ steady' = TRUE

Start ==
  /\ BetweenBlocks
  /\ RestartAt(0)
  /\ position' = [t \in Tracks |-> 0]
  /\ playing' = TRUE
  /\ UNCHANGED <<pattern, rate, offset, count, hits, lost>>

Continue ==
  /\ BetweenBlocks
  /\ playing' = TRUE
  /\ UNCHANGED <<pattern, tick, pos, pending, rate, position, ratchet, offset, count,
                 historyVars>>

Stop ==
  /\ BetweenBlocks
  /\ playing' = FALSE
  /\ UNCHANGED <<pattern, tick, pos, pending, rate, position, ratchet, offset, count,
                 historyVars>>

(* SeekToMidiBeat: a 16th of the timeline. *)
Seek(beats) ==
  /\ BetweenBlocks
  /\ beats * TicksPerStep < TickPeriod
  /\ RestartAt(beats * TicksPerStep)
  /\ UNCHANGED <<pattern, playing, rate, position, offset, count, hits, lost>>

(* SetTempo and SetTickRateQ16 both only replace the rate: the accumulator  *)
(* keeps what it has.                                                       *)
NewRate(r) ==
  /\ rate' = r
  /\ steady' = (steady /\ r = rate)
  /\ elapsed' = IF r = rate THEN elapsed ELSE 0

SetRate(r) ==
  /\ BetweenBlocks
  /\ NewRate(r)
  /\ UNCHANGED <<pattern, playing, tick, pos, pending, position, ratchet, offset,
                 count, hits, lost, whole, origin>>

(* The audio side changes the pattern under the sequencer: single steps     *)
(* (ToggleStep, SetStepField, SetSwing, SetTrackMute, ...) or all of it      *)
(* (LoadPatch, which also sets the tempo the pattern was saved with).       *)
NewPattern(p) ==
  /\ pattern' = p
  /\ whole' = [t \in Tracks |-> whole[t] /\ p[t] = pattern[t]]
  /\ hits' = [t \in Tracks |-> IF p[t] = pattern[t] THEN hits[t] ELSE NoHits(p[t])]

EditPattern(p) ==
  /\ BetweenBlocks
  /\ NewPattern(p)
  /\ UNCHANGED <<playing, tick, pos, pending, rate, position, ratchet, offset, count,
                 lost, origin, elapsed, steady>>

LoadPattern(p, r) ==
  /\ BetweenBlocks
  /\ NewPattern(p)
  /\ NewRate(r)
  /\ UNCHANGED <<playing, tick, pos, pending, position, ratchet, offset, count, lost, origin>>

-----------------------------------------------------------------------------
(* One sample of Process. *)

(* ServiceRatchets, for one track. *)
RepeatDue(r) == r.left > 0 /\ r.countdown - 1 <= 0

Serviced(r) ==
  IF r.left = 0 THEN r
  ELSE IF RepeatDue(r) THEN [r EXCEPT !.left = @ - 1, !.countdown = r.interval]
  ELSE [r EXCEPT !.countdown = @ - 1]

(* The tracks EmitTick plays: not muted, and with a loop to play. *)
Plays(tr) == ~tr.muted /\ tr.length > 0 /\ LoopTicks(tr) > 0

Local(tr) == tick % LoopTicks(tr)

Nominal(tr) == Local(tr) \div TicksOf(tr)

StepAt(tr, p) == tr.steps[StepForPosition(tr, p)]

(* The positions a tick looks at, of which the k-th is due if its step      *)
(* falls on this tick and is active.                                        *)
Scanned(tr) == Window(Nominal(tr), CycleOf(tr))

Due(tr, k) ==
  /\ Plays(tr)
  /\ k \in DOMAIN Scanned(tr)
  /\ Lands(tr, Scanned(tr)[k], Local(tr))
  /\ StepAt(tr, Scanned(tr)[k]).active

(* The draws: a step of probability below 100 may be skipped. *)
Uncertain ==
  {d \in Tracks \X (1 .. 3) :
     LET tr == pattern[d[1]]
     IN Due(tr, d[2]) /\ StepAt(tr, Scanned(tr)[d[2]]).chance}

Fired(t, skipped) == {k \in 1 .. 3 : pending /\ Due(pattern[t], k) /\ <<t, k>> \notin skipped}

(* What a sample pushes: <<0, t, 0>> is a repeat of track t and <<1, t, k>> *)
(* the k-th step it looked at.  First each track's repeat, then each track's *)
(* steps in the order of the scan.                                          *)
Pushes(skipped) ==
  {<<0, t, 0>> : t \in {t \in Tracks : RepeatDue(ratchet[t])}}
    \cup UNION {{<<1, t, k>> : k \in Fired(t, skipped)} : t \in Tracks}

Before(a, b) ==
  \/ a[1] < b[1]
  \/ a[1] = b[1] /\ a[2] < b[2]
  \/ a[1] = b[1] /\ a[2] = b[2] /\ a[3] < b[3]

(* Push: what does not fit in the output buffer is dropped. *)
Kept(pushes) ==
  {a \in pushes : count + Cardinality({b \in pushes : Before(b, a)}) < MaxEvents}

(* The last step fired with a ratchet sets the repeats of its track. *)
ArmRatchet(t, fired) ==
  LET tr == pattern[t]
      armed == {k \in fired : StepAt(tr, Scanned(tr)[k]).ratchet > 1}
      n == StepAt(tr, Scanned(tr)[Max(armed)]).ratchet
      interval == ((TicksOf(tr) * rate) \div One) \div n
  IN IF armed = {} THEN Serviced(ratchet[t])
     ELSE [countdown |-> interval, interval |-> interval, left |-> n - 1]

(* Mutant of Playhead: every track follows the 16th grid. *)
PlayheadOf16ths(t) ==
  IF pending /\ Plays(pattern[t]) /\ tick % TicksPerStep = 0
  THEN Nominal(pattern[t]) ELSE position[t]

Playhead(t) ==
  IF pending /\ Plays(pattern[t]) /\ Local(pattern[t]) % TicksOf(pattern[t]) = 0
  THEN Nominal(pattern[t]) ELSE position[t]

(* History: a track's counts start over with each loop it begins. *)
LoopBegins(t) == pending /\ Plays(pattern[t]) /\ Local(pattern[t]) = 0

Count(kept, t, p) == Cardinality({a \in kept : a[1] = 1 /\ a[2] = t /\ Scanned(pattern[t])[a[3]] = p})

(* Mutant of Advance: the accumulator starts over with each tick. *)
AdvanceFromZero ==
  LET reached == pos + One >= rate
  IN /\ pos' = IF reached THEN 0 ELSE pos + One
     /\ pending' = reached
     /\ tick' = IF pending THEN (tick + 1) % TickPeriod ELSE tick
     /\ LET wrapped == pending /\ tick + 1 = TickPeriod
        IN /\ steady' = (steady /\ ~wrapped)
           /\ elapsed' = IF steady' THEN elapsed + 1 ELSE 0

Advance ==
  LET reached == pos + One >= rate
  IN /\ pos' = IF reached THEN pos + One - rate ELSE pos + One
     /\ pending' = reached
     /\ tick' = IF pending THEN (tick + 1) % TickPeriod ELSE tick
     /\ LET wrapped == pending /\ tick + 1 = TickPeriod
        IN /\ steady' = (steady /\ ~wrapped)
           /\ elapsed' = IF steady' THEN elapsed + 1 ELSE 0

Sample ==
  /\ playing
  /\ offset < BlockSize
  /\ offset' = offset + 1
  /\ \E skipped \in SUBSET (IF pending THEN Uncertain ELSE {}) :
       LET pushes == Pushes(skipped)
           kept == Kept(pushes)
       IN /\ count' = count + Cardinality(kept)
          /\ ratchet' = [t \in Tracks |-> ArmRatchet(t, Fired(t, skipped))]
          /\ hits' = [t \in Tracks |-> [p \in DOMAIN hits[t] |->
                       (IF LoopBegins(t) THEN 0 ELSE hits[t][p]) + Count(kept, t, p)]]
          /\ lost' = [t \in Tracks |-> \/ lost[t] /\ ~LoopBegins(t)
                                       \/ \E a \in pushes \ kept : a[1] = 1 /\ a[2] = t]
  /\ whole' = [t \in Tracks |-> whole[t] \/ LoopBegins(t)]
  /\ position' = [t \in Tracks |-> Playhead(t)]
  /\ Advance
  /\ UNCHANGED <<pattern, playing, rate, origin>>

(* Process returns; the machine hands the events to the voices.             *)
EndBlock ==
  /\ offset = BlockSize
  /\ offset' = 0
  /\ count' = 0
  /\ UNCHANGED <<seqVars, historyVars>>

Next ==
  \/ Start \/ Continue \/ Stop
  \/ \E beats \in 0 .. TickPeriod \div TicksPerStep : Seek(beats)
  \/ \E r \in Rates : SetRate(r)
  \/ \E p \in Patterns : EditPattern(p)
  \/ \E p \in Patterns, r \in Rates : LoadPattern(p, r)
  \/ Sample
  \/ EndBlock

Spec == Init /\ [][Next]_vars

-----------------------------------------------------------------------------
(* Properties. *)

TypeOK ==
  /\ pattern \in Patterns
  /\ playing \in BOOLEAN /\ pending \in BOOLEAN
  /\ tick \in 0 .. TickPeriod - 1
  /\ pos \in Nat /\ rate \in Rates
  /\ position \in [Tracks -> Nat]
  /\ ratchet \in [Tracks -> [countdown : Nat, interval : Nat, left : Nat]]
  /\ offset \in 0 .. BlockSize
  /\ count \in 0 .. MaxEvents

(* A loop that a track played from its first tick to its last, unmuted and  *)
(* unedited, fired every certain step at each of its positions exactly once *)
(* unless the buffer of a block was full, and no other step more than once,  *)
(* whatever the tempo did meanwhile.                                        *)
LoopDone(t) == whole[t] /\ Plays(pattern[t]) /\ tick % LoopTicks(pattern[t]) = 0

OncePerLoop ==
  \A t \in Tracks : LoopDone(t) =>
    \A p \in DOMAIN hits[t] :
      LET st == StepAt(pattern[t], p)
      IN /\ hits[t][p] <= IF st.active THEN 1 ELSE 0
         /\ st.active /\ ~st.chance /\ ~lost[t] => hits[t][p] = 1

(* While the rate stands, tick k falls on the first sample at or past k tick *)
(* lengths after Start: the accumulator never drifts.                        *)
NoDrift ==
  steady => /\ elapsed * One = (tick - origin + (IF pending THEN 1 ELSE 0) - 1) * rate + pos
            /\ pos < rate

(* The playhead is on the position the last tick belongs to. *)
PlayheadOnGrid ==
  \A t \in Tracks :
    LET tr == pattern[t]
    IN whole[t] /\ Plays(tr) =>
         position[t] = ((tick - 1) % LoopTicks(tr)) \div TicksOf(tr)
=============================================================================
