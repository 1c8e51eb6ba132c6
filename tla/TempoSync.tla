------------------------------ MODULE TempoSync ------------------------------
(***************************************************************************)
(* Which tempo the machine runs at: the clock recovery of src/seq/clock.h, *)
(* driven by an external MIDI master, and what Machine::Process makes of   *)
(* it each audio block.                                                    *)
(*                                                                         *)
(* The unit of time is one audio block and periods are whole numbers of    *)
(* it.  Where the code adds a fraction of an error to the period or the    *)
(* phase, the model adds nothing or a whole unit of the same sign.         *)
(***************************************************************************)
EXTENDS Integers

CONSTANTS
  Masters,        \* periods of the masters that may be plugged in
  Tempos,         \* periods of the tempos the user and the patterns set
  MinInterval,    \* no interval below or above these is taken as a period
  MaxInterval,
  Timeout,        \* blocks of silence after which the master is given up
  Troubles        \* what may go wrong besides: see TroubleKinds

KAcquireClocks == 4

(* "early":  the master glitches or stops before five clocks have come;     *)
(* "slip":   it stops and starts again before a timeout has gone by;        *)
(* "retune": the tempo is set while a master that was followed is away.     *)
TroubleKinds == {"early", "slip", "retune"}

ASSUME TempoSyncAssumption ==
  /\ MinInterval \in Nat /\ MaxInterval \in Nat /\ Timeout \in Nat
  /\ Timeout < MaxInterval
  /\ Masters \subseteq MinInterval + 1 .. MaxInterval - 1
  /\ Tempos \subseteq 2 .. MaxInterval /\ Tempos # {}
  /\ \A J \in Masters : 2 * J < Timeout
  /\ Troubles \subseteq TroubleKinds

VARIABLES
  (* ClockPll *)
  spc,          \* spc_, the period in use
  internalSpc,  \* internal_spc_
  due,          \* next_expected_, from now
  lastAgo,      \* how long ago last_t_ is, up to MaxInterval
  clocks,       \* clocks_, up to one more than kAcquireClocks
  since,        \* since_clock_, up to one more than Timeout
  haveLast,     \* have_last_
  external,     \* external_
  counted,      \* Advance's own copy of since_clock_, between reading and writing it
  (* the sequencer and the published state; tempos as the period of a clock *)
  seqTempo,     \* Sequencer::bpm_
  seqRate,      \* Sequencer::samples_per_tick_q16_
  published,    \* MachineState::tempo
  pc,           \* where the callback is in its block
  (* the master *)
  master,       \* its period, 0 when it is silent
  toNext,       \* blocks until its next byte
  glitch,       \* what happened to its last byte: "none", "dropped", "doubled", "raced"
  (* history *)
  only          \* the period of the only master there has been, while nothing of
                \* Troubles has happened; 0 before any, -1 once it is not so

pllVars == <<spc, internalSpc, due, lastAgo, clocks, since, haveLast, external, counted>>
machineVars == <<seqTempo, seqRate, published, pc>>
masterVars == <<master, toNext, glitch>>
syncVars == <<pllVars, machineVars, masterVars, only>>

Lesser(a, b) == IF a < b THEN a ELSE b
Greater(a, b) == IF a > b THEN a ELSE b
Sign(x) == IF x > 0 THEN 1 ELSE IF x < 0 THEN -1 ELSE 0

SyncInit ==
  /\ internalSpc \in Tempos /\ spc = internalSpc
  /\ due = 0 /\ lastAgo = MaxInterval /\ clocks = 0 /\ since = 0
  /\ haveLast = FALSE /\ external = FALSE /\ counted = 0
  /\ seqTempo = internalSpc /\ seqRate = internalSpc /\ published = internalSpc
  /\ pc = "drain"
  /\ master = 0 /\ toNext = 0 /\ glitch = "none"
  /\ only = 0

-----------------------------------------------------------------------------
(* ClockPll::OnClock, in the UART interrupt. *)

FirstClock ==
  /\ ~haveLast
  /\ haveLast' = TRUE
  /\ due' = spc
  /\ UNCHANGED <<spc, external>>

(* Mutant of Seed: the first interval is averaged in like the others. *)
SeedAveraged(n, interval) == (spc + interval) \div 2

(* The period the n-th clock of the acquisition leaves. *)
Seed(n, interval) == IF n = 2 THEN interval ELSE (spc + interval) \div 2

Plausible == MinInterval < lastAgo /\ lastAgo < MaxInterval

Acquiring == haveLast /\ clocks < KAcquireClocks

Acquire ==
  /\ Acquiring
  /\ spc' = IF Plausible THEN Seed(clocks + 1, lastAgo) ELSE spc
  /\ due' = spc'
  /\ external' = TRUE
  /\ UNCHANGED haveLast

Err == -due

(* Mutant of Outlier: every byte is tempo information. *)
OutlierNever == FALSE

Outlier == 2 * Err > spc \/ 2 * Err < -spc

Resync ==
  /\ haveLast /\ ~Acquiring /\ Outlier
  /\ due' = spc
  /\ UNCHANGED <<spc, external, haveLast>>

(* The integral term.  It is clamped below, as in the code; above it is     *)
(* not, and MaxInterval is the model's bound.                               *)
Integrated == Lesser(Greater(spc + Sign(Err), 1), MaxInterval)

Track ==
  /\ haveLast /\ ~Acquiring /\ ~Outlier
  /\ spc' \in {spc, Integrated}
  /\ \E pull \in {0, Sign(Err)} : due' = due + spc' + pull
  /\ external' = TRUE
  /\ UNCHANGED haveLast

OnClock ==
  /\ clocks' = Lesser(clocks + 1, KAcquireClocks + 1)
  /\ since' = 0
  /\ lastAgo' = 0
  /\ FirstClock \/ Acquire \/ Resync \/ Track
  /\ UNCHANGED <<internalSpc, counted>>

-----------------------------------------------------------------------------
(* The master and its cable. *)

Acquired == clocks > KAcquireClocks

(* History: a trouble is one unless `fine`. *)
Note(fine) == only' = IF fine THEN only ELSE -1

(* PllAdvance is between reading since_clock_ and writing it back.          *)
Racing == pc = "count"

(* The window is two instructions wide.  Bound: of two bytes in a row only  *)
(* one falls into it; a byte in it every time would look like silence.       *)
Byte ==
  /\ master # 0 /\ toNext = 0
  /\ Racing => glitch = "none"
  /\ OnClock
  /\ toNext' = master /\ glitch' = IF Racing THEN "raced" ELSE "none"
  /\ UNCHANGED <<machineVars, master, only>>

(* Bound: whatever else happens to a master happens between two blocks.      *)
MayGlitch == pc = "drain" /\ glitch = "none" /\ (Acquired \/ "early" \in Troubles)

DropByte ==
  /\ master # 0 /\ toNext = 0 /\ MayGlitch
  /\ toNext' = master /\ glitch' = "dropped" /\ Note(Acquired)
  /\ UNCHANGED <<pllVars, machineVars, master>>

(* The byte that has just come is received a second time. *)
DoubleByte ==
  /\ master # 0 /\ toNext = master /\ haveLast /\ lastAgo = 0 /\ MayGlitch
  /\ OnClock
  /\ glitch' = "doubled" /\ Note(Acquired)
  /\ UNCHANGED <<machineVars, master, toNext>>

(* No byte has ever come, or none for longer than the timeout. *)
Rested == clocks = 0 \/ (since > Timeout /\ lastAgo > Timeout)

StartMaster(period) ==
  /\ pc = "drain" /\ master = 0
  /\ Rested \/ "slip" \in Troubles
  /\ master' = period /\ toNext' = 0 /\ glitch' = "none"
  /\ only' = IF Rested /\ only \in {0, period} THEN period ELSE -1
  /\ UNCHANGED <<pllVars, machineVars>>

StopMaster ==
  /\ pc = "drain" /\ master # 0 /\ (Acquired \/ "early" \in Troubles)
  /\ master' = 0 /\ toNext' = 0 /\ glitch' = "none" /\ Note(Acquired)
  /\ UNCHANGED <<pllVars, machineVars>>

-----------------------------------------------------------------------------
(* The audio callback: Machine::Process. *)

(* A drained SetTempo: the sequencer's tempo and the internal one. *)
InTune == external \/ ~Acquired

SetTempo(period) ==
  /\ pc = "drain"
  /\ InTune \/ "retune" \in Troubles
  /\ seqTempo' = period /\ seqRate' = period
  /\ internalSpc' = period
  /\ spc' = IF external THEN spc ELSE period
  /\ Note(InTune)
  /\ UNCHANGED <<due, lastAgo, clocks, since, haveLast, external, counted, published, pc,
                 masterVars>>

(* A drained LoadPatch: SetPattern sets the sequencer's tempo alone. *)
LoadTempo(period) ==
  /\ pc = "drain"
  /\ seqTempo' = period /\ seqRate' = period
  /\ UNCHANGED <<pllVars, published, pc, masterVars, only>>

(* Mutant of Silence: the count stops before it passes the timeout.        *)
SilenceStopsShort(n) == Lesser(n + 1, Timeout)

(* since_clock_ after one more block; it stops once it cannot matter.       *)
Silence(n) == Lesser(n + 1, Timeout + 1)

(* ClockPll::Advance, one block; time goes by for the master too.  OnClock   *)
(* may interrupt it wherever it touches what the two share.                  *)
PllAdvance ==
  /\ pc = "drain"
  /\ master # 0 => toNext > 0
  /\ toNext' = IF master = 0 THEN 0 ELSE toNext - 1
  /\ lastAgo' = Lesser(lastAgo + 1, MaxInterval)
  /\ due' = Greater(due - 1, -MaxInterval)
  /\ counted' = Silence(since)
  /\ pc' = "count"
  /\ UNCHANGED <<spc, internalSpc, clocks, since, haveLast, external, seqTempo, seqRate,
                 published, master, glitch, only>>

Silent(n) == external /\ n > Timeout

(* The count is written back, over a byte that came meanwhile.  Unless it   *)
(* says silence a byte that comes before it is looked at changes nothing.    *)
CountSilence ==
  /\ pc = "count"
  /\ since' = counted /\ counted' = 0
  /\ pc' = IF Silent(counted) THEN "check" ELSE "process"
  /\ UNCHANGED <<spc, internalSpc, due, lastAgo, clocks, haveLast, external, seqTempo, seqRate,
                 published, masterVars, only>>

CheckSilence ==
  /\ pc = "check"
  /\ IF Silent(since) THEN pc' = "forget" /\ external' = FALSE
     ELSE pc' = "process" /\ UNCHANGED external
  /\ UNCHANGED <<spc, internalSpc, due, lastAgo, clocks, since, haveLast, counted, seqTempo,
                 seqRate, published, masterVars, only>>

Forget ==
  /\ pc = "forget"
  /\ haveLast' = FALSE
  /\ pc' = "process"
  /\ UNCHANGED <<spc, internalSpc, due, lastAgo, clocks, since, external, counted, seqTempo,
                 seqRate, published, masterVars, only>>

(* Mutant of TickRate: the recovered rate is used whether or not it is live. *)
TickRateAlways == spc

(* SetTickRateQ16, only while externally synced. *)
TickRate == IF external THEN spc ELSE seqRate

(* The sequencer is given its rate, the block is rendered, the tempo published. *)
Process ==
  /\ pc = "process"
  /\ seqRate' = TickRate
  /\ published' = IF external THEN spc ELSE seqTempo
  /\ pc' = "drain"
  /\ UNCHANGED <<pllVars, seqTempo, masterVars, only>>

SyncNext ==
  \/ Byte \/ DropByte \/ DoubleByte \/ StopMaster
  \/ \E period \in Masters : StartMaster(period)
  \/ \E period \in Tempos : SetTempo(period) \/ LoadTempo(period)
  \/ PllAdvance \/ CountSilence \/ CheckSilence \/ Forget \/ Process

SyncSpec == SyncInit /\ [][SyncNext]_syncVars

(* The device keeps calling back, and a byte the master sends at its time   *)
(* is received unless it is dropped.                                        *)
FairSyncSpec ==
  /\ SyncSpec
  /\ WF_syncVars(PllAdvance \/ CountSilence \/ CheckSilence \/ Forget \/ Process)
  /\ WF_syncVars(Byte)

-----------------------------------------------------------------------------
(* Properties. *)

Periods == 1 .. MaxInterval

SyncTypeOK ==
  /\ spc \in Periods /\ internalSpc \in Tempos /\ seqTempo \in Tempos
  /\ seqRate \in Periods /\ published \in Periods
  /\ due \in -MaxInterval .. 2 * MaxInterval
  /\ lastAgo \in 0 .. MaxInterval
  /\ clocks \in 0 .. KAcquireClocks + 1
  /\ since \in 0 .. Timeout + 1 /\ counted \in 0 .. Timeout + 1
  /\ haveLast \in BOOLEAN /\ external \in BOOLEAN
  /\ pc \in {"drain", "count", "check", "forget", "process"}
  /\ master \in Masters \cup {0}
  /\ master = 0 => toNext = 0
  /\ toNext \in 0 .. MaxInterval
  /\ glitch \in {"none", "dropped", "doubled", "raced"}
  /\ only \in Masters \cup {-1, 0}

(* Through any dropped or doubled byte after the acquisition, and however   *)
(* often it stops and comes back, the period in use while synced is that of *)
(* the only master there is, from its second clock on.                      *)
HoldsTempo == external /\ only > 0 => spc = only

(* Losing the master does not change the rate the sequencer runs at: only a *)
(* synced block, the user or a loaded pattern does.                         *)
KeepsRate ==
  [][seqRate' # seqRate => external \/ (pc = "drain" /\ seqTempo' = seqRate')]_syncVars

(* A master that stops is eventually given up.                              *)
FallsBack == <>[](master = 0) => <>[]~external

(* The only master there is, once it sends a steady clock, is eventually    *)
(* the sync source, and its tempo the one in use and shown.                 *)
Follows == \A J \in Masters :
  <>[](master = J /\ only = J /\ glitch \in {"none", "raced"})
    => <>[](external /\ spc = J /\ published = J)

-----------------------------------------------------------------------------
(* Said of the code, and not true of it. *)

(* The clock being present, it is the sync source: a master that from some  *)
(* time on sends a steady clock is eventually not taken for silence.        *)
SyncsToMaster == \A J \in Masters :
                   <>[](master = J /\ glitch = "none") => <>[]external

(* A dropped or doubled byte is not filtered as if it were tempo            *)
(* information: with one master it is never another tempo that is in use.   *)
GlitchIsNotTempo == external => \A J \in Masters : spc = J

(* After a master is lost the tempo shown is the one kept.                  *)
ShowsKeptTempo == [][pc = "process" => published' = seqRate']_syncVars
=============================================================================
