# drom-triks in TLA+

Formal models of the drum machine in this repository: its sequencer, its voices
and their parameter locks, channel strip and master delay, the hand-over of
commands and patches between the main loop and the audio callback, its MIDI
clock recovery, its flash slots, its SysEx transfers, its panel and its lights.
TLC checks every model on small instances; TLAPS proves every safety property the
passing runs check for every value of the constants, a few under a hypothesis named
with the theorem (section 5).

All paths below are relative to the repository; `sequencer.h` means
`src/seq/sequencer.h`, and so on.

## 1. The system

Two contexts share the program (a third, the MIDI byte interrupt, only calls
`Machine::OnMidiClock`, and may preempt the audio callback):

    main loop (ui.h, play.cpp, storage.h)          audio callback (machine.h)
      keys, detents -> Ui -> Command  --- queue_ --->  DrainCommands, Apply
      RequestSnapshot / RequestLoad   --- queue_ --->  copies patch_ out / in
      SnapshotReady                   <-- flag ------  snapshot_done_
      Ui reads patch(), state()       <-- stale -----  patch_, AudioState
      Storage: staging_ <-> flash                      ClockPll, Sequencer,
                                                       12 VoiceSlots: machine, strip
                                                       MasterFx: delay, reverb, ...

| Component | Its state | Its operations | What makes it correct |
|---|---|---|---|
| `SpscQueue` (`spsc.h`) | ring, `head_`, `tail_` | `Push`, `Pop` | no race on a slot; an atomic bounded FIFO; `Push` never waits |
| Step grid (`pattern.h`, `sequencer.h`) | none: arithmetic | `ticks_per_step`, `positions_per_cycle`, `StepForPosition`, `SwingTicks`, the window of `EmitTick` | every position fires exactly once a loop |
| `Sequencer` | transport, tick, accumulator, playheads, ratchets | `Start`, `Stop`, `Continue`, `Seek...`, `SetTempo`, `SetTickRateQ16`, `SetPattern`, `Process` | no step lost or doubled, no drift, playheads on the grid |
| `ClockPll` (`clock.h`) | period, expected edge, `clocks_`, `external_` | `OnClock`, `Advance`, `SetInternalTempo` | a glitch is not tempo; a lost master does not stop the music |
| `VoiceSlot` (`voice.h`) | base values, locks pending, locked mask, delay | `SetBase`, `Schedule`, `Process`, `Rebind`, `AdvanceLfo` | a lock lasts one step and leaks nowhere |
| `Lfo` | phase, fade, mode, `finished_` | setters, `Trigger`, `Advance` | modes do what they say |
| `Machine` (`machine.h`) | `patch_`, handshake flags | `Push`, `Process`, `Apply`, `Request...` | one writer of the patch; coherent copies |
| `Storage` (`storage.h`, `storage_layout.h`, `flash.h`) | staging buffer, flash | `SavePatch/Kit/Staged`, `LoadPatch/Kit` | a slot loads what was saved in it |
| `Ui` (`ui.h`) | mode, page, track, held step, gestures, storage request | key presses and releases, detents, `TakeStorageRequest` | edits go where they are aimed, nothing sticks |
| SysEx (`sysex.h`) | bulk reassembly | `Handle`, builders | two transfers are never spliced |
| Voices (`machines.h`, `voices/synth.h`, `voices/drums.h`) | parameters, what is worked out from them, envelopes, countdowns | `SetParam`, `Set`, `Trigger`, `Process` | nothing worked out is stale; a hit is whole, ends, and is not cut |
| Channel strip (`channel.h`) | filters, cached bypass, sends | `SetParam`, `Process` | what was asked is what is set; the bypass follows |
| Master delay (`fx.h`) | ring of frames, lowpass | `SetParam`, `Process` | echoes on time; the loop never grows |
| LEDs (`led.h`) | none: a frame is drawn from what is read | `Render`, `Clamp` | every light can be read after the budget has scaled it |
| Display (`display.h`) | none | drawing | shows what is |
| Firmware entry (`main.cpp`) | bring-up only | blink, sine, QSPI counter | runs none of this yet |

Interactions: the `Ui` pushes commands and never writes the patch; the audio
side is the patch's only writer; the main loop gets a coherent copy by asking
for a snapshot and gives one back with a load; the sequencer's events become
`Schedule` calls on the slots once a block; the PLL overrides the sequencer's
rate while a master is heard.

What is hard here: the lock-free ring; copies of 30 kB made while the other
side runs; requests overlapping a handshake still under way; a UI that reads a
patch older than its own commands; everything that happens between a press and
its release; steps displaced off their own tick; locks restored by a later
step; one pending trigger a slot; a clock that glitches, stops and comes back
different; power cuts during a save; bytes too coarse for the encoder that
turns them; values worked out when a parameter is set and kept until the next
one that remembers to; gates that must outlast every tail; an interrupt between
two instructions of the callback. `PROJECT.json` lists each such hazard at its line, with the
properties that cover it or the reason none does yet.

## 2. Modules

| Module | Models | Uses |
|---|---|---|
| `CommandQueue` | what the ring promises: an atomic bounded FIFO | |
| `SpscQueue` | `Push` and `Pop` of `spsc.h`, split at shared accesses | refines `CommandQueue` |
| `SpscQueueProofs` | theorems about it | |
| `StepGrid` | the arithmetic of steps and ticks | |
| `TrackGrid` | one track under the edits that move its steps | `StepGrid` |
| `Sequencer`, `MCSequencer` | `sequencer.h`, a sample a step | `StepGrid` |
| `TempoSync` | `clock.h`, a MIDI master, and the tempo `Machine::Process` makes of it | |
| `TimingProofs` | theorems about when things happen | `Sequencer`, `TempoSync`, `TrackGrid` |
| `VoiceSlot`, `MCVoiceSlot` | one track's slot and the commands, blocks and samples that reach it | |
| `VoiceSlotProofs` | theorems about it | |
| `PatchExchange` | save and load: `play.cpp`'s loop against `DrainCommands` | `CommandQueue` |
| `PatchExchangeProofs` | theorems about it | |
| `SysExBulk`, `MCSysExBulk` | the seven-bit codec, dump chunks and bulk reassembly of `sysex.h`, and the cable between | |
| `Storage` | slots, erase, write, power cut | |
| `DataProofs` | theorems about patterns at rest and on the wire | `Storage`, `SysExBulk` |
| `Panel`, `MCPanel` | `ui.h` with its queue and `Machine::Apply` | |
| `PanelProofs` | theorems about it | |
| `StepDetail` | one step field under its encoder, at the byte's own resolution | |
| `Leds` | `led.h`: the 34 lights and their current | |
| `StepFields`, `MCStepFields` | what becomes of a step's fields: set, shown, played | `StepDetail`, `Leds`, `TrackGrid` |
| `StepFieldsProofs` | theorems about the encoder and the lights | |
| `MachineClasses` | the classes of `synth.h` and `drums.h`, as tables | |
| `Voices` | one track's machine: `MachineSlot`, `VoiceBase` and the class in it | `MachineClasses` |
| `ChannelStrip` | `channel.h` and the routing of `VoiceSlot::Dispatch` | |
| `Lfo` | phase, fade and end of `lfo.h` | |
| `MasterDelay` | `StereoDelay` of `fx.h`, a sample a step | |
| `SoundPath`, `MCSoundPath` | a track's sound from machine to master | `Voices`, `ChannelStrip`, `Lfo`, `MasterDelay` |
| `SoundPathProofs` | theorems about its four parts | |

`PROJECT.json`'s "map" gives the source lines of every definition. Definitions
whose comment starts with "Mutant of" are plausible bugs of the code; each
property is checked to fail when the definition it names is replaced by one.

### How models and code correspond

*SpscQueue.* `head`, `tail` and `buf` are the members; a thread's program
counter (`ppc`, `cpc`) stands before its next access to memory the other one
touches. Release and acquire are modelled by what they order: `headRel` is the
set of slots whose latest write precedes the release store `head_` now holds,
and an acquire load takes them out of `unseenW`. The two sets in the other
direction say the same of reads. A relaxed load of one's own index has nothing
to race with and is folded into the next step.

*StepGrid and Sequencer.* `Sample` is one turn of the loop in `Process`:
ratchets of all tracks, then, if a tick is pending, `EmitTick` for all tracks,
then the accumulator. `offset` is the loop counter; commands are only applied
at `offset = 0`, as in `Machine::Process`. Loads and edits are any change from
one pattern of `Patterns` to another. Of the events written to the block's buffer
(`out`, of 32 in the code) only their order and their number, `count`, are kept:
`Pushes` is what a sample pushes, in the order of `Before`, and `Kept` what of it
still fits. `hits`, `lost`, `whole`, `origin`, `elapsed` and `steady` are history
variables: no guard reads them. `tick` is 64 bits wide in
the code; the model wraps it at `TickPeriod`, a multiple of every loop, so that
the wrap changes no position.

*VoiceSlot.* `written[p]` is the last value `Dispatch` gave parameter `p`'s
owner (voice, channel strip or LFO). `sched` is the pair `locks_`,
`lock_count_`: a pointer into the live step, so it names the step and the count
it had when scheduled. A block begins with `BeginBlock`, which schedules what
the sequencer emitted (only the last event of the track survives) and advances
the LFO; each `Frame` is a sample; commands come between blocks. The LFO's
output is any value of `LfoValues`.

*PatchExchange.* Every copy of a patch, in memory or to flash, takes two steps,
one for each half, and a half is the number of the edit that made it. The main
loop's `pc` follows `play.cpp:566-745`: keys, the storage request, the poll.

*TempoSync.* Time is counted in blocks. `due` is `next_expected_` relative to
now, `lastAgo` the age of `last_t_`. Where the filter adds a fraction of the
error, the model adds nothing or one unit of its sign: the outcome of any gain
below one. The master's byte can be dropped or received twice. `OnClock` runs in
the UART interrupt, and `Advance` is split where it touches what the two share:
reading `since_clock_` (`Advance`, into `counted`), writing it back
(`CountSilence`), looking at it again (`CheckSilence`, which drops `external_`)
and dropping `have_last_` (`Forget`). `Byte` may come between any two of them. Of
two bytes in a row at most one comes between the read and the write: a master
whose every byte falls into those two instructions would be taken for silent, and
no clock keeps that phase against the audio clock. `SetInternalTempo`'s test and
store are one step. Its definitions that share a name with `Sequencer`'s carry
`Sync` in theirs, so that one module of proofs can speak of both.

*SysExBulk.* A frame is a record: command, slot, chunk, number of chunks and the
packed bytes. The codec is the code's, group of seven by group of seven, only the
chunk is one group (896 bytes in the code) and a payload two or three chunks; the
first byte of a payload stands for its header. Any chunk of any transfer may come
next, whole or damaged: loss, repetition, reordering and interleaving at once.
Control commands, requests and replies keep no state, and are the frames
(`OtherFrame`) that leave the transfer alone.

*Storage.* A page is written at once, a sector erased at once. `Program` only
clears bits: writing over a page that is not erased gives garbage, which is
what a missing erase would do. `Cut` is a power cut or a driver error.

*Panel.* One encoder is followed; the other seven meet it only in
`EndGestures`, and in the room a step's lock list has left (`free`): a lock more
than `MaxLocks` is dropped by `WriteLock`. `q` holds what was pushed and not applied yet, and the UI reads
`patch`, which is behind.

*StepDetail.* Exact integers instead of floats, in units of which both the
detent and the byte are multiples.

*Leds.* A colour is three bytes; a product with a float that is cast to a byte
is the exact product cut to a whole number. `Picked` is the frame before `Clamp`,
and `Current` adds it up light by light as `FrameCurrentMa` does. `scene` is what `Render` reads of
`Machine` and `Ui`; one part of it changes from frame to frame, and the frame is
drawn from nothing else, so the order of changes does not matter to it.

*MachineClasses and Voices.* What a class computes a sample at a time (oscillator,
filter, resonator) is left out; kept is everything its control depends on. A
quantity it works out from parameters (`base_hz_`, a decay time, a mode table) is
represented by the parameter values it was worked out from (`derived`), so that a
stale one is visible. `MachineClasses` has one record a class: what each quantity
depends on, what each case of `OnParam` works out again, the envelopes and what
sets their times, which of them `Trigger` starts and which close the gate. It is a
table because the code is one: thirteen classes of one shape. What does not fit the
shape (the clap's bursts, the glitch's grains, the triangle's countdown) is an
action of its own in `Voices`. `Process` is a step of one coarse unit of time; the
units keep the order of times within a class, which is all that gates depend on.

*ChannelStrip.* `asked` is what was last sent to each of the 32 parameter ids,
whoever it belongs to. `SetStripParam` is `VoiceSlot::Dispatch`'s routing, the
case of `ChannelStrip::SetParam`, and the `UpdateBypass` it ends with.

*MasterDelay.* Samples are integers, gains percents, and each product is rounded
to zero. `age` is a history variable: how long ago each slot was written.

*SoundPath and StepFields.* The parts of each share no variable, so `part` says
which of them takes the steps of a behaviour; what one can reach does not depend
on the others.

## 3. Runs

| Run | Bounds | Shows |
|---|---|---|
| `SpscQueue` | 4 slots, 2 items | all interleavings of `Push` and `Pop`: `NoDataRace`, `ImplementsFifo`, `DeliversEverything`; `PushWaitFree` even with a callback that has stopped. The ring wraps and fills. |
| `Sequencer` | 2 tracks, 4 ticks a step, 3 patterns, 2 rates (one fractional), blocks of 3 samples with room for 3 events | `OncePerLoop`, `NoDrift`, `PlayheadOnGrid` through transport, seek, tempo, edits, loads. The buffer fills and drops events; `OncePerLoop` asks nothing of the steps of a loop that lost one. |
| `VoiceSlot` | 3 parameters of 3 values, 2 steps of 2 locks, 2 patches, 2 samples a block | `NoLeak`, `FreshLocks`, `EffectiveValue` |
| `PatchExchange` | 2 slots, queue of 2, 2 edits, 3 requests, saves and loads overlapping | saves coherent and current, loads exact, every save whose command was taken is written. The queue fills. |
| `TempoSync` | two masters, dropped and doubled bytes early or late, bytes that interrupt the count of silence, pauses, other tempos, retuning | `HoldsTempo`, `KeepsRate`, `FallsBack`, `Follows` |
| `TempoSync_newmaster` | two masters, no trouble but the change | violates `SyncsToMaster` |
| `SysExBulk` | groups of 7, chunks of one group, 6 transfers of 1 to 4 chunks, three of them of one slot, one of these too long in as many chunks | `NoSplice`, `Restores` (through the codec, with short groups and high bits) |
| `Storage` | sectors of 2 pages, 2 kits of 1 page, 2 patterns of 3, 3 saves | `LoadsLastSave` |
| `Panel` | 2 tracks, keys, pages and banks, 3 values, lists of 2 locks, 2 commands behind, 6 inputs | `EditsLand`, `LocksKeepStep` |
| `StepFields` | detail: every field, every byte of it, both directions, every pace. Grid: 24 ticks a step (the program's), lengths 1-4, speeds 1/2x to 4x, micro -23..23, four swings. Lights: the program's 34, five patterns of ends of velocity and locks, twelve tracks, playhead on and off the keys, pulse at both ends, frames under and over the budget | `ClicksAddUp`, `TurnsTheRightWay`, `FiresOncePerLoop`, `CycleCoversSteps`, `LightsTell` |
| `SoundPath` | voices: all fifteen machines, six parameters of two levels, three strikes. Strip: 27 settings around its thresholds. LFO: 4 parts a cycle, 3 a fade, blocks of a fraction of a cycle and of one and a half. Delay: 4 frames, feedback a half, inputs of 0 and 2 | `DerivedCurrent`, `HitsWhole`, `ClosesOnSilence`, `HitEnds`; `StripCurrent`; `OneShotNeverLoops`, `OneShotSettles`; `EchoOnTime`, `Bounded` |

A module's `TypeOK` states the types of its state; it is an invariant of a run
where a proof rests on it and the run can afford it.

Why these bounds are enough. The ring's behaviour depends on full, empty, one
item and wrap-around, all of which four slots reach, and the proofs cover every
size. The step window looks one position either way, so cycles of one to four
positions (six, in ping-pong) contain every way it can meet itself; ticks and
offsets are the program's own. Two tracks of different cycle lengths are enough
for polymeter, because tracks share only tick and rate. Locks interact through
at most two steps (the one sounding and the one scheduled) and one LFO
destination that moves. Patch tearing needs two halves and two requests.
`TempoSync` scales half a second of silence and five clocks to a few blocks,
keeping their order (interval < half the timeout < the longest interval); its two masters are the
closer and the further side of the outlier guard from each other and from the
internal tempos. Storage needs two
neighbouring slots of each kind, one of them shorter than its sectors. A panel
gesture that goes wrong needs a press, a modifier, a detent, a release and a
second press: six inputs, with the queue drained at any point between them. A
voice's hit goes wrong by being struck or turned while it sounds: three strikes
are one to sound, one to cut in and one more after it, and two levels of a
parameter put every pair of its times in either order. Four frames of delay are
enough for a read to be just behind, half a ring behind and just ahead of the
write; the proofs cover every length and every input, negative ones too.
The bounds that are not the code's (`MaxEdits`, `MaxRequests`, `MaxSaves`,
`MaxInputs`, `MaxPending`, `MaxInterval`, `TickPeriod`, `MaxClicks`, `MaxStrikes`,
`StripInputs`, `Times`, `Percents` and the `...Seen` of `Leds`) are named in the
modules. `CHECK_DEADLOCK` is off only for `Storage` and `Panel`, where the bounded
user has nothing left to do, and for `SoundPath`, where a strip asked for nothing
else may stand still.

Fairness. `SpscQueue` assumes only that the producer's own thread runs once it
is in `Push` (`WF_vars(PushStep)`); that the callback keeps being called is the
antecedent of `DeliversEverything`, so `PushWaitFree` holds without it.
`PatchExchange` assumes that the callback keeps being called and that the main
loop keeps passing: the audio device calls back once a block and `play.cpp`'s
loop never blocks. `SoundPath` assumes `LfoAdvance` and the voices' `Process`, which
`Machine::Process` makes every block, and of a voice that is idle it asks nothing.
`FairSyncSpec` of `TempoSync` assumes blocks go by and that a byte due is received unless
it is dropped; no fairness is put on a master's starting or stopping, nor on a
user. All of it is weak fairness: none of these steps, once possible, is ever
taken away and given back for ever.

## 4. Where the code and its documents disagree

The run `TempoSync_newmaster` is expected to find a violation, and
`PROJECT.json` quotes the text it contradicts: a master that replaces another at a
very different tempo is never followed, because the timeout leaves `clocks_` past
acquisition and every byte is then an outlier.

Modelling met more such places. Each, but for the two below the table, is stated
as a property at the end of its module, under "Said of the code, and not true of
it", or is a passing property under a weaker constant; to reproduce one, name it in
the cfg of the run its module belongs to, with the constants given here. The
temporal `Lfo!FreeRuns` needs `Lfo` by itself, as the parts of `SoundPath` that are
not exercised stand still: `LfoInit`, `LfoNext` and weak fairness of `LfoAdvance`.

| Property | Constants | What is said, and what the code does |
|---|---|---|
| `TrackGrid!DistinctDirections` | | README.md:102 "four playback directions": `StepForPosition` plays Random as Forward (`sequencer.h:175-177`). |
| `VoiceSlot!ModulatedValue` | | voice.h:364 locks apply "at the moment the voice fires, not at schedule time": `AdvanceLfo` reads the list of a step scheduled for later in the block, so the LFO's destination takes it early. |
| `VoiceSlot!RepeatKeepsLocks` | | voice.h:349 locks last "one step": a ratchet's repeats carry no locks (`sequencer.h:293-296`), so the rest of the step sounds with the knobs. |
| `VoiceSlot!AuditionImmediate` | | machine.h:259 "Fires immediately": a step of the same block replaces the audition (`machine.h:150-154`). |
| `Lfo!OneShotIsOneCycle` | | lfo.h:36 "One cycle from the start phase": the shot ends where the phase wraps at 1. |
| `Lfo!FreeRuns` | | lfo.h:29, 34: `finished_` outlives the mode, so an LFO switched from ONE to FREE or HOLD stands still. |
| `PatchExchange!SavedCoherent` | `Overlaps = {"save"}`, `Capacity = 3` | machine.h:71-78 "a torn Patch passes every header check": a second save asked for before the first is written refills the staging buffer while it is being written. |
| `PatchExchange!LoadedExactly` | `Overlaps = {"load"}`, `Capacity = 3` | machine.h:101 the source must outlive the request: a second load fills `play.cpp`'s one buffer while the first is copied. |
| `PatchExchange!EverySaveLands` | | play.cpp:712: a Snapshot command refused by a full queue is waited for for ever (`machine.h:89` drops the result). |
| `TempoSync!GlitchIsNotTempo` | `Masters = {5}` | clock.h:131: a byte dropped or doubled during acquisition is averaged into the period. |
| `TempoSync!ShowsKeptTempo` | | 06-midi.md:218 falls back "at the last-known tempo": the rate does, the tempo shown does not (`machine.h:390`). |
| `SysExBulk!OneTransfer` | | sysex.h:364 "or a dropped frame would silently splice two transfers": two attempts at one slot splice where the second loses its beginning and the first its end. |
| `Storage!LosesNothing` | | 04-development-plan.md:134: the slot is erased in place before it is written, so a power cut loses the save before, too. |
| `Panel!EditShown` | | ui.h:486: a load or a note in the middle of a gesture does not end it, and its next detent writes the old value back. |
| `Panel!DetailKeepsStep` | | ui.h:625, uitest.cpp:262: letting SHIFT go first turns off the step whose detail was edited. |
| `Panel!NoStuckHold` | | ui.h:44: a step let go while PATTERN is down stays held. |
| `Voices!IndexShorter` | | synth.h:464 "Always shorter than the amplitude envelope": with SNAP down and DECAY down the index envelope is the longer. |
| `Voices!RingsOut` | | The triangle's gate counts six time constants of the DECAY it was struck at; DECAY turned up while it rings lengthens the ring and not the count, which cuts it. |
| `Leds!QuarterBright` | | 02-firmware.md:689 "never renders below 25 %": the budget's clamp scales the frame after the floor was applied. |
| `Leds!OnlyPlayheadWhite` | | 02-firmware.md:685 "must never be ambiguous": a quiet locked step at the top of its pulse is nearly white, too. |
| `Leds!PlayheadShown` | | tracks are up to 64 steps long and the keys show the first 16: for the rest of the loop no playhead is lit. |
| `Leds!VelocityShows` | | 02-firmware.md:683 "dim→bright = velocity": neighbouring velocities come out as one colour once cut to bytes. |
| `StepDetail!PushRestores` | | ui.h:579 "as if you had never touched it": the push writes ratchet 8 and velocity 127. |
| `StepDetail!ClickMoves` | | ui.h:482 "a deliberate click is fine": after a pause it is rounded away on every field of fewer than 128 values, so slow clicks never move it. |

Two more came out of proofs, each as a hypothesis or a disjunct that could not be
left away:

- A lock on a ninth parameter is dropped without a word (`machine.h:355`), though
  the step comes on and the encoder goes on showing the gesture's value: `NoRoom`
  in `Panel!EditsLand`.
- A frame that lost its last byte before the F7 still decodes, one byte shorter,
  and so a transfer longer than the size expected by no more bytes than it has
  chunks can pass for one of the right size: `NoNearMiss` in `NothingSpliced`.
  `MCSysExBulk`'s longer transfer is too long for that. Likewise `Continues` tells
  transfers apart by their number of chunks, not by their size, and that is all
  `SysExBulk!NoSplice` claims.

## 5. Theorems

Nothing is assumed but the named ASSUMEs of the modules, which say what kind of
thing each constant is, and two hypotheses named below, about `Overlaps` and
`NoNearMiss`, without which the statement is false of the code.

**SpscQueueProofs** (any `N >= 2`, any items). `TypeCorrect`, `RaceFree` and
`Refinement`: the ring implements `CommandQueue` with capacity `N - 1`. The
inductive invariant adds to type correctness that the ring keeps the room a
producer found and the item a consumer found (`RoomKept`, `ItemKept`: only the
other side could take them away, and it only adds to them), that the value read
is still the one at `tail` (`ReadValue`), that the item written is the one at
`head` (`PushedItem`), and that what is not yet visible lies outside what the
index publishes (`WritesPublished`, `ReadsPublished`). Without these
`NoDataRace` is not inductive: the state after an acquire does not say why the
slot is safe. The step that publishes `head` maps to `Accept`, the refusal to
`Refuse`, and likewise for `Pop`; every other step stutters.

**VoiceSlotProofs** (any parameters, steps, patches, LFO values and block
length). `TypeCorrect`; `LocksNeverLeak` (`NoLeak`); `FiresFresh`
(`FreshLocks`); `LocksLastTheirStep` (`EffectiveValue`). The invariant adds
`DueInBlock`, that a step waiting to fire is due in the block being rendered:
commands only come between blocks, so no edit comes between scheduling and
firing. `EffectiveValue` speaks, for each parameter, of behaviours in which the
LFO is never routed to it; it needs in addition that outside firing the sounding
lock is what a locked parameter reads (`Sounds(p)`), which is inductive only
together with `lastDest # p` in both states, hence a temporal proof per
parameter and not one more conjunct of the invariant.

**TimingProofs**, about the grid (any resolution, lengths, speeds that leave a step
a tick or more, micro offsets and swings): `StepsNeverLost` (`FiresOncePerLoop`).
`Displacement` bounds where a step may land, between one step before its own and
less than two after; `FiresNearby` turns that into the one tick of the loop, and
the one of the three positions looked at there, at which it fires; `SeenOnce` says
no other tick looks at it, also on loops of one or two positions, where the three
coincide. `EveryStepPlays` (`CycleCoversSteps`) names the positions that visit each
step.

About `Sequencer` (any rates at which a tick takes a sample or more, any patterns
whose loops divide the period at which the tick counter is wrapped, as 2^64 would
if it were ever reached). `NeverDrifts` (`NoDrift`) is
inductive with the types of the clock; the accumulator's remainder is what the
products `k * rate` leave over, by uniqueness of quotient and remainder.
`PlayheadFollows` (`PlayheadOnGrid`) needs `NeverDrifts`' invariant, for the tick
before the one that is pending, and that a tick advances the position exactly
where one of the track's steps begins, also where the counter wraps.

`LoopsAreComplete` (`OncePerLoop`), for any number of tracks and any size of block
and of event buffer, is the grid's theorem carried through the running sequencer.
The property speaks of loops that are over; `Score` says part-way through one which
positions have been counted: those whose landing tick (`Landing`) has gone by
(`Gone`), each once, unless it was skipped by its draw or found the buffer full.
`CountedOnce` is its step: of all that a sample pushes for all tracks, exactly one
event counts for a position, at the tick it lands on, and `Kept` drops it only
where `lost` records it; `LandsInLoop`, from `StepsNeverLost`' lemmas, that the
landing tick is one of the loop's, so that by its end every position has gone by.

About `TempoSync` (any masters and tempos and any timeout longer than two of their
periods). `PeriodIsTheMasters` (`HoldsTempo`). That the period is the master's is
inductive only with what the next byte will measure: `OnTheBeat` (one period, or
two after a dropped byte, or a silence), `InPhase` (when the next is due),
`NotSilent` (before acquisition is over, the silence counted cannot reach the
timeout, even with a byte that falls between `Advance`'s read and write) and
`Counted` (what each number of clocks received has set). `LossKeepsRate`
(`KeepsRate`): no step that drops sync touches the rate, nor does the block after.

**StepFieldsProofs**. The encoder (every field, any number of detents a scan): `SlowTurnsAddUp`
(`ClicksAddUp`), by `GestureInv`, that the clicks the byte has not shown are still
in the gesture's value, and `KeptWidth`, how far two values kept as one byte can be
apart; `TurnsRight` (`TurnsTheRightWay`), by `KeptRead` and `KeptRises`: what is read
back of a byte is kept as that byte, and a higher value never as a lower one.

The lights (every step's velocity and lock, every playhead, every set of muted and
filled tracks and every time, not only those the run looks at): `LightsAlwaysTell`
(`LightsTell`). A frame depends on the scene alone, so the invariant `Rendered` only
adds the scene's type and that the frame is `Frame(scene)`; the work is in what
scaling may do to it. At most one track key is bright, so the picked frame draws at
most four times the budget (`PickedBudget`), and the factor is at least a quarter;
the scaled frame stays within the budget (`BudgetKept`). Cutting to bytes keeps the
order of two channels that are four or more apart (`ScaleOrder`, `LightsCompare`),
and never turns a greater one into a lesser. That a locked step stays whiter than a
plain one as loud is a comparison of products of cut values (`WhiterScaled`), for any
hue as far from grey as the tracks' are (`HueOf`). Both sums over the 34 lights are recursive functions; what is
needed of them is proved with `Induction`, a lemma over subsets of `Nat`, itself
proved from the finite-set theorems.

**PatchExchangeProofs** (any slots, edits, requests and capacity of the queue).
`TypeCorrect`; `LoadsAreExact` (`LoadedExactly`) for a user who asks for no second
load while one is under way, whatever saves overlap it; `SavesAreCurrent`
(`SavedIsCurrent`) likewise for saves; `SavesAreCoherent` (`SavedCoherent`) for one
who overlaps no two of a kind, though a load may still meet a save. Section 4 has what happens otherwise. `LoadInv` and `SaveInv`
say that there is at most one such command, in the queue or being applied
(`Single`), and what the buffer it speaks of holds from then on; `WholeInv`, which
needs both, that every patch anyone may look at is whole.

**PanelProofs** (any tracks, keys, pages, banks, values and locks, and a callback
any number of commands behind). `TypeCorrect`. `GesturesLand` (`EditsLand`): while
the queue is not empty the property says nothing, so `EditInv` follows the value on
its way (`UnderWay`): it is stored, or is in the queue for the place the encoder
points at, with nothing behind it that writes such a place. `LocksHold`
(`LocksKeepStep`): a locked step is on, or a command that turns it on is queued, and
nothing that toggles it is queued after that (`StaysOn`); and a held key that may
still toggle has written no lock.

**DataProofs**, about `Storage` (any sector, payload and slot counts that fit the
chip). `TypeCorrect` and `SlotsKeepSaves` (`LoadsLastSave`). `Progress` describes a
save half done: the sectors erased so far and the pages written so far belong to
the target's stride, and the pages still to be written are erased. With it, and
the lemma that two different slots' strides do not meet and begin on sector
boundaries, no erase or write reaches another slot.

About `SysExBulk` (any transfers, chunk and buffer sizes). The codec, on every
sequence of bytes: `UnpackPack`, `Unpacked(Pack7(s)) = s`, from `MaskBits`, that each
bit of a mask is the high bit it was made of. `NothingSpliced` (`NoSplice`), if no
transfer is longer than the size expected by as little as a byte a chunk
(`NoNearMiss`): by `Gathered`, the buffer falls short of the chunks taken by at most
a byte each, and while it does not every byte is where it was sent from; a
transfer of the right size then has lost none. `InOrderRestores` (`Restores`), with
no such hypothesis: by `Followed`, the part of a transfer received so far is in the
buffer and the parser waits for its next chunk.

**SoundPathProofs**, part by part. Voices (every class, any number of strikes):
`DerivedIsCurrent` (`DerivedCurrent`) rests on one fact of each class (`TomCovers`,
...): every parameter a quantity depends on is among those that work it out again.
From it, setting a parameter leaves nothing stale; and a rebind, which tells a new
voice its values one after another, leaves each quantity as its last parameter in
that order has seen it (`LastTold`), and by then every one it depends on has been
told. `HitsSoundWhole` (`HitsWhole`): the property looks at hits that have ended;
`ClapInv`, `GlitchInv` and `WrappingInv` tell on the way what has sounded from what
the countdown has left. `SilentClose` (`ClosesOnSilence`): most gates watch every
envelope that is heard (`HeardIsGated`); two do not, and `ClickInv` and `StrikeInv`
say why theirs are over before the gate can close.

The strip (any resolution, thresholds and settings): `StripIsCurrent`
(`StripCurrent`). The property speaks of the filters and the bypass only; the
invariant adds that `cutoff_`, `res_` and `mode_`, from which the bypass is decided
again, are what was asked, too. The LFO (any cycle and fade rates, any increments,
those of more than a cycle a block included, which SPEED and MULT at the top reach
at 120 BPM and for which `Advance` loops):
`LfoTypeCorrect`; `NeverLoops` (`OneShotNeverLoops`), by `ShotInv`: while a one-shot
runs, its phase is where it started plus how far it has come, and that does not
pass the end of the cycle. The delay (any buffer, any feedback below unity, any
inputs): `EchoesOnTime` (`EchoOnTime`): the age of every slot follows from its
distance to the write index, round the wrap. `LoopBounded` (`Bounded`): mixing two
values in a proportion stays within the louder (`MixBounded`), and an input plus
the fed-back loudest stays within the loudest (`FedBackBounded`); `LevelInv` carries
the bound for buffer and lowpass together, neither of which is inductive alone.

Only model-checked: liveness and everything under fairness (`DeliversEverything`,
`PushWaitFree`, `SaveLands`, `Follows`, `FallsBack`, `OneShotSettles`, `HitEnds`), which
with ENABLED is out of the prover's reach, and the violated `SyncsToMaster`. What
`VoiceSlot` promises as a whole is stated property by property and not as a
refinement of an abstract slot.

## 6. What is not modelled

- What the voices, filters, saturator and LFO make of their settings, a sample at
  a time: wave shapes, resonators, the FM operators. No control depends on it.
- Reverb and compressor: they are DaisySP's, and `MasterFx` only passes settings on.
- `params.h`: names and curves.
- The display: it reads and never writes.
- `main.cpp`: bring-up firmware that does not run this code yet.
- `io/settings.h`, `io/patch.h`: formats. Of `io/sysex.h`, the control commands'
  range checks and the replies.
- The host's renderer, tests, key map and recorder. The recorder's relaxed flag
  and fill (`play.cpp:155`) and the audio unit started before `Machine::Init`
  (`play.cpp:490`) are listed as hazards.
- In what is modelled: velocity and accent in the sequencer, master volume, tap
  tempo, kit loads from the panel, names; the song and settings areas of the flash,
  which nothing writes through `Storage`; `ClockPll::SetTightness` and
  `SetLatencyOffsetMs`, which only change filter gains and reported phase; the
  memory order of the interrupt that calls `OnClock`, which runs on the core it
  interrupts; `Ui::SetShift`, which `play.cpp` does not call: SHIFT is a key there.

## 7. Plan

Order chosen so that what the instrument's timing and data depend on came first:
queue, step grid and sequencer, voice slot, patch exchange, clock, storage,
panel, SysEx; then what is heard and seen of them: voices, strip, delay, lights,
and the interrupt inside the clock. That much exists. Next, extending the models:

1. `MachineKit`: `Apply`'s range checks (and those of `SysExParser::Parse`) and the
   eight-lock limit as the panel sees it; the keyboard's two pushes when the queue
   is full.
2. `Sequencer`: a bound on tick bursts after a tempo change, and on the events a block
   can hold with the program's own 12 tracks and 32 places.
3. Tap tempo and the value encoder, which read a published tempo that is behind.
4. `HostPlayer`: the recorder against the callback, and the order of start-up.

And proving more:

1. `VoiceSlot`: the refinement of a track that has one list of parameter values
   and no locks pending, which `NoLeak` and `EffectiveValue` say in two parts.
2. The extensions above, as they come.

## 8. Running

In this directory: `tlc -workers 2 -config Sequencer.cfg MCSequencer` checks a
run (module and configuration are listed under "runs" in `PROJECT.json`);
`tlapm SpscQueueProofs.tla` checks a module of proofs. The largest runs are
`SysExBulk` and `TempoSync` (around two minutes each), `StepFields` and `VoiceSlot`
(around a minute each) and `Panel`; the longest proofs those of `SoundPathProofs`,
`PanelProofs` and `StepFieldsProofs` (a minute or two each).
