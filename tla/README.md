# A TLA+ model of the valve I/O board firmware

The firmware drives the servo valves, solenoids and heating pads of a rocket's
ground and flight segments from one STM32 per node, and reads its pressure,
temperature and position sensors.  A master talks to it over CAN; when the
master goes silent, the board acts on its own.  This directory models the parts
of the firmware whose behaviour depends on order, time, failure or a chain of
conversions, checks them with TLC on small boards and proves the central results
with TLAPS for every board.

Paths below are relative to the repository; `control.rs` without a directory
is `src/src/control.rs`, and so on.  `PROJECT.json` lists the components, the
runs, the mutants, which lines each definition stands for, the findings and
the hazards.

## 1. Inventory

### How the firmware runs

One embassy executor in thread mode (`node.rs`, `run`) polls every task.  Tasks
are cooperative: between two awaits that are really pending a task runs alone,
and interrupts only wake tasks.  The shared state is `STORE`, an async mutex
that no task holds over an await, a few atomics (the heartbeat stamp, the error
counters) and signals (`PERSIST_WAKE`, `CONTROL_WAKE`).  So a *step* of a model
here is what a task does between two pending awaits.  What is concurrent is the
order of those steps, the time that passes between them, resets, and everything
the bus and the sensors say.

### Components

| Component | State | Operations | Talks to |
|---|---|---|---|
| Valve model (`valves.rs`) | status, target, estimate, arrival, stall timer per valve | `tick`, `settled_at` | called by the control task |
| Master liveness and fallback (`safety.rs`) | heartbeat stamp (u32 ms) and seen flag; latch: stage, released valves | `note_master_heartbeat`, `evaluate`, `FallbackLatch::{enter, rearm, target}` | written by the SDO server, read by the control task |
| Relief (`relief.rs`) | phase, deadline | `update` | called by the control task |
| Heating (`heating.rs`) | state per pad | `update`/`decide` | called by the control task |
| Output arbitration (`outputs.rs`, `hco.rs`) | overrides, last states | `drive`, `set_override` | called by the control task, drives the hardware |
| Control task (`control.rs`) | the four above, direct states | `tick`: take pending, decide, apply, publish | reads intent from the store, publishes targets to it |
| Store and object dictionary (`store.rs`, `iocan-proto`) | config, commands, direct writes, raw debug mode, pending flags, published state | `read`, `write`, `Pending::take` | written by the SDO server, sensors, control, persistence |
| SDO server (`can/sdo.rs`) | none but its position | requests, heartbeats in, reboot | CAN queue, store, signals |
| Persistence task (`node.rs`) | its locals while it works | save, restore | store, flash, `PERSIST_BUSY` |
| NOR config store (`config/persist.rs`) | two sectors; sequence, slot and body of the newest record in RAM | `load`, `save`, `erase_all` | called by the persistence task |
| Configuration (`config/*.rs`) | `Config` | `sanity_check`, `hco_owner`, builders | everything reads it |
| Views of it (`store.rs`) | owner per output, unit per slot, value and unit per channel | `refresh_derived`, `refresh_pdo_sensors` | written by four handlers, read by the SDO server and the broadcaster |
| Sensors (`sensors/`, `config/sensors.rs`) | presence and magnet bits, scan cursor, raw and calibrated samples | `run`, `scan_step`, `publish`, `raw_for`, `calibrate` | I2C, pin counts from the control task, store |
| TPDO broadcaster (`can/tpdo.rs`) | next due, last sent per kind | `run`, `should_send`, `build` | store, CAN queue |
| CAN queues, bus health (`can/mod.rs`, `can/hw.rs`, `can/health.rs`) | 32-frame queues, mailboxes; last error status | `run_rx`, `run_tx`, `next_frame`, `observe` | all bus traffic; health is polled by the control task |
| Error counters (`errors.rs`) | counters, CHANGED, dirty categories, summaries, window | `bump`, `take_if_changed`, `SummaryWindow::poll` | bumped everywhere, mirrored by the control task |
| CPU load (`cpu.rs`) | idle time, measurement window, peaks | `update` | idle loop, control task |
| Own heartbeat, LEDs, COM4 | small | periodic | store, CAN queue |
| Boot, panic, drivers (`node.rs`, `panic.rs`, `board/`) | - | bring-up, `safe_and_reset`, SPI/I2C/timer registers | everything |
| Node definitions (`bin/`, `zenith_mapping/`) | compile-time configurations | - | booted by `node.rs` |
| Bootloader (`bootloader/`) | - | external crate | - |

### What makes it correct, and what makes that hard

* **Fallback.** Silence must end with every servo where stage B wants it, and a
  servo must only be *released* (drive dropped) where the outputs actually put
  it.  The estimate of where a servo is comes from a model driven by ticks that
  come late; stages, commands, relief, raw debug mode and configuration changes
  interleave with it.
* **Relief.** It must win over everything else, close again whatever happens to
  its sensor or configuration, and answer standing overpressure.
* **Outputs.** Several owners want one output; direct writes are accepted at one
  moment and applied at another, under a mapping or mode that may have changed.
* **Saving.** Requests are flags plus a signal, taken by a task that is busy for
  up to a second at a time, while more requests arrive, control ticks take
  *their* flags from the same record, a reboot is asked for, the flash fails or
  the power goes.
* **Numbers.** The heartbeat stamp is a wrapping u32 compared with an uptime that
  does not wrap; interpolation truncates; `Ord::clamp` panics on crossed bounds.
* **Readings.** A sample is converted under the configuration of the cycle's start
  and published under the one of its end; a device that comes loose must not leave
  a plausible number behind, and must be found again by a cursor that probes one
  address at a time.  The conversion itself chains three integer divisions across
  a wrapping encoder.
* **Telemetry.** Counters bumped while they are read, windows noticed late, frames
  dropped for a subscriber that lags, keepalives with two timers, queues that wait
  on each other behind a controller that may be off the bus.
* **Views.** Owners, units and channels are copies of the configuration, refreshed
  by four handlers; a master that reads, writes or clones the configuration sees
  it one object at a time.

`PROJECT.json` lists these as hazards, each at its line and with the properties
that would catch it going wrong.

## 2. Modules

    BoardTypes ── Valves ──┐
        ├──────── Safety ──┤
        ├──────── Relief ──┼── Control ── ControlHistory ── MCFallback
        │            │     │      └────── ControlRelief ─── MCArbitration
        ├──────── Heating ─┘                     └ INSTANCE ReliefLoop
        ├──────── Relief ───── ReliefLoop ────┐
        └── DirectWrites ── MCDirectWrites ───┼── MCTickParts
                                 Telemetry ───┘

    NorStore ── Persistence ── MCPersistence ─┐
                    └ INSTANCE DurableConfig  ├── MCBusAndFlash
                          Tpdo ── MCTpdo ─────┤
                                  CanLink ────┘

    Calibration ── Sensors ── MCSensors
        └── Objects ── ConfigSanity ── Vehicle ────────┐
                            └────── Dictionary ────────┴── MCDictionary
                         Frames ────────┘

    Theorems, each EXTENDS the module it is about:
    Control_proofs (ControlHistory, ControlRelief)   DirectWrites_proofs
    ReliefLoop_proofs   Persistence_proofs   Sensors_proofs   Telemetry_proofs   Can_proofs (CanLink, Tpdo)
    Dictionary_proofs

* **BoardTypes**: promille positions, words (position plus release flag), output
  states, the parts of `Config` the control task reads, ownership, the clamp and
  when it panics, the integer interpolation of pulse widths.
* **Valves, Safety, Relief, Heating**: pure operators, one per function of the
  file of that name.  They hold the mutants used to test the properties, too,
  next to what they mutate and marked as such.
* **Control**: the control plane as a state machine.  The actions are `Pass`
  (one millisecond), `MasterHeartbeat` and `OtherFrame` (both end in
  `note_master_heartbeat`), `CommandValve`, `WriteDirect`, `SetRawDebug` and
  `WriteConfig` (accepted SDO writes, the debug button, a restore), `Tick` (the
  whole of `Control::tick` and `decide`, with sensor readings as inputs) and
  `PanicReset`.  A rejected write changes nothing and is a stutter.
* **ControlHistory**: the same with history variables, written and never read by
  the control plane: the interval for which the *outputs* held each valve
  somewhere, when its fallback was last interfered with, and which valves are
  excused from the release property because raw debug mode bypassed them or their
  mapping changed.
* **DirectWrites**: the path of a direct output write with the tick in two steps,
  before and after it awaits the ADC, and the store fields that writes and the
  tick's mirror share.  A valve in use asks for any drive; one that is not in use still
  holds the outputs it names low, and a command takes back every output its valve names,
  owned by it or not.
* **ReliefLoop**: relief alone, so that its timing can be checked with more
  readings and configurations than the composed model affords.  Its history says
  for how long the pulse under way was opened and whether the last update found the
  loop armed.
* **ControlRelief**: Control with the history of its relief loop, and the mapping
  under which it implements ReliefLoop: `config.relief` for `cfg`, `lastTick` for
  `updatedAt`, the blocks of the installable configurations for `ReliefConfigs`.
* **NorStore**: the two sectors, what a load picks, what a save does.  Records
  are a sequence number and an opaque configuration; everything `read_record`
  rejects (erased, torn, foreign, wrong CRC) is `NoRecord`.
* **Persistence**: SDO requests, the control tick's share of `Pending::take`, the
  persistence task one flash operation at a time, flash errors, power cuts and
  the reboot.  `task` is the flash operation `run_persistence` awaits;
  `PERSIST_BUSY` is held exactly while it is not `"waiting"`.  `inherited` are the
  sectors with a record this boot has neither loaded nor touched since.
* **DurableConfig**: the abstract promise of the NOR store: one durable
  configuration, replaced all at once and only by the one being saved, as far as the
  boot knows what is stored.
  `Persistence` implements it with the mapping at its end.
* **Calibration**: from a raw number to what a slot reports, for every kind of
  sensor, with the code's own tables and truncations; `PipelineFaithful` says what
  it must agree with.  RECURSIVE-free, so that it can be proved about.
* **Sensors**: `Sensors::run` one transfer at a time.  A cycle begins with the copy
  of the configuration and of the pin counts (`Begin`), visits every device
  (`PassOver`, `ReadAmplifier`, `ReadEncoder`, `ReadFails`), probes one address
  (`ScanStep`) or none (`ScanNotDue`), and ends with `Publish`.  Between any two of
  these a cable may come or go, the SDO server may rewrite any object of a slot and a
  restore may replace every slot by its default.
* **Telemetry**: `bump_by` from anywhere, at any point of the control task's
  iteration, which is cut at every atomic access: the summary window, the snapshot
  of the counters, the copy to the store, and `CpuMonitor::update`, whose slowest
  iteration saturates (`PeakCap`, 65535 us).
* **CanLink**: `run_rx` into the fan-out queue, the SDO server as its reader, the
  publishers that wait for room in the outgoing queue, `run_tx`, the mailboxes,
  and `BusHealth::observe`.  The controller is external: error counters that rise
  and fall, bus-off, automatic recovery.
* **Tpdo**: `Tpdo::run`, one kind at a time, waiting for room before each
  frame is recorded as sent.  Instants are relative to the round's reading of the
  clock.  A round may find the queue full for long, so that the next one starts
  late; the store changes under it at every step.
* **Objects**: the configuration block of the dictionary as a table: which objects,
  how many elements, what a write accepts and how a value looks on the wire.
* **ConfigSanity**: `Config::new`, what a configuration means (`hco_owner`,
  `source`, `is_mapped`) and `sanity_check` rule by rule.
* **Vehicle**: the builders and the six boards written with them.  `ASSUME
  EveryVehicleMappingBoots` is the repository's test of that name in intent
  (`zenith_mapping/mod.rs:157`), evaluated on every run of `dictionary`.
* **Frames**: the layout of all twenty kinds of frame, encoder, decoder and
  identifiers.  `ASSUME RoundTrip` states that one undoes the other for sampled values
  and every identifier; the theorem `FramesInvert` has the frames for every value.
* **Dictionary**: writes of any object of the configuration, publications of the
  sensor task, the restore and the reset, with the views each refreshes, and the
  frames that carry the views to a listener.
* **MC\* modules** give the constants; each `.cfg` is one run.  `MCTickParts` holds the
  relief loop, the direct writes and the telemetry, `MCBusAndFlash` the link, the
  broadcaster and the persistence: parts that share no state.  `explored` picks which of
  the three moves, so that one run asks for all without their product.  A part at rest
  is in its initial state, where no action that fairness is assumed of is enabled.

### Correspondence notes

*A tick is one step* in Control and two in DirectWrites.  `Control::tick` takes
the store lock, copies what it needs, releases it, awaits the ADC on rev3 boards,
and takes the lock again.  What can fall between is an SDO write.  Everything a
tick decides with was copied under the first lock except direct writes, so only
they can tell the difference: DirectWrites splits the tick there and leaves the
valves abstract, Control keeps it whole and has them in full.

*Time.*  Milliseconds.  The tick waits at most 20 ms for `CONTROL_WAKE`, so ticks
come at any distance up to `MaxGap`, with the watchdog (250 ms) behind that
bound.  The instances use a coarser unit: what matters is the order of the
deadlines (settle, travel, stage A, stage B, the wrap), not their size.

*Sensor readings* are chosen at every tick of Control from the sets of the
instance, which include the invalid reading: the model says nothing about physics.
Sensors and Calibration say how a slot comes by one.

*Counters* are bumped at every point of the tick although no task of this build
runs at interrupt priority (`node.rs:54-55`), because `errors.rs` promises to be
callable from there.

*A write of the dictionary*, the refresh of the views and the flags it sets happen
under one lock and are one step.  Only acceptance and effect are kept: which abort
code a refused write gets is not.  u32 and i32 objects are taken as integers.

*Boot.*  `node.rs:121-123` disables the load from NOR, so the firmware as it
stands boots the compile-time defaults.  `LoadModes` says whether a boot may load:
`{FALSE}` is this firmware, `TRUE` the boot `NorConfigStore` and its documentation
assume.  The run `bus_and_flash` and the theorems have both, `unloaded` and
`reboot_hangs` have this firmware alone.
A factory default that fails the sanity check stops the boot (`node.rs:114`),
hence `Factory \in Sane`.

*Flash operations* may complete, fail having done nothing, or fail having done
everything (a timeout of `wait_idle` while the chip finishes).  An erase that
stops in the middle, or a write that does, leaves a sector that `read_record`
rejects, which for an erase is the same as done and for a write the same as not
done (the sector was erased before).  A power cut has the same outcomes.

*Sequence numbers* are naturals: a u32 that counts saves of a chip good for 100k
erases does not wrap.  The heartbeat stamp does wrap (`MsWrap`).

*Left out of these modules*: log lines, the text and codes of aborts, the bytes of
a flash record.

## 3. Runs

| Run | Asks | Specification |
|---|---|---|
| `control_fallback` | Does a silent master end in stage B, are releases punctual, final and where the outputs put the valve, do stages only escalate? | `HFairSpec` |
| `control_arbitration` | Who decides an output, when mappings move and raw debug mode comes and goes, and does the relief loop in the task stay the loop it is alone? | `LSpec` |
| `tick_parts` | Do pulses end, keep their distance, and come when needed?  Does every accepted direct write reach its output, around the two locks of a tick?  Is no error lost or counted twice, and is the load reported the worst there was? | `MCSpec` |
| `bus_and_flash` | Is every frame accounted for, every request answered, every change broadcast and no silence too long?  Is every accepted save or restore carried out, do the two sectors make a durable configuration of what the boot knows, does a reboot wait and then happen? | `MCSpec` (fair) |
| `sensors` | Are readings never frozen, never of another slot or unit, and devices found, lost and counted as they should? | `FairSpec` |
| `dictionary` | Do the frames describe the configuration, can it be restated and cloned, does the sanity check mean what the node relies on? | `Spec` |
| `crossed_clamp` | `config/mod.rs:229`: no accepted write breaks the sanity check. **Refuted.** | `LSpec` |
| `unloaded` | `persist.rs:4`: a save can only destroy the older copy. **Refuted** for a boot that does not load, as this firmware's. | `Spec` |
| `reboot_hangs` | `od.rs:315`: writing above 0 resets the board. **Refuted** without a NOR flash. | `FairSpec` |
| `raced_writes` | `od.rs:242, 254`: a direct write to a free output is applied, the last one wins. **Refuted** for one that falls into the ADC await. | `DirectSpec` |
| `period_change` | `od.rs:921`: a changed period takes effect on the next tick. **Refuted** for a shortened one. | `BroadcastSpec` |
| `plain_linear` | `sensors/mod.rs:1339`: the plain linear form has no constant term. **Refuted.** | `Spec` |

### What the properties say

*Control.*  `ReleasedInTime`: a stage that should release a servo has done so
within travel, settle time and one gap between ticks of the last interference.  A
stalled servo is not promised this (section 4).
`ReleasedWherePut`: a servo the latch has released was driven by its *outputs*, with
the estimate arrived, at the stage's position, for its settle time.
`ReleaseDoesNotOscillate`: within a stage a release is final unless the master
commands the valve, relief takes it or its configuration changes.
`SilenceOnlyEscalates`: with no frame and no change of mode or configuration the
classification never moves back, until the u32 millisecond stamp wraps after 49 days.
`SilentMasterVents` (liveness): after the environment falls silent every servo
ends where stage B wants it, or the board resets again and again (a crossed clamp
panics at every tick, and a reset starts the silence anew).  `OwnerDecides`: out of
raw debug mode an output with one owner shows what that owner's drive asks for,
whenever a direct write was accepted.  `ReliefOutranks` and `RemapDropsOutputs`
relate the outputs of one tick to relief and to the configuration change it saw; the
former says, too, that the latch forgets the release of a valve relief opens, so that a
stage drives it again afterwards.
`ReliefIsItsOwn` is the refinement: seen through the mapping of ControlRelief, every
step of the control plane is a step of ReliefLoop or a stutter.  A tick is one update
at its own time, a write that changes the relief block reconfigures the loop, a panic
resets it, and nothing else reaches it.

*Direct writes.*  `NoWriteStranded`: a dirty mark always has a tick coming for it.
`WritesApplied`: once everything parked is done, an output shows what its last accepted
write asked for, unless a remap or a command voided it since.  On an output nobody owns
two things beat the write, and the property says what is shown instead: an override left
from raw debug mode (`Stuck`), and a valve that is not in use but names the output, which
holds it low (`HeldLow`).  A write that fell into the ADC await is excused (`raced`);
`EveryWriteShows`, without the excuse, is the refuted claim of `raced_writes`.

*Relief.*  `PulseEnds`: an update that leaves the valve open found the loop armed and
this pulse younger than the time it was opened for, so that a disarm, a lost reading or
a changed pulse time keeps it open for no longer than to the next update at which it is
over.  `PulsesSpaced`: two pulses are a cooldown apart while the sensor reads and the
loop is left alone.  `OverpressureAnswered`: standing overpressure waits a cooldown and
a gap between ticks at most, through every phase.

*Persistence.*  `WakeCoversPending`: nothing parked is slept through.
`Mirrored`: what the RAM mirror says is stored is stored, so that skipping a save
is right.  `SaveCoversRequest`: when the task rests, the chip holds a
configuration the store had between the last accepted save and its taking.
`RebootCutsNothing`: "save, then reboot" back to back is safe.  `RebootHappens`
(liveness): on a board with a flash an accepted reboot comes.  `KnownCopySafe`: once
the boot has loaded or replaced every record there is, the sector under erase is not the
one a load would choose.  `DurableSpec` is the refinement, with the promise in force under
the same condition.  Boots with and without the load are checked together; the claim
without the condition, `OlderCopyAtRisk`, is refuted by `unloaded`.

*Sensors.*  `NoFrozenReading`: a device absent for a whole cycle has no value.
`ChannelsCoherent`: value and unit on a channel are those of the slot claiming it,
and once a cycle has begun after the last write to a slot, its value is its reading
under the calibration in force.  `PresenceHonest`: readings and magnet bits belong
to present devices, and a connector that opens once counts once.
`MissingMeansAbsent`: the count of missing sensors is taken once and never includes
a device that answered throughout.  `FoundAndLost` (liveness): the cursor finds what
is plugged in, and what is pulled out is noticed.  `CalibrationFaithful`: over every
raw number, thermistors fall with the count and read nothing outside their curve, a
Pt1000 rises, an encoder is within a promille of its share of the travel whichever
way it opens and wherever its zero lies, and no input yields the reserved value.

*Telemetry.*  `MirrorCatchesUp`: with CHANGED down, the store shows every counter as
it is.  `BadWindowsCountOnce`: the summary counts each window in which a category saw
an error once, through bumps at every point of the closing.  `WindowsDoNotDrift`:
deadlines stay on their grid except after a stall longer than a window.
`ReportIsWorst`: what is published as load and slowest iteration is the worst true
load of any window of the period, measured by history variables of their own, the
iteration as far as a report can state it.

*CAN.*  `EveryFrameAccounted`: a frame received is handled, queued, or counted as
dropped.  `AnswersArrive` (liveness): every request taken is answered on the bus,
through full queues and bus-off.  `NothingInvented`: a poll reports only what
happened since the last one.  `SilenceBounded`: an enabled kind is never silent for
the keepalive and an interval.  `ChangesBroadcast`: a payload that has stood for the
period its kind was last due for (`dueFor`) has been sent.  That is not always the period
configured now: `PeriodTakesEffect` claims so and is refuted by `period_change`.

*Dictionary.*  `ViewsAgree`: what a listener decodes from the frames is what the
configuration and the readings say.  `RestatingIsHarmless`: any object may be
written back as it was read.  `CloneReproduces`: reading a node by ascending index
and writing that to another makes the same configuration.  `SaneMeansConsistent`: a
configuration that passes the check gives each output to one actor, has a device
behind every slot something trusts, and shows each slot in use on its channel.

### Bounds, and why they are enough

* Control: one valve, one or two outputs, positions 0..1 or 0..2.  Valves share
  nothing but outputs and relief; with one valve and two outputs an output can be
  owned, shared with a pad, moved, or free.  Arbitration between two valves on one
  output follows the order of the array and is only in the theorems' reach.
  `PromilleMax = 2` gives a position strictly between the ends, so that an
  estimate under way differs from both.  `control_fallback` starts with relief armed
  and may disarm it or cross the clamp.
* Clock: `MaxUptime` 15 passes stage A (3), stage B (6) and their releases (travel
  2, settle 2) with a gap of 2 between ticks; after `TrafficUntil` (1) the
  environment is silent, so that liveness is not vacuous.  `control_arbitration` lets
  traffic go on into stage A.  `MsWrap = 64` is beyond the clock, as 49 days are
  beyond the five minutes of stage B; its mutant narrows the stamp to 8.
* Direct writes: two outputs, one valve that may own one or both of them or, out of
  use, name one or none, and four accepted writes: enough for write, remap, write, mode change around one await, and for a
  write on one output while the other is mirrored.
* `control_arbitration` moves the valve and disarms relief with one write, so that the
  loop is reconfigured in every phase, and resets through the crossed clamp.
* Relief: a 12 ms clock holds two pulses (2 or 1) and two cooldowns (3).
* Persistence: 5 accepted writes and 2 power cuts for three configurations, one of
  them insane, boots with and without the load, and with and without a flash.  Five are
  enough for write, save, write during the erase, save, reboot, and for a save,
  a restore behind it and a save of the defaults; two saves use both sectors, and saves
  go on across a cut or a reboot, which is where the mirror could lose its place.
* Sensors: one amplifier, one encoder and two slots, of which a write can make
  either a thermistor, take it off the bus or the channel, put it there, give it
  the other pin or another coefficient, or make it raw, and which a restore can put back.
  One unplugging, one failed transfer and one write, each between any two steps: two devices are enough for one
  to be probed while the other is sampled, and every counted event is a transition
  of one device.  `MaxSkips = 1` lets a cycle pass without a probe.
  `CalibrationFaithful` takes all 4096 counts and the spans and zeros named in
  Calibration.
* Telemetry: two counters tracked, one of them bypassing the window, one more bumped;
  counters wrap at 3; a summary window of 5, measurement windows of 4 and a tick of 2
  do not divide each other, so that every offset between them occurs.  An iteration
  keeps its deadline or stalls for 7, longer than either window and than the 5 at which
  the slowest iteration saturates.
* CAN: queues of one frame and one mailbox, which are full at once; error levels 2, 4
  and 6 with at most two frames between polls, so that as in the code (96 levels,
  20 ms) ordinary traffic cannot fall from the warning level to zero.  Three frames
  in, three error frames: enough for bus-off while a reply waits, and recovery.
* Broadcaster: one kind.  Kinds share only the round, and what another kind does to
  this one is to delay it, which `Spans` does: a keepalive of 5, intervals 1 and 3 or
  none, rounds 1, 2 or 4 apart.
* Dictionary: node 4 of the vehicle and a bench board that uses what node 4 does not.
  Two accepted writes between boots, of any object, with legal, illegal and boundary
  values: two are what it takes to break a pair of fields one write at a time.  Two
  valves, four outputs, six slots, five channels; all channels beyond are alike.

### Fairness

`HFairSpec` assumes that time passes and that the control task runs again and again,
its tick ending or panicking. The second is said of the states, `[]<>(lastTick =
now)`: after a tick, and after a reset, the last tick is now; it asks no more than
weak fairness of the two steps, and TLC need not evaluate their `ENABLED`. The
executor polls round robin, the tick's wait times out after 20 ms, and a board whose
executor stops is reset by the watchdog. It assumes nothing of the master, of writes
or of the sensors; `TrafficUntil` bounds the environment in the guards instead.
`FairSpec` of Persistence assumes that the woken persistence task runs, that every
flash operation ends one way or the other (`wait_idle` has a timeout) and that the
SDO server, once rebooting, retries every millisecond. It assumes nothing of
requests or power cuts. Weak fairness is enough in these cases: each of these steps
stays possible until it is taken.

`FairSpec` of Sensors assumes that the sensor task goes on: some step of its cycle is
possible in every state, because a transfer has a timeout.  Nothing is assumed of
cables, writes or of which outcome a transfer has.

`MCSpec` of `bus_and_flash` has the fairness of Persistence and of the link, whichever
is explored.  `LinkFairness` assumes that tasks that can go on do, that the bus lets frames through
and that the controller recovers (automatic bus-off management is switched on in
`can/hw.rs`).  Three of its conditions are strong.  `Reply`: other publishers may
fill the queue again each time a place comes free, but a waiting publisher is woken
whenever one does, and the broadcaster and the heartbeat sleep between their frames.
`Send`: bus-off interrupts it.  A reply in a mailbox: the controller sends by
identifier, and a node's other identifiers are not sent without pause.

## 4. Findings

Each is a run that must end in a counterexample.

1. **A crossed clamp panics** (`store.rs:822`, `config/valves.rs:162`).  Writes to
   `min_promille` and `max_promille` are checked for range only; the next tick's
   `clamp` panics, which resets the board with every output low.
2. **A save erases the newest record** (`node.rs:121`).  This firmware boots without the
   load, so `NorConfigStore` starts at sequence 0 and its first save erases sector 0,
   although that may hold the newest record or the only one; `persist.rs:3-5` says that a
   power loss during a save "can only ever destroy" the older copy.  Until the sectors
   are this boot's own, a power cut during a save can lose the configuration, and what
   the save writes is numbered 1, below any record left in the other sector.
3. **An acknowledged reboot never comes** (`can/sdo.rs:204`) on a board whose NOR
   flash did not answer, once a save or restore is parked: no task clears it, and
   the SDO server is deaf to the master from then on.
4. **A direct write is lost** (`control.rs:200`, rev3).  A write accepted while a tick
   that knew of no write awaits the ADC is overwritten by the outputs this tick mirrors
   into the very fields the write used, and the next tick applies those.  `od.rs:242`
   calls the output free for direct control, `od.rs:254` raw debug mode last writer wins.
5. **A shortened period waits for the old one** (`can/tpdo.rs:80`).  A write of a period
   leaves `next_due` alone, so that the kind stays silent until the deadline of the old
   period, up to 65 s away; `od.rs:921-922` and `can/tpdo.rs:4-5` say that it takes effect
   on the next tick.
6. **The plain linear form has a constant term** (`config/sensors.rs:344`).
   `from_per_count` documents `(reading - offset) * per_count` and sets
   `constant_milli` to 1000, so that every transducer of the vehicle reads 1.00 bar
   at its own zero.  The repository's test `the_plain_linear_form_has_no_constant_term`
   (`sensors/mod.rs:1339-1346`) says 0, and so do `config/sensors.rs:337` and
   `zenith_mapping/sensors.rs:14-18`.

Observed while modelling, without a run of their own.

The control plane:

* Any frame but a request counts as a heartbeat (`can/sdo.rs:68`), process data of
  another node included, although `safety.rs:35` speaks of the configured master.
  `OtherFrame` does this; while such frames arrive the fallback cannot fire.
* An unmapped valve keeps `target` and `arrived_at` (`valves.rs:178`); mapped again, it
  counts as settled and a stage releases it at once, although settled means held
  there (`safety.rs:118`).  `excused` marks it.
* A raw debug override outlives a remap (`control.rs:391`) and then beats later
  direct writes; `WritesApplied` excuses it with `Stuck`.
* A direct write to a heating pad's output is accepted out of raw debug mode
  (`store.rs:630` asks for valves only), has no effect, and takes effect when raw
  debug mode is entered later.
* A command and a raw debug write in the same tick: the command wins whichever
  came last (`control.rs:389-416`), although `store.rs:711` calls it last writer
  wins.
* A relief reading lost at the end of a pulse leads to `Inhibited` and from there
  to a pulse without a cooldown (`relief.rs:87`); `PulsesSpaced` is stated for
  readings that stay valid.
* While raw debug overrides bypass a valve its estimate goes on (`outputs.rs:48`),
  and a changed fallback position makes the latch hold the old place
  (`safety.rs:128`); `excused` marks such valves.
* A servo that stalled stays stalled until a tick gives it a new target
  (`valves.rs:205`), even when a write has switched stall detection off meanwhile; a
  stage that wants it where it was going never counts it as arrived and never
  releases it.  `ReleasedInTime` leaves stalled servos out.
* A valve that is not in use still forces the outputs its mapping names low
  (`control.rs:526`).  `hco_owner` calls such an output free and accepts direct writes to
  it, which never show; `WritesApplied` says so with `HeldLow`.
* `safety.rs:4` says stage A fires after 3 s by default; the default is 6 s
  (`config/mod.rs:133`).

Persistence and configuration:

* `erase_all` that fails on its second sector (`persist.rs:488`) leaves `last_body`
  set; the next save of the same configuration is skipped although no sector
  holds it.  `Mirrored` excuses this with `stale`.
* A restore replaces the configuration when its second erase ends, with every
  write acknowledged since it was asked for (`node.rs:196`).
* `sanity_check` runs on load, on save and on the defaults at boot, not "after every
  SDO write" (`config/mod.rs:229`): a running node accepts and acts on a
  configuration it will refuse to save.
* A slot's unit is independent of its kind once written: a pressure slot set to
  centicelsius passes as a pad's temperature sensor.
* An unused slot below one in use may claim its channel; the later slot overwrites
  it, so nothing comes of it, which is what `SaneMeansConsistent` checks.
* A write of a unit pairs the old value with the new unit until the next
  publication, on the channel and for the relief loop; `ChannelsCoherent`
  excuses a slot until the cycle after its write.
* Writes to the error counters and the load are refused with `NoSuchObject`, while
  `od.rs` calls them read-only.

Sensors:

* An encoder one count below its closed stop wraps to almost a full turn and reads
  some 3999 promille; `valves.rs:242` clamps that to fully open.
* `angle_over` says it rounds away from zero and rounds to nearest: about half of all
  spans read 999 at the open stop, and some angles of long spans round up to the
  promille above their share.  `CalibrationFaithful` and `EncoderWithinAPromille` allow one promille.
* `apply_wrapped` subtracts a written offset in 32 bits and can overflow.  The model
  keeps coefficients below 10^9.
* The 400 bar transducers are in centibar and saturate at 327.67 bar, although the
  unit's documentation asks for decibar.
* Devices missing at boot are those absent at the *end* of the first sweep, and with
  a scan interval of 0 there is no sweep and no count.

CAN and telemetry:

* A keepalive may be one interval late on top of the 5 s, since a kind is only looked
  at when due; `SensorUnits` has a period of 5 s itself.
* While the SDO server waits for room to reply it notes no heartbeat.
* `run_rx` says a frame that does not fit "wasn't 8 bytes long"; shorter frames are
  handled.  Overruns are looked for in the first FIFO only.  `publish` waits for room,
  so the outgoing queue never lags and `CanTxDropped` is never bumped from there.
* A bus-off between polls is missed if the counter was below the warning level at the
  last poll or has risen again; two in a row count once.
* The frame of output states shows an accepted direct write before a tick has applied
  it (`can/tpdo.rs:157-159`).
* The ninth amplifier of a bus is in no frame: the windows of the raw frames end at
  eight.

## 5. Proofs

Proved for every value of the constants, from the named assumptions on them only:
every set of valves and outputs, every configuration, reading, command and timing,
any number of requests and power cuts.

* **Control_proofs, `TypeCorrect`**: `Spec => []TypeOK`.  No run checks it: the proof
  covers every instance.  One lemma per operator of Valves, Safety, Relief and Heating
  says what it returns; one step per action.
  The substance is arithmetic: estimates stay in the promille range although they
  are extrapolated from elapsed time, targets survive the clamp, PWM states the
  interpolation.
* **Control_proofs, `OwnersDecide`, `ReliefHasPriority`, `RemapsDropOutputs`,
  `ReleasesLast`, `SilenceEscalates`**: the action properties of arbitration and
  fallback; `RelievedIsRearmed` is the half of relief's priority that is about the
  latch.  `OnlyTasksTick` says that nothing but a tick, or a stutter, does what
  `Ticked` describes; `OwnerDrives` follows one valve's drive through the arbitration,
  with any number of valves and pads.  `ReleasesLast` needs that only a fallback stage
  has released valves (`ReleasesNeedStage`).  `SilenceEscalates` assumes
  `MaxUptime < MsWrap`: after 49 days of silence the stamp starts over, and the
  stages with it.  That no bounds of the factory defaults cross is an assumption.
* **Control_proofs, `ReleaseSafe`**: `HSpec => []ReleasedWherePut`.  The
  property is not inductive: it speaks of released valves, and what makes a
  release right happens while the valve is still driven.  `ReleaseInv` adds that a
  moving or stalled valve has no arrival stamp (`NotArrived`), and that a stamp
  means the outputs have held the valve where it was sent at least since then
  (`ArrivedHeld`); a release then closes a hold that is long enough.
* **Control_proofs, `ReleasesInTime`**: `HSpec => []ReleasedInTime`.  `WaitInv` says how
  far a waiting valve must have come (`UnderWay`): it has moved for as long as calm has
  lasted; having moved for its travel time, it has an arrival; that arrival fell less
  than travel time and a gap after the calm began, and its settle time is not over, or
  the valve would have been released.  `TravelArrives` is the arithmetic: the truncated
  extrapolation over a full travel time reaches the target from anywhere.  Proving it
  showed the stalled servo of section 4, for which the instance had no configuration.
* **DirectWrites_proofs, `WritesAreTaken`, `LastWriterWins`**, for a tick with or
  without the ADC between its locks.  `WriteInv` follows one write: until it lands the
  fields hold it and the tick under way knows of it (`Parked`); from then on the direct
  state holds it, or the override of an owned output, until a tick voids it, and the
  output shows it, a stuck override, or the low of a valve not in use (`Landed`,
  `DriverNotMapped`).  A mapping that moves under a tick has raised the flag for the next
  (`RemapFlagged`).  The write that falls between the locks stays excused.
* **ReliefLoop_proofs, `PulsesEnd`, `OverpressureRelieved`, `PulsesApart`**, for any
  configurations and reconfigurations, as long as there is a longest cooldown (it is 16
  bits wide).  `PulseInv` ties the deadline of a pulse to its beginning and the time it
  was opened for, and an open valve to a loop found armed; `CalmInv` bounds the time
  overpressure has stood unanswered by the deadline of the cooldown, `SpacedInv` keeps
  the cooldown that is owed.
* **Control_proofs, `ReliefImplemented`, `ReliefPromises`**: `LSpec => ReliefIsItsOwn`.
  `LoopStep` takes each action to its image; `LSpecIsSpec` says that the history adds
  no behaviour.  With the theorems of ReliefLoop_proofs, instantiated under the same
  mapping (`LoopAssumed` discharges what they assume from `ControlAssumption` and
  `ReliefTimesAssumption`), the three promises of the loop become promises of the
  control task, with any number of valves, pads and writes around it.
* **Persistence_proofs, `NoRequestSleeps`, `SavesCovered`, `MirrorTrue`,
  `RebootSafe`** (and `PersistenceType`), from `NorAssumption` and
  `PersistenceAssumption` alone, so with and without the load at boot.
  `SaveCoversRequest` speaks of a task at rest; `SaveInv` says where the owed
  configuration is until then: in the store while the save is parked, in the
  task's copy while it writes, on the chip or excused by `stale` afterwards
  (`OwedKept`), and that a restore under way owes nothing unless a save was parked
  behind it (`RestoreOwesNothing`).  A save that is skipped is the case that needs
  `Mirrored`.
* **Persistence_proofs, `OnlyOlderCopyAtRisk` (`KnownCopySafe`), `SectorsAreDurable`**,
  from the same assumptions.  What they promise holds while `inherited` is empty: at once
  after a boot that loads, and for this firmware as soon as its own saves have replaced
  what was there; what it loses before that is the second finding.
  `DurableInv` adds that records are sane and never share a number (`Sound`) and that of
  the records not inherited (`KnownSeq`) the mirror knows the highest number, or the one
  below it when a write reported as failed was done after all (`MirrorLeads`, `Behind`).
  So, unless `stale` or `inherited`, an erase does not change what a load finds
  (`MirrorChoosesNewest`) and a finished write is what it finds (`WrittenStored`).
  `DurableStep` then takes every step to a step of DurableConfig: an erase
  stutters, `WriteDone` commits, a flash error or power cut commits or abandons, a
  restore suspends the promise, and so does a boot that looks at nothing.
* **Sensors_proofs, `PresenceTrue`, `MissingTrue`, `NothingFrozen`, `ChannelsTrue`**,
  for any number of buses, amplifiers and slots and any boot configuration whose slots
  are well formed.  `BusInv` says that readings and magnet bits belong to devices
  believed present, that an absent device's slots fall silent when its turn has
  passed, and that every loss counted is covered by an opening or a fault.
  `PublishedInv` says that channels always show the configuration and the values in
  the store, and that the task's copy differs from it only in slots written or restored
  since; those are what `ChannelsTrue` leaves out: an old value may stand under a new unit
  until the next publication.
* **Sensors_proofs, `InvalidMeansNoReading`, `EncoderWithinAPromille`**, for any slot,
  coefficients and raw number.  `TimesNanoExact` is the bridge: the product in limbs,
  which keeps TLC inside 32 bits, is the code's 64-bit product and division up to the
  cut, for operands below 10^12 (`Product` multiplies the limbs out, `MagnitudeExact`
  follows the carries).  `ShareOfSpan` then bounds the two roundings of an encoder
  together, of the slope to the nearest billionth and of the product toward zero, and
  `ZeroedUp` and `ZeroedDown` undo the turn.  The bound is sharp: at a span of 1861 some
  angles read the promille above their truncated share.
  `InvalidIsPublished` carries the first result into the task: with typed registers
  and slots (`WordsTyped`), what `Publish` puts into a slot is SENSOR_INVALID exactly
  if there is no reading, and a channel shows such a value at all times.
* **Sensors_proofs, `CalibrationTrue`, `InterpolationFaithful`**: the comparison with
  the tables, by argument and not by evaluation.
  - *Thermistors.*  `InterpolationFaithful` holds for any falling table: the segment a
    count falls into is found by least element (`InSegment`), its value lies between
    the segment's ends and never rises within it (`SegmentValue`), and neighbouring
    segments share a point.  The two tables are falling (`NtcCurveFalls`,
    `BoardNtcCurveFalls`); the divisions after it keep the order
    (`TruncatedKeepsOrder`).
  - *Pt1000.*  Seven digits of long division are the truncated quotient
    (`SevenDigits`), and one count more moves the quotient by more than the
    truncation hides, above and below 0 degrees (`RisesAbove`, `RisesBelow`).
  - *Encoders.*  The bound of `EncoderWithinAPromille` is sharpened to never above the
    truncated share wherever the rounding of the slope cannot reach the next promille
    (`EncoderNeverAbove`), which covers the sampled spans.
* **Telemetry_proofs, `CountersArrive`, `WindowsCountedOnce`, `WindowsOnGrid`,
  `ReportTrue`**, for any counters, periods, lateness and load.  Counters and summaries
  wrap, so the lemmas at the top are of modular arithmetic.  `ReportTrue` is about what a
  report can state: the slowest iteration saturates at `PeakCap`, any cap.
* **Can_proofs, `FramesAccounted`, `PollIsHonest`, `NeverSilent`, `NewsIsSent`**.
  `QueueInv` balances arrivals against lag; `PollInv` says what each reading of the
  controller implies has happened since the last one, from `CanLinkAssumption`:
  a tick is too short to send from the warning level down to zero, and the passive
  level is not zero.  `BroadcastInv` (with `PeriodOf` and `FrameOf` for each kind) ties
  the time since a payload changed to the deadline of its frame and the period that
  deadline was set from (`dueFor`), for any number of kinds and delays; it needs that there is a longest period (16 bits).
* **Dictionary_proofs, `RestatesHarmlessly`, `ClonesReproduce`, `SanityIsEnough`,
  `ViewsHeard`** (and `FramesInvert`), from `ObjectsAssumption` and
  `DictionaryAssumption`: any number of valves, slots, outputs and channels the frames
  have room for, any factory defaults that are well formed and sane, any bound on
  writes.  The invariant `DInv` says that the configuration is well formed, that is,
  every element of every object is storable, and that the views are what the
  configuration and the readings give (`InStep`).  On it rest:
  - *Values on the wire.*  `FieldRoundTrip`: what is read of a storable value is legal to
    write and decodes to it, for each form of field; `StoredReaches`: what one write
    touches, a change of kind its four seeds, too.  `RestatesHarmlessly` follows.
  - *Clones.*  `ObjectCopied` goes over the elements of an object, `FamilyCopied` over
    the objects of a family.  `Ordered` is what makes it work and what the code's order
    of indices provides: no object touches one that was copied before it.
  - *Frames.*  `Spread` describes where fields lie, `NumberIs` puts the nibbles of a
    number together again, and `FramesInvert` says that decoding undoes encoding for every
    value that fits.  `ViewsHeard` follows channels, units, owners and the temperature
    through it; its bounds (15 valves, 4 outputs, 12 channels) are the frames' own.
  - *Sanity.*  `SanityIsEnough` goes from the pairwise rules of `sanity_check` to the
    whole: one driver per output, a device for every trusted slot, the right slot on
    every claimed channel.

Some of these are inductions over data.  The library's induction theorems are out of
reach (they take an operator), but its well-foundedness of the naturals is not:
`LeastOf` gives a least element of a set of naturals, and `Climbs` makes induction
out of it for the set of the numbers something holds of.  So the recursive functions
`Start`, `WithObject` and `WithFamily` exist and have their values proved.

The strengthenings `ReleaseInv`, `WaitInv`, `SaveInv` and `DurableInv` were found with TLC and
are now only proved; the runs check what they imply.

What stays with TLC: liveness (`SilentMasterVents`, `RebootHappens`, `FoundAndLost`,
`AnswersArrive`), because everything about `ENABLED` and fairness is beyond the prover.
The six refuted claims are counterexamples and need no proof.

## 6. Not modelled, and the plan

All safety and action properties the runs check are proved for every value of the
constants, and so are both refinements.

Not modelled, because it decides nothing the other parts depend on:

* Drivers and registers (`board/`, `rail_sense.rs`, the set-up in `can/hw.rs`), whose
  results are inputs here, with the ways they can fail.
* The bootloader and firmware updates, which are an external crate.
* LEDs and COM4, outputs without decisions; the period of the own heartbeat.
* The read-only objects of identity and measurement, the text and codes of aborts,
  and the framing errors of SDO requests.
* The bytes of a flash record: a record is its number and its configuration, or
  nothing if `read_record` rejects it.
