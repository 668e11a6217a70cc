-------------------------------- MODULE Sensors --------------------------------
(***************************************************************************)
(* The sensor task (src/src/sensors/mod.rs, sensors/ext_adc.rs) and the     *)
(* part of the store it shares with the SDO server.                         *)
(*                                                                          *)
(* One cycle copies the configuration, reads every device believed to be    *)
(* present, probes at most one address and publishes what the slots report. *)
(* Every I2C transfer is an await: cables come loose and the SDO server     *)
(* rewrites slots between any two steps.  Of the error counters only the    *)
(* two a property speaks of are kept.                                       *)
(***************************************************************************)
EXTENDS Calibration, FiniteSets, TLC

CONSTANTS
  NumBuses, NumAmplifiers,  \* I2C buses, and address straps on each
  AnalogInput,              \* the ADC pins, "Board" (TH1) among them
  NumSlots, PdoChannel,     \* sensor slots 0 .. NumSlots - 1, TPDO channels
  BootSlots,                \* the defaults, which the board comes up with
  Scanning,                 \* whether scan_interval_ms is not 0
  Kinds, Units, Coefficients,   \* what the SDO server may write to a slot
  AmplifierWords,           \* conversion registers an amplifier may answer
  AngleWords,               \* <<STATUS, RAW_ANGLE>> an encoder may answer
  AnalogCounts,             \* what the control task may leave for a pin
  MaxUnplugs,               \* bound: cables that come loose
  MaxFaults,                \* bound: transfers a connected device fails
  MaxWrites,                \* bound: slots rewritten over SDO
  MaxSkips,                 \* bound: cycles in a row with no probe due
  SweepCap                  \* bound: sweeps counted

Slot == 0 .. NumSlots - 1
None == -1

SensorSlotConfig ==
  [kind : SensorKind, bus : {None} \cup 0 .. NumBuses - 1, amplifier : 0 .. NumAmplifiers - 1,
   analog : AnalogInput, unit : Unit, calib : SensorCalib, pdo : {None} \cup PdoChannel]

ASSUME SensorsAssumption ==
  /\ NumBuses \in Nat \ {0} /\ NumAmplifiers \in Nat \ {0} /\ NumSlots \in Nat \ {0}
  /\ "Board" \in AnalogInput
  /\ BootSlots \in [Slot -> SensorSlotConfig]
  /\ Kinds \subseteq SensorKind /\ Units \subseteq Unit /\ Coefficients \subseteq Int
  /\ Scanning \in BOOLEAN
  \* Registers and counts are unsigned and 16 bits wide.
  /\ AmplifierWords \subseteq Nat /\ AngleWords \subseteq Nat \X Nat
  /\ AnalogCounts \subseteq 0 .. RawInvalid
  /\ {MaxUnplugs, MaxFaults, MaxWrites, MaxSkips} \subseteq Nat /\ SweepCap \in Nat \ {0}

\* The probe-able addresses in scan order: the amplifiers of every bus, then
\* one encoder per bus.
NumAdcSlots == NumBuses * NumAmplifiers
Target == 0 .. NumAdcSlots + NumBuses - 1
AdcSlot(bus, amplifier) == bus * NumAmplifiers + amplifier
Encoder(bus) == NumAdcSlots + bus
IsEncoder(t) == t >= NumAdcSlots

\* Which probe-able device a slot reads, if any, and which ADC pin.
Devices(cfg) ==
  CASE cfg.bus = None \/ ~IsOnI2c(cfg.kind) -> {}
    [] cfg.bus # None /\ cfg.kind = "Angle" -> {Encoder(cfg.bus)}
    [] OTHER -> {AdcSlot(cfg.bus, cfg.amplifier)}
Pins(cfg) ==
  IF cfg.kind \in {"Ntc", "NtcToSupply"} THEN {cfg.analog}
  ELSE IF cfg.kind = "BoardNtc" THEN {"Board"} ELSE {}

\* A register of the ADC101C027, and one of the AS5600.
Conversion(word) == (word \div 4) % 1024
Angle(word) == word[2] % 4096
MagnetUsable(word) ==
  LET bit(n) == (word[1] \div 2^n) % 2 = 1 IN bit(5) /\ ~bit(4) /\ ~bit(3)

VARIABLES
  connected,    \* devices whose cable is in
  slots,        \* Store::config.sensors
  value,        \* Store::sensor_value
  pdoValue, pdoUnit,    \* Store::pdo_sensor_value, pdo_sensor_unit
  phase,        \* where the sensor task is in its cycle
  at,           \* the device the sampling loop has reached
  copy,         \* the configuration cloned at the start of the cycle
  raw,          \* Sensors::raw and raw_angle, by device
  rawAnalog,    \* Sensors::raw_analog
  present, magnet,      \* Sensors::present: the device bits and the magnet bits
  next, skips, sweeps,  \* ScanCursor::next, cycles since a probe, Sensors::sweeps
  lost, missing,        \* counters I2cDeviceLost and SensorMissingAtBoot
  unplugs, faults, writes,      \* how much of the bounds is used
  absent,       \* devices not connected at any moment of this cycle
  steady,       \* during the first sweep: devices connected since boot that
                \* never failed a transfer
  dirty, stale  \* slots written since the copy, and since the published copy

store == <<slots, value, pdoValue, pdoUnit>>
scan == <<next, skips, sweeps, missing>>
env == <<connected, unplugs, absent>>
vars == <<store, phase, at, copy, raw, rawAnalog, present, magnet, scan, lost, env,
          faults, writes, steady, dirty, stale>>
-----------------------------------------------------------------------------
(***************************************************************************)
(* refresh_pdo_sensors: of the slots that claim a channel the last one      *)
(* walked shows there.                                                      *)
(***************************************************************************)
Claimants(cfgs, c) == {s \in Slot : cfgs[s].pdo = c}
Shown(cfgs, c) == CHOOSE s \in Claimants(cfgs, c) : \A r \in Claimants(cfgs, c) : r <= s
ChannelValues(cfgs, values) ==
  [c \in PdoChannel |-> IF Claimants(cfgs, c) = {} THEN SensorInvalid ELSE values[Shown(cfgs, c)]]
ChannelUnits(cfgs) ==
  [c \in PdoChannel |-> IF Claimants(cfgs, c) = {} THEN "CentiBar" ELSE cfgs[Shown(cfgs, c)].unit]

Init ==
  /\ connected \in SUBSET Target
  /\ slots = BootSlots
  /\ value = [s \in Slot |-> SensorInvalid]
  /\ pdoValue = [c \in PdoChannel |-> SensorInvalid]
  /\ pdoUnit = ChannelUnits(BootSlots)
  /\ phase = "wait" /\ at = 0 /\ copy = BootSlots
  /\ raw = [t \in Target |-> RawInvalid]
  /\ rawAnalog = [p \in AnalogInput |-> RawInvalid]
  /\ present = {} /\ magnet = {}
  /\ next = 0 /\ skips = 0 /\ sweeps = 0
  /\ lost = 0 /\ missing = 0
  /\ unplugs = 0 /\ faults = 0 /\ writes = 0
  /\ absent = Target \ connected
  /\ steady = connected
  /\ dirty = {} /\ stale = {}
-----------------------------------------------------------------------------
(* The cables.                                                              *)
Plug(t) ==
  /\ t \notin connected
  /\ connected' = connected \cup {t}
  /\ absent' = absent \ {t}
  /\ UNCHANGED <<store, phase, at, copy, raw, rawAnalog, present, magnet, scan, lost,
                 unplugs, faults, writes, steady, dirty, stale>>

Unplug(t) ==
  /\ t \in connected
  /\ unplugs < MaxUnplugs
  /\ connected' = connected \ {t}
  /\ unplugs' = unplugs + 1
  /\ steady' = steady \ {t}
  /\ UNCHANGED <<store, phase, at, copy, raw, rawAnalog, present, magnet, scan, lost,
                 absent, faults, writes, dirty, stale>>

(***************************************************************************)
(* The SDO server: one write to any object of a slot (0x3020 .. 0x3028),    *)
(* followed by refresh_derived under the same lock.  A new kind brings its  *)
(* own unit and calibration.                                                *)
(***************************************************************************)
Rewritten(cfg) ==
  {[cfg EXCEPT !.kind = k, !.unit = NaturalUnit(k), !.calib = DefaultCalib(k)] : k \in Kinds \ {cfg.kind}}
  \cup {[cfg EXCEPT !.unit = u] : u \in Units \ {cfg.unit}}
  \cup {[cfg EXCEPT !.calib.offset = n] : n \in Coefficients \ {cfg.calib.offset}}
  \cup {[cfg EXCEPT !.calib.slope = n] : n \in Coefficients \ {cfg.calib.slope}}
  \cup {[cfg EXCEPT !.calib.constant = n] : n \in Coefficients \ {cfg.calib.constant}}
  \cup {[cfg EXCEPT !.bus = b] : b \in ({None} \cup 0 .. NumBuses - 1) \ {cfg.bus}}
  \cup {[cfg EXCEPT !.amplifier = a] : a \in (0 .. NumAmplifiers - 1) \ {cfg.amplifier}}
  \cup {[cfg EXCEPT !.analog = p] : p \in AnalogInput \ {cfg.analog}}
  \cup {[cfg EXCEPT !.pdo = c] : c \in (PdoChannel \cup {None}) \ {cfg.pdo}}

Write(s) ==
  /\ writes < MaxWrites
  /\ \E cfg \in Rewritten(slots[s]) : slots' = [slots EXCEPT ![s] = cfg]
  /\ pdoValue' = ChannelValues(slots', value)
  /\ pdoUnit' = ChannelUnits(slots')
  /\ writes' = writes + 1
  /\ dirty' = dirty \cup {s}
  /\ stale' = stale \cup {s}
  /\ UNCHANGED <<value, phase, at, copy, raw, rawAnalog, present, magnet, scan, lost,
                 env, faults, steady>>

\* Slots that differ from their defaults.
Changed == {s \in Slot : slots[s] # BootSlots[s]}

\* The persistence task restores: every slot is replaced by its default, under one lock.
Restore ==
  /\ Changed # {}
  /\ slots' = BootSlots
  /\ pdoValue' = ChannelValues(slots', value)
  /\ pdoUnit' = ChannelUnits(slots')
  /\ dirty' = dirty \cup Changed /\ stale' = stale \cup Changed
  /\ UNCHANGED <<value, phase, at, copy, raw, rawAnalog, present, magnet, scan, lost,
                 env, faults, writes, steady>>
-----------------------------------------------------------------------------
\* Mutant: the configuration is cloned once, before the loop.
CloneOnce == copy

Clone == slots

(***************************************************************************)
(* The cycle of Sensors::run.  It starts by cloning the configuration and   *)
(* the pin counts the control task left, which are invalid for a pin no     *)
(* slot used at that task's last tick.                                      *)
(***************************************************************************)
Begin ==
  /\ phase = "wait"
  /\ phase' = "sample" /\ at' = 0
  /\ copy' = Clone
  /\ \E counts \in [AnalogInput -> AnalogCounts \cup {RawInvalid}] :
       /\ \A p \in AnalogInput : (\A s \in Slot : p \notin Pins(slots[s])) => counts[p] = RawInvalid
       /\ rawAnalog' = counts
  /\ dirty' = {}
  /\ absent' = Target \ connected
  /\ steady' = IF sweeps = 0 THEN steady ELSE {}
  /\ UNCHANGED <<store, raw, present, magnet, scan, lost, connected, unplugs, faults,
                 writes, stale>>

Sampling(t) == phase = "sample" /\ at = t

Advance(t) ==
  /\ at' = (t + 1) % Cardinality(Target)
  /\ phase' = IF t + 1 \in Target THEN "sample" ELSE "scan"

\* A device not believed to be present is passed over and has no reading.
PassOver(t) ==
  /\ Sampling(t) /\ t \notin present
  /\ Advance(t)
  /\ raw' = [raw EXCEPT ![t] = RawInvalid]
  /\ UNCHANGED <<store, copy, rawAnalog, present, magnet, scan, lost, env, faults,
                 writes, steady, dirty, stale>>

ReadAmplifier(t) ==
  /\ Sampling(t) /\ t \in present \cap connected /\ ~IsEncoder(t)
  /\ Advance(t)
  /\ \E word \in AmplifierWords : raw' = [raw EXCEPT ![t] = Conversion(word)]
  /\ UNCHANGED <<store, copy, rawAnalog, present, magnet, scan, lost, env, faults,
                 writes, steady, dirty, stale>>

ReadEncoder(t) ==
  /\ Sampling(t) /\ t \in present \cap connected /\ IsEncoder(t)
  /\ Advance(t)
  /\ \E word \in AngleWords :
       /\ raw' = [raw EXCEPT ![t] = Angle(word)]
       /\ magnet' = IF MagnetUsable(word) THEN magnet \cup {t} ELSE magnet \ {t}
  /\ UNCHANGED <<store, copy, rawAnalog, present, scan, lost, env, faults, writes,
                 steady, dirty, stale>>

\* Mutant: a failed transfer keeps the last reading.
KeepReading(t) == raw

\* Mutant: a failed transfer forgets the device and keeps its magnet bit.
KeepMagnet(t) == magnet

NoReading(t) == [raw EXCEPT ![t] = RawInvalid]
NoMagnet(t) == magnet \ {t}

(***************************************************************************)
(* A transfer that ends in a NACK (nobody there), a bus error or a timeout  *)
(* drops the device from the presence word at once.                         *)
(***************************************************************************)
ReadFails(t) ==
  /\ Sampling(t) /\ t \in present
  /\ \/ t \notin connected /\ faults' = faults
     \/ t \in connected /\ faults < MaxFaults /\ faults' = faults + 1
  /\ Advance(t)
  /\ raw' = NoReading(t)
  /\ present' = present \ {t}
  /\ magnet' = NoMagnet(t)
  /\ lost' = lost + 1
  /\ steady' = steady \ {t}
  /\ UNCHANGED <<store, copy, rawAnalog, scan, env, writes, dirty, stale>>

ScanNotDue ==
  /\ phase = "scan"
  /\ Scanning => skips < MaxSkips
  /\ phase' = "publish"
  /\ skips' = IF Scanning THEN skips + 1 ELSE skips
  /\ UNCHANGED <<store, at, copy, raw, rawAnalog, present, magnet, next, sweeps, missing,
                 lost, env, faults, writes, steady, dirty, stale>>

\* Mutant: the cursor goes round the amplifiers only.
AmplifiersOnly(n) == (n + 1) % NumAdcSlots

\* Mutant: the sweep ends when its last address is due, before it has answered.
WrappedEarly(n) == n = Cardinality(Target) - 1

AfterTarget(n) == (n + 1) % Cardinality(Target)
Wrapped(n) == n = 0

\* The slots whose device the first sweep has not found.
Missing(cfgs, found) == {s \in Slot : Devices(cfgs[s]) # {} /\ Devices(cfgs[s]) \cap found = {}}

(***************************************************************************)
(* scan_step with a probe due: the address under the cursor is asked unless *)
(* it is being sampled anyway, and the end of the first sweep counts what   *)
(* is missing.                                                              *)
(***************************************************************************)
ScanStep ==
  /\ phase = "scan" /\ Scanning
  /\ \/ present' = present \cup ({next} \cap connected) /\ UNCHANGED <<faults, steady>>
     \/ /\ next \in connected \ present /\ faults < MaxFaults
        /\ faults' = faults + 1
        /\ steady' = steady \ {next}
        /\ present' = present
  /\ next' = AfterTarget(next)
  /\ sweeps' = IF Wrapped(next') /\ sweeps < SweepCap THEN sweeps + 1 ELSE sweeps
  /\ missing' = IF Wrapped(next') /\ sweeps = 0
                THEN missing + Cardinality(Missing(copy, present')) ELSE missing
  /\ skips' = 0
  /\ phase' = "publish"
  /\ UNCHANGED <<store, at, copy, raw, rawAnalog, magnet, lost, env, writes, dirty, stale>>

\* The raw number a slot reads: raw_for.
RawFor(cfg) ==
  IF Pins(cfg) # {} THEN rawAnalog[CHOOSE p \in Pins(cfg) : TRUE]
  ELSE IF Devices(cfg) # {} THEN raw[CHOOSE t \in Devices(cfg) : TRUE] ELSE RawInvalid

\* publish: values under the configuration copied before the transfers, then
\* the channels under the one in force.
Publish ==
  /\ phase = "publish"
  /\ phase' = "wait"
  /\ value' = [s \in Slot |-> Calibrate(copy[s], RawFor(copy[s]))]
  /\ pdoValue' = ChannelValues(slots, value')
  /\ pdoUnit' = ChannelUnits(slots)
  /\ stale' = dirty
  /\ UNCHANGED <<slots, at, copy, raw, rawAnalog, present, magnet, scan, lost, env,
                 faults, writes, steady, dirty>>
-----------------------------------------------------------------------------
Cycle ==
  \/ Begin \/ ScanNotDue \/ ScanStep \/ Publish
  \/ \E t \in Target : PassOver(t) \/ ReadAmplifier(t) \/ ReadEncoder(t) \/ ReadFails(t)

Next ==
  \/ Cycle
  \/ \E t \in Target : Plug(t) \/ Unplug(t)
  \/ \E s \in Slot : Write(s)
  \/ Restore

Spec == Init /\ [][Next]_vars

\* The executor keeps polling the sensor task, whose transfers have timeouts.
\* A step of the cycle is enabled in every state, so that this is WF_vars(Cycle).
FairSpec == Spec /\ []<><<Cycle>>_vars
-----------------------------------------------------------------------------
(***************************************************************************)
(* A device that was not there for a whole cycle has no reading: a cable    *)
(* knocked loose invalidates every slot on it by the end of the first cycle *)
(* that starts without it (sensors/mod.rs:588-635).                         *)
(***************************************************************************)
NoFrozenReading ==
  phase = "wait" =>
    \A s \in Slot : Devices(copy[s]) \cap absent # {} => value[s] = SensorInvalid

(***************************************************************************)
(* Once a cycle has begun after the last write to a slot, what is published *)
(* for it is its reading under the calibration in force, although values,   *)
(* units and channels are written by two tasks at different moments         *)
(* (sensors/mod.rs:709-722, store.rs:248-295); and a channel's value and    *)
(* unit are always those of the slot that claims it.                        *)
(***************************************************************************)
ChannelsCoherent ==
  /\ pdoValue = ChannelValues(slots, value) /\ pdoUnit = ChannelUnits(slots)
  /\ phase = "wait" /\ (writes > 0 \/ sweeps > 0) =>
       \A s \in Slot \ stale : value[s] \in {Calibrate(slots[s], RawFor(slots[s]))}

(***************************************************************************)
(* The presence word is honest: a magnet bit and a reading belong to a      *)
(* device believed present, and a connector that opens once is counted as   *)
(* lost at most once (sensors/mod.rs:515-519, 622-633).                     *)
(***************************************************************************)
PresenceHonest ==
  /\ magnet \subseteq {t \in present : IsEncoder(t)}
  /\ phase # "sample" => \A t \in Target : raw[t] # RawInvalid => t \in present
  /\ lost <= unplugs + faults

(***************************************************************************)
(* SensorMissingAtBoot counts once per slot, at the end of the first sweep, *)
(* and never a device that has been connected since boot and answered every *)
(* transfer (sensors/mod.rs:658-683).                                       *)
(***************************************************************************)
MissingMeansAbsent ==
  [][missing' # missing =>
       /\ missing = 0 /\ sweeps = 0
       /\ missing' <= Cardinality({s \in Slot : Devices(copy[s]) \ steady' # {}})]_vars

(***************************************************************************)
(* With scanning on, a connected device is found or comes loose again, and  *)
(* a lost one is noticed or comes back: the cursor reaches every address,   *)
(* an address being sampled needs no probe, and no state of the loop skips  *)
(* one for ever (sensors/mod.rs:428-439, 588-657).                          *)
(***************************************************************************)
FoundAndLost ==
  \A t \in Target :
    /\ Scanning => (t \in connected ~> (t \in present \/ t \notin connected))
    /\ t \notin connected ~> (t \notin present \/ t \in connected)

(***************************************************************************)
(* The calibration pipeline agrees with the devices over every raw number   *)
(* (PipelineFaithful in Calibration).  No variable enters into it, and one  *)
(* state is enough to evaluate it in: the board just powered, with nothing  *)
(* plugged in.                                                              *)
(***************************************************************************)
AtPowerOn ==
  /\ phase = "wait" /\ sweeps = 0 /\ next = 0 /\ skips = 0
  /\ connected = {} /\ unplugs = 0 /\ faults = 0 /\ writes = 0

CalibrationFaithful == AtPowerOn => PipelineFaithful

(***************************************************************************)
(* A transducer calibrated as (reading - offset) * per_count reads zero at  *)
(* its offset (config/sensors.rs:337; sensors/mod.rs:1339-1346).  The code  *)
(* adds one whole unit, so this does not hold.                              *)
(***************************************************************************)
PlainFormReadsZero ==
  phase = "wait" =>
    \A s \in Slot \ stale :
      /\ slots[s].kind = "Pressure" /\ slots[s].unit # "RawCounts"
      /\ slots[s].calib \in {FromPerCount(slots[s].calib.offset, slots[s].calib.slope)}
      /\ value[s] # SensorInvalid
      /\ RawFor(slots[s]) * 1000 = slots[s].calib.offset
      => value[s] = 0
=============================================================================
