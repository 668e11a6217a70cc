------------------------------- MODULE Dictionary -------------------------------
(***************************************************************************)
(* The configuration as a master sees it over SDO, and the views of it that *)
(* the rest of the node reads: who owns an output, the unit of a slot, and  *)
(* the channels the broadcaster sends (src/src/store.rs, node.rs).          *)
(* The store's lock makes a write, a publication of the sensor task and a   *)
(* restore one step each.  Commands, direct outputs and the parked requests *)
(* of the dictionary are in Control, DirectWrites and Persistence.          *)
(***************************************************************************)
EXTENDS ConfigSanity, Frames

CONSTANTS
  Factories,     \* the compile-time defaults a node may be built with
  Samples(_),    \* the numbers that are written to an object
  Readings,      \* the readings of all slots that a sample publishes
  MaxWrites      \* bound: accepted writes between two boots

ASSUME DictionaryAssumption ==
  /\ \A c \in Factories : WellFormed(c) /\ SanityCheck(c)
  \* What the frames have room for; a reading is an i16.
  /\ NumValves <= 15 /\ NumHco <= 4 /\ NumChannels <= 12
  /\ Readings \subseteq [SensorSlot -> I16Min .. I16Max]
  /\ MaxWrites \in Nat

VARIABLES
  defaults,      \* FACTORY_DEFAULTS
  config,        \* Store::config
  reading,       \* Store::sensor_value
  owner,         \* Store::hco_owner, with None for unowned
  unit,          \* Store::sensor_unit
  channel,       \* Store::pdo_sensor_value and pdo_sensor_unit
  writes         \* bound counter

views == <<owner, unit, channel>>
vars == <<defaults, config, reading, views, writes>>
-----------------------------------------------------------------------------
(***************************************************************************)
(* The views, recomputed from the configuration and the readings.          *)
(***************************************************************************)
Ownership(c) == [h \in HcoId |-> HcoOwner(c, h)]
Units(c) == [s \in SensorSlot |-> c["SENSOR_UNIT_CFG"][s]]

\* refresh_pdo_sensors: a later slot overwrites an earlier one.
Unclaimed == [value |-> SensorInvalid, unit |-> "CentiBar"]
Channels(c, values) ==
  [ch \in PdoSensorChannel |->
     IF Claimants(c, ch) = {} THEN Unclaimed
     ELSE LET s == Max(Claimants(c, ch))
          IN  [value |-> values[s], unit |-> c["SENSOR_UNIT_CFG"][s]]]

\* The board's own thermistor: the first slot of its kind that is in centicelsius.
BoardTemperature(c, values) ==
  LET slots == {s \in SensorSlot : c["SENSOR_KIND"][s] = "BoardNtc"
                                     /\ c["SENSOR_UNIT_CFG"][s] = "CentiCelsius"}
  IN  IF slots = {} THEN SensorInvalid ELSE values[Min(slots)]

\* Mutant: the owners are left as they were.
RefreshUnits(c) ==
  /\ unit' = Units(c)
  /\ channel' = Channels(c, reading)
  /\ UNCHANGED owner
RefreshDerived(c) ==
  /\ owner' = Ownership(c)
  /\ unit' = Units(c)
  /\ channel' = Channels(c, reading)
-----------------------------------------------------------------------------
(***************************************************************************)
(* The frames the broadcaster gathers from the views, and what a listener   *)
(* takes from them.  The fields that come from elsewhere are left at 0.     *)
(***************************************************************************)
UnitCode(u) == (CHOOSE i \in DOMAIN UnitCodes : UnitCodes[i] = u) - 1

FrameFor(kind) ==
  LET values == [i \in 1 .. NumChannels |-> channel[i - 1].value]
      units == [i \in 1 .. NumChannels |-> UnitCode(channel[i - 1].unit)]
      owners == [i \in 1 .. NumHco |-> owner[i - 1] + 1]
  IN  EncodeFrame(kind,
        CASE kind = "Sensor0" -> Window(values, 0, 4, SensorInvalid)
          [] kind = "Sensor1" -> Window(values, 4, 4, SensorInvalid)
          [] kind = "Sensor3" -> Window(values, 8, 4, SensorInvalid)
          [] kind = "SensorUnits" -> Window(units, 0, 12, 0)
          [] kind = "ValveStatus" -> <<0, 0, 0, 0>> \o Window(owners, 0, 4, 0) \o <<0>>
          [] kind = "Temperature" -> <<BoardTemperature(config, reading), 0>>)

Told(kind) == DecodeFrame(kind, FrameFor(kind))

Heard ==
  LET values == Told("Sensor0") \o Told("Sensor1") \o Told("Sensor3")
      units == Told("SensorUnits")
  IN  [ch \in PdoSensorChannel |-> [value |-> values[ch + 1], unit |-> UnitCodes[units[ch + 1] + 1]]]

OwnerHeard ==
  LET fields == Told("ValveStatus")
  IN  [h \in HcoId |-> fields[5 + h] - 1]
-----------------------------------------------------------------------------
(***************************************************************************)
(* Writing one element, and reading one.                                   *)
(***************************************************************************)
Accepts(object, sub, data) ==
  /\ Addressed(object, sub) # {}
  /\ data.bytes = object.field.bytes
  /\ data.value \in object.field.legal

\* A change of kind re-seeds the calibration and the unit.
\* Mutant: writing the same kind re-seeds, too.
AlwaysOfKind(c, s, kind) == OfKind(c, s, kind)
KindWritten(c, s, kind) ==
  IF c["SENSOR_KIND"][s] = kind THEN c ELSE OfKind(c, s, kind)

Stored(c, object, id, wire) ==
  LET value == Decode(object.field, wire)
  IN  IF object.name = "SENSOR_KIND" THEN KindWritten(c, id, value)
      ELSE [c EXCEPT ![object.name][id] = value]

ReadBack(c, object, id) == Encode(object.field, c[object.name][id])
-----------------------------------------------------------------------------
(***************************************************************************)
(* The steps.                                                              *)
(***************************************************************************)
\* A download of the SDO server to the configuration; a refused one changes nothing.
Write(object, sub, data) ==
  /\ writes < MaxWrites
  /\ Accepts(object, sub, data)
  /\ \E id \in Addressed(object, sub) : config' = Stored(config, object, id, data.value)
  /\ RefreshDerived(config')
  /\ writes' = writes + 1
  /\ UNCHANGED <<defaults, reading>>

\* The sensor task publishes its readings and gathers the channels.
Publish(values) ==
  /\ reading' = values
  /\ channel' = Channels(config, values)
  /\ UNCHANGED <<defaults, config, owner, unit, writes>>

\* The persistence task ends a restore.
Restore ==
  /\ config' = defaults
  /\ RefreshDerived(config')
  /\ writes' = 0
  /\ UNCHANGED <<defaults, reading>>

\* A reset: the statics are new, and this build boots the defaults.
Boot ==
  /\ config' = defaults
  /\ reading' = [s \in SensorSlot |-> SensorInvalid]
  /\ owner' = Ownership(config')
  /\ unit' = Units(config')
  /\ channel' = Channels(config', reading')
  /\ writes' = 0
  /\ UNCHANGED defaults

Init ==
  /\ defaults \in Factories
  /\ config = defaults
  /\ reading = [s \in SensorSlot |-> SensorInvalid]
  /\ owner = Ownership(config)
  /\ unit = Units(config)
  /\ channel = Channels(config, reading)
  /\ writes = 0

SdoWrite ==
  \E i \in DOMAIN ConfigObjects :
    \E sub \in 0 .. ConfigObjects[i].count + 1, value \in Samples(ConfigObjects[i]), bytes \in {1, 2, 4} :
      Write(ConfigObjects[i], sub, [bytes |-> bytes, value |-> value])

Next ==
  \/ SdoWrite
  \/ \E values \in Readings : Publish(values)
  \/ Restore
  \/ Boot

Spec == Init /\ [][Next]_vars
-----------------------------------------------------------------------------
(***************************************************************************)
(* What a listener decodes is what the configuration says: every channel    *)
(* carries the latest reading of the slot that claims it, in that slot's    *)
(* unit, an output is announced as owned by a valve that drives it, and the *)
(* board's temperature is a temperature, if there is one.                   *)
(* Four handlers change one side or the other and each has to refresh its   *)
(* share (store.rs:244, 286, 994-998, node.rs:129, 203).                    *)
(***************************************************************************)
ViewsAgree ==
  LET heard == Heard
      owned == OwnerHeard
  IN  /\ \A ch \in PdoSensorChannel, s \in SensorSlot :
           Claimants(config, ch) = {s} =>
             heard[ch] = [value |-> reading[s], unit |-> config["SENSOR_UNIT_CFG"][s]]
      /\ \A ch \in PdoSensorChannel : Claimants(config, ch) = {} => heard[ch].value = SensorInvalid
      /\ \A s \in SensorSlot : unit[s] = config["SENSOR_UNIT_CFG"][s]
      /\ \A h \in HcoId :
           IF owned[h] = None THEN \A v \in Mapped(config) : h \notin OutputsOf(config, v)
           ELSE owned[h] \in Mapped(config) /\ h \in OutputsOf(config, owned[h])
      /\ Told("Temperature")[1] \in
           {SensorInvalid} \cup {reading[s] : s \in {s \in SensorSlot :
              config["SENSOR_KIND"][s] = "BoardNtc" /\ Quantity(unit[s]) = "Temperature"}}

(***************************************************************************)
(* "Writing the same kind again is a no-op, so a master that resends its    *)
(* whole configuration will not wipe the coefficients it just sent"         *)
(* (od.rs:849): any element may be written back as it was read, and nothing *)
(* changes, whatever was written before.                                    *)
(***************************************************************************)
RestatingIsHarmless ==
  \A i \in DOMAIN ConfigObjects :
    LET object == ConfigObjects[i]
    IN  \A id \in Ids(object) :
          LET data == [bytes |-> object.field.bytes, value |-> ReadBack(config, object, id)]
          IN  Accepts(object, id + 1, data) /\ Stored(config, object, id, data.value) = config

\* A node after every element of an object, then of a family of objects, has been
\* written to it as it is read here, in the order a dump reads them.
WithObject(c, object) ==
  LET copied[k \in 0 .. Elements(object)] ==
        IF k = 0 THEN c
        ELSE Stored(copied[k - 1], object, k - 1, ReadBack(config, object, k - 1))
  IN  copied[Elements(object)]
WithFamily(c, objects) ==
  LET copied[i \in 0 .. Len(objects)] ==
        IF i = 0 THEN c ELSE WithObject(copied[i - 1], objects[i])
  IN  copied[Len(objects)]

(***************************************************************************)
(* A node can be cloned over SDO: what is read from it by ascending index,  *)
(* written in that order to a node with any factory defaults, gives the     *)
(* same configuration there, although a write of a kind loses the           *)
(* coefficients that were written before it (store.rs:855).  Every family   *)
(* of objects ends as in the original and leaves the others as they were.   *)
(***************************************************************************)
CloneReproduces ==
  \A target \in Factories, f \in DOMAIN ObjectFamilies :
    LET family == ObjectFamilies[f]
        copied == {family[i].name : i \in DOMAIN family}
    IN  WithFamily(target, family) =
          [name \in Names |-> IF name \in copied THEN config[name] ELSE target[name]]

(***************************************************************************)
(* A configuration that passes the sanity check gives every output to one   *)
(* actor at most, a valve or a pad; no slot that a valve, a pad or the      *)
(* relief loop trusts is without a device; and every slot in use that       *)
(* claims a channel is the one heard on it, although an unused slot may     *)
(* claim it, too (config/mod.rs:235, 319, store.rs:290).  The check goes    *)
(* rule by rule and pair by pair, the rest of the node relies on the whole. *)
(***************************************************************************)
Drivers(h) ==
  {<<"valve", v>> : v \in {v \in Mapped(config) : h \in OutputsOf(config, v)}}
    \cup {<<"pad", v>> : v \in {v \in Fitted(config) : h \in config["VALVE_HEATING_HCO"][v]}}

Trusted ==
  {config["VALVE_POSITION_SENSOR"][v] : v \in Mapped(config)}
    \cup {config["VALVE_HEATING_SENSOR"][v] : v \in Fitted(config)}
    \cup {config["RELIEF_SENSOR"][0] : r \in {TRUE} \cap {IsArmed(config)}}

SaneMeansConsistent ==
  SanityCheck(config) =>
    /\ \A h \in HcoId : Cardinality(Drivers(h)) <= 1
    /\ \A s \in Trusted \ {None} : Cardinality(Source(config, s)) = 1
    /\ \A s \in SensorSlot :
         LET ch == config["SENSOR_PDO_CHANNEL"][s]
         IN  IsConfigured(config, s) /\ ch # None
               => channel[ch] = [value |-> reading[s], unit |-> config["SENSOR_UNIT_CFG"][s]]
=============================================================================
