-------------------------------- MODULE Objects --------------------------------
(***************************************************************************)
(* The configuration block of the object dictionary as a table: which      *)
(* objects there are, in index order, how many elements each has, and what  *)
(* a value of each looks like on the wire and in the configuration          *)
(* (iocan-proto/src/od.rs, src/src/store.rs, src/src/index.rs).  A number   *)
(* on the wire is taken as unsigned up to 16 bits and as an i32 beyond,     *)
(* which is also how TLC can hold it.                                       *)
(***************************************************************************)
EXTENDS Calibration, FiniteSets, SequencesExt

CONSTANTS
  NumValves,     \* 4 on the board
  NumHco,        \* 4 high current outputs
  NumSlots,      \* 16 sensor slots
  NumChannels,   \* 12 sensor channels of the TPDO frames
  NumKinds       \* 20 TPDO kinds

ASSUME ObjectsAssumption ==
  {NumValves, NumHco, NumSlots, NumChannels, NumKinds} \subseteq Nat \ {0}

ValveId == 0 .. NumValves - 1
HcoId == 0 .. NumHco - 1
SensorSlot == 0 .. NumSlots - 1
PdoSensorChannel == 0 .. NumChannels - 1
NumBuses == 2
NumAmplifiers == 9
NumAnalogInputs == 5
BoardInput == 4            \* AnalogInput::Board
None == -1                 \* Option::None of an id

KindCodes == << "None", "Pressure", "Pt1000", "Mcp9700", "Angle", "Ntc", "NtcToSupply", "BoardNtc" >>
UnitCodes == << "CentiBar", "DeciBar", "CentiCelsius", "RawCounts", "Promille" >>
ValveKindCodes == << "None", "Solenoid", "Servo" >>
-----------------------------------------------------------------------------
(***************************************************************************)
(* Fields: the length of the payload, the numbers a write accepts, and     *)
(* which of the conversions below it goes through.                         *)
(***************************************************************************)
Field(bytes, legal, form) == [bytes |-> bytes, legal |-> legal, form |-> form, codes |-> << >>]

U8Max == 255
U16Max == 65535
I16Min == -32768
I16Max == 32767
Full == 1000                                              \* a whole in promille

Flag == Field(1, 0 .. U8Max, "flag")
U16 == Field(2, 0 .. U16Max, "number")
I16 == Field(2, 0 .. U16Max, "signed")
Wide == Field(4, Int, "number")                           \* u32 and i32
Nonzero == Field(2, 1 .. U16Max, "number")
PromilleField == Field(2, 0 .. Full, "number")
NodeId == Field(1, 0 .. 15, "number")
Index(count) == Field(1, 0 .. count - 1, "number")
OptionalIndex(count) == Field(1, (0 .. count - 1) \cup {255}, "optional")
OutputNumber == Field(1, 0 .. NumHco, "output")           \* as silkscreened
OutputMask == Field(1, 0 .. 2^NumHco - 1, "outputs")
Code(codes) == [Field(1, 0 .. Len(codes) - 1, "code") EXCEPT !.codes = codes]

Bits(mask) == {h \in HcoId : (mask \div 2^h) % 2 = 1}
Mask == [outputs \in SUBSET HcoId |-> CHOOSE mask \in 0 .. 2^NumHco - 1 : Bits(mask) = outputs]

\* What a write stores for an accepted number ...
Decode(field, wire) ==
  CASE field.form = "number" -> wire
    [] field.form = "flag" -> wire # 0
    [] field.form = "signed" -> IF wire > 32767 THEN wire - 65536 ELSE wire
    [] field.form = "output" -> IF wire = 0 THEN None ELSE wire - 1
    [] field.form = "optional" -> IF wire = 255 THEN None ELSE wire
    [] field.form = "outputs" -> Bits(wire)
    [] field.form = "code" -> field.codes[wire + 1]

\* ... and what a read sends for a stored value.
Encode(field, value) ==
  CASE field.form = "number" -> value
    [] field.form = "flag" -> IF value THEN 1 ELSE 0
    [] field.form = "signed" -> value % 65536
    [] field.form = "output" -> IF value = None THEN 0 ELSE value + 1
    [] field.form = "optional" -> IF value = None THEN 255 ELSE value
    [] field.form = "outputs" -> Mask[value]
    [] field.form = "code" -> (CHOOSE i \in 1 .. Len(field.codes) : field.codes[i] = value) - 1

\* The values of the Rust type that is kept of a field.
Storable(field) ==
  CASE field.form = "number" -> field.legal
    [] field.form = "flag" -> BOOLEAN
    [] field.form = "signed" -> I16Min .. I16Max
    [] field.form = "output" -> HcoId \cup {None}
    [] field.form = "optional" -> (field.legal \ {255}) \cup {None}
    [] field.form = "outputs" -> {Bits(mask) : mask \in field.legal}
    [] field.form = "code" -> Range(field.codes)
-----------------------------------------------------------------------------
(***************************************************************************)
(* The objects.  A count of 0 is a scalar, of one element.                 *)
(***************************************************************************)
Object(name, count, field) == [name |-> name, count |-> count, field |-> field]

HeartbeatObjects == << Object("HEARTBEAT_PERIOD", 0, U16) >>

FallbackObjects ==
  << Object("MASTER_NODE_ID", 0, NodeId),
     Object("FALLBACK_A_MS", 0, Wide),
     Object("FALLBACK_B_MS", 0, Wide),
     Object("FALLBACK_A_POSITION", NumValves, PromilleField),
     Object("FALLBACK_B_POSITION", NumValves, PromilleField),
     Object("FALLBACK_A_UNPOWER", NumValves, Flag),
     Object("FALLBACK_B_UNPOWER", NumValves, Flag),
     Object("FALLBACK_ENABLED", 0, Flag) >>

ValveObjects ==
  << Object("VALVE_KIND", NumValves, Code(ValveKindCodes)),
     Object("VALVE_POWER_HCO", NumValves, OutputNumber),
     Object("VALVE_SIGNAL_HCO", NumValves, OutputNumber),
     Object("VALVE_CLOSED_US", NumValves, U16),
     Object("VALVE_OPEN_US", NumValves, U16),
     Object("VALVE_TRAVEL_MS", NumValves, Nonzero),
     Object("VALVE_STALL_MA", NumValves, U16),
     Object("VALVE_STALL_MS", NumValves, U16),
     Object("VALVE_SETTLE_MS", NumValves, U16),
     Object("VALVE_MIN_PROMILLE", NumValves, PromilleField),
     Object("VALVE_MAX_PROMILLE", NumValves, PromilleField),
     Object("VALVE_POSITION_SENSOR", NumValves, OptionalIndex(NumSlots)) >>

\* Mutant: the kind comes after the coefficients it re-seeds.
SensorObjectsKindLast ==
  << Object("SENSOR_BUS", NumSlots, OptionalIndex(NumBuses)),
     Object("SENSOR_AMPLIFIER", NumSlots, Index(NumAmplifiers)),
     Object("SENSOR_OFFSET", NumSlots, Wide),
     Object("SENSOR_SLOPE", NumSlots, Wide),
     Object("SENSOR_UNIT_CFG", NumSlots, Code(UnitCodes)),
     Object("SENSOR_CONSTANT", NumSlots, Wide),
     Object("SENSOR_KIND", NumSlots, Code(KindCodes)),
     Object("SENSOR_PDO_CHANNEL", NumSlots, OptionalIndex(NumChannels)),
     Object("SENSOR_ANALOG_INPUT", NumSlots, Index(NumAnalogInputs)) >>
SensorObjects ==
  << Object("SENSOR_BUS", NumSlots, OptionalIndex(NumBuses)),
     Object("SENSOR_AMPLIFIER", NumSlots, Index(NumAmplifiers)),
     Object("SENSOR_KIND", NumSlots, Code(KindCodes)),
     Object("SENSOR_OFFSET", NumSlots, Wide),
     Object("SENSOR_SLOPE", NumSlots, Wide),
     Object("SENSOR_UNIT_CFG", NumSlots, Code(UnitCodes)),
     Object("SENSOR_CONSTANT", NumSlots, Wide),
     Object("SENSOR_PDO_CHANNEL", NumSlots, OptionalIndex(NumChannels)),
     Object("SENSOR_ANALOG_INPUT", NumSlots, Index(NumAnalogInputs)) >>

IntervalObjects ==
  << Object("SENSOR_INTERVAL_MS", 0, Nonzero),
     Object("SCAN_INTERVAL_MS", 0, U16),
     Object("TPDO_INTERVAL_MS", NumKinds, U16) >>

ReliefObjects ==
  << Object("RELIEF_ENABLED", 0, Flag),
     Object("RELIEF_VALVE", 0, OptionalIndex(NumValves)),
     Object("RELIEF_SENSOR", 0, Index(NumSlots)),
     Object("RELIEF_THRESHOLD", 0, I16),
     Object("RELIEF_POSITION", 0, PromilleField),
     Object("RELIEF_PULSE_MS", 0, Nonzero),
     Object("RELIEF_COOLDOWN_MS", 0, U16) >>

HeatingObjects ==
  << Object("VALVE_HEATING_ENABLED", NumValves, Flag),
     Object("VALVE_HEATING_HCO", NumValves, OutputMask),
     Object("VALVE_HEATING_SENSOR", NumValves, OptionalIndex(NumSlots)),
     Object("VALVE_HEATING_SETPOINT", NumValves, I16),
     Object("VALVE_HEATING_HYSTERESIS", NumValves, U16) >>

\* Every object of the configuration, by ascending index.
ObjectFamilies ==
  << HeartbeatObjects, FallbackObjects, ValveObjects, SensorObjects, IntervalObjects,
     ReliefObjects, HeatingObjects >>
ConfigObjects ==
  HeartbeatObjects \o FallbackObjects \o ValveObjects \o SensorObjects \o IntervalObjects
    \o ReliefObjects \o HeatingObjects

\* The ids an object has an element for; the sub-index of one is the id plus 1.
Elements(object) == IF object.count = 0 THEN 1 ELSE object.count
Ids(object) == 0 .. Elements(object) - 1

\* A configuration maps the name of every object to its elements by id.
Names == {ConfigObjects[i].name : i \in DOMAIN ConfigObjects}
WellFormed(c) ==
  /\ c = [name \in Names |-> c[name]]
  /\ \A i \in DOMAIN ConfigObjects :
       LET object == ConfigObjects[i]
       IN  c[object.name] \in [Ids(object) -> Storable(object.field)]

\* The id that a sub-index names, as a set that is empty for a sub-index that
\* cannot be written: the count of an array, or past its end.  A scalar goes by
\* sub-index 0 and by 1.
Addressed(object, sub) ==
  IF object.count = 0 THEN {0 : s \in {sub} \cap {0, 1}} ELSE {sub - 1} \cap Ids(object)
=============================================================================
