------------------------------ MODULE ConfigSanity ------------------------------
(***************************************************************************)
(* What a configuration means and when the node refuses one                *)
(* (src/src/config/mod.rs, valves.rs, heating.rs, relief.rs, sensors.rs).   *)
(***************************************************************************)
EXTENDS Objects

IsMapped(c, v) == c["VALVE_KIND"][v] # "None" /\ c["VALVE_SIGNAL_HCO"][v] # None
OutputsOf(c, v) == {c["VALVE_POWER_HCO"][v], c["VALVE_SIGNAL_HCO"][v]} \ {None}
Mapped(c) == {v \in ValveId : IsMapped(c, v)}

\* The first mapped valve that names the output, None for an output of none.
HcoOwner(c, h) ==
  LET owners == {v \in Mapped(c) : h \in OutputsOf(c, v)}
  IN  IF owners = {} THEN None ELSE Min(owners)

IsFitted(c, v) == c["VALVE_HEATING_HCO"][v] # {} /\ c["VALVE_HEATING_SENSOR"][v] # None
Fitted(c) == {v \in ValveId : IsFitted(c, v)}

IsArmed(c) == c["RELIEF_ENABLED"][0] /\ c["RELIEF_VALVE"][0] # None

IsConfigured(c, s) == c["SENSOR_KIND"][s] # "None"

\* The device a slot is read from, as a set that is empty for a slot of none.
Source(c, s) ==
  LET kind == c["SENSOR_KIND"][s]
      bus == c["SENSOR_BUS"][s]
  IN  IF kind \in {"Ntc", "NtcToSupply"} THEN {<<"analog", c["SENSOR_ANALOG_INPUT"][s]>>}
      ELSE IF kind = "BoardNtc" THEN {<<"analog", BoardInput>>}
      ELSE IF kind = "None" \/ bus = None THEN {}
      ELSE IF kind = "Angle" THEN {<<"encoder", bus>>}
      ELSE {<<"adc", bus, c["SENSOR_AMPLIFIER"][s]>>}

\* The slots that claim a channel, used or not; the last of them is the one shown.
Claimants(c, ch) == {s \in SensorSlot : c["SENSOR_PDO_CHANNEL"][s] = ch}
-----------------------------------------------------------------------------
(***************************************************************************)
(* Config::new: nothing fitted but the board's thermistor, on the last slot *)
(* and on no channel.                                                       *)
(***************************************************************************)
DefaultTpdoMs ==
  << 500, 500, 200, 500, 500, 100, 0, 100, 0, 50, 50, 0, 5000, 1000, 200, 200, 200, 0, 2000, 250 >>

InitialValue(name, id) ==
  CASE name \in {"VALVE_KIND", "SENSOR_KIND"} -> "None"
    [] name \in {"VALVE_POWER_HCO", "VALVE_SIGNAL_HCO", "VALVE_POSITION_SENSOR", "SENSOR_BUS",
                 "SENSOR_PDO_CHANNEL", "RELIEF_VALVE", "VALVE_HEATING_SENSOR"} -> None
    [] name \in {"FALLBACK_A_UNPOWER", "FALLBACK_B_UNPOWER", "RELIEF_ENABLED",
                 "VALVE_HEATING_ENABLED"} -> FALSE
    [] name \in {"FALLBACK_A_POSITION", "VALVE_STALL_MA", "VALVE_MIN_PROMILLE", "SENSOR_AMPLIFIER",
                 "SENSOR_OFFSET", "SENSOR_SLOPE", "SENSOR_CONSTANT", "SENSOR_ANALOG_INPUT",
                 "RELIEF_SENSOR"} -> 0
    [] name \in {"VALVE_STALL_MS", "VALVE_SETTLE_MS", "SCAN_INTERVAL_MS", "RELIEF_PULSE_MS",
                 "RELIEF_COOLDOWN_MS"} -> 500
    [] name \in {"HEARTBEAT_PERIOD", "FALLBACK_B_POSITION", "VALVE_OPEN_US", "VALVE_TRAVEL_MS",
                 "VALVE_MAX_PROMILLE", "RELIEF_POSITION"} -> 1000
    [] name = "MASTER_NODE_ID" -> 1
    [] name = "FALLBACK_A_MS" -> 6000
    [] name = "FALLBACK_B_MS" -> 300000
    [] name = "FALLBACK_ENABLED" -> TRUE
    [] name = "VALVE_CLOSED_US" -> 2000
    [] name = "SENSOR_UNIT_CFG" -> "CentiBar"
    [] name = "SENSOR_INTERVAL_MS" -> 10
    [] name = "TPDO_INTERVAL_MS" -> DefaultTpdoMs[id + 1]
    [] name = "RELIEF_THRESHOLD" -> 32767
    [] name = "VALVE_HEATING_HCO" -> {}
    [] name = "VALVE_HEATING_SETPOINT" -> SensorInvalid
    [] name = "VALVE_HEATING_HYSTERESIS" -> 100

\* A slot of a kind that comes with its calibration (from_kind, ntc_wired).
OfKind(c, s, kind) ==
  LET calib == DefaultCalib(kind)
  IN  [c EXCEPT !["SENSOR_KIND"][s] = kind,
                !["SENSOR_OFFSET"][s] = calib.offset,
                !["SENSOR_SLOPE"][s] = calib.slope,
                !["SENSOR_CONSTANT"][s] = calib.constant,
                !["SENSOR_UNIT_CFG"][s] = NaturalUnit(kind)]

NewConfig ==
  LET object(name) == ConfigObjects[CHOOSE i \in DOMAIN ConfigObjects : ConfigObjects[i].name = name]
      empty == [name \in Names |-> [id \in Ids(object(name)) |-> InitialValue(name, id)]]
  IN  [OfKind(empty, NumSlots - 1, "BoardNtc")
         EXCEPT !["SENSOR_ANALOG_INPUT"][NumSlots - 1] = BoardInput]
-----------------------------------------------------------------------------
(***************************************************************************)
(* Config::sanity_check, one rule for each error it returns.               *)
(***************************************************************************)
NodeIdInRange(c) == c["MASTER_NODE_ID"][0] <= 15
FallbackOrder(c) == c["FALLBACK_B_MS"][0] > c["FALLBACK_A_MS"][0]

ValveSane(c, v) ==
  /\ c["VALVE_MIN_PROMILLE"][v] <= c["VALVE_MAX_PROMILLE"][v]
  /\ c["VALVE_KIND"][v] = "Servo" => c["VALVE_TRAVEL_MS"][v] # 0
  /\ LET slot == c["VALVE_POSITION_SENSOR"][v]
     IN  slot # None => IsConfigured(c, slot) /\ c["SENSOR_UNIT_CFG"][slot] = "Promille"

\* Mutant: only the signal outputs are compared.
SignalsApart(c) ==
  \A v, w \in Mapped(c) : v < w => c["VALVE_SIGNAL_HCO"][v] # c["VALVE_SIGNAL_HCO"][w]
OutputsApart(c) ==
  \A v, w \in Mapped(c) : v < w => OutputsOf(c, v) \cap OutputsOf(c, w) = {}

HeatingSane(c, v) ==
  /\ c["VALVE_HEATING_ENABLED"][v] => IsFitted(c, v)
  /\ IsFitted(c, v) =>
       LET slot == c["VALVE_HEATING_SENSOR"][v]
       IN  IsConfigured(c, slot) /\ Quantity(c["SENSOR_UNIT_CFG"][slot]) = "Temperature"

PadsApart(c) ==
  \A v \in Fitted(c) :
    /\ \A w \in Mapped(c) : c["VALVE_HEATING_HCO"][v] \cap OutputsOf(c, w) = {}
    /\ \A w \in Fitted(c) : v < w => c["VALVE_HEATING_HCO"][v] \cap c["VALVE_HEATING_HCO"][w] = {}

SensorSane(c, s) ==
  IsConfigured(c, s) =>
    /\ IsOnI2c(c["SENSOR_KIND"][s]) => c["SENSOR_BUS"][s] # None
    /\ c["SENSOR_KIND"][s] \in {"Ntc", "NtcToSupply"} => c["SENSOR_ANALOG_INPUT"][s] # BoardInput

\* Only a slot in use is compared, and only with the slots after it.
ChannelsApart(c) ==
  \A s, t \in SensorSlot :
    s < t /\ IsConfigured(c, s) /\ c["SENSOR_PDO_CHANNEL"][s] # None
      => c["SENSOR_PDO_CHANNEL"][s] # c["SENSOR_PDO_CHANNEL"][t]

ReliefSane(c) ==
  IsArmed(c) =>
    /\ IsMapped(c, c["RELIEF_VALVE"][0])
    /\ IsConfigured(c, c["RELIEF_SENSOR"][0])
    /\ c["RELIEF_PULSE_MS"][0] # 0

SanityCheck(c) ==
  /\ NodeIdInRange(c) /\ FallbackOrder(c)
  /\ \A v \in Mapped(c) : ValveSane(c, v)
  /\ OutputsApart(c)
  /\ \A v \in ValveId : HeatingSane(c, v)
  /\ PadsApart(c)
  /\ \A s \in SensorSlot : SensorSane(c, s)
  /\ ChannelsApart(c)
  /\ ReliefSane(c)
=============================================================================
