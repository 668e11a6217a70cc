-------------------------------- MODULE Vehicle --------------------------------
(***************************************************************************)
(* The boards of the Zenith vehicle: what each comes up with when its flash *)
(* holds no valid configuration (src/src/zenith_mapping, and the builders   *)
(* of src/src/config it is written in).  The bench's floats are given as    *)
(* the integers the compiler folds them to: offsets in thousandths of a     *)
(* count, slopes in billionths of a bar per count.                          *)
(***************************************************************************)
EXTENDS ConfigSanity

(* An element of the configuration is set by name and id.                   *)
With(c, id, values) ==
  [name \in DOMAIN c |-> IF name \in DOMAIN values THEN [c[name] EXCEPT ![id] = values[name]] ELSE c[name]]

(***************************************************************************)
(* Sensors.  A slot is built as a record of its nine objects, and replaces  *)
(* whatever the slot had.                                                   *)
(***************************************************************************)
UnusedSlot ==
  [SENSOR_KIND |-> "None", SENSOR_BUS |-> None, SENSOR_AMPLIFIER |-> 0, SENSOR_ANALOG_INPUT |-> 0,
   SENSOR_UNIT_CFG |-> "CentiBar", SENSOR_OFFSET |-> 0, SENSOR_SLOPE |-> 0, SENSOR_CONSTANT |-> 0,
   SENSOR_PDO_CHANNEL |-> None]

Calibrated(slot, calib) ==
  [slot EXCEPT !.SENSOR_OFFSET = calib.offset, !.SENSOR_SLOPE = calib.slope,
               !.SENSOR_CONSTANT = calib.constant]

Strapped(kind, bus, amplifier) ==
  [UnusedSlot EXCEPT !.SENSOR_KIND = kind, !.SENSOR_BUS = bus, !.SENSOR_AMPLIFIER = amplifier]

Pressure(bus, amplifier, transducer) ==
  Calibrated([Strapped("Pressure", bus, amplifier) EXCEPT !.SENSOR_UNIT_CFG = transducer.unit],
             transducer.calib)

FromKind(kind, bus, amplifier) ==
  Calibrated([Strapped(kind, bus, amplifier) EXCEPT !.SENSOR_UNIT_CFG = NaturalUnit(kind)],
             DefaultCalib(kind))

NtcWired(kind, input) ==
  Calibrated([UnusedSlot EXCEPT !.SENSOR_KIND = kind, !.SENSOR_ANALOG_INPUT = input,
                                !.SENSOR_UNIT_CFG = NaturalUnit(kind)], DefaultCalib(kind))

\* The AS5600 of a bus, over the travel of a valve.
Encoder(bus, zero, span) ==
  Calibrated([Strapped("Angle", bus, 0) EXCEPT !.SENSOR_UNIT_CFG = "Promille"], AngleOver(zero, span))

\* A slot that claims no channel takes the one of its own number, if there is one.
WithSensor(c, s, slot) ==
  With(c, s, IF slot.SENSOR_PDO_CHANNEL = None /\ s \in PdoSensorChannel
               THEN [slot EXCEPT !.SENSOR_PDO_CHANNEL = s] ELSE slot)

WithQuietSensor(c, s, slot) == With(c, s, [slot EXCEPT !.SENSOR_PDO_CHANNEL = None])
-----------------------------------------------------------------------------
(***************************************************************************)
(* Valves, heating pads and relief.                                        *)
(***************************************************************************)
PowerOf(pair) == IF pair = "A" THEN 0 ELSE 2
SignalOf(pair) == IF pair = "A" THEN 1 ELSE 3

Servo(power, signal, closed, open) ==
  [VALVE_KIND |-> "Servo", VALVE_POWER_HCO |-> power, VALVE_SIGNAL_HCO |-> signal,
   VALVE_CLOSED_US |-> closed, VALVE_OPEN_US |-> open, VALVE_TRAVEL_MS |-> 1500]
ServoOnPair(pair, closed, open) == Servo(PowerOf(pair), SignalOf(pair), closed, open)
ServoOnInversedPair(pair, closed, open) == Servo(SignalOf(pair), PowerOf(pair), closed, open)

SolenoidOn(output) == [VALVE_KIND |-> "Solenoid", VALVE_SIGNAL_HCO |-> output]
Following(valve, slot) == valve @@ [VALVE_POSITION_SENSOR |-> slot]

WithValve(c, v, valve) == With(c, v, valve)

WithHeating(c, v, outputs, sensor, setpoint) ==
  With(c, v, [VALVE_HEATING_ENABLED |-> TRUE, VALVE_HEATING_HCO |-> outputs,
              VALVE_HEATING_SENSOR |-> sensor, VALVE_HEATING_SETPOINT |-> setpoint])

WithRelief(c, v, sensor, threshold, pulse, cooldown) ==
  With(c, 0, [RELIEF_ENABLED |-> TRUE, RELIEF_VALVE |-> v, RELIEF_SENSOR |-> sensor,
              RELIEF_THRESHOLD |-> threshold, RELIEF_PULSE_MS |-> pulse,
              RELIEF_COOLDOWN_MS |-> cooldown])
-----------------------------------------------------------------------------
(***************************************************************************)
(* The transducers, and what is plumbed where.                             *)
(***************************************************************************)
Centibar(offset, slope) == [unit |-> "CentiBar", calib |-> FromPerCount(offset, slope)]

PLCHOLD_10BAR == Centibar(1000, 85500000)
E_40BAR == Centibar(341500, 125000000)
F_40BAR == E_40BAR
A_100BAR == Centibar(262000, 155280000)
B_100BAR == Centibar(413700, 334000000)
C_100BAR == Centibar(370300, 181500000)
D_100BAR == Centibar(360550, 182200000)
EXT_OX == Centibar(420500, 336800000)               \* H_100BAR
EXT_N2 == Centibar(215000, 1000000000)              \* X_400BAR
PRESSURANT_TANK_P == Centibar(319400, 1293400064)   \* C_400BAR

MainValve == ServoOnPair("A", 2470, 700)
OxFillAndDump == ServoOnPair("B", 1436, 500)
Pressurization == ServoOnPair("A", 2310, 1230)
PressurantVent == ServoOnPair("B", 2000, 1082)
ExtN2 == ServoOnInversedPair("A", 2390, 1410)

\* Nosecone and recovery.
NODE2 == WithSensor(NewConfig, 0, Pressure(0, 1, PLCHOLD_10BAR))

\* Payload avionics, and the two spares: nothing wired yet.
NODE3 == NewConfig

\* Upper propulsion: the oxidizer vent, its relief loop and its heating pad.
NODE4 ==
  LET upperOxTank == WithSensor(NewConfig, 1, Pressure(0, 0, B_100BAR))
      pressurant == WithSensor(upperOxTank, 4, Pressure(0, 1, PRESSURANT_TANK_P))
      regulator == WithSensor(pressurant, 2, Pressure(0, 3, C_100BAR))
      vent == WithRelief(WithValve(regulator, 0, SolenoidOn(0)), 0, 1, 5400, 500, 500)
  IN  WithHeating(WithSensor(vent, 0, NtcWired("NtcToSupply", 2)), 0, {2, 3}, 0, 4000)

\* Upper propulsion: pressurization and the pressurant's vent.
NODE5 ==
  LET valves == WithValve(WithValve(NewConfig, 0, Pressurization), 1, PressurantVent)
  IN  WithSensor(WithSensor(valves, 0, FromKind("Pt1000", 0, 2)), 1, Pressure(0, 1, D_100BAR))

\* Lower propulsion: the main valve, the oxidizer's fill and dump.
NODE6 ==
  LET valves == WithValve(WithValve(NewConfig, 0, MainValve), 1, OxFillAndDump)
      tank == WithSensor(WithSensor(valves, 0, Pressure(0, 3, A_100BAR)), 2, FromKind("Pt1000", 0, 0))
  IN  WithSensor(WithSensor(tank, 1, Pressure(0, 1, E_40BAR)), 3, Pressure(1, 0, F_40BAR))

\* The external tanks.
NODE7 == WithSensor(WithSensor(NewConfig, 0, Pressure(0, 0, EXT_OX)), 1, Pressure(0, 1, EXT_N2))

VehicleNodes == {NODE2, NODE3, NODE4, NODE5, NODE6, NODE7}

\* A board whose own defaults fail the check panics before it can be reached
\* for an update, "so every mapping ... is checked here" (mod.rs:164).
ASSUME EveryVehicleMappingBoots == \A c \in VehicleNodes : SanityCheck(c)
=============================================================================
