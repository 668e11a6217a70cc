------------------------------- MODULE Heating --------------------------------
(***************************************************************************)
(* The bang-bang thermostat of a heating pad (src/src/heating.rs and       *)
(* src/src/config/heating.rs).  A pad is on exactly in state "Heating".    *)
(***************************************************************************)
EXTENDS BoardTypes

HeatingState == {"Idle", "Heating", "SensorFault", "Disabled"}

IsFitted(cfg) == cfg.outputs # {} /\ cfg.hasSensor
HeatingArmed(cfg) == cfg.enabled /\ IsFitted(cfg)

HeatingDecide(state, cfg, reading) ==
  IF ~HeatingArmed(cfg) THEN "Disabled"
  ELSE IF reading = SensorInvalid THEN "SensorFault"
  ELSE IF reading < cfg.setpoint - cfg.hysteresis THEN "Heating"
  ELSE IF reading > cfg.setpoint + cfg.hysteresis \/ state # "Heating" THEN "Idle"
  ELSE "Heating"
=============================================================================
