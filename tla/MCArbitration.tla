----------------------------- MODULE MCArbitration -----------------------------
(***************************************************************************)
(* A solenoid, relief and a heating pad on two outputs, direct writes to   *)
(* both, raw debug mode, a mapping that moves between the outputs, and     *)
(* relief disarmed and armed again by a reset.                             *)
(***************************************************************************)
EXTENDS ControlRelief

Solenoid ==
  [kind |-> "Solenoid", power |-> None, signal |-> 0, closedUs |-> 0, openUs |-> 0,
   travelMs |-> 1, stallMa |-> 0, stallMs |-> 0, settleMs |-> 0,
   min |-> 0, max |-> PromilleMax, hasSensor |-> FALSE,
   fallbackA |-> [position |-> 0, unpower |-> FALSE],
   fallbackB |-> [position |-> PromilleMax, unpower |-> FALSE]]

NoPad == [enabled |-> FALSE, outputs |-> {}, hasSensor |-> FALSE, setpoint |-> 0, hysteresis |-> 0]
Pad == [enabled |-> TRUE, outputs |-> {1}, hasSensor |-> TRUE, setpoint |-> 5, hysteresis |-> 1]
Relief0 == [enabled |-> TRUE, valve |-> 0, threshold |-> 5, position |-> 1,
            pulseMs |-> 1, cooldownMs |-> 1]

MCBoot ==
  [fallbackEnabled |-> TRUE, fallbackAMs |-> 2, fallbackBMs |-> 3,
   valves |-> [v \in Valve |-> Solenoid], heating |-> [v \in Valve |-> NoPad],
   relief |-> Relief0]

\* The valve moves to the other output, and relief is disarmed.
MCMoved == [MCBoot EXCEPT !.valves[0].signal = 1, !.relief.enabled = FALSE]
MCHeated == [MCBoot EXCEPT !.heating[0] = Pad]
\* One write away from MCBoot: the clamp is crossed.
MCCrossed == [MCBoot EXCEPT !.valves[0].max = 0, !.valves[0].min = 1]

MCConfigs == {MCMoved, MCHeated, MCCrossed}
MCConfigsCrossed == {MCCrossed}
MCCommands == {Driven(PromilleMax)}
MCDirectStates == {Digital(TRUE)}
MCReadings == {0, 9}
MCHeatReadings == {0}
MCPositions == {SensorInvalid}
MCRailCurrents == {None}
=============================================================================
