------------------------------ MODULE MCFallback ------------------------------
(***************************************************************************)
(* One servo, a master that falls silent, both fallback stages, and what   *)
(* can make a release wrong: relief until it is disarmed, raw debug        *)
(* overrides, and a reset.                                                 *)
(***************************************************************************)
EXTENDS ControlHistory

\* Stage A closes and releases, stage B opens and releases, as on the vehicle.
Servo ==
  [kind |-> "Servo", power |-> None, signal |-> 0, closedUs |-> 2000, openUs |-> 1000,
   travelMs |-> 2, stallMa |-> 0, stallMs |-> 0, settleMs |-> 2,
   min |-> 0, max |-> PromilleMax, hasSensor |-> FALSE,
   fallbackA |-> [position |-> 0, unpower |-> TRUE],
   fallbackB |-> [position |-> PromilleMax, unpower |-> TRUE]]

NoHeating == [enabled |-> FALSE, outputs |-> {}, hasSensor |-> FALSE, setpoint |-> 0, hysteresis |-> 0]
Relief0 == [enabled |-> TRUE, valve |-> 0, threshold |-> 5, position |-> 1,
            pulseMs |-> 1, cooldownMs |-> 1]

MCBoot ==
  [fallbackEnabled |-> TRUE, fallbackAMs |-> 3, fallbackBMs |-> 6,
   valves |-> [v \in Valve |-> Servo], heating |-> [v \in Valve |-> NoHeating],
   relief |-> Relief0]

\* Relief disarmed, and with it a clamp crossed, which resets the board.
MCDisarmed == [MCBoot EXCEPT !.relief.enabled = FALSE]
MCCrossed == [MCDisarmed EXCEPT !.valves[0].max = 0, !.valves[0].min = 1]

MCConfigs == {MCDisarmed, MCCrossed}
MCCommands == {Driven(PromilleMax)}
MCDirectStates == {Digital(TRUE)}
MCReadings == {0, 9}
MCHeatReadings == {SensorInvalid}
MCPositions == {SensorInvalid}
MCRailCurrents == {None}
=============================================================================
