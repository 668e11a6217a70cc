------------------------------- MODULE MCTickParts ------------------------------
(***************************************************************************)
(* Three parts of a control tick that share no state once what the rest of  *)
(* the firmware may do to each is an action of its own: the relief loop,    *)
(* the direct writes and the telemetry.  TLC explores each with the others  *)
(* as they boot.                                                            *)
(***************************************************************************)
EXTENDS ReliefLoop, MCDirectWrites, Telemetry

\* A loop that is armed, disarmed or retimed, under readings below, at and
\* above the threshold and a sensor that drops out.
Armed == [enabled |-> TRUE, valve |-> 0, threshold |-> 5, position |-> 1,
          pulseMs |-> 2, cooldownMs |-> 3]
MCReliefConfigs == {Armed, [Armed EXCEPT !.enabled = FALSE],
                    [Armed EXCEPT !.valve = None], [Armed EXCEPT !.pulseMs = 1]}
MCReadings == {SensorInvalid, 5, 6}

\* A tick of 2 units, a summary window of 5, measurement windows of 4; an
\* iteration keeps its deadline or stalls for longer than a report can state.
MCTracked == {"CpuLoadHigh", "SensorMissingAtBoot"}
MCSources == {"SensorMissingAtBoot", "SdoWriteRejected"}
MCBatches == {0, 2}
MCWaits == {2}
MCWorks == {0, 7}

VARIABLE explored     \* the part that is explored

MCInit ==
  /\ Init /\ DirectInit /\ TelemetryInit
  /\ explored \in {"relief", "direct", "telemetry"}
  /\ explored # "relief" => cfg = Armed
  /\ explored # "direct" => mapping = [v \in Valve |-> [mapped |-> TRUE, outputs |-> {0}]]

MCNext ==
  \/ /\ explored = "relief" /\ Next
     /\ UNCHANGED <<directVars, telemetryVars, explored>>
  \/ /\ explored = "direct" /\ DirectNext
     /\ UNCHANGED <<vars, telemetryVars, explored>>
  \/ /\ explored = "telemetry" /\ TelemetryNext
     /\ UNCHANGED <<vars, directVars, explored>>

MCSpec == MCInit /\ [][MCNext]_<<vars, directVars, telemetryVars, explored>>
=============================================================================
