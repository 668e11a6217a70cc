------------------------------ MODULE MCDictionary ------------------------------
(***************************************************************************)
(* Two boards: the vehicle's node 4, with relief and a heating pad, and one  *)
(* of the bench that uses what the vehicle does not: a servo on a reversed   *)
(* pair of outputs that follows its encoder, the other thermometers and a    *)
(* slot off the bus.  There are as many valves, slots and channels as the    *)
(* vehicle's boards occupy; the outputs are all four.                        *)
(***************************************************************************)
EXTENDS Dictionary, Vehicle

BenchNode ==
  LET valve == WithValve(NewConfig, 1, Following(ExtN2, 0))
      encoder == WithSensor(valve, 0, Encoder(1, 512, -1024))
      thermometers == WithSensor(WithSensor(encoder, 1, FromKind("Mcp9700", 1, 3)), 2, NtcWired("Ntc", 0))
  IN  WithHeating(WithQuietSensor(thermometers, 3, NtcWired("Ntc", 1)), 0, {2}, 3, 3000)

MCFactories == {NODE4, BenchNode}

\* Legal numbers and the first illegal one, of what the sanity check looks at;
\* one legal number and a boundary of the rest.
MCSamples(object) ==
  LET field == object.field
  IN  CASE field.form = "code" -> 0 .. Len(field.codes)
        [] field.form = "output" -> 0 .. NumHco + 1
        [] object.name = "SENSOR_BUS" -> {1, 2, 255}
        [] field.form = "optional" -> {1, 3, 255}
        [] field.form = "outputs" -> {0, 4, 6}
        [] field.form = "flag" -> {0, 2}
        [] field.form = "signed" -> {40000}
        [] object.name = "SENSOR_ANALOG_INPUT" -> {4, 5}
        [] object.name = "RELIEF_SENSOR" -> {0, 1, 3}
        [] object.name = "FALLBACK_B_MS" -> {6000}
        [] object.name \in {"VALVE_MIN_PROMILLE", "VALVE_MAX_PROMILLE"} -> {400, 1001}
        [] OTHER -> {7}

MCReadings ==
  {[s \in SensorSlot |-> SensorInvalid], [s \in SensorSlot |-> 100 + s]}
=============================================================================
