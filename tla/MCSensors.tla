------------------------------- MODULE MCSensors -------------------------------
(***************************************************************************)
(* One bus with one amplifier and one encoder.  Slot 0 starts as a pressure *)
(* transducer on the amplifier, slot 1 as the encoder of a valve that opens *)
(* against the angle and across the wrap; both may claim the only channel.  *)
(***************************************************************************)
EXTENDS Sensors

MCPressure ==
  [kind |-> "Pressure", bus |-> 0, amplifier |-> 0, analog |-> "Com5Pin1", unit |-> "CentiBar",
   calib |-> WithConstant(FromPerCount(100000, 100000000), 0), pdo |-> 0]
MCEncoder ==
  [kind |-> "Angle", bus |-> 0, amplifier |-> 0, analog |-> "Com5Pin1", unit |-> "Promille",
   calib |-> AngleOver(500, -1024), pdo |-> None]

MCBoot == [s \in Slot |-> IF s = 0 THEN MCPressure ELSE MCEncoder]
\* The transducer in the form its bench calibration is recorded in, at its offset.
MCPlainBoot ==
  [MCBoot EXCEPT ![0].calib = FromPerCount(200000, 100000000)]
MCKinds == {"Ntc"}
MCUnits == {"RawCounts"}
MCCoefficients == {0}
MCAmplifierWords == {800}                         \* 200 counts
MCAngleWords == {<<32, 4090>>, <<48, 4090>>}      \* magnet usable, too weak
MCAnalogCounts == {2048}
MCAnalogInput == {"Com5Pin1", "Board"}
=============================================================================
