------------------------------ MODULE Calibration ------------------------------
(***************************************************************************)
(* From a raw device number to the value a sensor slot reports             *)
(* (src/src/sensors/mod.rs, src/src/config/sensors.rs): the linearisation   *)
(* of each kind, the affine trim, the wrapping zero of an encoder and the   *)
(* saturation to the wire's 16 bits.  The numbers are the code's own.       *)
(* Coefficients are taken below 10^9 in magnitude, where TLC's 32-bit       *)
(* integers hold every intermediate the code keeps in an i64.               *)
(***************************************************************************)
EXTENDS Integers, Sequences

SensorKind == {"None", "Pressure", "Pt1000", "Mcp9700", "Angle", "Ntc", "NtcToSupply", "BoardNtc"}
Unit == {"CentiBar", "DeciBar", "CentiCelsius", "RawCounts", "Promille"}

SensorInvalid == -32768        \* i16::MIN, no valid reading
RawInvalid == 65535            \* u16::MAX, no raw number
EncoderFullScale == 4096
AdcFullScale == 4095

Ntcs == {"Ntc", "NtcToSupply", "BoardNtc"}
Thermometers == Ntcs \cup {"Pt1000", "Mcp9700"}
IsOnI2c(kind) == kind \notin Ntcs \cup {"None"}

NaturalUnit(kind) ==
  IF kind \in Thermometers THEN "CentiCelsius"
  ELSE IF kind = "Angle" THEN "Promille" ELSE "CentiBar"

Quantity(unit) ==
  CASE unit \in {"CentiBar", "DeciBar"} -> "Pressure"
    [] unit = "CentiCelsius" -> "Temperature"
    [] unit = "RawCounts" -> "Raw"
    [] unit = "Promille" -> "Ratio"

\* Counts of a unit per thousandth, as a divisor.
PerMilli(unit) ==
  CASE unit = "DeciBar" -> 100
    [] unit \in {"CentiBar", "CentiCelsius"} -> 10
    [] unit \in {"Promille", "RawCounts"} -> 1
-----------------------------------------------------------------------------
(* Integer arithmetic as Rust does it: division truncates toward zero.      *)
Magnitude(n) == IF n < 0 THEN -n ELSE n
Signed(n, magnitude) == IF n < 0 THEN -magnitude ELSE magnitude
Truncated(n, d) == Signed(n, Signed(d, Magnitude(n) \div Magnitude(d)))

\* n * 10^zeros / d, long division one decimal digit at a time.
Scaled(n, zeros, d) ==
  LET step[k \in 0 .. zeros] ==
        IF k = 0 THEN [q |-> Magnitude(n) \div d, r |-> Magnitude(n) % d]
        ELSE LET p == step[k - 1]
             IN  [q |-> 10 * p.q + (10 * p.r) \div d, r |-> (10 * p.r) % d]
  IN  Signed(n, step[zeros].q)

(***************************************************************************)
(* x * slope / 10^9, multiplied out in limbs of three decimal digits.  A    *)
(* quotient of 10^9 or more saturates whatever follows, and is cut there.   *)
(***************************************************************************)
NanoCut == 1000000000
Limbs(m) == << (m % 1000), (m \div 1000) % 1000, (m \div 1000000) % 1000, (m \div 1000000000) % 1000 >>

\* The products of two numbers' limbs that weigh 1000^k.
Column(a, b, k) ==
  LET term(i) == IF k - i \in 0 .. 3 THEN a[i + 1] * b[k - i + 1] ELSE 0
  IN  term(0) + term(1) + term(2) + term(3)

MagnitudeNano(a, b) ==
  LET c2 == Column(a, b, 2) + (Column(a, b, 1) + Column(a, b, 0) \div 1000) \div 1000
      c3 == Column(a, b, 3) + c2 \div 1000
      c4 == Column(a, b, 4) + c3 \div 1000
      c5 == Column(a, b, 5) + c4 \div 1000
      c6 == Column(a, b, 6) + c5 \div 1000
  IN  IF c6 > 0 THEN NanoCut ELSE (c3 % 1000) + 1000 * (c4 % 1000) + 1000000 * c5

TimesNano(x, slope) ==
  Signed(x, Signed(slope, MagnitudeNano(Limbs(Magnitude(x)), Limbs(Magnitude(slope)))))
-----------------------------------------------------------------------------
(* The transfer functions that belong to the board or to the part.          *)

\* (33 raw - 16896) through the bridge, with the common factor of the code's
\* numerator and denominator divided out.
Pt1000MilliCelsius(raw) ==
  LET n == 33 * (IF raw < 1023 THEN raw ELSE 1023) - 16896
  IN  Scaled(8 * n, 7, 77 * (361236 - 2 * n))

\* ADC counts every 5 degrees from -40 to 125 degrees Celsius.
NtcCurve ==
  << 3996, 3955, 3900, 3830, 3740, 3629, 3495, 3337, 3156, 2955, 2738, 2510,
     2278, 2048, 1825, 1614, 1419, 1241, 1081, 940, 815, 707, 613, 532,
     462, 401, 350, 305, 267, 234, 206, 181, 160, 142 >>

BoardNtcCurve ==
  << 4008, 3978, 3940, 3893, 3834, 3764, 3680, 3581, 3468, 3341, 3200, 3047,
     2883, 2712, 2536, 2358, 2181, 2007, 1840, 1680, 1529, 1388, 1258, 1138,
     1029, 929, 839, 758, 685, 619, 560, 508, 460, 418 >>

CurvePointMilliC(i) == 5000 * (i - 1) - 40000

\* The temperature in millidegrees, as a set that is empty off either end.
Interpolate(curve, counts) ==
  IF counts > curve[1] \/ counts < curve[Len(curve)] THEN {}
  ELSE LET i == CHOOSE i \in 1 .. Len(curve) - 1 :
                  curve[i + 1] <= counts /\ \A j \in 1 .. i - 1 : curve[j + 1] > counts
       IN  {CurvePointMilliC(i) + (5000 * (curve[i] - counts)) \div (curve[i] - curve[i + 1])}

McuMilliC(senseUv) == 25000 + Truncated((1430000 - senseUv) * 10, 43)

\* Thousandths of the quantity the kind is linear in; empty for no reading.
Linearise(kind, raw) ==
  CASE kind = "None" -> {}
    [] kind \in {"Pressure", "Mcp9700", "Angle"} -> {raw * 1000}
    [] kind = "Pt1000" -> {Pt1000MilliCelsius(raw)}
    [] kind = "Ntc" -> Interpolate(NtcCurve, raw)
    [] kind = "NtcToSupply" ->
         Interpolate(NtcCurve, IF raw < AdcFullScale THEN AdcFullScale - raw ELSE 0)
    [] kind = "BoardNtc" -> Interpolate(BoardNtcCurve, raw)
-----------------------------------------------------------------------------
(***************************************************************************)
(* SensorCalib and its constructors, offset and constant in thousandths,    *)
(* the slope in billionths.                                                 *)
(***************************************************************************)
SensorCalib == [offset : Int, slope : Int, constant : Int]
Zero == [offset |-> 0, slope |-> 0, constant |-> 0]
Unity == [offset |-> 0, slope |-> 1000000000, constant |-> 0]

FromPerCount(offset, slope) == [offset |-> offset, slope |-> slope, constant |-> 1000]
WithConstant(calib, constant) == [calib EXCEPT !.constant = constant]
Mcp9700 == WithConstant(FromPerCount(155151, 322265632), 0)

\* The valve's travel of span counts maps onto 1000 promille; negative spans
\* open against the angle.  Half a span is added before the division.
AngleOver(zero, span) ==
  LET s == IF span = 0 THEN 1 ELSE span
  IN  [offset |-> zero * 1000, constant |-> 0,
       slope |-> Truncated(1000000000 + Magnitude(s) \div 2, s)]

DefaultCalib(kind) ==
  IF kind \in Ntcs \cup {"Pt1000"} THEN Unity
  ELSE IF kind = "Mcp9700" THEN Mcp9700 ELSE Zero

IsCalibrated(calib) == calib.slope # 0

Apply(calib, linear) == TimesNano(linear - calib.offset, calib.slope) + calib.constant

\* Mutant: the zero is taken in the upward half of the turn for every valve.
ApplyWrappedUpward(calib, linear) ==
  Apply([calib EXCEPT !.offset = 0], (linear - calib.offset) % (EncoderFullScale * 1000))

\* The zero modulo a turn, in the half the sign of the slope says.
ApplyWrapped(calib, linear) ==
  LET turn == EncoderFullScale * 1000
      zeroed == IF calib.slope < 0 THEN -((calib.offset - linear) % turn)
                ELSE (linear - calib.offset) % turn
  IN  Apply([calib EXCEPT !.offset = 0], zeroed)

Saturate(v) == IF v < -32767 THEN -32767 ELSE IF v > 32767 THEN 32767 ELSE v
-----------------------------------------------------------------------------
(***************************************************************************)
(* calibrate: raw is RawInvalid when the slot's device has no reading.      *)
(***************************************************************************)
Calibrate(slot, raw) ==
  IF raw = RawInvalid \/ slot.kind = "None" THEN SensorInvalid
  ELSE IF slot.unit = "RawCounts" THEN Saturate(raw)
  ELSE IF Linearise(slot.kind, raw) = {} \/ ~IsCalibrated(slot.calib) THEN SensorInvalid
  ELSE LET linear == CHOOSE l \in Linearise(slot.kind, raw) : TRUE
           milli == IF slot.kind = "Angle" THEN ApplyWrapped(slot.calib, linear)
                    ELSE Apply(slot.calib, linear)
       IN  Saturate(Truncated(milli, PerMilli(slot.unit)))
-----------------------------------------------------------------------------
\* What a slot of this kind reports with its defaults, for a raw number.
ByDefault(kind, raw) ==
  Calibrate([kind |-> kind, unit |-> NaturalUnit(kind), calib |-> DefaultCalib(kind)], raw)

\* An encoder that has moved d counts from its zero toward the open stop.
EncoderAt(zero, span, d) ==
  Calibrate([kind |-> "Angle", unit |-> "Promille", calib |-> AngleOver(zero, span)],
            (zero + Signed(span, d)) % EncoderFullScale)

SpansChecked == {1, 300, 1023, 1024, 2047, -300, -1024, -2047}
ZerosChecked == {0, 100, 2048, 4000}

ThermistorFaithful(kind) ==
  LET curve == IF kind = "Ntc" THEN NtcCurve ELSE BoardNtcCurve
      reads == [raw \in 0 .. AdcFullScale |-> ByDefault(kind, raw)]
  IN  /\ \A i \in 1 .. Len(curve) : reads[curve[i]] = CurvePointMilliC(i) \div 10
      /\ \A raw \in 0 .. AdcFullScale :
           reads[raw] = SensorInvalid <=> raw \notin curve[Len(curve)] .. curve[1]
      /\ \A raw \in curve[Len(curve)] .. curve[1] - 1 : reads[raw] >= reads[raw + 1]
      /\ kind = "Ntc" => \A raw \in 0 .. AdcFullScale :
                           ByDefault("NtcToSupply", AdcFullScale - raw) = reads[raw]

DieSensorFaithful == \A step \in 0 .. 30 : McuMilliC(1430000 + 43 * step) = 25000 - 10 * step

Pt1000Faithful ==
  /\ \A raw \in 0 .. 1022 : Pt1000MilliCelsius(raw) < Pt1000MilliCelsius(raw + 1)
  /\ \A raw \in 0 .. 1023 : /\ -12000 <= ByDefault("Pt1000", raw)
                            /\ ByDefault("Pt1000", raw) <= 14000

EncoderFaithful(zero, span) ==
  \A d \in {0, 1, 150, 1022, 1024, 2047} :
    d <= Magnitude(span) =>
      EncoderAt(zero, span, d) \in
        LET ideal == (1000 * d) \div Magnitude(span) IN ideal - 1 .. ideal

PressureAlwaysRead ==
  \A raw \in {0, 1023, 4095}, slope \in {-1000000000, 999999999}, constant \in {-90000000, 90000000} :
    Calibrate([kind |-> "Pressure", unit |-> "CentiBar",
               calib |-> [offset |-> 0, slope |-> slope, constant |-> constant]], raw) # SensorInvalid

(***************************************************************************)
(* The pipeline agrees with what each device measures, over every raw       *)
(* number (sensors/mod.rs:86-90, 216-240, 341-369; config/sensors.rs):      *)
(*  - a thermistor reads inside -40 .. 125 degrees or nothing, never a      *)
(*    plausible temperature for an open or a shorted one; warmer is fewer   *)
(*    counts; and the swapped divider reads the mirrored curve;             *)
(*  - a Pt1000 rises strictly and stays inside the wire's range, and the die  *)
(*    sensor falls 4.3 mV a degree;                                         *)
(*  - an encoder is within a promille of its share of the travel, wherever  *)
(*    its zero sits on the turn and whichever way its valve opens;          *)
(*  - no raw number and no coefficient leaves the range that keeps          *)
(*    SENSOR_INVALID for "no reading".                                      *)
(***************************************************************************)
PipelineFaithful ==
  /\ \A kind \in {"Ntc", "BoardNtc"} : ThermistorFaithful(kind)
  /\ DieSensorFaithful /\ Pt1000Faithful
  /\ \A span \in SpansChecked, zero \in ZerosChecked : EncoderFaithful(zero, span)
  /\ PressureAlwaysRead
=============================================================================
