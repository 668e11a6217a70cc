--------------------------------- MODULE Frames ---------------------------------
(***************************************************************************)
(* The frames of process data: how the fields of each kind share the eight  *)
(* bytes, and the identifier a kind is sent on (iocan-proto/src/tpdo.rs,    *)
(* ids.rs).  Every layout is little-endian with the low nibble of a byte    *)
(* first, so that a frame is sixteen nibbles, the fields one after another. *)
(***************************************************************************)
EXTENDS Integers, Sequences, SequencesExt

TpdoKinds ==
  << "ValveCommanded", "ValveTarget", "ValveMeasured", "ValveStatus", "HcoState", "RawBus0A",
     "RawBus0B", "RawBus1A", "RawBus1B", "Sensor0", "Sensor1", "Sensor3", "SensorUnits",
     "I2cScan", "RailVoltage", "RailCurrent", "Status", "ValveCurrent", "Temperature",
     "ErrorSummary" >>

\* A field by its nibbles; only an i16 has a sign.
Wire(nibbles, signed) == [nibbles |-> nibbles, signed |-> signed]
Word == Wire(4, FALSE)
SignedWord == Wire(4, TRUE)
Byte == Wire(2, FALSE)
Nibble == Wire(1, FALSE)
Fields(count, field) == [i \in 1 .. count |-> field]

\* The fourth byte of Status is padding, and so is whatever follows the last field.
Layout(kind) ==
  CASE kind \in {"Sensor0", "Sensor1", "Sensor3"} -> Fields(4, SignedWord)
    [] kind = "Temperature" -> Fields(2, SignedWord)
    [] kind \in {"I2cScan", "RailVoltage", "RailCurrent"} -> Fields(3, Word)
    [] kind = "ValveStatus" -> Fields(8, Nibble) \o << Byte >>
    [] kind = "SensorUnits" -> Fields(12, Nibble)
    [] kind = "Status" -> << Byte, Byte, Byte, Byte, Wire(8, FALSE) >>
    [] OTHER -> Fields(4, Word)

Kinds == Range(TpdoKinds)
Layouts == [kind \in Kinds |-> Layout(kind)]

\* The first nibble of every field, and the field of every nibble, 0 for padding.
Start(layout) ==
  LET start[i \in DOMAIN layout] == IF i = 1 THEN 1 ELSE start[i - 1] + layout[i - 1].nibbles
  IN  start
Starts == [kind \in Kinds |-> Start(Layouts[kind])]
Covers(kind, i, j) == j \in Starts[kind][i] .. Starts[kind][i] + Layouts[kind][i].nibbles - 1
FieldAt ==
  [kind \in Kinds |-> [j \in 1 .. 16 |->
     IF \E i \in DOMAIN Layouts[kind] : Covers(kind, i, j)
     THEN CHOOSE i \in DOMAIN Layouts[kind] : Covers(kind, i, j) ELSE 0]]

\* What a nibble of a field counts for, the lowest first.
Weight == << 1, 16, 256, 4096, 65536, 1048576, 16777216, 268435456 >>

Unsigned(value) == IF value < 0 THEN value + 65536 ELSE value

EncodeFrame(kind, values) ==
  LET nibble(i, j) ==
        IF i = 0 THEN 0 ELSE (Unsigned(values[i]) \div Weight[j - Starts[kind][i] + 1]) % 16
  IN  [j \in 1 .. 16 |-> nibble(FieldAt[kind][j], j)]

Number(frame, start, nibbles) ==
  LET part(n) == IF n < nibbles THEN Weight[n + 1] * frame[start + n] ELSE 0
  IN  part(0) + part(1) + part(2) + part(3) + part(4) + part(5) + part(6) + part(7)

DecodeFrame(kind, frame) ==
  LET signed(field, n) == IF field.signed /\ n > 32767 THEN n - 65536 ELSE n
  IN  [i \in DOMAIN Layouts[kind] |->
         signed(Layouts[kind][i], Number(frame, Starts[kind][i], Layouts[kind][i].nibbles))]

\* Four entries of a longer array, with a fill where it ends.
Window(source, offset, count, fill) ==
  [i \in 1 .. count |-> IF offset + i <= Len(source) THEN source[offset + i] ELSE fill]

\* An output of HcoState in one word: no pulse is as short as 0 or as long as 0x8000.
HcoWord(output) ==
  IF output.pulse # 0 THEN output.pulse ELSE IF output.digital THEN 32768 ELSE 0
HcoOutput(word) ==
  [digital |-> word = 32768, pulse |-> IF word \in {0, 32768} THEN 0 ELSE word]
-----------------------------------------------------------------------------
PdoBase == 512
CobId(kind, node) == PdoBase + 16 * kind + (node % 16)
DecodePdo(id) ==
  IF id \in PdoBase .. PdoBase + 511 THEN << <<id % 16, (id - PdoBase) \div 16>> >> ELSE << >>
-----------------------------------------------------------------------------
(* Decoding is the inverse of encoding, "the contract this module exists to *)
(* keep" (tpdo.rs:7), with words at both ends of their range and fields that *)
(* tell the positions apart; an identifier names one node and one kind.     *)
Sample(kind, shift) ==
  [i \in DOMAIN Layout(kind) |->
     LET field == Layout(kind)[i]
     IN  IF field.nibbles = 1 THEN (i + shift) % 16
         ELSE IF field.nibbles = 2 THEN (50 * i + shift) % 256
         ELSE IF field.signed THEN <<-32768, -1, 0, 32767>>[((i + shift) % 4) + 1]
         ELSE <<65535, 0, 32768, 255>>[((i + shift) % 4) + 1]]

Outputs ==
  {[digital |-> d, pulse |-> 0] : d \in BOOLEAN} \cup {[digital |-> FALSE, pulse |-> p] : p \in 500 .. 2500}

ASSUME RoundTrip ==
  /\ \A output \in Outputs : HcoOutput(HcoWord(output)) = output
  /\ \A k \in DOMAIN TpdoKinds :
      LET kind == TpdoKinds[k]
      IN  /\ \A shift \in 0 .. 3 :
               DecodeFrame(kind, EncodeFrame(kind, Sample(kind, shift))) = Sample(kind, shift)
          /\ \A node \in 0 .. 15 : DecodePdo(CobId(k - 1, node)) = << <<node, k - 1>> >>
=============================================================================
