---------------------------- MODULE Dictionary_proofs ----------------------------
(***************************************************************************)
(* The configuration as a master sees it, for any number of valves, slots  *)
(* and channels that the frames have room for, any well-formed factory     *)
(* defaults and any sequence of writes, publications, restores and boots.  *)
(***************************************************************************)
EXTENDS Dictionary, TLAPS, WellFoundedInduction, FiniteSetTheorems

(***************************************************************************)
(* The table of objects.                                                   *)
(***************************************************************************)
LEMMA RangeConcat ==
  ASSUME NEW S, NEW s \in Seq(S), NEW t \in Seq(S)
  PROVE  s \o t \in Seq(S) /\ Range(s \o t) = Range(s) \cup Range(t)
<1>1. s \o t \in Seq(S) /\ DOMAIN (s \o t) = 1 .. Len(s) + Len(t)
  OBVIOUS
<1>2. \A i \in DOMAIN (s \o t) : (s \o t)[i] \in Range(s) \cup Range(t)
  <2> SUFFICES ASSUME NEW i \in 1 .. Len(s) + Len(t) PROVE (s \o t)[i] \in Range(s) \cup Range(t)
    BY <1>1
  <2>1. CASE i <= Len(s)
    BY <2>1 DEF Range
  <2>2. CASE i > Len(s)
    <3>1. i - Len(s) \in 1 .. Len(t) /\ (s \o t)[i] = t[i - Len(s)]
      BY <2>2
    <3> QED BY <3>1 DEF Range
  <2> QED BY <2>1, <2>2
<1>3. \A i \in DOMAIN s : i \in DOMAIN (s \o t) /\ (s \o t)[i] = s[i]
  BY <1>1
<1>4. \A i \in DOMAIN t : i + Len(s) \in DOMAIN (s \o t) /\ (s \o t)[i + Len(s)] = t[i]
  BY <1>1
<1>5. Range(s) \subseteq Range(s \o t) /\ Range(t) \subseteq Range(s \o t)
  <2> HIDE DEF Range
  <2>1. ASSUME NEW i \in DOMAIN s PROVE s[i] \in Range(s \o t)
    BY <1>3 DEF Range
  <2>2. ASSUME NEW i \in DOMAIN t PROVE t[i] \in Range(s \o t)
    BY <1>4 DEF Range
  <2> QED BY <2>1, <2>2 DEF Range
<1>6. Range(s \o t) \subseteq Range(s) \cup Range(t)
  BY <1>2 DEF Range
<1> QED BY <1>1, <1>5, <1>6

LEMMA ConfigRange ==
  Range(ConfigObjects) =
    Range(HeartbeatObjects) \cup Range(FallbackObjects) \cup Range(ValveObjects)
      \cup Range(SensorObjects) \cup Range(IntervalObjects) \cup Range(ReliefObjects)
      \cup Range(HeatingObjects)
<1> DEFINE All ==
      Range(HeartbeatObjects) \cup Range(FallbackObjects) \cup Range(ValveObjects)
        \cup Range(SensorObjects) \cup Range(IntervalObjects) \cup Range(ReliefObjects)
        \cup Range(HeatingObjects)
<1>1. ASSUME NEW S, NEW s \in Seq(S), NEW T, S \subseteq T PROVE s \in Seq(T)
  BY <1>1
<1>2. HeartbeatObjects \in Seq(All) /\ FallbackObjects \in Seq(All)
  <2>1. HeartbeatObjects \in Seq(Range(HeartbeatObjects))
    BY DEF HeartbeatObjects, Range
  <2>2. FallbackObjects \in Seq(Range(FallbackObjects))
    BY DEF FallbackObjects, Range
  <2> QED BY <1>1, <2>1, <2>2
<1>3. ValveObjects \in Seq(All) /\ SensorObjects \in Seq(All)
  <2>1. ValveObjects \in Seq(Range(ValveObjects))
    BY DEF ValveObjects, Range
  <2>2. SensorObjects \in Seq(Range(SensorObjects))
    BY DEF SensorObjects, Range
  <2> QED BY <1>1, <2>1, <2>2
<1>4. IntervalObjects \in Seq(All) /\ ReliefObjects \in Seq(All) /\ HeatingObjects \in Seq(All)
  <2>1. IntervalObjects \in Seq(Range(IntervalObjects))
    BY DEF IntervalObjects, Range
  <2>2. ReliefObjects \in Seq(Range(ReliefObjects))
    BY DEF ReliefObjects, Range
  <2>3. HeatingObjects \in Seq(Range(HeatingObjects))
    BY DEF HeatingObjects, Range
  <2> QED BY <1>1, <2>1, <2>2, <2>3
<1> HIDE DEF All
<1>5. PICK a : a = HeartbeatObjects \o FallbackObjects
  OBVIOUS
<1>6. PICK b : b = a \o ValveObjects
  OBVIOUS
<1>7. PICK c : c = b \o SensorObjects
  OBVIOUS
<1>8. PICK d : d = c \o IntervalObjects
  OBVIOUS
<1>9. PICK e : e = d \o ReliefObjects
  OBVIOUS
<1>10. a \in Seq(All) /\ Range(a) = Range(HeartbeatObjects) \cup Range(FallbackObjects)
  BY <1>2, <1>5, RangeConcat
<1>11. b \in Seq(All) /\ Range(b) = Range(a) \cup Range(ValveObjects)
  BY <1>3, <1>6, <1>10, RangeConcat
<1>12. c \in Seq(All) /\ Range(c) = Range(b) \cup Range(SensorObjects)
  BY <1>3, <1>7, <1>11, RangeConcat
<1>13. d \in Seq(All) /\ Range(d) = Range(c) \cup Range(IntervalObjects)
  BY <1>4, <1>8, <1>12, RangeConcat
<1>14. e \in Seq(All) /\ Range(e) = Range(d) \cup Range(ReliefObjects)
  BY <1>4, <1>9, <1>13, RangeConcat
<1>15. Range(e \o HeatingObjects) = Range(e) \cup Range(HeatingObjects)
  BY <1>4, <1>14, RangeConcat
<1>16. ConfigObjects = e \o HeatingObjects
  BY <1>5, <1>6, <1>7, <1>8, <1>9 DEF ConfigObjects
<1> QED BY <1>10, <1>11, <1>12, <1>13, <1>14, <1>15, <1>16

\* No two objects share a name.
LEMMA NamesDiffer ==
  ASSUME NEW o \in Range(ConfigObjects), NEW p \in Range(ConfigObjects), o.name = p.name
  PROVE  o = p
<1>1. \A q, r \in Range(HeartbeatObjects) \cup Range(FallbackObjects) : q.name = r.name => q = r
  BY DEF HeartbeatObjects, FallbackObjects, Range, Object
<1>2. \A q, r \in Range(ValveObjects) : q.name = r.name => q = r
  BY DEF ValveObjects, Range, Object
<1>3. \A q, r \in Range(SensorObjects) : q.name = r.name => q = r
  BY DEF SensorObjects, Range, Object
<1>4. \A q, r \in Range(IntervalObjects) \cup Range(ReliefObjects) : q.name = r.name => q = r
  BY DEF IntervalObjects, ReliefObjects, Range, Object
<1>5. \A q, r \in Range(HeatingObjects) : q.name = r.name => q = r
  BY DEF HeatingObjects, Range, Object
<1>6. \A q \in Range(ValveObjects), r \in Range(HeartbeatObjects) \cup Range(FallbackObjects) :
        q.name # r.name
  BY DEF HeartbeatObjects, FallbackObjects, ValveObjects, Range, Object
<1>7. \A q \in Range(ValveObjects), r \in Range(SensorObjects) : q.name # r.name
  BY DEF ValveObjects, SensorObjects, Range, Object
<1>8. \A q \in Range(ValveObjects),
         r \in Range(IntervalObjects) \cup Range(ReliefObjects) \cup Range(HeatingObjects) :
        q.name # r.name
  BY DEF ValveObjects, IntervalObjects, ReliefObjects, HeatingObjects, Range, Object
<1>9. \A q \in Range(SensorObjects), r \in Range(HeartbeatObjects) \cup Range(FallbackObjects) :
        q.name # r.name
  BY DEF HeartbeatObjects, FallbackObjects, SensorObjects, Range, Object
<1>10. \A q \in Range(SensorObjects),
          r \in Range(IntervalObjects) \cup Range(ReliefObjects) \cup Range(HeatingObjects) :
         q.name # r.name
  BY DEF SensorObjects, IntervalObjects, ReliefObjects, HeatingObjects, Range, Object
<1>11. \A q \in Range(IntervalObjects) \cup Range(ReliefObjects),
          r \in Range(HeartbeatObjects) \cup Range(FallbackObjects) : q.name # r.name
  BY DEF HeartbeatObjects, FallbackObjects, IntervalObjects, ReliefObjects, Range, Object
<1>12. \A q \in Range(HeatingObjects),
          r \in Range(HeartbeatObjects) \cup Range(FallbackObjects) : q.name # r.name
  BY DEF HeartbeatObjects, FallbackObjects, HeatingObjects, Range, Object
<1>13. \A q \in Range(HeatingObjects),
          r \in Range(IntervalObjects) \cup Range(ReliefObjects) : q.name # r.name
  BY DEF IntervalObjects, ReliefObjects, HeatingObjects, Range, Object
<1> QED BY <1>1, <1>2, <1>3, <1>4, <1>5, <1>6, <1>7, <1>8, <1>9, <1>10, <1>11, <1>12, <1>13,
           ConfigRange
-----------------------------------------------------------------------------
(***************************************************************************)
(* The fields, and that each of them survives the way over the wire.       *)
(***************************************************************************)
AllFields ==
  {Flag, U16, I16, Wide, Nonzero, PromilleField, NodeId, OutputNumber, OutputMask,
   Index(NumAmplifiers), Index(NumAnalogInputs), Index(NumSlots),
   OptionalIndex(NumSlots), OptionalIndex(NumBuses), OptionalIndex(NumChannels),
   OptionalIndex(NumValves), Code(ValveKindCodes), Code(UnitCodes), Code(KindCodes)}

LEMMA ObjectShape ==
  ASSUME NEW o \in Range(ConfigObjects)
  PROVE  o.count \in Nat /\ o.field \in AllFields /\ o = Object(o.name, o.count, o.field)
<1> USE ObjectsAssumption
<1>1. \A q \in Range(HeartbeatObjects) \cup Range(FallbackObjects) :
        q.count \in Nat /\ q.field \in AllFields /\ q = Object(q.name, q.count, q.field)
  BY DEF HeartbeatObjects, FallbackObjects, Range, Object, AllFields
<1>2. \A q \in Range(ValveObjects) :
        q.count \in Nat /\ q.field \in AllFields /\ q = Object(q.name, q.count, q.field)
  BY DEF ValveObjects, Range, Object, AllFields
<1>3. \A q \in Range(SensorObjects) :
        q.count \in Nat /\ q.field \in AllFields /\ q = Object(q.name, q.count, q.field)
  BY DEF SensorObjects, Range, Object, AllFields
<1>4. \A q \in Range(IntervalObjects) \cup Range(ReliefObjects) \cup Range(HeatingObjects) :
        q.count \in Nat /\ q.field \in AllFields /\ q = Object(q.name, q.count, q.field)
  BY DEF IntervalObjects, ReliefObjects, HeatingObjects, Range, Object, AllFields
<1> QED BY <1>1, <1>2, <1>3, <1>4, ConfigRange

LEMMA InInterval ==
  ASSUME NEW a \in Int, NEW b \in Int
  PROVE  \A x : x \in a .. b <=> x \in Int /\ a <= x /\ x <= b
OBVIOUS

LEMMA ShortBounds ==
  /\ I16Min \in Int /\ I16Min <= -32768 /\ -32768 <= I16Min
  /\ I16Max \in Int /\ I16Max <= 32767 /\ 32767 <= I16Max
BY DEF I16Min, I16Max

\* What a conversion makes of the numbers of its field.
LEMMA FieldShape ==
  ASSUME NEW field \in AllFields
  PROVE  /\ field.form \in {"number", "flag", "signed", "output", "optional", "outputs", "code"}
         /\ field.form = "flag" => 0 \in field.legal /\ 1 \in field.legal
         /\ field.form = "signed" => field.legal = 0 .. U16Max
         /\ field.form = "output" => field.legal = 0 .. NumHco
         /\ field.form = "optional" => \E n \in Nat : field.legal = (0 .. n - 1) \cup {255}
         /\ field.form = "outputs" => field.legal = 0 .. 2^NumHco - 1
         /\ field.form = "code" =>
              \E n \in Nat : field.legal = 0 .. n - 1 /\ DOMAIN field.codes = 1 .. n
<1>1. ASSUME NEW bytes, NEW legal, NEW form, field = Field(bytes, legal, form)
      PROVE  field.legal = legal /\ field.form = form
  BY <1>1 DEF Field
<1>2. CASE field \in {U16, Wide, Nonzero, PromilleField, NodeId}
  <2>1. field.form = "number"
    BY <1>1, <1>2 DEF U16, Wide, Nonzero, PromilleField, NodeId
  <2> QED BY <2>1
<1>3. CASE field = Flag
  <2>1. field.legal = 0 .. U8Max /\ field.form = "flag"
    BY <1>1, <1>3 DEF Flag
  <2> QED BY <2>1 DEF U8Max
<1>4. CASE field = I16
  <2>1. field.legal = 0 .. U16Max /\ field.form = "signed"
    BY <1>1, <1>4 DEF I16
  <2> QED BY <2>1
<1>5. CASE field = OutputNumber
  <2>1. field.legal = 0 .. NumHco /\ field.form = "output"
    BY <1>1, <1>5, Zenon DEF OutputNumber
  <2> QED BY <2>1
<1>6. CASE field = OutputMask
  <2>1. field.form = "outputs" /\ field.legal = 0 .. 2^NumHco - 1
    BY <1>1, <1>6, Zenon DEF OutputMask
  <2> QED BY <2>1
<1>7. CASE field \in {Index(NumAmplifiers), Index(NumAnalogInputs), Index(NumSlots)}
  <2>1. field.form = "number"
    BY <1>1, <1>7, Zenon DEF Index
  <2> QED BY <2>1
<1>8. CASE field \in {OptionalIndex(NumSlots), OptionalIndex(NumBuses),
                      OptionalIndex(NumChannels), OptionalIndex(NumValves)}
  <2>1. PICK n \in Nat : field = OptionalIndex(n)
    BY <1>8, ObjectsAssumption DEF NumBuses
  <2>2. field.form = "optional" /\ field.legal = (0 .. n - 1) \cup {255}
    BY <1>1, <2>1 DEF OptionalIndex
  <2> QED BY <2>2
<1>9. CASE field \in {Code(ValveKindCodes), Code(UnitCodes), Code(KindCodes)}
  <2>1. Len(ValveKindCodes) = 3 /\ DOMAIN ValveKindCodes = 1 .. 3
    BY DEF ValveKindCodes
  <2>2. Len(UnitCodes) = 5 /\ DOMAIN UnitCodes = 1 .. 5
    BY DEF UnitCodes
  <2>3. Len(KindCodes) = 8 /\ DOMAIN KindCodes = 1 .. 8
    BY DEF KindCodes
  <2>4. \E codes : field = Code(codes) /\ \E n \in Nat : Len(codes) = n /\ DOMAIN codes = 1 .. n
    <3> HIDE DEF ValveKindCodes, UnitCodes, KindCodes
    <3>1. CASE field = Code(ValveKindCodes)
      BY <2>1, <3>1
    <3>2. CASE field = Code(UnitCodes)
      BY <2>2, <3>2
    <3>3. CASE field = Code(KindCodes)
      BY <2>3, <3>3
    <3> QED BY <1>9, <3>1, <3>2, <3>3
  <2>5. PICK codes : field = Code(codes) /\ \E n \in Nat : Len(codes) = n /\ DOMAIN codes = 1 .. n
    BY <2>4
  <2>6. field.form = "code" /\ field.legal = 0 .. Len(codes) - 1 /\ field.codes = codes
    BY <2>5 DEF Field, Code
  <2> QED BY <2>5, <2>6
<1>10. \/ field \in {U16, Wide, Nonzero, PromilleField, NodeId} \/ field = Flag \/ field = I16
       \/ field = OutputNumber \/ field = OutputMask
       \/ field \in {Index(NumAmplifiers), Index(NumAnalogInputs), Index(NumSlots)}
       \/ field \in {OptionalIndex(NumSlots), OptionalIndex(NumBuses),
                     OptionalIndex(NumChannels), OptionalIndex(NumValves)}
       \/ field \in {Code(ValveKindCodes), Code(UnitCodes), Code(KindCodes)}
  BY DEF AllFields
<1> QED BY <1>2, <1>3, <1>4, <1>5, <1>6, <1>7, <1>8, <1>9, <1>10

\* Every value that is kept is sent as a number that a write accepts, and that
\* number is taken for the same value again.
LEMMA FieldRoundTrip ==
  ASSUME NEW field \in AllFields, NEW value \in Storable(field)
  PROVE  /\ Encode(field, value) \in field.legal
         /\ Decode(field, Encode(field, value)) = value
<1> USE ObjectsAssumption
<1> HIDE DEF AllFields
<1>1. CASE field.form = "number"
  BY <1>1 DEF Storable, Encode, Decode
<1>2. CASE field.form = "flag"
  <2>1. value \in BOOLEAN /\ 0 \in field.legal /\ 1 \in field.legal
    BY <1>2, FieldShape DEF Storable
  <2>2. Encode(field, value) = IF value THEN 1 ELSE 0
    BY <1>2 DEF Encode
  <2>3. Decode(field, Encode(field, value)) = (Encode(field, value) # 0)
    BY <1>2 DEF Decode
  <2>4. CASE value
    <3>1. Encode(field, value) = 1 /\ value = TRUE
      BY <2>1, <2>2, <2>4, Zenon
    <3>2. Encode(field, value) # 0
      BY <3>1
    <3>3. Decode(field, Encode(field, value)) = TRUE
      BY <2>3, <3>2, Zenon
    <3> QED BY <2>1, <3>1, <3>3
  <2>5. CASE ~value
    <3>1. Encode(field, value) = 0 /\ value = FALSE
      BY <2>1, <2>2, <2>5, Zenon
    <3>2. Decode(field, Encode(field, value)) = FALSE
      BY <2>3, <3>1
    <3> QED BY <2>1, <3>1, <3>2
  <2> QED BY <2>4, <2>5
<1>3. CASE field.form = "signed"
  <2>1. value \in Int /\ -32768 <= value /\ value <= 32767
    <3>1. value \in I16Min .. I16Max
      BY <1>3 DEF Storable
    <3> QED BY <3>1, ShortBounds
  <2>2. Encode(field, value) = (value % 65536)
    BY <1>3 DEF Encode
  <2>3. (value % 65536) = IF value < 0 THEN value + 65536 ELSE value
    BY <2>1
  <2>4. field.legal = 0 .. U16Max
    BY <1>3, FieldShape
  <2>5. Encode(field, value) \in field.legal
    <3>1. U16Max \in Int /\ 65535 <= U16Max /\ U16Max <= 65535
      BY DEF U16Max
    <3> QED BY <2>1, <2>2, <2>3, <2>4, <3>1
  <2>6. Decode(field, Encode(field, value)) =
          IF Encode(field, value) > 32767 THEN Encode(field, value) - 65536 ELSE Encode(field, value)
    BY <1>3 DEF Decode
  <2>7. Decode(field, Encode(field, value)) = value
    BY <2>1, <2>2, <2>3, <2>6
  <2> QED BY <2>5, <2>7
<1>4. CASE field.form = "output"
  <2>1. value \in HcoId \cup {None} /\ field.legal = 0 .. NumHco
    BY <1>4, FieldShape DEF Storable
  <2>2. Encode(field, value) = IF value = None THEN 0 ELSE value + 1
    BY <1>4 DEF Encode
  <2>3. Decode(field, Encode(field, value)) =
          IF Encode(field, value) = 0 THEN None ELSE Encode(field, value) - 1
    BY <1>4 DEF Decode
  <2> QED BY <2>1, <2>2, <2>3 DEF HcoId, None
<1>5. CASE field.form = "optional"
  <2>1. value \in (field.legal \ {255}) \cup {None}
    BY <1>5 DEF Storable
  <2>2. 255 \in field.legal
    BY <1>5, FieldShape
  <2>3. Encode(field, value) = IF value = None THEN 255 ELSE value
    BY <1>5 DEF Encode
  <2>4. Decode(field, Encode(field, value)) =
          IF Encode(field, value) = 255 THEN None ELSE Encode(field, value)
    BY <1>5 DEF Decode
  <2> QED BY <2>1, <2>2, <2>3, <2>4
<1>6. CASE field.form = "outputs"
  <2>1. field.legal = 0 .. 2^NumHco - 1
    BY <1>6, FieldShape
  <2>2. PICK mask \in 0 .. 2^NumHco - 1 : Bits(mask) = value
    BY <1>6, <2>1 DEF Storable
  <2>3. value \in SUBSET HcoId
    BY <2>2 DEF Bits
  <2>4. Mask[value] \in 0 .. 2^NumHco - 1 /\ Bits(Mask[value]) = value
    <3>1. Mask[value] = CHOOSE m \in 0 .. 2^NumHco - 1 : Bits(m) = value
      BY <2>3 DEF Mask
    <3> HIDE DEF Bits
    <3> QED BY <2>2, <3>1
  <2>5. Encode(field, value) = Mask[value]
    BY <1>6 DEF Encode
  <2>6. Decode(field, Encode(field, value)) = Bits(Encode(field, value))
    BY <1>6 DEF Decode
  <2> QED BY <2>1, <2>4, <2>5, <2>6
<1>7. CASE field.form = "code"
  <2>1. PICK n \in Nat : field.legal = 0 .. n - 1 /\ DOMAIN field.codes = 1 .. n
    BY <1>7, FieldShape
  <2>2. PICK i \in 1 .. n : field.codes[i] = value
    BY <1>7, <2>1 DEF Storable, Range
  <2>3. PICK k : k = CHOOSE j \in 1 .. Len(field.codes) : field.codes[j] = value
    OBVIOUS
  <2>4. Len(field.codes) = n
    <3>1. field.codes \in Seq(Range(field.codes))
      <4>1. \E cs : field = Code(cs) /\ cs \in Seq(Range(cs))
        <5>1. ValveKindCodes \in Seq(Range(ValveKindCodes))
          BY DEF ValveKindCodes, Range
        <5>2. UnitCodes \in Seq(Range(UnitCodes))
          BY DEF UnitCodes, Range
        <5>3. KindCodes \in Seq(Range(KindCodes))
          BY DEF KindCodes, Range
        <5>4. field \in {Code(ValveKindCodes), Code(UnitCodes), Code(KindCodes)}
          BY <1>7 DEF AllFields, Field, Flag, U16, I16, Wide, Nonzero, PromilleField, NodeId,
                      OutputNumber, OutputMask, Index, OptionalIndex
        <5> QED BY <5>1, <5>2, <5>3, <5>4
      <4> QED BY <4>1 DEF Code, Field
    <3> QED BY <2>1, <3>1
  <2>5. k \in 1 .. n /\ field.codes[k] = value
    BY <2>2, <2>3, <2>4
  <2>6. Encode(field, value) = k - 1
    BY <1>7, <2>3 DEF Encode
  <2>7. Decode(field, Encode(field, value)) = field.codes[Encode(field, value) + 1]
    BY <1>7 DEF Decode
  <2> QED BY <2>1, <2>5, <2>6, <2>7
<1> QED BY <1>1, <1>2, <1>3, <1>4, <1>5, <1>6, <1>7, FieldShape

\* What a write stores can be kept.
LEMMA DecodeStorable ==
  ASSUME NEW field \in AllFields, NEW wire \in field.legal
  PROVE  Decode(field, wire) \in Storable(field)
<1> USE ObjectsAssumption
<1> HIDE DEF AllFields
<1>1. CASE field.form = "number"
  BY <1>1 DEF Storable, Decode
<1>2. CASE field.form = "flag"
  BY <1>2 DEF Storable, Decode
<1>3. CASE field.form = "signed"
  <2>1. field.legal = 0 .. U16Max
    BY <1>3, FieldShape
  <2>2. wire \in Int /\ 0 <= wire /\ wire <= 65535
    <3>1. U16Max \in Int /\ 65535 <= U16Max /\ U16Max <= 65535
      BY DEF U16Max
    <3> QED BY <2>1, <3>1
  <2>3. Decode(field, wire) = IF wire > 32767 THEN wire - 65536 ELSE wire
    BY <1>3 DEF Decode
  <2>4. Decode(field, wire) \in Int /\ -32768 <= Decode(field, wire) /\ Decode(field, wire) <= 32767
    BY <2>2, <2>3
  <2>5. Storable(field) = I16Min .. I16Max
    BY <1>3 DEF Storable
  <2> QED BY <2>4, <2>5, ShortBounds, InInterval
<1>4. CASE field.form = "output"
  <2>1. Storable(field) = HcoId \cup {None} /\ field.legal = 0 .. NumHco
    BY <1>4, FieldShape DEF Storable
  <2>2. Decode(field, wire) = IF wire = 0 THEN None ELSE wire - 1
    BY <1>4 DEF Decode
  <2> QED BY <2>1, <2>2 DEF HcoId, None
<1>5. CASE field.form = "optional"
  BY <1>5 DEF Storable, Decode
<1>6. CASE field.form = "outputs"
  BY <1>6 DEF Storable, Decode
<1>7. CASE field.form = "code"
  <2>1. PICK n \in Nat : field.legal = 0 .. n - 1 /\ DOMAIN field.codes = 1 .. n
    BY <1>7, FieldShape
  <2>2. wire + 1 \in DOMAIN field.codes
    BY <2>1
  <2> QED BY <1>7, <2>2 DEF Storable, Decode, Range
<1> QED BY <1>1, <1>2, <1>3, <1>4, <1>5, <1>6, <1>7, FieldShape
-----------------------------------------------------------------------------
(***************************************************************************)
(* Well-formed configurations, and writes to them.                         *)
(***************************************************************************)
LEMMA NamesOfObjects ==
  /\ \A o \in Range(ConfigObjects) : o.name \in Names
  /\ \A name \in Names : \E o \in Range(ConfigObjects) : o.name = name
BY DEF Names, Range

LEMMA WellFormedByObject ==
  ASSUME NEW c
  PROVE  WellFormed(c) <=>
           /\ c = [name \in Names |-> c[name]]
           /\ \A o \in Range(ConfigObjects) : c[o.name] \in [Ids(o) -> Storable(o.field)]
<1> DEFINE Fits(o) == c[o.name] \in [Ids(o) -> Storable(o.field)]
<1>1. WellFormed(c) <=> /\ c = [name \in Names |-> c[name]]
                        /\ \A i \in DOMAIN ConfigObjects : Fits(ConfigObjects[i])
  BY DEF WellFormed
<1> HIDE DEF Fits
<1>2. (\A i \in DOMAIN ConfigObjects : Fits(ConfigObjects[i])) <=> \A o \in Range(ConfigObjects) : Fits(o)
  BY DEF Range
<1> QED BY <1>1, <1>2 DEF Fits

\* The elements of an object in a well-formed configuration.
LEMMA ElementStorable ==
  ASSUME NEW c, WellFormed(c), NEW o \in Range(ConfigObjects)
  PROVE  /\ DOMAIN c[o.name] = Ids(o)
         /\ c[o.name] = [id \in Ids(o) |-> c[o.name][id]]
         /\ \A id \in Ids(o) : c[o.name][id] \in Storable(o.field)
BY WellFormedByObject

SetAt(c, name, id, value) == [c EXCEPT ![name][id] = value]

LEMMA SetElement ==
  ASSUME NEW c, WellFormed(c), NEW o \in Range(ConfigObjects), NEW id \in Ids(o),
         NEW value \in Storable(o.field)
  PROVE  LET d == SetAt(c, o.name, id, value)
         IN  /\ WellFormed(d)
             /\ d[o.name] = [c[o.name] EXCEPT ![id] = value]
             /\ \A name \in Names : name # o.name => d[name] = c[name]
<1> DEFINE d == SetAt(c, o.name, id, value)
<1>1. c = [name \in Names |-> c[name]] /\ DOMAIN c = Names /\ o.name \in Names
  BY WellFormedByObject, NamesOfObjects
<1>2. d = [name \in Names |-> IF name = o.name THEN [c[name] EXCEPT ![id] = value] ELSE c[name]]
  BY <1>1 DEF SetAt
<1> HIDE DEF d
<1>3. d[o.name] = [c[o.name] EXCEPT ![id] = value]
  BY <1>1, <1>2
<1>4. \A name \in Names : name # o.name => d[name] = c[name]
  BY <1>2
<1>5. d = [name \in Names |-> d[name]]
  BY <1>2
<1>6. ASSUME NEW p \in Range(ConfigObjects)
      PROVE  d[p.name] \in [Ids(p) -> Storable(p.field)]
  <2>1. c[p.name] \in [Ids(p) -> Storable(p.field)]
    BY WellFormedByObject
  <2>2. CASE p.name = o.name
    <3>1. p = o
      BY <2>2, NamesDiffer
    <3> QED BY <1>3, <2>1, <3>1
  <2>3. CASE p.name # o.name
    <3>1. d[p.name] = c[p.name]
      BY <1>4, <2>3, NamesOfObjects
    <3> QED BY <2>1, <3>1
  <2> QED BY <2>2, <2>3
<1>7. WellFormed(d)
  BY <1>5, <1>6, WellFormedByObject
<1> QED BY <1>3, <1>4, <1>7 DEF d

\* Writing an element as it is changes nothing.
LEMMA SetSame ==
  ASSUME NEW c, WellFormed(c), NEW o \in Range(ConfigObjects), NEW id \in Ids(o)
  PROVE  [c EXCEPT ![o.name][id] = c[o.name][id]] = c
<1>1. c = [name \in Names |-> c[name]] /\ DOMAIN c = Names /\ o.name \in Names
  BY WellFormedByObject, NamesOfObjects
<1>2. c[o.name] = [k \in Ids(o) |-> c[o.name][k]]
  BY ElementStorable
<1>3. [c[o.name] EXCEPT ![id] = c[o.name][id]] = c[o.name]
  BY <1>2
<1>4. [c EXCEPT ![o.name] = [c[o.name] EXCEPT ![id] = c[o.name][id]]] = c
  BY <1>1, <1>3
<1> QED BY <1>4

LEMMA SensorObjectsNamed ==
  /\ Object("SENSOR_KIND", NumSlots, Code(KindCodes)) \in Range(ConfigObjects)
  /\ Object("SENSOR_OFFSET", NumSlots, Wide) \in Range(ConfigObjects)
  /\ Object("SENSOR_SLOPE", NumSlots, Wide) \in Range(ConfigObjects)
  /\ Object("SENSOR_CONSTANT", NumSlots, Wide) \in Range(ConfigObjects)
  /\ Object("SENSOR_UNIT_CFG", NumSlots, Code(UnitCodes)) \in Range(ConfigObjects)
<1>1. /\ Object("SENSOR_KIND", NumSlots, Code(KindCodes)) \in Range(SensorObjects)
      /\ Object("SENSOR_OFFSET", NumSlots, Wide) \in Range(SensorObjects)
      /\ Object("SENSOR_SLOPE", NumSlots, Wide) \in Range(SensorObjects)
      /\ Object("SENSOR_CONSTANT", NumSlots, Wide) \in Range(SensorObjects)
      /\ Object("SENSOR_UNIT_CFG", NumSlots, Code(UnitCodes)) \in Range(SensorObjects)
  BY DEF SensorObjects, Range
<1> QED BY <1>1, ConfigRange

LEMMA Codes ==
  ASSUME NEW codes
  PROVE  Storable(Code(codes)) = Range(codes)
<1>1. Code(codes).form = "code" /\ Code(codes).codes = codes
  BY DEF Code, Field
<1> QED BY <1>1 DEF Storable

LEMMA WideStorable == Storable(Wide) = Int
<1>1. Wide.form = "number" /\ Wide.legal = Int
  BY DEF Wide, Field
<1> QED BY <1>1 DEF Storable

\* What a write of a kind brings along can be kept.
LEMMA SeedStorable ==
  ASSUME NEW kind
  PROVE  /\ DefaultCalib(kind).offset \in Int /\ DefaultCalib(kind).slope \in Int
         /\ DefaultCalib(kind).constant \in Int
         /\ NaturalUnit(kind) \in Range(UnitCodes)
<1>1. /\ DefaultCalib(kind).offset \in Int /\ DefaultCalib(kind).slope \in Int
      /\ DefaultCalib(kind).constant \in Int
  <2>1. Unity.offset \in Int /\ Unity.slope \in Int /\ Unity.constant \in Int
    BY SMT DEF Unity
  <2>2. Mcp9700.offset \in Int /\ Mcp9700.slope \in Int /\ Mcp9700.constant \in Int
    BY SMT DEF Mcp9700, WithConstant, FromPerCount
  <2>3. Zero.offset \in Int /\ Zero.slope \in Int /\ Zero.constant \in Int
    BY SMT DEF Zero
  <2>4. DefaultCalib(kind) \in {Unity, Mcp9700, Zero}
    BY DEF DefaultCalib
  <2> QED BY <2>1, <2>2, <2>3, <2>4
<1>2. NaturalUnit(kind) \in Range(UnitCodes)
  BY DEF NaturalUnit, UnitCodes, Range
<1> QED BY <1>1, <1>2

\* A write of a kind reaches five elements of its slot and no others.
SeedNames == {"SENSOR_OFFSET", "SENSOR_SLOPE", "SENSOR_CONSTANT", "SENSOR_UNIT_CFG"}
Touched(o) == {o.name} \cup IF o.name = "SENSOR_KIND" THEN SeedNames ELSE {}
Kept(c, d, names) == \A name \in Names : name \notin names => d[name] = c[name]

LEMMA KindReaches ==
  ASSUME NEW c, WellFormed(c), NEW s \in SensorSlot, NEW kind \in Range(KindCodes),
         NEW d, d = OfKind(c, s, kind)
  PROVE  /\ WellFormed(d)
         /\ d["SENSOR_KIND"] = [c["SENSOR_KIND"] EXCEPT ![s] = kind]
         /\ Kept(c, d, {"SENSOR_KIND"} \cup SeedNames)
<1> DEFINE Offset == DefaultCalib(kind).offset
           Slope == DefaultCalib(kind).slope
           Constant == DefaultCalib(kind).constant
           Natural == NaturalUnit(kind)
<1>1. Offset \in Int /\ Slope \in Int /\ Constant \in Int /\ Natural \in Range(UnitCodes)
  BY SeedStorable
<1> HIDE DEF Offset, Slope, Constant, Natural
<1>2. ASSUME NEW e, WellFormed(e), NEW name, NEW field, NEW value \in Storable(field),
             Object(name, NumSlots, field) \in Range(ConfigObjects),
             NEW f, f = SetAt(e, name, s, value)
      PROVE  /\ WellFormed(f)
             /\ f[name] = [e[name] EXCEPT ![s] = value]
             /\ \A m \in Names : m # name => f[m] = e[m]
  <2>1. PICK o \in Range(ConfigObjects) : o = Object(name, NumSlots, field)
    BY <1>2
  <2>2. o.name = name /\ o.field = field /\ s \in Ids(o)
    BY <2>1, ObjectsAssumption DEF Object, Ids, Elements, SensorSlot
  <2>3. f = SetAt(e, o.name, s, value)
    BY <1>2, <2>2
  <2> QED BY <1>2, <2>2, <2>3, SetElement
<1>3. PICK c1 : c1 = SetAt(c, "SENSOR_KIND", s, kind)
  OBVIOUS
<1>4. PICK c2 : c2 = SetAt(c1, "SENSOR_OFFSET", s, Offset)
  OBVIOUS
<1>5. PICK c3 : c3 = SetAt(c2, "SENSOR_SLOPE", s, Slope)
  OBVIOUS
<1>6. PICK c4 : c4 = SetAt(c3, "SENSOR_CONSTANT", s, Constant)
  OBVIOUS
<1>7. PICK c5 : c5 = SetAt(c4, "SENSOR_UNIT_CFG", s, Natural)
  OBVIOUS
<1>8. d = c5
  BY <1>3, <1>4, <1>5, <1>6, <1>7 DEF OfKind, SetAt, Offset, Slope, Constant, Natural
<1>9. /\ WellFormed(c1) /\ c1["SENSOR_KIND"] = [c["SENSOR_KIND"] EXCEPT ![s] = kind]
      /\ \A m \in Names : m # "SENSOR_KIND" => c1[m] = c[m]
  <2>1. kind \in Storable(Code(KindCodes))
    BY Codes
  <2> QED BY <1>2, <1>3, <2>1, SensorObjectsNamed
<1>10. /\ WellFormed(c2) /\ c2["SENSOR_OFFSET"] = [c1["SENSOR_OFFSET"] EXCEPT ![s] = Offset]
       /\ \A m \in Names : m # "SENSOR_OFFSET" => c2[m] = c1[m]
  BY <1>1, <1>2, <1>4, <1>9, SensorObjectsNamed, WideStorable
<1>11. /\ WellFormed(c3) /\ c3["SENSOR_SLOPE"] = [c2["SENSOR_SLOPE"] EXCEPT ![s] = Slope]
       /\ \A m \in Names : m # "SENSOR_SLOPE" => c3[m] = c2[m]
  BY <1>1, <1>2, <1>5, <1>10, SensorObjectsNamed, WideStorable
<1>12. /\ WellFormed(c4) /\ c4["SENSOR_CONSTANT"] = [c3["SENSOR_CONSTANT"] EXCEPT ![s] = Constant]
       /\ \A m \in Names : m # "SENSOR_CONSTANT" => c4[m] = c3[m]
  BY <1>1, <1>2, <1>6, <1>11, SensorObjectsNamed, WideStorable, SMTT(30)
<1>13. /\ WellFormed(c5) /\ c5["SENSOR_UNIT_CFG"] = [c4["SENSOR_UNIT_CFG"] EXCEPT ![s] = Natural]
       /\ \A m \in Names : m # "SENSOR_UNIT_CFG" => c5[m] = c4[m]
  <2>1. Natural \in Storable(Code(UnitCodes))
    BY <1>1, Codes
  <2> QED BY <1>2, <1>7, <1>12, <2>1, SensorObjectsNamed
<1>14. {"SENSOR_KIND", "SENSOR_OFFSET", "SENSOR_SLOPE", "SENSOR_CONSTANT", "SENSOR_UNIT_CFG"}
         \subseteq Names
  BY SensorObjectsNamed, NamesOfObjects DEF Object
<1>15. d["SENSOR_KIND"] = [c["SENSOR_KIND"] EXCEPT ![s] = kind]
  BY <1>8, <1>9, <1>10, <1>11, <1>12, <1>13, <1>14
<1>16. \A name \in Names : name \notin {"SENSOR_KIND"} \cup SeedNames => d[name] = c[name]
  BY <1>8, <1>9, <1>10, <1>11, <1>12, <1>13 DEF SeedNames
<1>17. Kept(c, d, {"SENSOR_KIND"} \cup SeedNames)
  BY <1>16 DEF Kept
<1> QED BY <1>8, <1>13, <1>15, <1>17

\* A write keeps a configuration well formed.
LEMMA StoredWellFormed ==
  ASSUME NEW c, WellFormed(c), NEW o \in Range(ConfigObjects), NEW id \in Ids(o),
         NEW wire \in o.field.legal
  PROVE  WellFormed(Stored(c, o, id, wire))
<1>1. PICK value : value = Decode(o.field, wire)
  OBVIOUS
<1>2. value \in Storable(o.field)
  BY <1>1, ObjectShape, DecodeStorable
<1>3. CASE o.name = "SENSOR_KIND"
  <2>1. o = Object("SENSOR_KIND", NumSlots, Code(KindCodes))
    BY <1>3, NamesDiffer, SensorObjectsNamed DEF Object
  <2>2. id \in SensorSlot /\ value \in Range(KindCodes)
    BY <1>2, <2>1, Codes, ObjectsAssumption DEF Object, Ids, Elements, SensorSlot
  <2>3. Stored(c, o, id, wire) = KindWritten(c, id, value)
    BY <1>1, <1>3 DEF Stored
  <2>4. WellFormed(OfKind(c, id, value))
    BY <2>2, KindReaches, Zenon
  <2> QED BY <2>3, <2>4 DEF KindWritten
<1>4. CASE o.name # "SENSOR_KIND"
  <2>1. Stored(c, o, id, wire) = [c EXCEPT ![o.name][id] = value]
    BY <1>1, <1>4 DEF Stored
  <2>2. WellFormed(SetAt(c, o.name, id, value))
    BY <1>2, SetElement
  <2> QED BY <2>1, <2>2 DEF SetAt
<1> QED BY <1>3, <1>4

\* What is read of an element is accepted, and stored it changes nothing.
LEMMA Restated ==
  ASSUME NEW c, WellFormed(c), NEW o \in Range(ConfigObjects), NEW id \in Ids(o)
  PROVE  /\ ReadBack(c, o, id) \in o.field.legal
         /\ Decode(o.field, ReadBack(c, o, id)) = c[o.name][id]
         /\ Stored(c, o, id, ReadBack(c, o, id)) = c
<1>1. o.field \in AllFields /\ c[o.name][id] \in Storable(o.field)
  BY ObjectShape, ElementStorable
<1>2. PICK wire : wire = ReadBack(c, o, id)
  OBVIOUS
<1>3. wire \in o.field.legal /\ Decode(o.field, wire) = c[o.name][id]
  BY <1>1, <1>2, FieldRoundTrip DEF ReadBack
<1>4. Stored(c, o, id, wire) = c
  <2>1. CASE o.name = "SENSOR_KIND"
    BY <1>3, <2>1 DEF Stored, KindWritten
  <2>2. CASE o.name # "SENSOR_KIND"
    <3>1. Stored(c, o, id, wire) = [c EXCEPT ![o.name][id] = c[o.name][id]]
      BY <1>3, <2>2 DEF Stored
    <3> QED BY <3>1, SetSame
  <2> QED BY <2>1, <2>2
<1> QED BY <1>2, <1>3, <1>4
-----------------------------------------------------------------------------
(***************************************************************************)
(* What holds in every state: the configuration is well formed, whatever    *)
(* was written, and the views are those of the configuration and readings. *)
(***************************************************************************)
WellTyped ==
  /\ defaults \in Factories
  /\ WellFormed(config)
  /\ reading \in [SensorSlot -> I16Min .. I16Max]

InStep ==
  /\ owner = Ownership(config)
  /\ unit = Units(config)
  /\ channel = Channels(config, reading)

DInv == WellTyped /\ InStep

LEMMA AddressedIds ==
  ASSUME NEW o \in Range(ConfigObjects), NEW sub \in Int
  PROVE  /\ Addressed(o, sub) \subseteq Ids(o)
         /\ sub - 1 \in Ids(o) => Addressed(o, sub) # {}
<1>1. o.count \in Nat
  BY ObjectShape
<1>2. CASE o.count = 0
  <2>1. Ids(o) = {0}
    BY <1>2 DEF Ids, Elements
  <2>2. Addressed(o, sub) = {0 : s \in {sub} \cap {0, 1}}
    BY <1>2 DEF Addressed
  <2>3. Addressed(o, sub) \subseteq {0}
    BY <2>2, Zenon
  <2>4. ASSUME sub - 1 \in Ids(o) PROVE Addressed(o, sub) # {}
    <3>1. sub \in {sub} \cap {0, 1}
      <4>1. sub - 1 = 0
        BY <2>1, <2>4
      <4>2. sub = 1
        BY <4>1
      <4> QED BY <4>2
    <3> QED BY <2>2, <3>1, Zenon
  <2> QED BY <2>1, <2>3, <2>4
<1>3. CASE o.count # 0
  <2>1. Addressed(o, sub) = {sub - 1} \cap Ids(o)
    BY <1>3 DEF Addressed
  <2> QED BY <2>1
<1> QED BY <1>2, <1>3

LEMMA NothingRead == [s \in SensorSlot |-> SensorInvalid] \in [SensorSlot -> I16Min .. I16Max]
<1>1. SensorInvalid \in I16Min .. I16Max
  BY ShortBounds, InInterval DEF SensorInvalid
<1> QED BY <1>1

LEMMA DInvInit == Init => DInv
BY NothingRead, DictionaryAssumption DEF Init, DInv, WellTyped, InStep

LEMMA DInvNext == DInv /\ [Next]_vars => DInv'
<1> SUFFICES ASSUME DInv, [Next]_vars PROVE DInv'
  OBVIOUS
<1> USE DEF DInv
<1>1. ASSUME NEW i \in DOMAIN ConfigObjects, NEW sub \in 0 .. ConfigObjects[i].count + 1,
             NEW value, NEW bytes,
             Write(ConfigObjects[i], sub, [bytes |-> bytes, value |-> value])
      PROVE  DInv'
  <2>1. PICK o \in Range(ConfigObjects) : o = ConfigObjects[i]
    BY DEF Range
  <2>2. PICK data : data = [bytes |-> bytes, value |-> value]
    OBVIOUS
  <2>3. sub \in Int
    BY <2>1, ObjectShape
  <2>4. PICK id \in Addressed(o, sub) : config' = Stored(config, o, id, data.value)
    BY <1>1, <2>1, <2>2 DEF Write
  <2>5. id \in Ids(o) /\ data.value \in o.field.legal
    BY <1>1, <2>1, <2>2, <2>3, <2>4, AddressedIds DEF Write, Accepts
  <2>6. WellFormed(config)'
    BY <2>4, <2>5, StoredWellFormed DEF WellTyped
  <2>7. defaults' = defaults /\ reading' = reading /\ RefreshDerived(config')
    BY <1>1 DEF Write
  <2> QED BY <2>6, <2>7 DEF WellTyped, InStep, RefreshDerived
<1>2. CASE SdoWrite
  BY <1>1, <1>2 DEF SdoWrite
<1>3. ASSUME NEW values \in Readings, Publish(values)
      PROVE  DInv'
  BY <1>3, DictionaryAssumption DEF Publish, WellTyped, InStep
<1>4. CASE Restore
  BY <1>4, DictionaryAssumption DEF Restore, RefreshDerived, WellTyped, InStep
<1>5. CASE Boot
  BY <1>5, NothingRead, DictionaryAssumption DEF Boot, WellTyped, InStep
<1>6. CASE UNCHANGED vars
  BY <1>6 DEF vars, views, WellTyped, InStep
<1> QED BY <1>2, <1>3, <1>4, <1>5, <1>6 DEF Next

LEMMA DInvariant == Spec => []DInv
BY DInvInit, DInvNext, PTL DEF Spec

(***************************************************************************)
(* Whatever a master wrote before, the restores and resets in between       *)
(* included, any element of the configuration can be written back as it is  *)
(* read, and changes nothing.                                               *)
(***************************************************************************)
THEOREM RestatesHarmlessly == Spec => []RestatingIsHarmless
<1>1. DInv => RestatingIsHarmless
  <2> SUFFICES ASSUME DInv, NEW i \in DOMAIN ConfigObjects, NEW id \in Ids(ConfigObjects[i])
      PROVE  LET object == ConfigObjects[i]
                 data == [bytes |-> object.field.bytes, value |-> ReadBack(config, object, id)]
             IN  Accepts(object, id + 1, data) /\ Stored(config, object, id, data.value) = config
    BY DEF RestatingIsHarmless
  <2>1. PICK o \in Range(ConfigObjects) : o = ConfigObjects[i]
    BY DEF Range
  <2>2. PICK wire : wire = ReadBack(config, o, id)
    OBVIOUS
  <2>3. wire \in o.field.legal /\ Stored(config, o, id, wire) = config
    BY <2>1, <2>2, Restated DEF DInv, WellTyped
  <2>4. Addressed(o, id + 1) # {}
    <3>1. id \in Int /\ id + 1 \in Int /\ (id + 1) - 1 = id
      BY DEF Ids
    <3> QED BY <2>1, <3>1, AddressedIds
  <2>5. PICK data : data = [bytes |-> o.field.bytes, value |-> wire]
    OBVIOUS
  <2>6. data.bytes = o.field.bytes /\ data.value = wire
    BY <2>5
  <2>7. Accepts(o, id + 1, data) /\ Stored(config, o, id, data.value) = config
    BY <2>3, <2>4, <2>6 DEF Accepts
  <2> QED BY <2>1, <2>2, <2>5, <2>7
<1> QED BY <1>1, DInvariant, PTL
-----------------------------------------------------------------------------
(***************************************************************************)
(* What the sanity check of a well-formed configuration is worth.          *)
(***************************************************************************)
LEMMA SafetyObjects ==
  /\ Object("VALVE_POWER_HCO", NumValves, OutputNumber) \in Range(ConfigObjects)
  /\ Object("VALVE_SIGNAL_HCO", NumValves, OutputNumber) \in Range(ConfigObjects)
  /\ Object("VALVE_POSITION_SENSOR", NumValves, OptionalIndex(NumSlots)) \in Range(ConfigObjects)
  /\ Object("VALVE_HEATING_SENSOR", NumValves, OptionalIndex(NumSlots)) \in Range(ConfigObjects)
  /\ Object("SENSOR_PDO_CHANNEL", NumSlots, OptionalIndex(NumChannels)) \in Range(ConfigObjects)
  /\ Object("RELIEF_SENSOR", 0, Index(NumSlots)) \in Range(ConfigObjects)
<1>1. /\ Object("VALVE_POWER_HCO", NumValves, OutputNumber) \in Range(ValveObjects)
      /\ Object("VALVE_SIGNAL_HCO", NumValves, OutputNumber) \in Range(ValveObjects)
      /\ Object("VALVE_POSITION_SENSOR", NumValves, OptionalIndex(NumSlots)) \in Range(ValveObjects)
  BY DEF ValveObjects, Range
<1>2. Object("VALVE_HEATING_SENSOR", NumValves, OptionalIndex(NumSlots)) \in Range(HeatingObjects)
  BY DEF HeatingObjects, Range
<1>3. Object("SENSOR_PDO_CHANNEL", NumSlots, OptionalIndex(NumChannels)) \in Range(SensorObjects)
  BY DEF SensorObjects, Range
<1>4. Object("RELIEF_SENSOR", 0, Index(NumSlots)) \in Range(ReliefObjects)
  BY DEF ReliefObjects, Range
<1> QED BY <1>1, <1>2, <1>3, <1>4, ConfigRange

LEMMA OptionalStorable ==
  ASSUME NEW n
  PROVE  Storable(OptionalIndex(n)) \subseteq (0 .. n - 1) \cup {None}
<1>1. OptionalIndex(n).form = "optional" /\ OptionalIndex(n).legal = (0 .. n - 1) \cup {255}
  BY DEF OptionalIndex, Field
<1> QED BY <1>1 DEF Storable

\* The values the rest of the node goes by.
LEMMA ConfigTyped ==
  ASSUME NEW c, WellFormed(c)
  PROVE  /\ \A v \in ValveId :
              /\ c["VALVE_POWER_HCO"][v] \in HcoId \cup {None}
              /\ c["VALVE_SIGNAL_HCO"][v] \in HcoId \cup {None}
              /\ c["VALVE_POSITION_SENSOR"][v] \in SensorSlot \cup {None}
              /\ c["VALVE_HEATING_SENSOR"][v] \in SensorSlot \cup {None}
         /\ \A s \in SensorSlot :
              /\ c["SENSOR_PDO_CHANNEL"][s] \in PdoSensorChannel \cup {None}
              /\ c["SENSOR_UNIT_CFG"][s] \in Range(UnitCodes)
         /\ c["RELIEF_SENSOR"][0] \in SensorSlot
<1>1. ASSUME NEW name, NEW n \in Nat \ {0}, NEW field, NEW id \in 0 .. n - 1,
             Object(name, n, field) \in Range(ConfigObjects)
      PROVE  c[name][id] \in Storable(field)
  <2>1. PICK o \in Range(ConfigObjects) : o = Object(name, n, field)
    BY <1>1
  <2>2. o.name = name /\ o.field = field /\ Ids(o) = 0 .. n - 1
    BY <2>1 DEF Object, Ids, Elements
  <2> QED BY <2>2, ElementStorable
<1>2. Storable(OutputNumber) = HcoId \cup {None}
  <2>1. OutputNumber.form = "output"
    BY DEF OutputNumber, Field
  <2> QED BY <2>1 DEF Storable
<1>3. ASSUME NEW v \in ValveId
      PROVE  /\ c["VALVE_POWER_HCO"][v] \in HcoId \cup {None}
             /\ c["VALVE_SIGNAL_HCO"][v] \in HcoId \cup {None}
             /\ c["VALVE_POSITION_SENSOR"][v] \in SensorSlot \cup {None}
             /\ c["VALVE_HEATING_SENSOR"][v] \in SensorSlot \cup {None}
  <2>1. v \in 0 .. NumValves - 1 /\ NumValves \in Nat \ {0}
    BY ObjectsAssumption DEF ValveId
  <2>2. c["VALVE_POWER_HCO"][v] \in HcoId \cup {None} /\ c["VALVE_SIGNAL_HCO"][v] \in HcoId \cup {None}
    BY <1>1, <1>2, <2>1, SafetyObjects
  <2>3. /\ c["VALVE_POSITION_SENSOR"][v] \in Storable(OptionalIndex(NumSlots))
        /\ c["VALVE_HEATING_SENSOR"][v] \in Storable(OptionalIndex(NumSlots))
    BY <1>1, <2>1, SafetyObjects
  <2> QED BY <2>2, <2>3, OptionalStorable DEF SensorSlot
<1>4. ASSUME NEW s \in SensorSlot
      PROVE  /\ c["SENSOR_PDO_CHANNEL"][s] \in PdoSensorChannel \cup {None}
             /\ c["SENSOR_UNIT_CFG"][s] \in Range(UnitCodes)
  <2>1. s \in 0 .. NumSlots - 1 /\ NumSlots \in Nat \ {0}
    BY ObjectsAssumption DEF SensorSlot
  <2>2. c["SENSOR_PDO_CHANNEL"][s] \in Storable(OptionalIndex(NumChannels))
    BY <1>1, <2>1, SafetyObjects
  <2>3. c["SENSOR_UNIT_CFG"][s] \in Storable(Code(UnitCodes))
    BY <1>1, <2>1, SensorObjectsNamed
  <2> QED BY <2>2, <2>3, Codes, OptionalStorable DEF PdoSensorChannel
<1>5. c["RELIEF_SENSOR"][0] \in SensorSlot
  <2>1. PICK o \in Range(ConfigObjects) : o = Object("RELIEF_SENSOR", 0, Index(NumSlots))
    BY SafetyObjects
  <2>2. o.name = "RELIEF_SENSOR" /\ o.field = Index(NumSlots) /\ 0 \in Ids(o)
    BY <2>1 DEF Object, Ids, Elements
  <2>3. Storable(Index(NumSlots)) = SensorSlot
    <3>1. Index(NumSlots).form = "number" /\ Index(NumSlots).legal = 0 .. NumSlots - 1
      BY DEF Index, Field
    <3> QED BY <3>1 DEF Storable, SensorSlot
  <2> QED BY <2>2, <2>3, ElementStorable
<1> QED BY <1>3, <1>4, <1>5

LEMMA AtMostOne ==
  ASSUME NEW S, \A x, y \in S : x = y
  PROVE  Cardinality(S) <= 1
<1>1. CASE S = {}
  BY <1>1, FS_EmptySet
<1>2. CASE S # {}
  <2>1. PICK x : S = {x}
    BY <1>2
  <2> QED BY <2>1, FS_Singleton
<1> QED BY <1>1, <1>2

LEMMA OneDriver ==
  ASSUME SanityCheck(config), NEW h \in HcoId
  PROVE  Cardinality(Drivers(h)) <= 1
<1>1. OutputsApart(config) /\ PadsApart(config)
  BY DEF SanityCheck
<1>2. ASSUME NEW v \in Mapped(config), NEW w \in Mapped(config),
             h \in OutputsOf(config, v), h \in OutputsOf(config, w)
      PROVE  v = w
  <2>1. v \in Int /\ w \in Int
    BY DEF Mapped, ValveId
  <2>2. ~(v < w) /\ ~(w < v)
    BY <1>1, <1>2 DEF OutputsApart
  <2> QED BY <2>1, <2>2
<1>3. ASSUME NEW v \in Fitted(config), NEW w \in Fitted(config),
             h \in config["VALVE_HEATING_HCO"][v], h \in config["VALVE_HEATING_HCO"][w]
      PROVE  v = w
  <2>1. v \in Int /\ w \in Int
    BY DEF Fitted, ValveId
  <2>2. ~(v < w) /\ ~(w < v)
    BY <1>1, <1>3 DEF PadsApart
  <2> QED BY <2>1, <2>2
<1>4. ASSUME NEW v \in Fitted(config), NEW w \in Mapped(config),
             h \in config["VALVE_HEATING_HCO"][v], h \in OutputsOf(config, w)
      PROVE  FALSE
  BY <1>1, <1>4 DEF PadsApart
<1>5. \A x, y \in Drivers(h) : x = y
  BY <1>2, <1>3, <1>4 DEF Drivers
<1> QED BY <1>5, AtMostOne

LEMMA OneSource ==
  ASSUME SanityCheck(config), WellFormed(config), NEW s \in Trusted \ {None}
  PROVE  Cardinality(Source(config, s)) = 1
<1>1. s \in SensorSlot /\ IsConfigured(config, s)
  <2>1. ASSUME NEW v \in Mapped(config), s = config["VALVE_POSITION_SENSOR"][v]
        PROVE  s \in SensorSlot /\ IsConfigured(config, s)
    <3>1. v \in ValveId /\ ValveSane(config, v)
      BY DEF SanityCheck, Mapped
    <3>2. s \in SensorSlot
      BY <2>1, <3>1, ConfigTyped
    <3> QED BY <2>1, <3>1, <3>2 DEF ValveSane
  <2>2. ASSUME NEW v \in Fitted(config), s = config["VALVE_HEATING_SENSOR"][v]
        PROVE  s \in SensorSlot /\ IsConfigured(config, s)
    <3>1. v \in ValveId /\ IsFitted(config, v) /\ HeatingSane(config, v)
      BY DEF SanityCheck, Fitted
    <3>2. s \in SensorSlot
      BY <2>2, <3>1, ConfigTyped
    <3> QED BY <2>2, <3>1, <3>2 DEF HeatingSane
  <2>3. ASSUME IsArmed(config), s = config["RELIEF_SENSOR"][0]
        PROVE  s \in SensorSlot /\ IsConfigured(config, s)
    BY <2>3, ConfigTyped DEF SanityCheck, ReliefSane
  <2> QED BY <2>1, <2>2, <2>3 DEF Trusted
<1>2. SensorSane(config, s)
  BY <1>1 DEF SanityCheck
<1>3. \E x : Source(config, s) = {x}
  BY <1>1, <1>2 DEF SensorSane, IsConfigured, Source, IsOnI2c, Ntcs
<1> QED BY <1>3, FS_Singleton

\* The last claimant of a channel is the one shown.
LEMMA LastClaims ==
  ASSUME NEW S \in SUBSET Int, NEW s \in S, \A t \in S : t <= s
  PROVE  Max(S) = s
<1>1. \A t \in S : s >= t
  OBVIOUS
<1>2. Max(S) \in S /\ \A t \in S : Max(S) >= t
  BY <1>1 DEF Max
<1>3. PICK m \in S : m = Max(S) /\ m >= s
  BY <1>2
<1>4. m <= s /\ m \in Int /\ s \in Int
  OBVIOUS
<1> QED BY <1>3, <1>4

LEMMA UsedSlotHeard ==
  ASSUME DInv, SanityCheck(config), NEW s \in SensorSlot, IsConfigured(config, s),
         NEW ch, ch = config["SENSOR_PDO_CHANNEL"][s], ch # None
  PROVE  channel[ch] = [value |-> reading[s], unit |-> config["SENSOR_UNIT_CFG"][s]]
<1>1. ch \in PdoSensorChannel
  BY ConfigTyped DEF DInv, WellTyped
<1>2. s \in Claimants(config, ch) /\ Claimants(config, ch) \subseteq SensorSlot
  BY DEF Claimants
<1>3. ASSUME NEW t \in Claimants(config, ch) PROVE t <= s
  <2>1. t \in SensorSlot /\ config["SENSOR_PDO_CHANNEL"][t] = ch
    BY DEF Claimants
  <2>2. ~(s < t)
    BY <2>1 DEF SanityCheck, ChannelsApart
  <2> QED BY <2>1, <2>2 DEF SensorSlot
<1>4. Max(Claimants(config, ch)) = s
  <2>1. Claimants(config, ch) \in SUBSET Int
    BY <1>2 DEF SensorSlot
  <2> QED BY <1>2, <1>3, <2>1, LastClaims
<1>5. Claimants(config, ch) # {}
  BY <1>2
<1> QED BY <1>1, <1>4, <1>5 DEF DInv, InStep, Channels

(***************************************************************************)
(* A configuration that passes the sanity check, however it was written,    *)
(* gives every output to one actor at most, trusts no slot without a device, *)
(* and shows every slot in use on the channel it claims.                    *)
(***************************************************************************)
THEOREM SanityIsEnough == Spec => []SaneMeansConsistent
<1>1. DInv => SaneMeansConsistent
  BY OneDriver, OneSource, UsedSlotHeard DEF SaneMeansConsistent, DInv, WellTyped
<1> QED BY <1>1, DInvariant, PTL
-----------------------------------------------------------------------------
(***************************************************************************)
(* Frames: decoding is the inverse of encoding, for every kind.            *)
(***************************************************************************)
LEMMA LeastOf ==
  ASSUME NEW S \in SUBSET Nat, S # {}
  PROVE  \E s \in S : \A r \in S : s <= r
<1> DEFINE R == OpToRel(<, Nat)
<1>1. IsWellFoundedOn(R, Nat)
  BY NatLessThanWellFounded
<1> HIDE DEF R
<1>2. PICK x \in S : \A y \in S : ~ (<<y, x>> \in R)
  BY <1>1, WFMin
<1>3. \A y \in S : ~(y < x)
  BY <1>2 DEF R, OpToRel
<1>4. \A y \in S : x <= y
  BY <1>3
<1> QED BY <1>4

\* The first nibbles of a layout are those that add up.
LEMMA StartIs ==
  ASSUME NEW layout, NEW n \in Nat, DOMAIN layout = 1 .. n, NEW g,
         g = [i \in 1 .. n |-> IF i = 1 THEN 1 ELSE g[i - 1] + layout[i - 1].nibbles]
  PROVE  Start(layout) = g
<1>1. PICK f : f = Start(layout)
  OBVIOUS
<1>2. f = CHOOSE start :
            start = [i \in 1 .. n |-> IF i = 1 THEN 1 ELSE start[i - 1] + layout[i - 1].nibbles]
  BY <1>1 DEF Start
<1>3. f = [i \in 1 .. n |-> IF i = 1 THEN 1 ELSE f[i - 1] + layout[i - 1].nibbles]
  BY <1>2
<1>4. ASSUME f # g PROVE FALSE
  <2> DEFINE Wrong == {i \in 1 .. n : f[i] # g[i]}
  <2>1. Wrong # {}
    <3>1. ASSUME Wrong = {} PROVE FALSE
      <4>1. \A i \in 1 .. n : f[i] = g[i]
        BY <3>1
      <4>2. f = [i \in 1 .. n |-> f[i]] /\ g = [i \in 1 .. n |-> g[i]]
        BY <1>3
      <4> QED BY <1>4, <4>1, <4>2
    <3> QED BY <3>1
  <2>2. Wrong \in SUBSET Nat
    OBVIOUS
  <2>3. PICK i \in Wrong : \A r \in Wrong : i <= r
    BY <2>1, <2>2, LeastOf
  <2>4. i \in 1 .. n /\ f[i] # g[i]
    OBVIOUS
  <2> HIDE DEF Wrong
  <2>5. CASE i = 1
    BY <1>3, <2>4, <2>5
  <2>6. CASE i # 1
    <3>1. i - 1 \in 1 .. n
      BY <2>4, <2>6
    <3>2. i - 1 \notin Wrong
      BY <2>3, <2>4
    <3>3. f[i - 1] = g[i - 1]
      BY <3>1, <3>2 DEF Wrong
    <3>4. f[i] = f[i - 1] + layout[i - 1].nibbles /\ g[i] = g[i - 1] + layout[i - 1].nibbles
      BY <1>3, <2>4, <2>6
    <3> QED BY <2>4, <3>3, <3>4
  <2> QED BY <2>5, <2>6
<1> QED BY <1>1, <1>4

\* A layout of n fields whose starts are known, all in the frame and apart.
Spread(layout, n, start) ==
  /\ DOMAIN layout = 1 .. n
  /\ Start(layout) = start
  /\ \A i \in 1 .. n :
       /\ layout[i].nibbles \in {1, 2, 4, 8}
       /\ layout[i].signed \in BOOLEAN
       /\ layout[i].signed => layout[i].nibbles = 4
       /\ start[i] \in 1 .. 16 /\ start[i] + layout[i].nibbles <= 17
  /\ \A i, k \in 1 .. n : i < k => start[i] + layout[i].nibbles <= start[k]

LEMMA SpreadWords ==
  ASSUME NEW n \in 1 .. 4, NEW word \in {Word, SignedWord}
  PROVE  \E start : Spread(Fields(n, word), n, start)
<1> DEFINE g == [i \in 1 .. n |-> 4 * i - 3]
<1>1. word.nibbles = 4 /\ word.signed \in BOOLEAN
  <2>1. Word.nibbles = 4 /\ SignedWord.nibbles = 4
    BY DEF Word, SignedWord, Wire
  <2>2. Word.signed = FALSE /\ SignedWord.signed = TRUE
    BY DEF Word, SignedWord, Wire
  <2> QED BY <2>1, <2>2
<1>2. PICK layout : layout = Fields(n, word)
  OBVIOUS
<1>3. DOMAIN layout = 1 .. n /\ \A i \in 1 .. n : layout[i] = word
  BY <1>2 DEF Fields
<1>4. g = [i \in 1 .. n |-> IF i = 1 THEN 1 ELSE g[i - 1] + layout[i - 1].nibbles]
  <2>1. \A i \in 1 .. n : 4 * i - 3 = IF i = 1 THEN 1 ELSE g[i - 1] + layout[i - 1].nibbles
    <3> SUFFICES ASSUME NEW i \in 1 .. n
        PROVE  4 * i - 3 = IF i = 1 THEN 1 ELSE g[i - 1] + layout[i - 1].nibbles
      OBVIOUS
    <3>1. CASE i = 1
      BY <3>1
    <3>2. CASE i # 1
      <4>1. i - 1 \in 1 .. n
        BY <3>2
      <4>2. g[i - 1] = 4 * (i - 1) - 3 /\ layout[i - 1].nibbles = 4
        BY <1>1, <1>3, <4>1
      <4> QED BY <3>2, <4>2
    <3> QED BY <3>1, <3>2
  <2> QED BY <2>1
<1>5. \A i \in 1 .. n : g[i] = 4 * i - 3
  OBVIOUS
<1> HIDE DEF g
<1>6. Start(layout) = g
  BY <1>3, <1>4, StartIs
<1>7. Spread(layout, n, g)
  <2>1. ASSUME NEW i \in 1 .. n
        PROVE  /\ layout[i].nibbles \in {1, 2, 4, 8}
               /\ layout[i].signed => layout[i].nibbles = 4
               /\ g[i] \in 1 .. 16 /\ g[i] + layout[i].nibbles <= 17
    <3>1. layout[i].nibbles = 4 /\ g[i] = 4 * i - 3
      BY <1>1, <1>3, <1>5
    <3> QED BY <3>1
  <2>2. \A i \in 1 .. n : layout[i].signed \in BOOLEAN
    BY <1>1, <1>3
  <2>3. ASSUME NEW i \in 1 .. n, NEW k \in 1 .. n, i < k
        PROVE  g[i] + layout[i].nibbles <= g[k]
    <3>1. layout[i].nibbles = 4 /\ g[i] = 4 * i - 3 /\ g[k] = 4 * k - 3
      BY <1>1, <1>3, <1>5
    <3> QED BY <2>3, <3>1
  <2> QED BY <1>3, <1>6, <2>1, <2>2, <2>3 DEF Spread
<1> QED BY <1>2, <1>7

LEMMA SpreadNibbles == Spread(Fields(12, Nibble), 12, [i \in 1 .. 12 |-> i])
<1> DEFINE g == [i \in 1 .. 12 |-> i]
<1>1. Nibble.nibbles = 1
  BY DEF Nibble, Wire
<1>2. Nibble.signed = FALSE
  BY DEF Nibble, Wire
<1>3. PICK n \in Nat : n = 12
  OBVIOUS
<1>4. PICK layout : layout = Fields(n, Nibble)
  OBVIOUS
<1>5. DOMAIN layout = 1 .. n /\ \A i \in 1 .. n : layout[i] = Nibble
  BY <1>4 DEF Fields
<1>6. PICK h : h = [i \in 1 .. n |-> i]
  OBVIOUS
<1>7. h = [i \in 1 .. n |-> IF i = 1 THEN 1 ELSE h[i - 1] + layout[i - 1].nibbles]
  <2>1. ASSUME NEW i \in 1 .. n, i # 1
        PROVE  i = h[i - 1] + layout[i - 1].nibbles
    <3>1. i - 1 \in 1 .. n
      BY <2>1
    <3>2. h[i - 1] = i - 1 /\ layout[i - 1].nibbles = 1
      BY <1>1, <1>5, <1>6, <3>1
    <3> QED BY <3>2
  <2> QED BY <1>6, <2>1
<1>8. Start(layout) = h
  BY <1>5, <1>7, StartIs
<1>9. ASSUME NEW i \in 1 .. n
      PROVE  /\ layout[i].nibbles = 1 /\ layout[i].signed = FALSE /\ h[i] = i
             /\ h[i] \in 1 .. 16 /\ h[i] + layout[i].nibbles <= 17
  <2>1. layout[i] = Nibble /\ h[i] = i
    BY <1>5, <1>6
  <2> QED BY <1>1, <1>2, <1>3, <2>1
<1>10. ASSUME NEW i \in 1 .. n, NEW k \in 1 .. n, i < k
       PROVE  h[i] + layout[i].nibbles <= h[k]
  <2>1. layout[i].nibbles = 1 /\ h[i] = i /\ h[k] = k
    BY <1>9
  <2> QED BY <1>10, <2>1
<1>11. Spread(layout, n, h)
  BY <1>5, <1>8, <1>9, <1>10 DEF Spread
<1> QED BY <1>3, <1>4, <1>6, <1>11

LEMMA SpreadValves == \E start : Spread(Fields(8, Nibble) \o << Byte >>, 9, start)
<1>1. PICK eight \in Nat : eight = 8
  OBVIOUS
<1>2. PICK n \in Nat : n = eight + 1
  OBVIOUS
<1>3. PICK layout : layout = Fields(eight, Nibble) \o << Byte >>
  OBVIOUS
<1>4. Nibble.nibbles = 1 /\ Byte.nibbles = 2
  BY DEF Nibble, Byte, Wire
<1>5. Nibble.signed = FALSE /\ Byte.signed = FALSE
  BY DEF Nibble, Byte, Wire
<1>6. /\ DOMAIN layout = 1 .. n
      /\ \A i \in 1 .. eight : layout[i] = Nibble
      /\ layout[n] = Byte
  <2>1. PICK most \in Seq({Nibble}) : most = Fields(eight, Nibble) /\ Len(most) = eight
    <3>1. Fields(eight, Nibble) \in Seq({Nibble}) /\ Len(Fields(eight, Nibble)) = eight
      BY DEF Fields
    <3> QED BY <3>1
  <2>2. PICK last \in Seq({Byte}) : last = << Byte >> /\ Len(last) = 1 /\ last[1] = Byte
    <3>1. << Byte >> \in Seq({Byte}) /\ Len(<< Byte >>) = 1 /\ << Byte >>[1] = Byte
      OBVIOUS
    <3> QED BY <3>1
  <2>3. layout = most \o last
    BY <1>3, <2>1, <2>2
  <2> QED BY <1>2, <2>1, <2>2, <2>3
<1>7. PICK h : h = [i \in 1 .. n |-> i]
  OBVIOUS
<1>8. h = [i \in 1 .. n |-> IF i = 1 THEN 1 ELSE h[i - 1] + layout[i - 1].nibbles]
  <2>1. ASSUME NEW i \in 1 .. n, i # 1
        PROVE  i = h[i - 1] + layout[i - 1].nibbles
    <3>1. i - 1 \in 1 .. n /\ i - 1 \in 1 .. eight
      BY <1>2, <2>1
    <3>2. h[i - 1] = i - 1 /\ layout[i - 1].nibbles = 1
      BY <1>4, <1>6, <1>7, <3>1
    <3> QED BY <3>2
  <2> QED BY <1>7, <2>1
<1>9. Start(layout) = h
  BY <1>6, <1>8, StartIs
<1>10. ASSUME NEW i \in 1 .. n
       PROVE  /\ layout[i].nibbles = IF i = n THEN 2 ELSE 1
              /\ layout[i].signed = FALSE /\ h[i] = i
  <2>1. CASE i = n
    BY <1>4, <1>5, <1>6, <1>7, <2>1
  <2>2. CASE i # n
    <3>1. i \in 1 .. eight
      BY <1>2, <2>2
    <3> QED BY <1>4, <1>5, <1>6, <1>7, <2>2, <3>1
  <2> QED BY <2>1, <2>2
<1>11. ASSUME NEW i \in 1 .. n
       PROVE  /\ layout[i].nibbles \in {1, 2, 4, 8}
              /\ h[i] \in 1 .. 16 /\ h[i] + layout[i].nibbles <= 17
  BY <1>1, <1>2, <1>10
<1>12. ASSUME NEW i \in 1 .. n, NEW k \in 1 .. n, i < k
       PROVE  h[i] + layout[i].nibbles <= h[k]
  <2>1. i # n
    BY <1>12
  <2>2. layout[i].nibbles = 1 /\ h[i] = i /\ h[k] = k
    BY <1>10, <2>1
  <2> QED BY <1>12, <2>2
<1>13. Spread(layout, n, h)
  <2>1. \A i \in 1 .. n : layout[i].signed = FALSE
    BY <1>10
  <2> QED BY <1>6, <1>9, <1>11, <1>12, <2>1 DEF Spread
<1>14. n = 9
  BY <1>1, <1>2
<1> QED BY <1>1, <1>3, <1>13, <1>14

LEMMA SpreadStatus ==
  \E start : Spread(<< Byte, Byte, Byte, Byte, Wire(8, FALSE) >>, 5, start)
<1>1. PICK layout : layout = << Byte, Byte, Byte, Byte, Wire(8, FALSE) >>
  OBVIOUS
<1>2. DOMAIN layout = 1 .. 5
  BY <1>1
<1>3. /\ layout[1].nibbles = 2 /\ layout[2].nibbles = 2 /\ layout[3].nibbles = 2
      /\ layout[4].nibbles = 2 /\ layout[5].nibbles = 8
  BY <1>1 DEF Byte, Wire
<1>4. \A i \in 1 .. 5 : layout[i].signed = FALSE
  BY <1>1 DEF Byte, Wire
<1>5. PICK g : g = << 1, 3, 5, 7, 9 >>
  OBVIOUS
<1>6. g[1] = 1 /\ g[2] = 3 /\ g[3] = 5 /\ g[4] = 7 /\ g[5] = 9
  BY <1>5
<1>7. g = [i \in 1 .. 5 |-> IF i = 1 THEN 1 ELSE g[i - 1] + layout[i - 1].nibbles]
  <2>1. g = [i \in 1 .. 5 |-> g[i]]
    BY <1>5
  <2>2. \A i \in 1 .. 5 : g[i] = IF i = 1 THEN 1 ELSE g[i - 1] + layout[i - 1].nibbles
    BY <1>3, <1>6
  <2> QED BY <2>1, <2>2
<1>8. Start(layout) = g
  <2>1. PICK n \in Nat : n = 5
    OBVIOUS
  <2>2. DOMAIN layout = 1 .. n
    BY <1>2, <2>1
  <2>3. g = [i \in 1 .. n |-> IF i = 1 THEN 1 ELSE g[i - 1] + layout[i - 1].nibbles]
    BY <1>7, <2>1
  <2> QED BY <2>2, <2>3, StartIs
<1>9. \A i \in 1 .. 5 : /\ layout[i].nibbles \in {1, 2, 4, 8}
                        /\ g[i] \in 1 .. 16 /\ g[i] + layout[i].nibbles <= 17
  BY <1>3, <1>6
<1>10. \A i, k \in 1 .. 5 : i < k => g[i] + layout[i].nibbles <= g[k]
  BY <1>3, <1>6
<1>11. Spread(layout, 5, g)
  BY <1>2, <1>4, <1>8, <1>9, <1>10 DEF Spread
<1> QED BY <1>1, <1>11

LEMMA KindSpread ==
  ASSUME NEW kind \in Kinds
  PROVE  /\ Layouts[kind] = Layout(kind) /\ Starts[kind] = Start(Layouts[kind])
         /\ \E n \in Nat : \E start : Spread(Layouts[kind], n, start)
<1>1. Layouts[kind] = Layout(kind) /\ Starts[kind] = Start(Layouts[kind])
  BY DEF Layouts, Starts
<1>2. CASE kind \in {"Sensor0", "Sensor1", "Sensor3"}
  <2>1. Layout(kind) = Fields(4, SignedWord)
    BY <1>2 DEF Layout
  <2> QED BY <1>1, <2>1, SpreadWords
<1>3. CASE kind = "Temperature"
  <2>1. Layout(kind) = Fields(2, SignedWord)
    BY <1>3 DEF Layout
  <2> QED BY <1>1, <2>1, SpreadWords
<1>4. CASE kind \in {"I2cScan", "RailVoltage", "RailCurrent"}
  <2>1. Layout(kind) = Fields(3, Word)
    BY <1>4 DEF Layout
  <2> QED BY <1>1, <2>1, SpreadWords
<1>5. CASE kind = "ValveStatus"
  <2>1. Layout(kind) = Fields(8, Nibble) \o << Byte >>
    BY <1>5 DEF Layout
  <2> QED BY <1>1, <2>1, SpreadValves
<1>6. CASE kind = "SensorUnits"
  <2>1. Layout(kind) = Fields(12, Nibble)
    BY <1>6 DEF Layout
  <2> QED BY <1>1, <2>1, SpreadNibbles
<1>7. CASE kind = "Status"
  <2>1. Layout(kind) = << Byte, Byte, Byte, Byte, Wire(8, FALSE) >>
    BY <1>7 DEF Layout
  <2> QED BY <1>1, <2>1, SpreadStatus
<1>8. CASE kind \notin {"Sensor0", "Sensor1", "Sensor3", "Temperature", "I2cScan", "RailVoltage",
                       "RailCurrent", "ValveStatus", "SensorUnits", "Status"}
  <2>1. Layout(kind) = Fields(4, Word)
    BY <1>8 DEF Layout
  <2> QED BY <1>1, <2>1, SpreadWords
<1> QED BY <1>1, <1>2, <1>3, <1>4, <1>5, <1>6, <1>7, <1>8

Room(nibbles) ==
  IF nibbles = 1 THEN 16 ELSE IF nibbles = 2 THEN 256 ELSE IF nibbles = 4 THEN 65536 ELSE 4294967296

\* Values that a frame of this kind has room for.
Fit(kind, values) ==
  /\ values = [i \in DOMAIN Layouts[kind] |-> values[i]]
  /\ \A i \in DOMAIN Layouts[kind] :
       LET field == Layouts[kind][i]
       IN  /\ values[i] \in Int
           /\ IF field.signed THEN -32768 <= values[i] /\ values[i] <= 32767
              ELSE 0 <= values[i] /\ values[i] < Room(field.nibbles)

LEMMA SpreadFacts ==
  ASSUME NEW layout, NEW n \in Nat, NEW start, Spread(layout, n, start), NEW m \in 1 .. n
  PROVE  /\ start[m] \in Int /\ 1 <= start[m] /\ start[m] + layout[m].nibbles <= 17
         /\ layout[m].nibbles \in {1, 2, 4, 8}
         /\ layout[m].signed => layout[m].nibbles = 4
         /\ \A k \in 1 .. n : m < k => start[m] + layout[m].nibbles <= start[k]
<1>1. start[m] \in 1 .. 16 /\ start[m] + layout[m].nibbles <= 17 /\ layout[m].nibbles \in {1, 2, 4, 8}
  BY Zenon DEF Spread
<1>2. layout[m].signed => layout[m].nibbles = 4
  BY Zenon DEF Spread
<1>3. \A k \in 1 .. n : m < k => start[m] + layout[m].nibbles <= start[k]
  BY Zenon DEF Spread
<1>4. start[m] \in Int /\ 1 <= start[m]
  BY <1>1
<1> QED BY <1>1, <1>2, <1>3, <1>4, Zenon

\* The nibbles of a field are no other field's.
LEMMA OneField ==
  ASSUME NEW layout, NEW n \in Nat, NEW start, Spread(layout, n, start),
         NEW i \in 1 .. n, NEW k \in 0 .. layout[i].nibbles - 1
  PROVE  /\ start[i] + k \in 1 .. 16
         /\ \A m \in 1 .. n :
              start[i] + k \in start[m] .. start[m] + layout[m].nibbles - 1 <=> m = i
<1>1. PICK si, ni : si = start[i] /\ ni = layout[i].nibbles
  OBVIOUS
<1>2. si \in Int /\ 1 <= si /\ si + ni <= 17 /\ ni \in Int /\ k \in Int /\ 0 <= k /\ k < ni
  <2>1. si \in Int /\ 1 <= si /\ si + ni <= 17 /\ ni \in {1, 2, 4, 8}
    BY <1>1, SpreadFacts
  <2> QED BY <1>1, <2>1
<1>3. si + k \in 1 .. 16
  BY <1>2
<1>4. ASSUME NEW m \in 1 .. n PROVE si + k \in start[m] .. start[m] + layout[m].nibbles - 1 <=> m = i
  <2>1. PICK sm, nm : sm = start[m] /\ nm = layout[m].nibbles
    OBVIOUS
  <2>2. sm \in Int /\ nm \in Int
    <3>1. sm \in Int /\ nm \in {1, 2, 4, 8}
      BY <2>1, SpreadFacts
    <3> QED BY <3>1
  <2>3. CASE m = i
    BY <1>1, <1>2, <2>1, <2>3
  <2>4. CASE m < i
    <3>1. sm + nm <= si
      BY <1>1, <2>1, <2>4, SpreadFacts
    <3> QED BY <1>2, <2>1, <2>2, <2>4, <3>1
  <2>5. CASE i < m
    <3>1. si + ni <= sm
      BY <1>1, <2>1, <2>5, SpreadFacts
    <3> QED BY <1>2, <2>1, <2>2, <2>5, <3>1
  <2> QED BY <2>3, <2>4, <2>5
<1> QED BY <1>1, <1>3, <1>4

\* Each nibble of a field is sent at its own place.
LEMMA NibbleSent ==
  ASSUME NEW kind \in Kinds, NEW n \in Nat, NEW start, Spread(Layouts[kind], n, start),
         NEW values, NEW i \in 1 .. n, NEW k \in 0 .. Layouts[kind][i].nibbles - 1
  PROVE  EncodeFrame(kind, values)[start[i] + k] = ((Unsigned(values[i]) \div Weight[k + 1]) % 16)
<1>1. Starts[kind] = start /\ DOMAIN Layouts[kind] = 1 .. n
  BY KindSpread, Zenon DEF Spread
<1>2. PICK j : j = start[i] + k
  OBVIOUS
<1>3. j \in 1 .. 16
  BY <1>2, OneField
<1>4. \A m \in 1 .. n : Covers(kind, m, j) <=> m = i
  BY <1>1, <1>2, OneField, Zenon DEF Covers
<1>5. FieldAt[kind][j] = i
  <2>1. FieldAt[kind] = [x \in 1 .. 16 |->
          IF \E m \in 1 .. n : Covers(kind, m, x)
          THEN CHOOSE m \in 1 .. n : Covers(kind, m, x) ELSE 0]
    BY <1>1, Zenon DEF FieldAt
  <2>2. (CHOOSE m \in 1 .. n : Covers(kind, m, j)) = i
    BY <1>4, Zenon
  <2>3. \E m \in 1 .. n : Covers(kind, m, j)
    BY <1>4, Zenon
  <2> HIDE DEF Covers
  <2> QED BY <1>3, <2>1, <2>2, <2>3, Zenon
<1>6. i # 0 /\ j - start[i] + 1 = k + 1
  <2>1. start[i] \in Int /\ k \in Int
    BY SpreadFacts
  <2> QED BY <1>2, <2>1
<1>7. EncodeFrame(kind, values) = [x \in 1 .. 16 |->
        IF FieldAt[kind][x] = 0 THEN 0
        ELSE (Unsigned(values[FieldAt[kind][x]])
               \div Weight[x - Starts[kind][FieldAt[kind][x]] + 1]) % 16]
  BY DEF EncodeFrame
<1>8. EncodeFrame(kind, values)[j] = ((Unsigned(values[i]) \div Weight[j - start[i] + 1]) % 16)
  BY <1>1, <1>3, <1>5, <1>6, <1>7
<1> QED BY <1>2, <1>6, <1>8

LEMMA WeightsAre ==
  /\ Weight[1] = 1 /\ Weight[2] = 16 /\ Weight[3] = 256 /\ Weight[4] = 4096 /\ Weight[5] = 65536
  /\ Weight[6] = 1048576 /\ Weight[7] = 16777216 /\ Weight[8] = 268435456
BY SMT DEF Weight

\* The nibbles of a number that they have room for add up to it.
LEMMA NumberIs ==
  ASSUME NEW nibbles \in {1, 2, 4, 8}, NEW frame, NEW s \in Int, NEW b \in Nat, b < Room(nibbles),
         \A k \in 0 .. nibbles - 1 : frame[s + k] = ((b \div Weight[k + 1]) % 16)
  PROVE  Number(frame, s, nibbles) = b
<1>1. CASE nibbles = 1
  <2>1. b < 16 /\ frame[s + 0] = (b \div 1) % 16
    BY <1>1, WeightsAre, SMT DEF Room
  <2>2. Number(frame, s, 1) = 1 * frame[s + 0]
    BY <2>1, WeightsAre, SMT DEF Number
  <2> QED BY <1>1, <2>1, <2>2, SMT
<1>2. CASE nibbles = 2
  <2>1. b < 256 /\ frame[s + 0] = (b \div 1) % 16 /\ frame[s + 1] = (b \div 16) % 16
    BY <1>2, WeightsAre, SMT DEF Room
  <2>2. Number(frame, s, 2) = frame[s + 0] + 16 * frame[s + 1]
    BY <2>1, WeightsAre, SMT DEF Number
  <2> QED BY <1>2, <2>1, <2>2, SMT
<1>3. CASE nibbles = 4
  <2>1. /\ b < 65536 /\ frame[s + 0] = (b \div 1) % 16 /\ frame[s + 1] = (b \div 16) % 16
        /\ frame[s + 2] = (b \div 256) % 16 /\ frame[s + 3] = (b \div 4096) % 16
    BY <1>3, WeightsAre, SMT DEF Room
  <2>2. Number(frame, s, 4) =
          frame[s + 0] + 16 * frame[s + 1] + 256 * frame[s + 2] + 4096 * frame[s + 3]
    BY <2>1, WeightsAre, SMT DEF Number
  <2> QED BY <1>3, <2>1, <2>2, SMT
<1>4. CASE nibbles = 8
  <2>1. /\ b < 4294967296 /\ frame[s + 0] = (b \div 1) % 16 /\ frame[s + 1] = (b \div 16) % 16
        /\ frame[s + 2] = (b \div 256) % 16 /\ frame[s + 3] = (b \div 4096) % 16
        /\ frame[s + 4] = (b \div 65536) % 16 /\ frame[s + 5] = (b \div 1048576) % 16
        /\ frame[s + 6] = (b \div 16777216) % 16 /\ frame[s + 7] = (b \div 268435456) % 16
    BY <1>4, WeightsAre, SMT DEF Room
  <2>2. Number(frame, s, 8) =
          frame[s + 0] + 16 * frame[s + 1] + 256 * frame[s + 2] + 4096 * frame[s + 3]
            + 65536 * frame[s + 4] + 1048576 * frame[s + 5] + 16777216 * frame[s + 6]
            + 268435456 * frame[s + 7]
    BY <2>1, WeightsAre, SMT DEF Number
  <2>3. PICK low, high : low = b % 65536 /\ high = b \div 65536
    OBVIOUS
  <2>4. low \in Nat /\ high \in Nat /\ low < 65536 /\ high < 65536 /\ b = low + 65536 * high
    BY <2>1, <2>3, SMT
  <2>5. /\ frame[s + 0] = low % 16 /\ frame[s + 1] = (low \div 16) % 16
        /\ frame[s + 2] = (low \div 256) % 16 /\ frame[s + 3] = (low \div 4096) % 16
    BY <2>1, <2>4, SMT
  <2>6. /\ frame[s + 4] = high % 16 /\ frame[s + 5] = (high \div 16) % 16
        /\ frame[s + 6] = (high \div 256) % 16 /\ frame[s + 7] = (high \div 4096) % 16
    <3>1. b \div 65536 = high
      BY <2>3
    <3>2. b \div 1048576 = high \div 16
      BY <2>4, SMT
    <3>3. b \div 16777216 = high \div 256
      BY <2>4, SMT
    <3>4. b \div 268435456 = high \div 4096
      BY <2>4, SMT
    <3>5. frame[s + 4] = high % 16
      BY <2>1, <3>1, SMT
    <3>6. frame[s + 5] = (high \div 16) % 16
      BY <2>1, <3>2, SMT
    <3>7. frame[s + 6] = (high \div 256) % 16
      BY <2>1, <3>3, SMT
    <3>8. frame[s + 7] = (high \div 4096) % 16
      BY <2>1, <3>4, SMT
    <3> QED BY <3>5, <3>6, <3>7, <3>8
  <2>7. low = frame[s + 0] + 16 * frame[s + 1] + 256 * frame[s + 2] + 4096 * frame[s + 3]
    BY <2>4, <2>5, SMT
  <2>8. high = frame[s + 4] + 16 * frame[s + 5] + 256 * frame[s + 6] + 4096 * frame[s + 7]
    BY <2>4, <2>6, SMT
  <2>9. /\ frame[s + 4] \in Int /\ frame[s + 5] \in Int /\ frame[s + 6] \in Int
        /\ frame[s + 7] \in Int
    BY <2>4, <2>6, SMT
  <2> QED BY <1>4, <2>2, <2>4, <2>5, <2>7, <2>8, <2>9, SMT
<1> QED BY <1>1, <1>2, <1>3, <1>4

(***************************************************************************)
(* What is decoded from a frame of process data is what was encoded, for    *)
(* every kind and for all values its fields have room for: "the contract    *)
(* this module exists to keep" (tpdo.rs:7).                                 *)
(***************************************************************************)
THEOREM FramesInvert ==
  ASSUME NEW kind \in Kinds, NEW values, Fit(kind, values)
  PROVE  DecodeFrame(kind, EncodeFrame(kind, values)) = values
<1>1. PICK n \in Nat : \E start : Spread(Layouts[kind], n, start)
  BY KindSpread
<1>2. PICK start : Spread(Layouts[kind], n, start)
  BY <1>1
<1>3. PICK layout : layout = Layouts[kind]
  OBVIOUS
<1>4. PICK frame : frame = EncodeFrame(kind, values)
  OBVIOUS
<1>5. DOMAIN layout = 1 .. n /\ Starts[kind] = start
  BY <1>2, <1>3, KindSpread DEF Spread
<1>6. ASSUME NEW i \in 1 .. n
      PROVE  values[i] = IF layout[i].signed /\ Number(frame, start[i], layout[i].nibbles) > 32767
                         THEN Number(frame, start[i], layout[i].nibbles) - 65536
                         ELSE Number(frame, start[i], layout[i].nibbles)
  <2>1. /\ layout[i].nibbles \in {1, 2, 4, 8} /\ start[i] \in Int
        /\ layout[i].signed => layout[i].nibbles = 4
    BY <1>2, <1>3 DEF Spread
  <2>2. /\ values[i] \in Int
        /\ IF layout[i].signed THEN -32768 <= values[i] /\ values[i] <= 32767
           ELSE 0 <= values[i] /\ values[i] < Room(layout[i].nibbles)
    BY <1>3, <1>5 DEF Fit
  <2>3. PICK bits : bits = Unsigned(values[i])
    OBVIOUS
  <2>4. bits \in Nat /\ bits < Room(layout[i].nibbles)
    <3>1. CASE layout[i].signed
      <4>1. Room(layout[i].nibbles) = 65536
        BY <2>1, <3>1, SMT DEF Room
      <4> QED BY <2>2, <2>3, <3>1, <4>1, SMT DEF Unsigned
    <3>2. CASE ~layout[i].signed
      BY <2>2, <2>3, <3>2, SMT DEF Unsigned
    <3> QED BY <3>1, <3>2
  <2>5. \A k \in 0 .. layout[i].nibbles - 1 : frame[start[i] + k] = ((bits \div Weight[k + 1]) % 16)
    BY <1>2, <1>3, <1>4, <2>3, NibbleSent
  <2>6. Number(frame, start[i], layout[i].nibbles) = bits
    BY <2>1, <2>4, <2>5, NumberIs
  <2>7. CASE layout[i].signed
    BY <2>2, <2>3, <2>6, <2>7, SMT DEF Unsigned
  <2>8. CASE ~layout[i].signed
    BY <2>2, <2>3, <2>6, <2>8, SMT DEF Unsigned
  <2> QED BY <2>7, <2>8
<1>7. values = [i \in 1 .. n |-> values[i]]
  BY <1>3, <1>5 DEF Fit
<1>8. DecodeFrame(kind, frame) =
        [i \in 1 .. n |->
           IF layout[i].signed /\ Number(frame, start[i], layout[i].nibbles) > 32767
           THEN Number(frame, start[i], layout[i].nibbles) - 65536
           ELSE Number(frame, start[i], layout[i].nibbles)]
  BY <1>3, <1>5, SMT DEF DecodeFrame
<1>9. PICK number : number = [i \in 1 .. n |-> Number(frame, start[i], layout[i].nibbles)]
  OBVIOUS
<1>10. \A i \in 1 .. n :
        values[i] = IF layout[i].signed /\ number[i] > 32767 THEN number[i] - 65536 ELSE number[i]
  BY <1>6, <1>9, SMT
<1>11. DecodeFrame(kind, frame) =
         [i \in 1 .. n |->
            IF layout[i].signed /\ number[i] > 32767 THEN number[i] - 65536 ELSE number[i]]
  BY <1>8, <1>9, SMT
<1> QED BY <1>4, <1>7, <1>10, <1>11, SMT
-----------------------------------------------------------------------------
(***************************************************************************)
(* What a listener takes from the frames.                                  *)
(***************************************************************************)
LEMMA LeastIs ==
  ASSUME NEW S \in SUBSET Nat, S # {}
  PROVE  Min(S) \in S
<1>1. PICK s \in S : \A r \in S : s <= r
  BY LeastOf
<1> QED BY <1>1 DEF Min

LEMMA GreatestIs ==
  ASSUME NEW n \in Nat, NEW S \in SUBSET (0 .. n - 1), S # {}
  PROVE  Max(S) \in S
<1> DEFINE T == {n - s : s \in S}
<1>1. \A s \in S : s \in Int /\ n - s \in Nat
  OBVIOUS
<1>2. T \in SUBSET Nat /\ T # {}
  BY <1>1
<1>3. PICK t \in T : \A r \in T : t <= r
  <2> HIDE DEF T
  <2> QED BY <1>2, LeastOf
<1>4. PICK s \in S : \A r \in S : n - s <= n - r
  BY <1>3
<1>5. ASSUME NEW r \in S PROVE s >= r
  <2>1. n - s <= n - r /\ r \in Int /\ s \in Int
    BY <1>1, <1>4
  <2> QED BY ONLY <2>1, n \in Nat
<1> QED BY <1>5 DEF Max

\* The channels carry what a signed word and the table of units have room for.
LEMMA ChannelTyped ==
  ASSUME DInv, NEW ch \in PdoSensorChannel
  PROVE  channel[ch].value \in I16Min .. I16Max /\ channel[ch].unit \in Range(UnitCodes)
<1>1. CASE Claimants(config, ch) = {}
  <2>1. channel[ch] = Unclaimed
    BY <1>1 DEF DInv, InStep, Channels
  <2>2. SensorInvalid \in I16Min .. I16Max
    BY ShortBounds, InInterval DEF SensorInvalid
  <2>3. "CentiBar" \in Range(UnitCodes)
    BY DEF UnitCodes, Range
  <2> QED BY <2>1, <2>2, <2>3 DEF Unclaimed
<1>2. CASE Claimants(config, ch) # {}
  <2>1. PICK s : s = Max(Claimants(config, ch))
    OBVIOUS
  <2>2. s \in SensorSlot
    BY <1>2, <2>1, GreatestIs, ObjectsAssumption DEF Claimants, SensorSlot
  <2>3. channel[ch] = [value |-> reading[s], unit |-> config["SENSOR_UNIT_CFG"][s]]
    BY <1>2, <2>1 DEF DInv, InStep, Channels
  <2>4. reading[s] \in I16Min .. I16Max /\ config["SENSOR_UNIT_CFG"][s] \in Range(UnitCodes)
    BY <2>2, ConfigTyped DEF DInv, WellTyped
  <2> QED BY <2>3, <2>4
<1> QED BY <1>1, <1>2

LEMMA OwnerTyped ==
  ASSUME DInv, NEW h \in HcoId
  PROVE  /\ owner[h] \in ValveId \cup {None}
         /\ IF owner[h] = None THEN \A v \in Mapped(config) : h \notin OutputsOf(config, v)
            ELSE owner[h] \in Mapped(config) /\ h \in OutputsOf(config, owner[h])
<1> DEFINE owners == {v \in Mapped(config) : h \in OutputsOf(config, v)}
<1>1. owner[h] = IF owners = {} THEN None ELSE Min(owners)
  BY DEF DInv, InStep, Ownership, HcoOwner
<1>2. owners \in SUBSET Nat /\ owners \subseteq ValveId
  BY DEF Mapped, ValveId
<1>3. CASE owners = {}
  BY <1>1, <1>3
<1>4. CASE owners # {}
  <2>1. Min(owners) \in owners
    <3> HIDE DEF owners
    <3> QED BY <1>2, <1>4, LeastIs
  <2>2. Min(owners) # None
    BY <1>2, <2>1 DEF ValveId, None
  <2> QED BY <1>1, <1>2, <1>4, <2>1, <2>2
<1> QED BY <1>3, <1>4

LEMMA TemperatureTyped ==
  ASSUME DInv
  PROVE  /\ BoardTemperature(config, reading) \in I16Min .. I16Max
         /\ BoardTemperature(config, reading) \in
              {SensorInvalid} \cup {reading[s] : s \in {s \in SensorSlot :
                 config["SENSOR_KIND"][s] = "BoardNtc" /\ Quantity(unit[s]) = "Temperature"}}
<1> DEFINE found == {s \in SensorSlot : config["SENSOR_KIND"][s] = "BoardNtc"
                                          /\ config["SENSOR_UNIT_CFG"][s] = "CentiCelsius"}
<1>1. BoardTemperature(config, reading) = IF found = {} THEN SensorInvalid ELSE reading[Min(found)]
  BY DEF BoardTemperature
<1>2. SensorInvalid \in I16Min .. I16Max
  BY ShortBounds, InInterval DEF SensorInvalid
<1>3. CASE found = {}
  BY <1>1, <1>2, <1>3
<1>4. CASE found # {}
  <2>1. found \in SUBSET Nat
    BY DEF SensorSlot
  <2>2. PICK s \in found : s = Min(found)
    <3> HIDE DEF found
    <3> QED BY <1>4, <2>1, LeastIs
  <2>3. s \in SensorSlot /\ config["SENSOR_KIND"][s] = "BoardNtc" /\ unit[s] = "CentiCelsius"
    BY DEF DInv, InStep, Units
  <2>4. Quantity("CentiCelsius") = "Temperature"
    BY DEF Quantity
  <2>5. reading[s] \in I16Min .. I16Max
    BY <2>3 DEF DInv, WellTyped
  <2>6. BoardTemperature(config, reading) = reading[s]
    BY <1>1, <1>4, <2>2
  <2> HIDE DEF found
  <2> QED BY <2>3, <2>4, <2>5, <2>6
<1> QED BY <1>3, <1>4

LEMMA UnitCoded ==
  ASSUME NEW u \in Range(UnitCodes)
  PROVE  UnitCode(u) \in 0 .. 4 /\ UnitCodes[UnitCode(u) + 1] = u
<1>1. DOMAIN UnitCodes = 1 .. 5
  BY DEF UnitCodes
<1>2. \E i \in DOMAIN UnitCodes : UnitCodes[i] = u
  BY DEF Range
<1>3. PICK i \in 1 .. 5 : i = (CHOOSE k \in DOMAIN UnitCodes : UnitCodes[k] = u) /\ UnitCodes[i] = u
  BY <1>1, <1>2
<1>4. UnitCode(u) = i - 1
  BY <1>3 DEF UnitCode
<1>5. i - 1 \in 0 .. 4 /\ (i - 1) + 1 = i
  OBVIOUS
<1> QED BY <1>3, <1>4, <1>5

ValueList == [i \in 1 .. NumChannels |-> channel[i - 1].value]
UnitList == [i \in 1 .. NumChannels |-> UnitCode(channel[i - 1].unit)]
OwnerList == [i \in 1 .. NumHco |-> owner[i - 1] + 1]

LEMMA SensorsTold ==
  ASSUME DInv, NEW kind \in {"Sensor0", "Sensor1", "Sensor3"}, NEW offset \in Nat,
         FrameFor(kind) = EncodeFrame(kind, Window(ValueList, offset, 4, SensorInvalid))
  PROVE  Told(kind) = [i \in 1 .. 4 |->
           IF offset + i <= NumChannels THEN channel[offset + i - 1].value ELSE SensorInvalid]
<1>1. kind \in Kinds
  BY DEF Kinds, TpdoKinds, Range
<1>2. Layouts[kind] = Fields(4, SignedWord)
  BY <1>1 DEF Layouts, Layout
<1>3. PICK w : w = Window(ValueList, offset, 4, SensorInvalid)
  OBVIOUS
<1>4. NumChannels \in Nat /\ Len(ValueList) = NumChannels
  BY ObjectsAssumption DEF ValueList
<1>5. w = [i \in 1 .. 4 |-> IF offset + i <= NumChannels THEN ValueList[offset + i] ELSE SensorInvalid]
  BY <1>3, <1>4 DEF Window
<1>6. \A i \in 1 .. 4 : offset + i <= NumChannels =>
        /\ offset + i \in 1 .. NumChannels /\ offset + i - 1 \in PdoSensorChannel
        /\ ValueList[offset + i] = channel[offset + i - 1].value
  BY <1>4 DEF ValueList, PdoSensorChannel
<1>7. w = [i \in 1 .. 4 |->
           IF offset + i <= NumChannels THEN channel[offset + i - 1].value ELSE SensorInvalid]
  BY <1>5, <1>6
<1>8. Fit(kind, w)
  <2>1. DOMAIN Layouts[kind] = 1 .. 4 /\ \A i \in 1 .. 4 : Layouts[kind][i] = SignedWord
    BY <1>2 DEF Fields
  <2>2. SignedWord.signed = TRUE
    BY DEF SignedWord, Wire
  <2>3. w = [i \in 1 .. 4 |-> w[i]]
    BY <1>7
  <2>4. ASSUME NEW i \in 1 .. 4 PROVE w[i] \in I16Min .. I16Max
    <3>1. SensorInvalid \in I16Min .. I16Max
      BY ShortBounds, InInterval DEF SensorInvalid
    <3> QED BY <1>6, <1>7, <3>1, ChannelTyped
  <2>5. \A i \in 1 .. 4 : w[i] \in Int /\ -32768 <= w[i] /\ w[i] <= 32767
    BY <2>4, ShortBounds
  <2> QED BY <2>1, <2>2, <2>3, <2>5 DEF Fit
<1>9. Told(kind) = w
  BY <1>1, <1>3, <1>8, FramesInvert DEF Told
<1> QED BY <1>7, <1>9

LEMMA Concat ==
  ASSUME NEW S, NEW s \in Seq(S), NEW t \in Seq(S)
  PROVE  /\ s \o t \in Seq(S) /\ Len(s \o t) = Len(s) + Len(t)
         /\ \A i \in 1 .. Len(s) : (s \o t)[i] = s[i]
         /\ \A i \in 1 .. Len(t) : (s \o t)[Len(s) + i] = t[i]
OBVIOUS

\* What fits a nibble.
Digit == 0 .. 15

LEMMA UnitsTold ==
  ASSUME DInv
  PROVE  Told("SensorUnits") = [i \in 1 .. 12 |->
           IF i <= NumChannels THEN UnitCode(channel[i - 1].unit) ELSE 0]
<1>1. "SensorUnits" \in Kinds
  BY DEF Kinds, TpdoKinds, Range
<1>2. PICK n \in Nat : n = 12
  OBVIOUS
<1>3. Layouts["SensorUnits"] = Fields(n, Nibble)
  BY <1>1, <1>2 DEF Layouts, Layout
<1>4. PICK w : w = Window(UnitList, 0, n, 0)
  OBVIOUS
<1>5. FrameFor("SensorUnits") = EncodeFrame("SensorUnits", w)
  BY <1>2, <1>4 DEF FrameFor, UnitList
<1>6. NumChannels \in Nat /\ Len(UnitList) = NumChannels
  BY ObjectsAssumption DEF UnitList
<1>7. w = [i \in 1 .. n |-> IF 0 + i <= NumChannels THEN UnitList[0 + i] ELSE 0]
  BY <1>4, <1>6 DEF Window
<1>8. \A i \in 1 .. n : i <= NumChannels =>
        /\ i - 1 \in PdoSensorChannel /\ UnitList[i] = UnitCode(channel[i - 1].unit)
  BY <1>6 DEF UnitList, PdoSensorChannel
<1>9. w = [i \in 1 .. n |-> IF i <= NumChannels THEN UnitCode(channel[i - 1].unit) ELSE 0]
  BY <1>7, <1>8
<1>10. Fit("SensorUnits", w)
  <2>1. /\ DOMAIN Layouts["SensorUnits"] = 1 .. n
        /\ \A i \in 1 .. n : Layouts["SensorUnits"][i] = Nibble
    BY <1>3 DEF Fields
  <2>2. Nibble.nibbles = 1
    BY DEF Nibble, Wire
  <2>3. Nibble.signed = FALSE
    BY DEF Nibble, Wire
  <2>4. Room(1) = 16
    BY SMT DEF Room
  <2>5. ASSUME NEW i \in 1 .. n PROVE w[i] \in 0 .. 4
    BY <1>8, <1>9, ChannelTyped, UnitCoded
  <2>6. \A i \in 1 .. n : w[i] \in Int /\ 0 <= w[i] /\ w[i] < 16
    BY <2>5
  <2>7. w = [i \in 1 .. n |-> w[i]]
    BY <1>9
  <2> QED BY <2>1, <2>2, <2>3, <2>4, <2>6, <2>7 DEF Fit
<1>11. Told("SensorUnits") = w
  BY <1>1, <1>5, <1>10, FramesInvert DEF Told
<1> QED BY <1>2, <1>9, <1>11

LEMMA OwnersTold ==
  ASSUME DInv, NEW h \in HcoId
  PROVE  Told("ValveStatus")[5 + h] = owner[h] + 1
<1>1. "ValveStatus" \in Kinds
  BY DEF Kinds, TpdoKinds, Range
<1>2. PICK w : w = <<0, 0, 0, 0>> \o Window(OwnerList, 0, 4, 0) \o <<0>>
  OBVIOUS
<1>3. FrameFor("ValveStatus") = EncodeFrame("ValveStatus", w)
  BY <1>2 DEF FrameFor, OwnerList
<1>4. NumHco \in Nat /\ NumHco <= 4 /\ NumValves \in Nat /\ NumValves <= 15
  BY ObjectsAssumption, DictionaryAssumption
<1>5. /\ Len(OwnerList) = NumHco
      /\ \A i \in 1 .. NumHco : i - 1 \in HcoId /\ OwnerList[i] = owner[i - 1] + 1
  BY <1>4 DEF OwnerList, HcoId
<1>6. PICK four : four = Window(OwnerList, 0, 4, 0)
  OBVIOUS
<1>7. four = [i \in 1 .. 4 |-> IF i <= NumHco THEN owner[i - 1] + 1 ELSE 0]
  <2>1. four = [i \in 1 .. 4 |-> IF 0 + i <= NumHco THEN OwnerList[0 + i] ELSE 0]
    BY <1>5, <1>6 DEF Window
  <2> QED BY <1>4, <1>5, <2>1
<1>8. \A i \in 1 .. 4 : four[i] \in 0 .. 15
  <2> SUFFICES ASSUME NEW i \in 1 .. 4 PROVE four[i] \in 0 .. 15
    OBVIOUS
  <2>1. CASE i <= NumHco
    <3>1. i \in 1 .. NumHco /\ i - 1 \in HcoId
      BY <1>4, <2>1 DEF HcoId
    <3>2. owner[i - 1] \in ValveId \cup {None}
      BY <3>1, OwnerTyped
    <3> QED BY <1>4, <1>7, <2>1, <3>2 DEF ValveId, None
  <2>2. CASE ~(i <= NumHco)
    BY <1>7, <2>2
  <2> QED BY <2>1, <2>2
<1>9. four \in Seq(Digit)
  BY <1>7, <1>8 DEF Digit
<1>10. Len(four) = 4
  BY <1>7
<1>11. /\ w \in Seq(Digit) /\ Len(w) = 9
       /\ \A i \in 1 .. 4 : w[4 + i] = four[i]
  <2>1. PICK front : front = <<0, 0, 0, 0>>
    OBVIOUS
  <2>2. front \in Seq(Digit)
    BY <2>1 DEF Digit
  <2>3. Len(front) = 4
    BY <2>1
  <2>4. PICK back : back = <<0>>
    OBVIOUS
  <2>5. back \in Seq(Digit)
    BY <2>4 DEF Digit
  <2>6. Len(back) = 1
    BY <2>4
  <2>7. PICK both : both = front \o four
    OBVIOUS
  <2>8. /\ both \in Seq(Digit) /\ Len(both) = Len(front) + Len(four)
        /\ \A i \in 1 .. Len(four) : both[Len(front) + i] = four[i]
    BY <1>9, <2>2, <2>7, Concat
  <2>9. w = both \o back
    BY <1>2, <1>6, <2>1, <2>4, <2>7
  <2>10. /\ w \in Seq(Digit) /\ Len(w) = Len(both) + Len(back)
        /\ \A i \in 1 .. Len(both) : w[i] = both[i]
    <3>1. both \in Seq(Digit)
      BY <2>8
    <3> QED BY <2>5, <2>9, <3>1, Concat
  <2>11. Len(both) = 8 /\ Len(w) = 9
    BY <1>10, <2>8, <2>10, <2>3, <2>6
  <2>12. ASSUME NEW i \in 1 .. 4 PROVE w[4 + i] = four[i]
    <3>1. i \in 1 .. Len(four) /\ Len(front) + i = 4 + i
      BY <1>10, <2>3
    <3>2. 4 + i \in 1 .. Len(both)
      BY <2>11
    <3> QED BY <2>8, <2>10, <3>1, <3>2
  <2> QED BY <2>10, <2>11, <2>12
<1>12. w = [i \in 1 .. 9 |-> w[i]] /\ \A i \in 1 .. 9 : w[i] \in Digit
  <2>1. PICK n \in Nat : n = Len(w)
    BY <1>11
  <2>2. w \in Seq(Digit)
    BY <1>11
  <2>3. w = [i \in 1 .. n |-> w[i]] /\ \A i \in 1 .. n : w[i] \in Digit
    BY <2>1, <2>2
  <2> QED BY <1>11, <2>1, <2>3
<1>13. Fit("ValveStatus", w)
  <2>1. Layouts["ValveStatus"] = Fields(8, Nibble) \o << Byte >>
    BY <1>1 DEF Layouts, Layout
  <2>2. PICK layout : layout = Layouts["ValveStatus"]
    OBVIOUS
  <2>3. DOMAIN layout = 1 .. 9 /\ \A i \in 1 .. 9 : layout[i] = Nibble \/ layout[i] = Byte
    <3>1. PICK most : most = Fields(8, Nibble)
      OBVIOUS
    <3>2. PICK last : last = << Byte >>
      OBVIOUS
    <3>3. most \in Seq({Nibble, Byte}) /\ last \in Seq({Nibble, Byte})
      BY <3>1, <3>2 DEF Fields
    <3>4. Len(most) = 8 /\ Len(last) = 1
      BY <3>1, <3>2 DEF Fields
    <3>5. layout = most \o last
      BY <2>1, <2>2, <3>1, <3>2
    <3>6. layout \in Seq({Nibble, Byte}) /\ Len(layout) = Len(most) + Len(last)
      BY <3>5, <3>3, Concat
    <3>7. Len(layout) = 9
      BY <3>6, <3>4
    <3>8. PICK n \in Nat : n = Len(layout)
      BY <3>7
    <3>9. DOMAIN layout = 1 .. n /\ \A i \in 1 .. n : layout[i] \in {Nibble, Byte}
      BY <3>6, <3>8
    <3> QED BY <3>7, <3>8, <3>9
  <2>4. Nibble.nibbles = 1 /\ Byte.nibbles = 2
    BY DEF Nibble, Byte, Wire
  <2>5. Nibble.signed = FALSE /\ Byte.signed = FALSE
    BY DEF Nibble, Byte, Wire
  <2>6. Room(1) = 16 /\ Room(2) = 256
    BY SMT DEF Room
  <2>7. ASSUME NEW i \in 1 .. 9
        PROVE  layout[i].signed = FALSE /\ w[i] \in Int /\ 0 <= w[i] /\ w[i] < Room(layout[i].nibbles)
    <3>1. w[i] \in Digit
      BY <1>12
    <3>2. w[i] \in Int /\ 0 <= w[i] /\ w[i] < 16
      BY <3>1 DEF Digit
    <3>3. CASE layout[i] = Nibble
      BY <2>4, <2>5, <2>6, <3>2, <3>3
    <3>4. CASE layout[i] = Byte
      BY <2>4, <2>5, <2>6, <3>2, <3>4
    <3> QED BY <2>3, <3>3, <3>4
  <2>8. w = [i \in 1 .. 9 |-> w[i]]
    BY <1>12
  <2>9. PICK n \in Nat : n = 9
    OBVIOUS
  <2>10. DOMAIN Layouts["ValveStatus"] = 1 .. n /\ w = [i \in 1 .. n |-> w[i]]
    BY <2>2, <2>3, <2>8, <2>9
  <2>11. \A i \in 1 .. n :
           /\ Layouts["ValveStatus"][i].signed = FALSE
           /\ w[i] \in Int /\ 0 <= w[i] /\ w[i] < Room(Layouts["ValveStatus"][i].nibbles)
    BY <2>2, <2>7, <2>9
  <2> QED BY <2>10, <2>11 DEF Fit
<1>14. Told("ValveStatus") = w
  BY <1>1, <1>3, <1>13, FramesInvert DEF Told
<1>15. w[5 + h] = owner[h] + 1
  <2>1. h + 1 \in 1 .. 4 /\ h + 1 <= NumHco /\ 4 + (h + 1) = 5 + h /\ (h + 1) - 1 = h
    BY <1>4 DEF HcoId
  <2> QED BY <1>7, <1>11, <2>1
<1> QED BY <1>14, <1>15

LEMMA TemperatureTold ==
  ASSUME DInv
  PROVE  Told("Temperature")[1] = BoardTemperature(config, reading)
<1>1. "Temperature" \in Kinds
  BY DEF Kinds, TpdoKinds, Range
<1>2. PICK celsius : celsius = BoardTemperature(config, reading)
  OBVIOUS
<1>3. PICK w : w = << celsius, 0 >>
  OBVIOUS
<1>4. FrameFor("Temperature") = EncodeFrame("Temperature", w)
  BY <1>2, <1>3 DEF FrameFor
<1>5. Layouts["Temperature"] = Fields(2, SignedWord)
  BY <1>1 DEF Layouts, Layout
<1>6. celsius \in Int /\ -32768 <= celsius /\ celsius <= 32767
  BY <1>2, TemperatureTyped, ShortBounds
<1>7. Fit("Temperature", w)
  <2>1. DOMAIN Layouts["Temperature"] = 1 .. 2 /\ \A i \in 1 .. 2 : Layouts["Temperature"][i] = SignedWord
    BY <1>5 DEF Fields
  <2>2. SignedWord.signed = TRUE
    BY DEF SignedWord, Wire
  <2>3. w = [i \in 1 .. 2 |-> w[i]]
    BY <1>3
  <2>4. w[1] = celsius /\ w[2] = 0
    BY <1>3
  <2>5. \A i \in 1 .. 2 : w[i] \in Int /\ -32768 <= w[i] /\ w[i] <= 32767
    BY <1>6, <2>4
  <2> QED BY <2>1, <2>2, <2>3, <2>5 DEF Fit
<1>8. Told("Temperature") = w
  BY <1>1, <1>4, <1>7, FramesInvert DEF Told
<1> QED BY <1>2, <1>3, <1>8

\* Every channel is heard as the store has it.
LEMMA ChannelHeard ==
  ASSUME DInv, NEW ch \in PdoSensorChannel
  PROVE  Heard[ch] = channel[ch]
<1>1. NumChannels \in Nat /\ NumChannels <= 12 /\ ch \in Nat /\ ch < NumChannels
  BY ObjectsAssumption, DictionaryAssumption DEF PdoSensorChannel
<1>2. PICK a : a = Told("Sensor0")
  OBVIOUS
<1>3. PICK b : b = Told("Sensor1")
  OBVIOUS
<1>4. PICK c : c = Told("Sensor3")
  OBVIOUS
<1>5. a = [i \in 1 .. 4 |-> IF 0 + i <= NumChannels THEN channel[0 + i - 1].value ELSE SensorInvalid]
  <2>1. FrameFor("Sensor0") = EncodeFrame("Sensor0", Window(ValueList, 0, 4, SensorInvalid))
    BY DEF FrameFor, ValueList
  <2> QED BY <1>2, <2>1, SensorsTold
<1>6. b = [i \in 1 .. 4 |-> IF 4 + i <= NumChannels THEN channel[4 + i - 1].value ELSE SensorInvalid]
  <2>1. FrameFor("Sensor1") = EncodeFrame("Sensor1", Window(ValueList, 4, 4, SensorInvalid))
    BY DEF FrameFor, ValueList
  <2> QED BY <1>3, <2>1, SensorsTold
<1>7. c = [i \in 1 .. 4 |-> IF 8 + i <= NumChannels THEN channel[8 + i - 1].value ELSE SensorInvalid]
  <2>1. FrameFor("Sensor3") = EncodeFrame("Sensor3", Window(ValueList, 8, 4, SensorInvalid))
    BY DEF FrameFor, ValueList
  <2> QED BY <1>4, <2>1, SensorsTold
<1>8. Len(a) = 4 /\ Len(b) = 4 /\ Len(c) = 4
  BY <1>5, <1>6, <1>7
<1>9. PICK all : all = a \o b \o c
  OBVIOUS
<1>10. \A i \in 1 .. 4 : all[i] = a[i] /\ all[4 + i] = b[i] /\ all[8 + i] = c[i]
  <2> DEFINE S == {a[i] : i \in 1 .. 4} \cup {b[i] : i \in 1 .. 4} \cup {c[i] : i \in 1 .. 4}
  <2>1. /\ \A i \in 1 .. 4 : a[i] \in S /\ b[i] \in S /\ c[i] \in S
        /\ a = [i \in 1 .. 4 |-> a[i]] /\ b = [i \in 1 .. 4 |-> b[i]] /\ c = [i \in 1 .. 4 |-> c[i]]
    BY <1>5, <1>6, <1>7
  <2> HIDE DEF S
  <2>2. a \in Seq(S) /\ b \in Seq(S) /\ c \in Seq(S)
    BY <2>1
  <2>3. PICK ab : ab = a \o b
    OBVIOUS
  <2>4. /\ ab \in Seq(S) /\ Len(ab) = Len(a) + Len(b)
        /\ \A i \in 1 .. Len(a) : ab[i] = a[i]
        /\ \A i \in 1 .. Len(b) : ab[Len(a) + i] = b[i]
    BY <2>2, <2>3, Concat
  <2>5. all = ab \o c
    BY <1>9, <2>3
  <2>6. /\ \A i \in 1 .. Len(ab) : all[i] = ab[i]
        /\ \A i \in 1 .. Len(c) : all[Len(ab) + i] = c[i]
    BY <2>2, <2>4, <2>5, Concat
  <2>7. Len(ab) = 8
    BY <1>8, <2>4
  <2>8. ASSUME NEW i \in 1 .. 4
        PROVE  all[i] = a[i] /\ all[4 + i] = b[i] /\ all[8 + i] = c[i]
    <3>1. /\ i \in 1 .. Len(a) /\ i \in 1 .. Len(b) /\ i \in 1 .. Len(c)
          /\ i \in 1 .. Len(ab) /\ 4 + i \in 1 .. Len(ab)
      BY <1>8, <2>7
    <3>2. ab[i] = a[i] /\ ab[4 + i] = b[i]
      BY <1>8, <2>4, <3>1
    <3> QED BY <2>6, <2>7, <3>1, <3>2
  <2> QED BY <2>8
<1>11. all[ch + 1] = channel[ch].value
  <2>1. CASE ch < 4
    <3>1. ch + 1 \in 1 .. 4 /\ 0 + (ch + 1) <= NumChannels /\ 0 + (ch + 1) - 1 = ch
      BY <1>1, <2>1
    <3> QED BY <1>5, <1>10, <3>1
  <2>2. CASE 4 <= ch /\ ch < 8
    <3>1. ch - 3 \in 1 .. 4 /\ 4 + (ch - 3) <= NumChannels /\ 4 + (ch - 3) - 1 = ch
          /\ 4 + (ch - 3) = ch + 1
      BY <1>1, <2>2
    <3> QED BY <1>6, <1>10, <3>1
  <2>3. CASE 8 <= ch
    <3>1. ch - 7 \in 1 .. 4 /\ 8 + (ch - 7) <= NumChannels /\ 8 + (ch - 7) - 1 = ch
          /\ 8 + (ch - 7) = ch + 1
      BY <1>1, <2>3
    <3> QED BY <1>7, <1>10, <3>1
  <2> QED BY <1>1, <2>1, <2>2, <2>3
<1>12. Told("SensorUnits")[ch + 1] = UnitCode(channel[ch].unit)
  <2>1. ch + 1 \in 1 .. 12 /\ ch + 1 <= NumChannels /\ (ch + 1) - 1 = ch
    BY <1>1
  <2> QED BY <2>1, UnitsTold
<1>13. UnitCodes[UnitCode(channel[ch].unit) + 1] = channel[ch].unit
  BY ChannelTyped, UnitCoded
<1>14. Heard[ch] = [value |-> all[ch + 1], unit |-> UnitCodes[Told("SensorUnits")[ch + 1] + 1]]
  BY <1>2, <1>3, <1>4, <1>9 DEF Heard
<1>15. channel[ch] = [value |-> channel[ch].value, unit |-> channel[ch].unit]
  BY DEF DInv, InStep, Channels, Unclaimed
<1> QED BY <1>11, <1>12, <1>13, <1>14, <1>15

(***************************************************************************)
(* What a listener decodes from the frames is what the configuration and    *)
(* the latest readings say, after any writes, publications, restores and    *)
(* resets: channels with their units, owners of outputs, the temperature.   *)
(***************************************************************************)
THEOREM ViewsHeard == Spec => []ViewsAgree
<1>1. ASSUME DInv PROVE ViewsAgree
  <2> USE <1>1
  <2>1. ASSUME NEW ch \in PdoSensorChannel, NEW s \in SensorSlot, Claimants(config, ch) = {s}
        PROVE  Heard[ch] = [value |-> reading[s], unit |-> config["SENSOR_UNIT_CFG"][s]]
    <3>1. Max(Claimants(config, ch)) = s
      <4>1. NumSlots \in Nat /\ {s} \in SUBSET (0 .. NumSlots - 1) /\ {s} # {}
        BY ObjectsAssumption DEF SensorSlot
      <4>2. Max({s}) \in {s}
        BY <4>1, GreatestIs, Zenon
      <4> QED BY <2>1, <4>2
    <3>2. channel[ch] = [value |-> reading[s], unit |-> config["SENSOR_UNIT_CFG"][s]]
      BY <2>1, <3>1 DEF DInv, InStep, Channels
    <3> QED BY <3>2, ChannelHeard
  <2>2. ASSUME NEW ch \in PdoSensorChannel, Claimants(config, ch) = {}
        PROVE  Heard[ch].value = SensorInvalid
    <3>1. channel[ch].value = SensorInvalid
      BY <2>2 DEF DInv, InStep, Channels, Unclaimed
    <3> QED BY <3>1, ChannelHeard
  <2>3. \A s \in SensorSlot : unit[s] = config["SENSOR_UNIT_CFG"][s]
    BY DEF DInv, InStep, Units
  <2>4. ASSUME NEW h \in HcoId
        PROVE  IF OwnerHeard[h] = None THEN \A v \in Mapped(config) : h \notin OutputsOf(config, v)
               ELSE OwnerHeard[h] \in Mapped(config) /\ h \in OutputsOf(config, OwnerHeard[h])
    <3>1. owner[h] \in Int
      <4>1. owner[h] \in ValveId \cup {None}
        BY OwnerTyped
      <4> QED BY <4>1 DEF ValveId, None
    <3>2. OwnerHeard[h] = Told("ValveStatus")[5 + h] - 1
      BY DEF OwnerHeard
    <3>3. OwnerHeard[h] = owner[h]
      <4>1. Told("ValveStatus")[5 + h] = owner[h] + 1
        BY OwnersTold
      <4>2. (owner[h] + 1) - 1 = owner[h]
        BY <3>1
      <4> QED BY <3>2, <4>1, <4>2
    <3> QED BY <3>3, OwnerTyped
  <2>5. Told("Temperature")[1] \in
          {SensorInvalid} \cup {reading[s] : s \in {s \in SensorSlot :
             config["SENSOR_KIND"][s] = "BoardNtc" /\ Quantity(unit[s]) = "Temperature"}}
    BY TemperatureTold, TemperatureTyped
  <2> QED BY <2>1, <2>2, <2>3, <2>4, <2>5 DEF ViewsAgree
<1> QED BY <1>1, DInvariant, PTL
-----------------------------------------------------------------------------
(***************************************************************************)
(* Cloning a node.  A write sets its element, and one of a kind the seeds,  *)
(* too; whatever order the elements of one object come in, that object ends *)
(* as in the original, and so does a family whose seeds come after kinds.   *)
(***************************************************************************)
LEMMA StoredReaches ==
  ASSUME NEW c, WellFormed(c), NEW o \in Range(ConfigObjects), NEW id \in Ids(o),
         NEW wire \in o.field.legal,
         NEW d, d = Stored(c, o, id, wire)
  PROVE  /\ WellFormed(d)
         /\ d[o.name] = [c[o.name] EXCEPT ![id] = Decode(o.field, wire)]
         /\ Kept(c, d, Touched(o))
<1>1. PICK value : value = Decode(o.field, wire)
  OBVIOUS
<1>2. value \in Storable(o.field)
  BY <1>1, ObjectShape, DecodeStorable
<1>3. WellFormed(d)
  BY StoredWellFormed
<1>4. CASE o.name = "SENSOR_KIND"
  <2>1. o = Object("SENSOR_KIND", NumSlots, Code(KindCodes))
    BY <1>4, NamesDiffer, SensorObjectsNamed DEF Object
  <2>2. id \in SensorSlot /\ value \in Range(KindCodes)
    BY <1>2, <2>1, Codes, ObjectsAssumption DEF Object, Ids, Elements, SensorSlot
  <2>3. d = KindWritten(c, id, value)
    BY <1>1, <1>4 DEF Stored
  <2>4. CASE c["SENSOR_KIND"][id] = value
    <3>1. d = c
      BY <2>3, <2>4 DEF KindWritten
    <3>2. c[o.name] = [k \in Ids(o) |-> c[o.name][k]]
      BY ElementStorable
    <3>3. [c[o.name] EXCEPT ![id] = value] = c[o.name]
      BY <1>4, <2>4, <3>2
    <3> QED BY <1>1, <1>3, <3>1, <3>3 DEF Kept
  <2>5. CASE c["SENSOR_KIND"][id] # value
    <3>1. d = OfKind(c, id, value)
      BY <2>3, <2>5 DEF KindWritten
    <3>2. d["SENSOR_KIND"] = [c["SENSOR_KIND"] EXCEPT ![id] = value]
      BY <2>2, <3>1, KindReaches
    <3>3. Kept(c, d, {"SENSOR_KIND"} \cup SeedNames)
      BY <2>2, <3>1, KindReaches
    <3>4. Touched(o) = {"SENSOR_KIND"} \cup SeedNames
      BY <1>4 DEF Touched
    <3>5. d[o.name] = [c[o.name] EXCEPT ![id] = value]
      BY <1>4, <3>2
    <3> QED BY <1>1, <1>3, <3>3, <3>4, <3>5
  <2> QED BY <2>4, <2>5
<1>5. CASE o.name # "SENSOR_KIND"
  <2>1. d = SetAt(c, o.name, id, value)
    BY <1>1, <1>5 DEF Stored, SetAt
  <2>2. /\ d[o.name] = [c[o.name] EXCEPT ![id] = value]
        /\ \A name \in Names : name # o.name => d[name] = c[name]
    BY <1>2, <2>1, SetElement
  <2>3. Kept(c, d, Touched(o))
    BY <1>5, <2>2 DEF Kept, Touched
  <2> QED BY <1>1, <1>3, <2>2, <2>3
<1> QED BY <1>4, <1>5

\* Induction over an interval, for the set of the numbers something holds of.
LEMMA Climbs ==
  ASSUME NEW n \in Nat, NEW S, 0 \in S, \A k \in 1 .. n : k - 1 \in S => k \in S
  PROVE  \A k \in 0 .. n : k \in S
<1> DEFINE Bad == {k \in 0 .. n : k \notin S}
<1>1. ASSUME Bad # {} PROVE FALSE
  <2>1. Bad \in SUBSET Nat
    OBVIOUS
  <2>2. PICK m \in Bad : \A r \in Bad : m <= r
    <3> HIDE DEF Bad
    <3> QED BY <1>1, <2>1, LeastOf
  <2>3. m \in 1 .. n /\ m \notin S
    <3>1. m # 0
      OBVIOUS
    <3> QED BY <3>1
  <2>4. m - 1 \in 0 .. n /\ ~ (m <= m - 1)
    BY <2>3
  <2>5. m - 1 \notin Bad
    <3> HIDE DEF Bad
    <3> QED BY <2>2, <2>4
  <2> QED BY <2>3, <2>4, <2>5
<1> QED BY <1>1

\* Copying the elements of an object one after another.
LEMMA CopyingDefined ==
  ASSUME NEW c, NEW o \in Range(ConfigObjects)
  PROVE  \E copied :
           /\ copied = [k \in 0 .. Elements(o) |->
                          IF k = 0 THEN c
                          ELSE Stored(copied[k - 1], o, k - 1, ReadBack(config, o, k - 1))]
           /\ WithObject(c, o) = copied[Elements(o)]
<1> DEFINE After(d, k) == Stored(d, o, k - 1, ReadBack(config, o, k - 1))
           Copies(f, m) == f = [k \in 0 .. m |-> IF k = 0 THEN c ELSE After(f[k - 1], k)]
           n == Elements(o)
<1>1. n \in Nat
  BY ObjectShape DEF Elements
<1> HIDE DEF After, n
<1>2. \E f : Copies(f, n)
  <2> DEFINE S == {m \in 0 .. n : \E f : Copies(f, m)}
  <2>1. 0 \in S
    <3>1. PICK f : f = [k \in 0 .. 0 |-> c]
      OBVIOUS
    <3>2. f = [k \in 0 .. 0 |-> IF k = 0 THEN c ELSE After(f[k - 1], k)]
      BY <3>1
    <3> QED BY <1>1, <3>2
  <2>2. ASSUME NEW m \in 1 .. n, m - 1 \in S PROVE m \in S
    <3>1. PICK f : Copies(f, m - 1)
      BY <2>2
    <3>2. PICK g : g = [k \in 0 .. m |-> IF k = m THEN After(f[m - 1], m) ELSE f[k]]
      OBVIOUS
    <3>3. ASSUME NEW k \in 0 .. m
          PROVE  g[k] = IF k = 0 THEN c ELSE After(g[k - 1], k)
      <4>1. CASE k = m
        <5>1. g[k] = After(f[k - 1], k)
          BY <3>2, <4>1
        <5>2. k - 1 \in 0 .. m /\ k - 1 # m /\ k # 0
          BY <1>1, <4>1
        <5>3. g[k - 1] = f[k - 1]
          BY <3>2, <5>2
        <5> QED BY <5>1, <5>2, <5>3
      <4>2. CASE k # m
        <5>1. g[k] = f[k] /\ k \in 0 .. m - 1
          BY <1>1, <3>2, <4>2
        <5>2. f[k] = IF k = 0 THEN c ELSE After(f[k - 1], k)
          BY <3>1, <5>1
        <5>3. CASE k # 0
          <6>1. k - 1 \in 0 .. m /\ k - 1 # m
            BY <1>1, <5>1, <5>3
          <6>2. g[k - 1] = f[k - 1]
            BY <3>2, <6>1
          <6> QED BY <5>1, <5>2, <5>3, <6>2
        <5> QED BY <5>1, <5>2, <5>3
      <4> QED BY <4>1, <4>2
    <3>4. Copies(g, m)
      BY <3>2, <3>3
    <3> QED BY <1>1, <3>4
  <2>3. n \in S
    <3> HIDE DEF S
    <3>1. \A m \in 0 .. n : m \in S
      BY <1>1, <2>1, <2>2, Climbs
    <3> QED BY <1>1, <3>1
  <2> QED BY <2>3
<1>3. PICK copied : copied = CHOOSE f : Copies(f, n)
  OBVIOUS
<1>4. Copies(copied, n)
  BY <1>2, <1>3
<1>5. WithObject(c, o) = copied[n]
  BY <1>3 DEF WithObject, n, After
<1> QED BY <1>4, <1>5 DEF n, After

\* Whatever it held before, the object ends as it is read here.
LEMMA ObjectCopied ==
  ASSUME WellFormed(config), NEW c, WellFormed(c), NEW o \in Range(ConfigObjects),
         NEW d, d = WithObject(c, o)
  PROVE  /\ WellFormed(d)
         /\ d[o.name] = config[o.name]
         /\ Kept(c, d, Touched(o))
<1> DEFINE n == Elements(o)
<1>1. n \in Nat /\ Ids(o) = 0 .. n - 1
  BY ObjectShape DEF Elements, Ids
<1>2. PICK copied :
        /\ copied = [k \in 0 .. n |-> IF k = 0 THEN c
                        ELSE Stored(copied[k - 1], o, k - 1, ReadBack(config, o, k - 1))]
        /\ d = copied[n]
  BY CopyingDefined
<1> HIDE DEF n
<1> DEFINE Done(e, k) == \A id \in Ids(o) : id < k => e[o.name][id] = config[o.name][id]
           S == {k \in 0 .. n : WellFormed(copied[k]) /\ Done(copied[k], k)
                                   /\ Kept(c, copied[k], Touched(o))}
<1>3. 0 \in S
  <2>1. copied[0] = c
    BY <1>1, <1>2
  <2>2. Done(c, 0)
    BY <1>1
  <2>3. Kept(c, c, Touched(o))
    BY DEF Kept
  <2> QED BY <1>1, <2>1, <2>2, <2>3
<1>4. ASSUME NEW m \in 1 .. n, m - 1 \in S PROVE m \in S
  <2>1. PICK e : e = copied[m - 1]
    OBVIOUS
  <2>2. PICK f : f = copied[m]
    OBVIOUS
  <2>3. PICK wire : wire = ReadBack(config, o, m - 1)
    OBVIOUS
  <2>4. m - 1 \in Ids(o)
    BY <1>1
  <2>5. f = Stored(e, o, m - 1, wire)
    BY <1>1, <1>2, <2>1, <2>2, <2>3
  <2>6. wire \in o.field.legal /\ Decode(o.field, wire) = config[o.name][m - 1]
    BY <2>3, <2>4, Restated
  <2>7. WellFormed(e) /\ Done(e, m - 1) /\ Kept(c, e, Touched(o))
    BY <1>4, <2>1
  <2>8. /\ WellFormed(f) /\ Kept(e, f, Touched(o))
        /\ f[o.name] = [e[o.name] EXCEPT ![m - 1] = config[o.name][m - 1]]
    BY <2>4, <2>5, <2>6, <2>7, StoredReaches
  <2>9. Done(f, m)
    <3>1. DOMAIN e[o.name] = Ids(o)
      BY <2>7, ElementStorable
    <3> SUFFICES ASSUME NEW id \in Ids(o), id < m PROVE f[o.name][id] = config[o.name][id]
      OBVIOUS
    <3>2. CASE id = m - 1
      BY <2>8, <3>1, <3>2
    <3>3. CASE id # m - 1
      <4>1. id < m - 1
        BY <1>1, <3>3
      <4> QED BY <2>7, <2>8, <3>1, <3>3, <4>1
    <3> QED BY <3>2, <3>3
  <2>10. Kept(c, f, Touched(o))
    BY <2>7, <2>8 DEF Kept
  <2>11. m \in 0 .. n
    BY <1>1
  <2> QED BY <2>2, <2>8, <2>9, <2>10, <2>11
<1>5. n \in S
  <2> HIDE DEF S
  <2>1. \A m \in 0 .. n : m \in S
    BY <1>1, <1>3, <1>4, Climbs
  <2> QED BY <1>1, <2>1
<1>6. WellFormed(d) /\ Done(d, n) /\ Kept(c, d, Touched(o))
  BY <1>2, <1>5
<1>7. d[o.name] = config[o.name]
  <2>1. \A id \in Ids(o) : d[o.name][id] = config[o.name][id]
    BY <1>1, <1>6
  <2>2. /\ d[o.name] = [id \in Ids(o) |-> d[o.name][id]]
        /\ config[o.name] = [id \in Ids(o) |-> config[o.name][id]]
    BY <1>6, ElementStorable
  <2> QED BY <2>1, <2>2
<1> QED BY <1>6, <1>7

\* Copying the objects of a family one after another.
LEMMA FamilyDefined ==
  ASSUME NEW c, NEW family, Len(family) \in Nat
  PROVE  \E copied :
           /\ copied = [i \in 0 .. Len(family) |->
                          IF i = 0 THEN c ELSE WithObject(copied[i - 1], family[i])]
           /\ WithFamily(c, family) = copied[Len(family)]
<1> DEFINE n == Len(family)
           After(d, i) == WithObject(d, family[i])
           Copies(f, m) == f = [i \in 0 .. m |-> IF i = 0 THEN c ELSE After(f[i - 1], i)]
<1>1. n \in Nat
  OBVIOUS
<1>2. PICK copied : copied = CHOOSE f : Copies(f, n)
  OBVIOUS
<1>3. WithFamily(c, family) = copied[n]
  BY <1>2 DEF WithFamily
<1> HIDE DEF n
<1> HIDE DEF After
<1>4. \E f : Copies(f, n)
  <2> DEFINE S == {m \in 0 .. n : \E f : Copies(f, m)}
  <2>1. 0 \in S
    <3>1. PICK f : f = [i \in 0 .. 0 |-> c]
      OBVIOUS
    <3>2. f = [i \in 0 .. 0 |-> IF i = 0 THEN c ELSE After(f[i - 1], i)]
      BY <3>1
    <3> QED BY <1>1, <3>2
  <2>2. ASSUME NEW m \in 1 .. n, m - 1 \in S PROVE m \in S
    <3>1. PICK f : Copies(f, m - 1)
      BY <2>2
    <3>2. PICK g : g = [i \in 0 .. m |-> IF i = m THEN After(f[m - 1], m) ELSE f[i]]
      OBVIOUS
    <3>3. ASSUME NEW i \in 0 .. m
          PROVE  g[i] = IF i = 0 THEN c ELSE After(g[i - 1], i)
      <4>1. CASE i = m
        <5>1. g[i] = After(f[i - 1], i)
          BY <3>2, <4>1
        <5>2. i - 1 \in 0 .. m /\ i - 1 # m /\ i # 0
          BY <1>1, <4>1
        <5>3. g[i - 1] = f[i - 1]
          BY <3>2, <5>2
        <5> QED BY <5>1, <5>2, <5>3
      <4>2. CASE i # m
        <5>1. g[i] = f[i] /\ i \in 0 .. m - 1
          BY <1>1, <3>2, <4>2
        <5>2. f[i] = IF i = 0 THEN c ELSE After(f[i - 1], i)
          BY <3>1, <5>1
        <5>3. CASE i # 0
          <6>1. i - 1 \in 0 .. m /\ i - 1 # m
            BY <1>1, <5>1, <5>3
          <6>2. g[i - 1] = f[i - 1]
            BY <3>2, <6>1
          <6> QED BY <5>1, <5>2, <5>3, <6>2
        <5> QED BY <5>1, <5>2, <5>3
      <4> QED BY <4>1, <4>2
    <3>4. Copies(g, m)
      BY <3>2, <3>3
    <3> QED BY <1>1, <3>4
  <2>3. n \in S
    <3> HIDE DEF S
    <3>1. \A m \in 0 .. n : m \in S
      BY <1>1, <2>1, <2>2, Climbs
    <3> QED BY <1>1, <3>1
  <2> QED BY <2>3
<1>5. Copies(copied, n)
  BY <1>2, <1>4
<1> QED BY <1>3, <1>5 DEF n, After

\* No object of a family undoes an earlier one or reaches out of the family.
NamesIn(family, n) == {family[i].name : i \in 1 .. n}
Ordered(family, n) ==
  \A i \in 1 .. n :
    /\ family[i] \in Range(ConfigObjects)
    /\ Touched(family[i]) \subseteq NamesIn(family, n)
    /\ \A j \in 1 .. n : j < i => family[j].name \notin Touched(family[i])

LEMMA FamilyCopied ==
  ASSUME WellFormed(config), NEW c, WellFormed(c), NEW family, NEW n \in Nat, n = Len(family),
         Ordered(family, n), NEW d, d = WithFamily(c, family)
  PROVE  /\ WellFormed(d)
         /\ \A i \in 1 .. n : d[family[i].name] = config[family[i].name]
         /\ Kept(c, d, NamesIn(family, n))
<1>1. PICK copied :
        /\ copied = [i \in 0 .. n |-> IF i = 0 THEN c ELSE WithObject(copied[i - 1], family[i])]
        /\ d = copied[n]
  <2>1. \E copied :
          /\ copied = [i \in 0 .. Len(family) |->
                         IF i = 0 THEN c ELSE WithObject(copied[i - 1], family[i])]
          /\ WithFamily(c, family) = copied[Len(family)]
    BY FamilyDefined
  <2> QED BY <2>1
<1> DEFINE Done(e, k) == \A i \in 1 .. n : i <= k => e[family[i].name] = config[family[i].name]
           S == {k \in 0 .. n : WellFormed(copied[k]) /\ Done(copied[k], k)
                                   /\ Kept(c, copied[k], NamesIn(family, n))}
<1>2. 0 \in S
  <2>1. copied[0] = c
    BY <1>1
  <2>2. Kept(c, c, NamesIn(family, n))
    BY DEF Kept
  <2> QED BY <2>1, <2>2
<1>3. ASSUME NEW m \in 1 .. n, m - 1 \in S PROVE m \in S
  <2>1. PICK e : e = copied[m - 1]
    OBVIOUS
  <2>2. PICK f : f = copied[m]
    OBVIOUS
  <2>3. PICK o : o = family[m]
    OBVIOUS
  <2>4. f = WithObject(e, o)
    BY <1>1, <2>1, <2>2, <2>3
  <2>5. /\ o \in Range(ConfigObjects) /\ Touched(o) \subseteq NamesIn(family, n)
        /\ \A j \in 1 .. n : j < m => family[j].name \notin Touched(o)
    BY <2>3 DEF Ordered
  <2>6. WellFormed(e) /\ Done(e, m - 1) /\ Kept(c, e, NamesIn(family, n))
    BY <1>3, <2>1
  <2>7. WellFormed(f) /\ f[o.name] = config[o.name] /\ Kept(e, f, Touched(o))
    BY <2>4, <2>5, <2>6, ObjectCopied
  <2>8. Done(f, m)
    <3> SUFFICES ASSUME NEW i \in 1 .. n, i <= m
                 PROVE  f[family[i].name] = config[family[i].name]
      OBVIOUS
    <3>1. CASE i = m
      BY <2>3, <2>7, <3>1
    <3>2. CASE i # m
      <4>1. i < m /\ i <= m - 1
        BY <3>2
      <4>2. family[i].name \in Names
        BY NamesOfObjects DEF Ordered
      <4>3. f[family[i].name] = e[family[i].name]
        BY <2>5, <2>7, <4>1, <4>2 DEF Kept
      <4> QED BY <2>6, <4>1, <4>3
    <3> QED BY <3>1, <3>2
  <2>9. Kept(c, f, NamesIn(family, n))
    BY <2>5, <2>6, <2>7 DEF Kept
  <2> QED BY <2>2, <2>7, <2>8, <2>9
<1>4. n \in S
  <2> HIDE DEF S
  <2>1. \A m \in 0 .. n : m \in S
    BY <1>2, <1>3, Climbs
  <2> QED BY <2>1
<1> QED BY <1>1, <1>4

\* Only the sensors' family has an object with seeds, and it comes before them.
LEMMA FamiliesOrdered ==
  /\ Ordered(HeartbeatObjects, 1)
  /\ Ordered(FallbackObjects, 8)
  /\ Ordered(ValveObjects, 12)
  /\ Ordered(SensorObjects, 9)
  /\ Ordered(IntervalObjects, 3)
  /\ Ordered(ReliefObjects, 7)
  /\ Ordered(HeatingObjects, 5)
<1>1. ASSUME NEW family, NEW n \in Nat, \A i \in 1 .. n : family[i] \in Range(ConfigObjects),
             \A i \in 1 .. n : family[i].name # "SENSOR_KIND",
             \A i, j \in 1 .. n : j < i => family[j].name # family[i].name
      PROVE  Ordered(family, n)
  <2>1. ASSUME NEW i \in 1 .. n
        PROVE  Touched(family[i]) = {family[i].name} /\ family[i].name \in NamesIn(family, n)
    BY <1>1 DEF Touched, NamesIn
  <2> QED BY <1>1, <2>1 DEF Ordered
<1>2. Ordered(HeartbeatObjects, 1)
  <2>1. \A i \in 1 .. 1 : HeartbeatObjects[i] \in Range(HeartbeatObjects)
    BY DEF HeartbeatObjects, Range
  <2>2. \A i \in 1 .. 1 : HeartbeatObjects[i].name # "SENSOR_KIND"
    BY DEF HeartbeatObjects, Object
  <2> QED BY <1>1, <2>1, <2>2, ConfigRange
<1>3. Ordered(FallbackObjects, 8)
  <2>1. \A i \in 1 .. 8 : FallbackObjects[i] \in Range(FallbackObjects)
    BY DEF FallbackObjects, Range
  <2>2. /\ \A i \in 1 .. 8 : FallbackObjects[i].name # "SENSOR_KIND"
        /\ \A i, j \in 1 .. 8 : j < i => FallbackObjects[j].name # FallbackObjects[i].name
    BY DEF FallbackObjects, Object
  <2> QED BY <1>1, <2>1, <2>2, ConfigRange
<1>4. Ordered(ValveObjects, 12)
  <2>1. \A i \in 1 .. 12 : ValveObjects[i] \in Range(ValveObjects)
    BY DEF ValveObjects, Range
  <2>2. /\ \A i \in 1 .. 12 : ValveObjects[i].name # "SENSOR_KIND"
        /\ \A i, j \in 1 .. 12 : j < i => ValveObjects[j].name # ValveObjects[i].name
    BY DEF ValveObjects, Object
  <2> QED BY <1>1, <2>1, <2>2, ConfigRange
<1>5. Ordered(IntervalObjects, 3)
  <2>1. \A i \in 1 .. 3 : IntervalObjects[i] \in Range(IntervalObjects)
    BY DEF IntervalObjects, Range
  <2>2. /\ \A i \in 1 .. 3 : IntervalObjects[i].name # "SENSOR_KIND"
        /\ \A i, j \in 1 .. 3 : j < i => IntervalObjects[j].name # IntervalObjects[i].name
    BY DEF IntervalObjects, Object
  <2> QED BY <1>1, <2>1, <2>2, ConfigRange
<1>6. Ordered(ReliefObjects, 7)
  <2>1. \A i \in 1 .. 7 : ReliefObjects[i] \in Range(ReliefObjects)
    BY DEF ReliefObjects, Range
  <2>2. /\ \A i \in 1 .. 7 : ReliefObjects[i].name # "SENSOR_KIND"
        /\ \A i, j \in 1 .. 7 : j < i => ReliefObjects[j].name # ReliefObjects[i].name
    BY DEF ReliefObjects, Object
  <2> QED BY <1>1, <2>1, <2>2, ConfigRange
<1>7. Ordered(HeatingObjects, 5)
  <2>1. \A i \in 1 .. 5 : HeatingObjects[i] \in Range(HeatingObjects)
    BY DEF HeatingObjects, Range
  <2>2. /\ \A i \in 1 .. 5 : HeatingObjects[i].name # "SENSOR_KIND"
        /\ \A i, j \in 1 .. 5 : j < i => HeatingObjects[j].name # HeatingObjects[i].name
    BY DEF HeatingObjects, Object
  <2> QED BY <1>1, <2>1, <2>2, ConfigRange
<1>8. Ordered(SensorObjects, 9)
  <2>1. \A i \in 1 .. 9 : SensorObjects[i] \in Range(SensorObjects)
    BY DEF SensorObjects, Range
  <2>2. /\ \A i, j \in 1 .. 9 : j < i => SensorObjects[j].name # SensorObjects[i].name
        /\ \A i \in 1 .. 9 : SensorObjects[i].name = "SENSOR_KIND" => i = 3
        /\ \A i \in 1 .. 9 : SensorObjects[i].name \in SeedNames => i > 3
    BY DEF SensorObjects, Object, SeedNames
  <2>3. /\ SensorObjects[4].name = "SENSOR_OFFSET" /\ SensorObjects[5].name = "SENSOR_SLOPE"
        /\ SensorObjects[6].name = "SENSOR_UNIT_CFG" /\ SensorObjects[7].name = "SENSOR_CONSTANT"
    BY DEF SensorObjects, Object
  <2>4. SeedNames \subseteq NamesIn(SensorObjects, 9)
    BY <2>3 DEF SeedNames, NamesIn
  <2>5. ASSUME NEW i \in 1 .. 9
        PROVE  Touched(SensorObjects[i]) \subseteq NamesIn(SensorObjects, 9)
    BY <2>4 DEF Touched, NamesIn
  <2>6. ASSUME NEW i \in 1 .. 9, NEW j \in 1 .. 9, j < i
        PROVE  SensorObjects[j].name \notin Touched(SensorObjects[i])
    BY <2>2, <2>6 DEF Touched
  <2>7. \A i \in 1 .. 9 : SensorObjects[i] \in Range(ConfigObjects)
    BY <2>1, ConfigRange
  <2> QED BY <2>5, <2>6, <2>7 DEF Ordered
<1> QED BY <1>2, <1>3, <1>4, <1>5, <1>6, <1>7, <1>8

(***************************************************************************)
(* Whatever was written to a node before, what is read from it reproduces   *)
(* its configuration on a node with any factory defaults, family by family, *)
(* although a write of a kind re-seeds the calibration of its slot.         *)
(***************************************************************************)
THEOREM ClonesReproduce == Spec => []CloneReproduces
<1> DEFINE Cloned(target, family) ==
             WithFamily(target, family) =
               [name \in Names |-> IF name \in {family[i].name : i \in DOMAIN family}
                                   THEN config[name] ELSE target[name]]
<1>1. ASSUME DInv, NEW target \in Factories, NEW family, NEW n \in Nat, n = Len(family),
             DOMAIN family = 1 .. n, Ordered(family, n)
      PROVE  Cloned(target, family)
  <2>1. PICK d : d = WithFamily(target, family)
    OBVIOUS
  <2>2. WellFormed(config) /\ WellFormed(target)
    BY <1>1, DictionaryAssumption DEF DInv, WellTyped
  <2>3. /\ WellFormed(d)
        /\ \A i \in 1 .. n : d[family[i].name] = config[family[i].name]
        /\ Kept(target, d, NamesIn(family, n))
    BY <1>1, <2>1, <2>2, FamilyCopied
  <2>4. d = [name \in Names |-> d[name]]
    BY <2>3 DEF WellFormed
  <2>5. NamesIn(family, n) = {family[i].name : i \in DOMAIN family}
    BY <1>1 DEF NamesIn
  <2>6. ASSUME NEW name \in Names
        PROVE  d[name] = IF name \in NamesIn(family, n) THEN config[name] ELSE target[name]
    BY <2>3 DEF Kept, NamesIn
  <2> QED BY <2>1, <2>4, <2>5, <2>6
<1>2. ASSUME DInv, NEW target \in Factories
      PROVE  /\ Cloned(target, HeartbeatObjects) /\ Cloned(target, FallbackObjects)
             /\ Cloned(target, ValveObjects) /\ Cloned(target, SensorObjects)
             /\ Cloned(target, IntervalObjects) /\ Cloned(target, ReliefObjects)
             /\ Cloned(target, HeatingObjects)
  <2> HIDE DEF Cloned
  <2>1. /\ Len(HeartbeatObjects) = 1 /\ DOMAIN HeartbeatObjects = 1 .. 1
        /\ Len(FallbackObjects) = 8 /\ DOMAIN FallbackObjects = 1 .. 8
        /\ Len(ValveObjects) = 12 /\ DOMAIN ValveObjects = 1 .. 12
        /\ Len(SensorObjects) = 9 /\ DOMAIN SensorObjects = 1 .. 9
        /\ Len(IntervalObjects) = 3 /\ DOMAIN IntervalObjects = 1 .. 3
        /\ Len(ReliefObjects) = 7 /\ DOMAIN ReliefObjects = 1 .. 7
        /\ Len(HeatingObjects) = 5 /\ DOMAIN HeatingObjects = 1 .. 5
    BY DEF HeartbeatObjects, FallbackObjects, ValveObjects, SensorObjects, IntervalObjects,
           ReliefObjects, HeatingObjects
  <2>2. Cloned(target, HeartbeatObjects)
    BY <1>1, <1>2, <2>1, FamiliesOrdered
  <2>3. Cloned(target, FallbackObjects)
    BY <1>1, <1>2, <2>1, FamiliesOrdered
  <2>4. Cloned(target, ValveObjects)
    BY <1>1, <1>2, <2>1, FamiliesOrdered
  <2>5. Cloned(target, SensorObjects)
    BY <1>1, <1>2, <2>1, FamiliesOrdered
  <2>6. Cloned(target, IntervalObjects)
    BY <1>1, <1>2, <2>1, FamiliesOrdered
  <2>7. Cloned(target, ReliefObjects)
    BY <1>1, <1>2, <2>1, FamiliesOrdered
  <2>8. Cloned(target, HeatingObjects)
    BY <1>1, <1>2, <2>1, FamiliesOrdered
  <2> QED BY <2>2, <2>3, <2>4, <2>5, <2>6, <2>7, <2>8
<1>3. ASSUME DInv PROVE CloneReproduces
  <2> HIDE DEF Cloned
  <2>1. ASSUME NEW f \in DOMAIN ObjectFamilies
        PROVE  ObjectFamilies[f] \in {HeartbeatObjects, FallbackObjects, ValveObjects,
                 SensorObjects, IntervalObjects, ReliefObjects, HeatingObjects}
    BY DEF ObjectFamilies
  <2>2. \A target \in Factories, f \in DOMAIN ObjectFamilies : Cloned(target, ObjectFamilies[f])
    BY <1>2, <1>3, <2>1
  <2> QED BY <2>2 DEF CloneReproduces, Cloned
<1> QED BY <1>3, DInvariant, PTL
=============================================================================
