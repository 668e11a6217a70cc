----------------------------- MODULE Sensors_proofs -----------------------------
(***************************************************************************)
(* What the sensor task publishes, for any number of buses, amplifiers and  *)
(* slots, any registers the devices answer and any cables, faults and       *)
(* writes: nothing frozen, nothing incoherent, nothing invented.            *)
(***************************************************************************)
EXTENDS Sensors, FiniteSetTheorems, SequenceTheorems, WellFoundedInduction, TLAPS

(* The addresses.                                                           *)
NumTargets == NumAdcSlots + NumBuses

\* The scan order is an interval from zero.
LEMMA Targets ==
  /\ NumTargets \in Nat \ {0} /\ Target = 0 .. NumTargets - 1
  /\ IsFiniteSet(Target) /\ Cardinality(Target) = NumTargets
<1>1. NumAdcSlots \in Nat /\ NumBuses \in Nat \ {0}
  BY SensorsAssumption DEF NumAdcSlots
<1>2. NumTargets \in Nat \ {0} /\ Target = 0 .. NumTargets - 1
  BY <1>1 DEF NumTargets, Target
<1>3. IsFiniteSet(0 .. NumTargets - 1) /\ Cardinality(0 .. NumTargets - 1) = NumTargets
  BY <1>2, FS_Interval
<1> QED BY <1>2, <1>3

\* The next address follows, and the last is followed by the first.
LEMMA NextTarget ==
  ASSUME NEW t \in Target
  PROVE  /\ (t + 1) % Cardinality(Target) \in Target
         /\ t + 1 \in Target => (t + 1) % Cardinality(Target) = t + 1
         /\ t + 1 \notin Target => (t + 1) % Cardinality(Target) = 0 /\ t = NumTargets - 1
<1>1. t \in 0 .. NumTargets - 1 /\ NumTargets \in Nat \ {0}
  BY Targets
<1>2. CASE t = NumTargets - 1
  <2>1. t + 1 = NumTargets /\ NumTargets % NumTargets = 0
    BY <1>1, <1>2
  <2> QED BY <1>1, <1>2, <2>1, Targets
<1>3. CASE t + 1 \in 0 .. NumTargets - 1
  <2>1. (t + 1) % NumTargets = t + 1
    BY <1>1, <1>3
  <2> QED BY <1>1, <1>3, <2>1, Targets
<1> QED BY <1>1, <1>2, <1>3

\* A slot reads at most one device, and never a device and a pin.
LEMMA OneSource ==
  ASSUME NEW c
  PROVE  /\ Devices(c) # {} => Pins(c) = {}
         /\ \A t \in Devices(c) : Devices(c) = {t}
<1>1. Devices(c) # {} => IsOnI2c(c.kind)
  BY DEF Devices, IsOnI2c, Ntcs
<1>2. IsOnI2c(c.kind) => Pins(c) = {}
  BY DEF IsOnI2c, Ntcs, Pins
<1>3. Devices(c) = {} \/ Devices(c) = {Encoder(c.bus)} \/ Devices(c) = {AdcSlot(c.bus, c.amplifier)}
  BY DEF Devices
<1> QED BY <1>1, <1>2, <1>3

\* The devices and pins a well-formed slot names exist.
LEMMA SourcesExist ==
  ASSUME NEW c \in SensorSlotConfig
  PROVE  Devices(c) \subseteq Target /\ Pins(c) \subseteq AnalogInput
<1>1. Pins(c) \subseteq AnalogInput
  BY SensorsAssumption DEF Pins, SensorSlotConfig
<1>2. CASE Devices(c) = {}
  BY <1>1, <1>2
<1>3. CASE Devices(c) # {}
  <2>1. /\ c.bus \in 0 .. NumBuses - 1 /\ c.amplifier \in 0 .. NumAmplifiers - 1
        /\ Devices(c) = {Encoder(c.bus)} \/ Devices(c) = {AdcSlot(c.bus, c.amplifier)}
    BY <1>3 DEF Devices, SensorSlotConfig
  <2>2. PICK B \in Nat \ {0}, A \in Nat \ {0}, b \in 0 .. NumBuses - 1, a \in 0 .. NumAmplifiers - 1 :
          B = NumBuses /\ A = NumAmplifiers /\ b = c.bus /\ a = c.amplifier
    BY <2>1, SensorsAssumption
  <2>3. B * A = (B - 1) * A + A /\ b * A <= (B - 1) * A /\ b * A \in Nat /\ B * A \in Nat
    BY <2>2
  <2>4. Encoder(c.bus) \in Target /\ AdcSlot(c.bus, c.amplifier) \in Target
    BY <2>2, <2>3 DEF Encoder, AdcSlot, NumAdcSlots, Target
  <2> QED BY <1>1, <2>1, <2>4
<1> QED BY <1>2, <1>3
-----------------------------------------------------------------------------
(***************************************************************************)
(* The devices and what is believed of them.                                *)
(***************************************************************************)
BusTypeOK ==
  /\ connected \subseteq Target /\ present \subseteq Target /\ steady \subseteq connected
  /\ absent \subseteq Target \ connected
  /\ phase \in {"wait", "sample", "scan", "publish"}
  /\ at \in Target /\ next \in Target
  /\ raw = [t \in Target |-> raw[t]]
  /\ {lost, unplugs, faults, missing, sweeps, writes} \subseteq Nat

\* The devices the sampling loop has been to in this cycle.
Visited == IF phase = "sample" THEN 0 .. at - 1 ELSE Target

\* A reading comes from a device believed present.
ReadingsOwned == \A t \in Visited : raw[t] # RawInvalid => t \in present

\* A device absent since the cycle began has lost its reading once visited.
AbsentSilent == \A t \in Visited \cap absent : raw[t] = RawInvalid

\* Devices believed present that are gone are the ones still to be counted lost.
LossesCovered == Cardinality(present \ connected) + lost <= unplugs + faults

\* The first sweep finds every steady device it has passed.
SteadyFound ==
  sweeps = 0 => missing = 0 /\ \A t \in 0 .. next - 1 : t \in steady => t \in present

BusInv ==
  /\ BusTypeOK /\ magnet \subseteq {t \in present : IsEncoder(t)}
  /\ ReadingsOwned /\ AbsentSilent /\ LossesCovered /\ SteadyFound

\* Sets of devices are finite.
LEMMA DevicesFinite ==
  ASSUME NEW S \in SUBSET Target
  PROVE  IsFiniteSet(S) /\ Cardinality(S) \in Nat
BY Targets, FS_Subset, FS_CardinalityType

\* Nothing is believed at boot.
LEMMA BusStarts == Init => BusInv
<1> SUFFICES ASSUME Init PROVE BusInv
  OBVIOUS
<1>1. /\ connected \subseteq Target /\ phase = "wait" /\ at = 0 /\ next = 0
      /\ raw = [t \in Target |-> RawInvalid] /\ present = {} /\ magnet = {}
      /\ sweeps = 0 /\ lost = 0 /\ missing = 0 /\ unplugs = 0 /\ faults = 0 /\ writes = 0
      /\ absent = Target \ connected /\ steady = connected
  BY DEF Init
<1>2. 0 \in Target
  BY Targets
<1>3. BusTypeOK
  BY <1>1, <1>2 DEF BusTypeOK
<1>4. Cardinality(present \ connected) = 0
  BY <1>1, FS_EmptySet
<1> QED BY <1>1, <1>3, <1>4
        DEF BusInv, ReadingsOwned, AbsentSilent, LossesCovered, SteadyFound, Visited

\* The sampling loop has visited one device more, or it is done.
LEMMA AdvanceVisits ==
  ASSUME NEW t \in Target, Sampling(t), Advance(t)
  PROVE  /\ Visited' = Visited \cup {t} /\ t \notin Visited
         /\ at' \in Target /\ phase' \in {"sample", "scan"}
<1>1. phase = "sample" /\ at = t /\ Visited = 0 .. t - 1
  BY DEF Sampling, Visited
<1>2. at' = (t + 1) % Cardinality(Target) /\ phase' = IF t + 1 \in Target THEN "sample" ELSE "scan"
  BY DEF Advance
<1>3. t \in Nat /\ Target = 0 .. NumTargets - 1 /\ NumTargets \in Nat \ {0}
  BY Targets
<1>4. CASE t + 1 \in Target
  <2>1. phase' = "sample" /\ at' = t + 1
    BY <1>2, <1>4, NextTarget
  <2>2. Visited' = 0 .. t
    BY <1>3, <2>1 DEF Visited
  <2> QED BY <1>1, <1>3, <1>4, <2>1, <2>2
<1>5. CASE t + 1 \notin Target
  <2>1. phase' = "scan" /\ t = NumTargets - 1 /\ at' = 0
    BY <1>2, <1>5, NextTarget
  <2>2. Visited' = 0 .. t
    BY <1>3, <2>1 DEF Visited, Target, NumTargets
  <2> QED BY <1>1, <1>3, <2>1, <2>2
<1> QED BY <1>4, <1>5

\* Losses of an unchanged belief in an unchanged set of cables stay covered.
LEMMA SampledKeepsBus ==
  ASSUME BusInv, NEW t \in Target,
         PassOver(t) \/ ReadAmplifier(t) \/ ReadEncoder(t)
  PROVE  BusInv'
<1>1. /\ Sampling(t) /\ Advance(t)
      /\ UNCHANGED <<connected, present, steady, absent, next, lost, unplugs, faults, missing,
                     sweeps, writes>>
  BY DEF PassOver, ReadAmplifier, ReadEncoder, store, scan, env
<1>2. \E r : /\ raw' = [raw EXCEPT ![t] = r]
             /\ r # RawInvalid => t \in present \cap connected
  BY DEF PassOver, ReadAmplifier, ReadEncoder
<1>3. PICK r : raw' = [raw EXCEPT ![t] = r] /\ (r # RawInvalid => t \in present \cap connected)
  BY <1>2
<1>4. magnet' \subseteq {u \in present : IsEncoder(u)}
  BY <1>1 DEF PassOver, ReadAmplifier, ReadEncoder, BusInv
<1>5. /\ Visited' = Visited \cup {t} /\ t \notin Visited
      /\ at' \in Target /\ phase' \in {"sample", "scan"} /\ phase = "sample"
  BY <1>1, AdvanceVisits DEF Sampling
<1>6. raw' = [u \in Target |-> raw'[u]] /\ raw'[t] = r /\ \A u \in Target \ {t} : raw'[u] = raw[u]
  BY <1>3 DEF BusInv, BusTypeOK
<1>7. Visited \subseteq Target
  BY Targets DEF Visited, BusInv, BusTypeOK
<1>8. BusTypeOK'
  BY <1>1, <1>5, <1>6 DEF BusInv, BusTypeOK
<1>9. ReadingsOwned'
  BY <1>1, <1>3, <1>5, <1>6, <1>7 DEF BusInv, ReadingsOwned
<1>10. AbsentSilent'
  BY <1>1, <1>3, <1>5, <1>6, <1>7 DEF BusInv, AbsentSilent, BusTypeOK
<1>11. LossesCovered' /\ SteadyFound'
  BY <1>1 DEF BusInv, LossesCovered, SteadyFound
<1> QED BY <1>1, <1>4, <1>8, <1>9, <1>10, <1>11 DEF BusInv

\* A failed transfer is a loss: of a device that is gone, or one of the faults.
LEMMA FailureKeepsBus ==
  ASSUME BusInv, NEW t \in Target, ReadFails(t)
  PROVE  BusInv'
<1>1. /\ Sampling(t) /\ Advance(t) /\ t \in present
      /\ raw' = [raw EXCEPT ![t] = RawInvalid] /\ present' = present \ {t}
      /\ magnet' = magnet \ {t} /\ lost' = lost + 1 /\ steady' = steady \ {t}
      /\ UNCHANGED <<connected, absent, next, unplugs, missing, sweeps, writes>>
  BY DEF ReadFails, NoReading, NoMagnet, store, scan, env
<1>2. \/ t \notin connected /\ faults' = faults
      \/ t \in connected /\ faults' = faults + 1
  BY DEF ReadFails
<1>3. /\ Visited' = Visited \cup {t} /\ t \notin Visited
      /\ at' \in Target /\ phase' \in {"sample", "scan"} /\ phase = "sample"
  BY <1>1, AdvanceVisits DEF Sampling
<1>4. /\ raw' = [u \in Target |-> raw'[u]] /\ raw'[t] = RawInvalid
      /\ \A u \in Target \ {t} : raw'[u] = raw[u]
  BY <1>1 DEF BusInv, BusTypeOK
<1>5. Visited \subseteq Target
  BY Targets DEF Visited, BusInv, BusTypeOK
<1>6. BusTypeOK'
  BY <1>1, <1>2, <1>3, <1>4 DEF BusInv, BusTypeOK
<1>7. ReadingsOwned'
  BY <1>1, <1>3, <1>4, <1>5 DEF BusInv, ReadingsOwned
<1>8. AbsentSilent'
  BY <1>1, <1>3, <1>4, <1>5 DEF BusInv, AbsentSilent
<1>9. LossesCovered'
  <2>1. present \ connected \in SUBSET Target
    BY DEF BusInv, BusTypeOK
  <2>2. IsFiniteSet(present \ connected) /\ Cardinality(present \ connected) \in Nat
    BY <2>1, DevicesFinite
  <2>3. present' \ connected' = (present \ connected) \ {t}
    BY <1>1
  <2>4. Cardinality((present \ connected) \ {t})
          = IF t \in present \ connected THEN Cardinality(present \ connected) - 1
            ELSE Cardinality(present \ connected)
    BY <2>2, FS_RemoveElement
  <2>5. lost \in Nat /\ unplugs \in Nat /\ faults \in Nat
    BY DEF BusInv, BusTypeOK
  <2>6. Cardinality(present \ connected) + lost <= unplugs + faults
    BY DEF BusInv, LossesCovered
  <2>7. Cardinality(present' \ connected') + lost' <= unplugs' + faults'
    <3> DEFINE n == Cardinality(present \ connected)
    <3>1. Cardinality(present' \ connected') = IF t \in connected THEN n ELSE n - 1
      BY <1>1, <2>3, <2>4
    <3> HIDE DEF n
    <3> QED BY <1>1, <1>2, <2>2, <2>5, <2>6, <3>1 DEF n
  <2> QED BY <2>7 DEF LossesCovered
<1>10. SteadyFound'
  BY <1>1 DEF BusInv, SteadyFound
<1>11. magnet' \subseteq {u \in present' : IsEncoder(u)}
  BY <1>1 DEF BusInv
<1> QED BY <1>6, <1>7, <1>8, <1>9, <1>10, <1>11 DEF BusInv

\* A probe believes only what is connected, and passes no steady device unfound.
LEMMA ProbeKeepsBus ==
  ASSUME BusInv, ScanStep
  PROVE  BusInv'
<1>1. /\ phase = "scan" /\ phase' = "publish"
      /\ next' = (next + 1) % Cardinality(Target)
      /\ sweeps' = IF next' = 0 /\ sweeps < SweepCap THEN sweeps + 1 ELSE sweeps
      /\ missing' = IF next' = 0 /\ sweeps = 0
                    THEN missing + Cardinality(Missing(copy, present')) ELSE missing
      /\ UNCHANGED <<connected, absent, at, raw, magnet, lost, unplugs, writes>>
  BY DEF ScanStep, AfterTarget, Wrapped, store, env
<1>2. \/ /\ present' = present \cup ({next} \cap connected)
         /\ UNCHANGED <<faults, steady>>
      \/ /\ faults' = faults + 1 /\ steady' = steady \ {next} /\ present' = present
  BY DEF ScanStep
<1>3. next' \in Target /\ next \in Target /\ SweepCap \in Nat \ {0}
  BY <1>1, NextTarget, SensorsAssumption DEF BusInv, BusTypeOK
<1>4. present \subseteq present' /\ present' \subseteq Target /\ steady' \subseteq steady
      /\ present' \ connected' = present \ connected
      /\ (next \in steady' => next \in present')
  BY <1>1, <1>2 DEF BusInv, BusTypeOK
<1>5. Visited' = Visited
  BY <1>1 DEF Visited
<1>6. missing' \in Nat /\ sweeps' \in Nat /\ faults' \in Nat
  <2>1. Missing(copy, present') \subseteq 0 .. NumSlots - 1
    BY DEF Missing, Slot
  <2>2. IsFiniteSet(0 .. NumSlots - 1)
    <3>1. 0 \in Int /\ NumSlots - 1 \in Int
      BY SensorsAssumption
    <3> QED BY ONLY <3>1, FS_Interval
  <2>3. Cardinality(Missing(copy, present')) \in Nat
    BY <2>1, <2>2, FS_Subset, FS_CardinalityType
  <2>4. missing \in Nat /\ sweeps \in Nat /\ faults \in Nat
    BY DEF BusInv, BusTypeOK
  <2>5. faults' \in Nat
    BY <1>2, <2>4
  <2>6. sweeps' \in Nat
    BY <1>1, <2>4
  <2>7. missing' \in Nat
    <3> DEFINE gone == Cardinality(Missing(copy, present'))
    <3>1. gone \in Nat /\ missing' \in {missing, missing + gone}
      BY <1>1, <2>3
    <3> HIDE DEF gone
    <3> QED BY <2>4, <3>1
  <2> QED BY <2>5, <2>6, <2>7
<1>7. BusTypeOK'
  BY <1>1, <1>3, <1>4, <1>6 DEF BusInv, BusTypeOK
<1>8. ReadingsOwned' /\ AbsentSilent' /\ magnet' \subseteq {t \in present' : IsEncoder(t)}
  BY <1>1, <1>4, <1>5 DEF BusInv, ReadingsOwned, AbsentSilent
<1>9. LossesCovered'
  <2>1. faults' >= faults /\ faults' \in Nat /\ faults \in Nat
    BY <1>2, <1>6 DEF BusInv, BusTypeOK
  <2>2. Cardinality(present \ connected) \in Nat
    BY DevicesFinite DEF BusInv, BusTypeOK
  <2>3. lost \in Nat /\ unplugs \in Nat /\ lost' = lost /\ unplugs' = unplugs
    BY <1>1 DEF BusInv, BusTypeOK
  <2>4. Cardinality(present \ connected) + lost <= unplugs + faults
    BY DEF BusInv, LossesCovered
  <2>5. Cardinality(present' \ connected') = Cardinality(present \ connected)
    BY <1>4
  <2> HIDE DEF BusInv
  <2>6. Cardinality(present' \ connected') + lost' <= unplugs' + faults'
    BY <2>1, <2>2, <2>3, <2>4, <2>5
  <2> QED BY <2>6 DEF LossesCovered
<1>10. SteadyFound'
  <2> SUFFICES ASSUME sweeps' = 0
               PROVE  missing' = 0 /\ \A t \in 0 .. next' - 1 : t \in steady' => t \in present'
    BY DEF SteadyFound
  <2>1. sweeps = 0 /\ next' # 0
    <3>1. sweeps \in Nat
      BY DEF BusInv, BusTypeOK
    <3> QED BY <1>1, <1>3, <3>1
  <2>2. missing = 0 /\ \A t \in 0 .. next - 1 : t \in steady => t \in present
    BY <2>1 DEF BusInv, SteadyFound
  <2>3. next' = next + 1 /\ next \in Nat
    BY <1>1, <1>3, <2>1, NextTarget, Targets
  <2>4. missing' = 0
    BY <1>1, <2>1, <2>2
  <2> QED BY <1>4, <2>2, <2>3, <2>4
<1> QED BY <1>7, <1>8, <1>9, <1>10 DEF BusInv

\* Cables come and go between any two steps.
LEMMA CablesKeepBus ==
  ASSUME BusInv, NEW t \in Target, Plug(t) \/ Unplug(t)
  PROVE  BusInv'
<1>1. /\ UNCHANGED <<phase, at, raw, present, magnet, next, sweeps, missing, lost, faults, writes>>
      /\ \/ /\ t \notin connected /\ connected' = connected \cup {t} /\ absent' = absent \ {t}
            /\ UNCHANGED <<unplugs, steady>>
         \/ /\ t \in connected /\ connected' = connected \ {t} /\ steady' = steady \ {t}
            /\ unplugs' = unplugs + 1 /\ UNCHANGED absent
  BY DEF Plug, Unplug, scan
<1>2. absent' \subseteq absent /\ steady' \subseteq steady /\ Visited' = Visited
  BY <1>1 DEF Visited
<1>3. BusTypeOK'
  BY <1>1 DEF BusInv, BusTypeOK
<1>4. ReadingsOwned' /\ AbsentSilent' /\ SteadyFound'
  BY <1>1, <1>2 DEF BusInv, ReadingsOwned, AbsentSilent, SteadyFound
<1>5. LossesCovered'
  <2>1. IsFiniteSet(present \ connected) /\ Cardinality(present \ connected) \in Nat
    BY DevicesFinite DEF BusInv, BusTypeOK
  <2>2. IsFiniteSet((present \ connected) \cup {t})
        /\ Cardinality((present \ connected) \cup {t}) <= Cardinality(present \ connected) + 1
    BY <2>1, FS_AddElement
  <2>3. /\ present' \ connected' \in SUBSET ((present \ connected) \cup {t})
        /\ unplugs' = unplugs => present' \ connected' \in SUBSET (present \ connected)
    <3>1. unplugs \in Nat /\ unplugs + 1 # unplugs
      BY DEF BusInv, BusTypeOK
    <3>2. CASE connected' = connected \cup {t} /\ unplugs' = unplugs
      BY <1>1, <3>2
    <3>3. CASE connected' = connected \ {t} /\ unplugs' = unplugs + 1
      BY <1>1, <3>1, <3>3
    <3> QED BY <1>1, <3>2, <3>3
  <2>4. /\ Cardinality(present' \ connected') <= Cardinality((present \ connected) \cup {t})
        /\ unplugs' = unplugs => Cardinality(present' \ connected') <= Cardinality(present \ connected)
    BY <2>1, <2>2, <2>3, FS_Subset
  <2>5. Cardinality((present \ connected) \cup {t}) \in Nat
    BY <2>2, FS_CardinalityType
  <2>6. Cardinality(present' \ connected') \in Nat
    BY <2>2, <2>3, FS_Subset, FS_CardinalityType
  <2>7. /\ lost \in Nat /\ unplugs \in Nat /\ faults \in Nat /\ lost' = lost /\ faults' = faults
        /\ unplugs' = unplugs \/ unplugs' = unplugs + 1
        /\ Cardinality(present \ connected) + lost <= unplugs + faults
    BY <1>1 DEF BusInv, BusTypeOK, LossesCovered
  <2>8. Cardinality(present' \ connected') + lost' <= unplugs' + faults'
    <3> DEFINE n == Cardinality(present \ connected)
               m == Cardinality((present \ connected) \cup {t})
               k == Cardinality(present' \ connected')
    <3>1. /\ n \in Nat /\ m \in Nat /\ k \in Nat /\ m <= n + 1 /\ k <= m
          /\ (unplugs' = unplugs => k <= n) /\ n + lost <= unplugs + faults
      BY <2>1, <2>2, <2>4, <2>5, <2>6, <2>7
    <3> HIDE DEF n, m, k
    <3>2. k + lost' <= unplugs' + faults'
      BY <2>7, <3>1
    <3> QED BY <3>2 DEF k
  <2> QED BY <2>8 DEF LossesCovered
<1> QED BY <1>1, <1>3, <1>4, <1>5 DEF BusInv

\* Whatever happens next, what is believed of the devices stays honest.
LEMMA StepKeepsBus ==
  ASSUME BusInv, [Next]_vars
  PROVE  BusInv'
<1>1. ASSUME NEW t \in Target, PassOver(t) \/ ReadAmplifier(t) \/ ReadEncoder(t) PROVE BusInv'
  BY <1>1, SampledKeepsBus
<1>2. ASSUME NEW t \in Target, ReadFails(t) PROVE BusInv'
  BY <1>2, FailureKeepsBus
<1>3. ASSUME NEW t \in Target, Plug(t) \/ Unplug(t) PROVE BusInv'
  BY <1>3, CablesKeepBus
<1>4. CASE ScanStep
  BY <1>4, ProbeKeepsBus
<1>5. CASE Begin
  <2>1. /\ phase' = "sample" /\ at' = 0 /\ absent' = Target \ connected
        /\ steady' = IF sweeps = 0 THEN steady ELSE {}
        /\ UNCHANGED <<connected, raw, present, magnet, next, sweeps, missing, lost, unplugs,
                       faults, writes>>
    BY <1>5 DEF Begin, scan
  <2>2. Visited' = {} /\ 0 \in Target
    BY <2>1, Targets DEF Visited
  <2>3. BusTypeOK'
    BY <2>1, <2>2 DEF BusInv, BusTypeOK
  <2>4. LossesCovered'
    BY <2>1 DEF BusInv, LossesCovered
  <2> QED BY <2>1, <2>2, <2>3, <2>4 DEF BusInv, ReadingsOwned, AbsentSilent, SteadyFound
<1>6. CASE ScanNotDue \/ Publish \/ (\E s \in Slot : Write(s)) \/ Restore \/ UNCHANGED vars
  <2>1. /\ UNCHANGED <<connected, at, absent, steady, raw, present, magnet, next, sweeps, missing,
                       lost, unplugs, faults>>
        /\ (phase' = "sample") <=> (phase = "sample")
        /\ phase' \in {"wait", "publish", phase} /\ writes' \in {writes, writes + 1}
    BY <1>6 DEF ScanNotDue, Publish, Write, Restore, vars, scan, env
  <2>2. Visited' = Visited
    BY <2>1 DEF Visited
  <2>3. BusTypeOK'
    BY <2>1 DEF BusInv, BusTypeOK
  <2>4. LossesCovered'
    BY <2>1 DEF BusInv, LossesCovered
  <2> QED BY <2>1, <2>2, <2>3, <2>4 DEF BusInv, ReadingsOwned, AbsentSilent, SteadyFound
<1> QED BY <1>1, <1>2, <1>3, <1>4, <1>5, <1>6 DEF Next, Cycle

LEMMA BusInvariant == Spec => []BusInv
BY BusStarts, StepKeepsBus, PTL DEF Spec

(***************************************************************************)
(* The presence word is honest: a magnet bit and a reading belong to a      *)
(* device believed present, and a connector that opens once is counted as   *)
(* lost at most once, for any devices and any faults of the bus.            *)
(***************************************************************************)
THEOREM PresenceTrue == Spec => []PresenceHonest
<1>1. BusInv => PresenceHonest
  <2> SUFFICES ASSUME BusInv PROVE PresenceHonest
    OBVIOUS
  <2>1. lost <= unplugs + faults
    <3>1. Cardinality(present \ connected) \in Nat
      BY DevicesFinite DEF BusInv, BusTypeOK
    <3> QED BY <3>1 DEF BusInv, BusTypeOK, LossesCovered
  <2>2. phase # "sample" => \A t \in Target : raw[t] # RawInvalid => t \in present
    BY DEF BusInv, ReadingsOwned, Visited
  <2> QED BY <2>1, <2>2 DEF BusInv, PresenceHonest
<1> QED BY <1>1, BusInvariant, PTL

(***************************************************************************)
(* SensorMissingAtBoot counts once, at the end of the first sweep, and      *)
(* never a device connected since boot that answered every transfer.        *)
(***************************************************************************)
THEOREM MissingTrue == Spec => MissingMeansAbsent
<1>1. ASSUME BusInv, [Next]_vars, missing' # missing
      PROVE  /\ missing = 0 /\ sweeps = 0
             /\ missing' <= Cardinality({s \in Slot : Devices(copy[s]) \ steady' # {}})
  <2>1. ScanStep
    BY <1>1 DEF Next, Cycle, Begin, ScanNotDue, Publish, PassOver, ReadAmplifier, ReadEncoder,
                ReadFails, Plug, Unplug, Write, Restore, vars, scan
  <2>2. next' = 0 /\ sweeps = 0 /\ missing' = missing + Cardinality(Missing(copy, present'))
    BY <1>1, <2>1 DEF ScanStep, Wrapped
  <2>3. missing = 0 /\ \A t \in 0 .. next - 1 : t \in steady => t \in present
    BY <1>1, <2>2 DEF BusInv, SteadyFound
  <2>4. next \in Target /\ steady \subseteq connected /\ connected \subseteq Target
    BY <1>1 DEF BusInv, BusTypeOK
  <2>5. next = NumTargets - 1
    <3>1. next' = (next + 1) % Cardinality(Target)
      BY <2>1 DEF ScanStep, AfterTarget
    <3>2. next \in Nat
      BY <2>4, Targets
    <3> QED BY <2>2, <2>4, <3>1, <3>2, NextTarget
  <2>6. steady' \subseteq present'
    <3>1. \/ /\ present' = present \cup ({next} \cap connected) /\ steady' = steady
          \/ /\ steady' = steady \ {next} /\ present' = present
      BY <2>1 DEF ScanStep
    <3>2. \A t \in Target \ {next} : t \in 0 .. next - 1
      BY <2>5, Targets
    <3> QED BY <2>3, <2>4, <3>1, <3>2
  <2>7. Missing(copy, present') \subseteq {s \in Slot : Devices(copy[s]) \ steady' # {}}
    BY <2>6 DEF Missing
  <2>8. IsFiniteSet(Slot)
    BY SensorsAssumption, FS_Interval DEF Slot
  <2>9. IsFiniteSet({s \in Slot : Devices(copy[s]) \ steady' # {}})
    BY <2>8, FS_Subset
  <2>10. Cardinality(Missing(copy, present'))
           <= Cardinality({s \in Slot : Devices(copy[s]) \ steady' # {}})
    BY <2>7, <2>9, FS_Subset
  <2>11. Cardinality(Missing(copy, present')) \in Nat
    BY <2>7, <2>9, FS_Subset, FS_CardinalityType
  <2>12. missing' = Cardinality(Missing(copy, present'))
    BY <2>2, <2>3, <2>11
  <2> QED BY <2>2, <2>3, <2>10, <2>12
<1>2. BusInv /\ [Next]_vars =>
        [missing' # missing =>
          /\ missing = 0 /\ sweeps = 0
          /\ missing' <= Cardinality({s \in Slot : Devices(copy[s]) \ steady' # {}})]_vars
  BY <1>1
<1> QED BY <1>2, BusInvariant, PTL DEF Spec, MissingMeansAbsent
-----------------------------------------------------------------------------
(***************************************************************************)
(* What is published.                                                       *)
(***************************************************************************)
Computed(s) == Calibrate(copy[s], RawFor(copy[s]))

\* Values are computed under the copy, which only slots written since differ from.
PublishedInv ==
  /\ slots = [s \in Slot |-> slots[s]]
  /\ dirty \subseteq stale /\ \A s \in Slot \ dirty : copy[s] = slots[s]
  /\ pdoValue = ChannelValues(slots, value) /\ pdoUnit = ChannelUnits(slots)
  /\ phase = "wait" => \A s \in Slot : value[s] = Computed(s)

\* Of slots that claim a channel one comes last.
LEMMA LastOf ==
  ASSUME NEW n \in Nat, NEW S \in SUBSET (0 .. n - 1), S # {}
  PROVE  \E s \in S : \A r \in S : r <= s
<1> DEFINE T == {n - s : s \in S}
<1>1. \A s \in S : s \in Int /\ n - s \in Nat
  OBVIOUS
<1>2. T \subseteq Nat /\ T # {}
  BY <1>1
<1>3. \E x \in T : \A y \in T : ~(y < x)
  <2> DEFINE R == OpToRel(<, Nat)
  <2>1. IsWellFoundedOn(R, Nat)
    BY NatLessThanWellFounded
  <2> HIDE DEF R, T
  <2>2. PICK x \in T : \A y \in T : ~ (<<y, x>> \in R)
    BY <1>2, <2>1, WFMin
  <2>3. \A y \in T : ~(y < x)
    BY <1>2, <2>2 DEF R, OpToRel
  <2> QED BY <2>3
<1>4. PICK s \in S : \A r \in S : ~(n - r < n - s)
  BY <1>3
<1>5. ASSUME NEW r \in S PROVE r <= s
  <2>1. ~(n - r < n - s)
    BY <1>4
  <2>2. r \in Int /\ s \in Int
    BY <1>1
  <2> QED BY ONLY <2>1, <2>2, n \in Nat
<1> QED BY <1>5

\* No raw number, no reading.
LEMMA NoRawNoReading ==
  ASSUME NEW c PROVE Calibrate(c, RawInvalid) = SensorInvalid
BY DEF Calibrate

\* With nothing read yet a slot has no raw number.
LEMMA PublishedStarts == Init => PublishedInv
<1> SUFFICES ASSUME Init PROVE PublishedInv
  OBVIOUS
<1>1. /\ slots = BootSlots /\ copy = BootSlots /\ dirty = {} /\ stale = {}
      /\ value = [s \in Slot |-> SensorInvalid]
      /\ pdoValue = [c \in PdoChannel |-> SensorInvalid] /\ pdoUnit = ChannelUnits(BootSlots)
      /\ raw = [t \in Target |-> RawInvalid] /\ rawAnalog = [p \in AnalogInput |-> RawInvalid]
  BY DEF Init
<1>2. BootSlots \in [Slot -> SensorSlotConfig]
  BY SensorsAssumption
<1>3. ASSUME NEW s \in Slot PROVE value[s] = Computed(s)
  <2>1. Devices(copy[s]) \subseteq Target /\ Pins(copy[s]) \subseteq AnalogInput
    BY <1>1, <1>2, SourcesExist
  <2>2. RawFor(copy[s]) = RawInvalid
    BY <1>1, <2>1 DEF RawFor
  <2> QED BY <1>1, <2>2, NoRawNoReading DEF Computed
<1>4. ASSUME NEW c \in PdoChannel, Claimants(BootSlots, c) # {}
      PROVE  value[Shown(BootSlots, c)] = SensorInvalid
  <2>1. Claimants(BootSlots, c) \subseteq 0 .. NumSlots - 1 /\ NumSlots \in Nat
    BY SensorsAssumption DEF Claimants, Slot
  <2>2. \E s \in Claimants(BootSlots, c) : \A r \in Claimants(BootSlots, c) : r <= s
    BY <1>4, <2>1, LastOf
  <2>3. Shown(BootSlots, c) \in Slot
    BY <2>2 DEF Shown, Claimants
  <2> QED BY <1>1, <2>3
<1>5. pdoValue = ChannelValues(slots, value)
  BY <1>1, <1>4 DEF ChannelValues
<1>6. slots = [s \in Slot |-> slots[s]]
  BY <1>1, <1>2
<1> QED BY <1>1, <1>3, <1>5, <1>6 DEF PublishedInv

\* Each step of either task keeps values, units and channels together.
LEMMA StepKeepsPublished ==
  ASSUME PublishedInv, [Next]_vars
  PROVE  PublishedInv'
<1>1. CASE Begin
  <2>1. /\ phase' = "sample" /\ copy' = slots /\ dirty' = {}
        /\ UNCHANGED <<slots, value, pdoValue, pdoUnit, stale>>
    BY <1>1 DEF Begin, Clone, store
  <2> QED BY <2>1 DEF PublishedInv
<1>2. CASE Publish
  <2>1. /\ value' = [s \in Slot |-> Calibrate(copy[s], RawFor(copy[s]))]
        /\ pdoValue' = ChannelValues(slots, value') /\ pdoUnit' = ChannelUnits(slots)
        /\ stale' = dirty /\ UNCHANGED <<slots, copy, raw, rawAnalog, dirty>>
    BY <1>2 DEF Publish
  <2>2. \A s \in Slot : value'[s] = Computed(s)'
    BY <2>1 DEF Computed, RawFor
  <2> QED BY <2>1, <2>2 DEF PublishedInv
<1>3. ASSUME NEW w \in Slot, Write(w) PROVE PublishedInv'
  <2>1. /\ \E cfg : slots' = [slots EXCEPT ![w] = cfg]
        /\ pdoValue' = ChannelValues(slots', value) /\ pdoUnit' = ChannelUnits(slots')
        /\ dirty' = dirty \cup {w} /\ stale' = stale \cup {w}
        /\ UNCHANGED <<value, phase, copy, raw, rawAnalog>>
    BY <1>3 DEF Write
  <2>2. /\ slots' = [s \in Slot |-> slots'[s]]
        /\ \A s \in Slot \ {w} : slots'[s] = slots[s]
    BY <2>1 DEF PublishedInv
  <2>3. \A s \in Slot : Computed(s)' = Computed(s)
    BY <2>1 DEF Computed, RawFor
  <2> QED BY <2>1, <2>2, <2>3 DEF PublishedInv
<1>4. CASE ScanNotDue \/ ScanStep
           \/ \E t \in Target : PassOver(t) \/ ReadAmplifier(t) \/ ReadEncoder(t) \/ ReadFails(t)
  <2>1. phase' \in {"sample", "scan", "publish"}
        /\ UNCHANGED <<slots, value, pdoValue, pdoUnit, copy, dirty, stale>>
    BY <1>4 DEF ScanNotDue, ScanStep, PassOver, ReadAmplifier, ReadEncoder, ReadFails, Advance, store
  <2> QED BY <2>1 DEF PublishedInv
<1>5. CASE (\E t \in Target : Plug(t) \/ Unplug(t)) \/ UNCHANGED vars
  <2>1. UNCHANGED <<slots, value, pdoValue, pdoUnit, copy, dirty, stale, phase, raw, rawAnalog>>
    BY <1>5 DEF Plug, Unplug, store, vars
  <2> QED BY <2>1 DEF PublishedInv, Computed, RawFor
<1>6. CASE Restore
  <2>1. /\ slots' = BootSlots
        /\ pdoValue' = ChannelValues(slots', value) /\ pdoUnit' = ChannelUnits(slots')
        /\ dirty' = dirty \cup Changed /\ stale' = stale \cup Changed
        /\ UNCHANGED <<value, phase, copy, raw, rawAnalog>>
    BY <1>6 DEF Restore
  <2>2. /\ slots' = [s \in Slot |-> slots'[s]]
        /\ \A s \in Slot \ Changed : slots'[s] = slots[s]
    BY <2>1, SensorsAssumption DEF Changed
  <2>3. \A s \in Slot : Computed(s)' = Computed(s)
    BY <2>1 DEF Computed, RawFor
  <2> QED BY <2>1, <2>2, <2>3 DEF PublishedInv
<1> QED BY <1>1, <1>2, <1>3, <1>4, <1>5, <1>6 DEF Next, Cycle

LEMMA PublishedInvariant == Spec => []PublishedInv
BY PublishedStarts, StepKeepsPublished, PTL DEF Spec

(***************************************************************************)
(* A device that was not there for a whole cycle has no reading.            *)
(***************************************************************************)
THEOREM NothingFrozen == Spec => []NoFrozenReading
<1>1. ASSUME BusInv, PublishedInv PROVE NoFrozenReading
  <2> SUFFICES ASSUME phase = "wait", NEW s \in Slot, NEW t \in Devices(copy[s]) \cap absent
               PROVE  value[s] = SensorInvalid
    BY DEF NoFrozenReading
  <2>1. t \in Target /\ Visited = Target
    BY <1>1 DEF BusInv, BusTypeOK, Visited
  <2>2. raw[t] = RawInvalid
    BY <1>1, <2>1 DEF BusInv, AbsentSilent
  <2>3. Devices(copy[s]) = {t} /\ Pins(copy[s]) = {}
    BY OneSource
  <2>4. RawFor(copy[s]) = RawInvalid
    BY <2>2, <2>3 DEF RawFor
  <2> QED BY <1>1, <2>4, NoRawNoReading DEF PublishedInv, Computed
<1> QED BY <1>1, BusInvariant, PublishedInvariant, PTL

(***************************************************************************)
(* What is published for a slot not written since a cycle began is its      *)
(* reading under the calibration in force, and a channel's value and unit   *)
(* are always those of the slot that claims it.                             *)
(***************************************************************************)
THEOREM ChannelsTrue == Spec => []ChannelsCoherent
<1>1. ASSUME PublishedInv PROVE ChannelsCoherent
  <2>1. ASSUME phase = "wait", NEW s \in Slot \ stale
        PROVE  value[s] = Calibrate(slots[s], RawFor(slots[s]))
    <3>1. copy[s] = slots[s] /\ value[s] = Computed(s)
      BY <1>1, <2>1 DEF PublishedInv
    <3> QED BY <3>1 DEF Computed
  <2>2. pdoValue = ChannelValues(slots, value) /\ pdoUnit = ChannelUnits(slots)
    BY <1>1 DEF PublishedInv
  <2> QED BY <2>1, <2>2 DEF ChannelsCoherent
<1> QED BY <1>1, PublishedInvariant, PTL
-----------------------------------------------------------------------------
(***************************************************************************)
(* The calibration pipeline, for every raw number and every coefficient.    *)
(***************************************************************************)
\* A number below 10^12 is its four limbs.
LEMMA LimbsOf ==
  ASSUME NEW m \in Nat, m < 1000000000000
  PROVE  /\ Limbs(m)[1] \in 0 .. 999 /\ Limbs(m)[2] \in 0 .. 999
         /\ Limbs(m)[3] \in 0 .. 999 /\ Limbs(m)[4] \in 0 .. 999
         /\ m = Limbs(m)[1] + 1000 * Limbs(m)[2] + 1000000 * Limbs(m)[3] + 1000000000 * Limbs(m)[4]
<1> DEFINE t == m \div 1000
           u == m \div 1000000
           v == m \div 1000000000
<1>1. Limbs(m)[1] = m % 1000 /\ Limbs(m)[2] = t % 1000 /\ Limbs(m)[3] = u % 1000 /\ Limbs(m)[4] = v % 1000
  BY DEF Limbs
<1>2. /\ t \in Nat /\ m = 1000 * t + (m % 1000) /\ m % 1000 \in 0 .. 999
      /\ u \in Nat /\ t = 1000 * u + (t % 1000) /\ t % 1000 \in 0 .. 999
      /\ v \in Nat /\ u = 1000 * v + (u % 1000) /\ u % 1000 \in 0 .. 999
      /\ v % 1000 = v
  OBVIOUS
<1> HIDE DEF t, u, v
<1>3. v \in 0 .. 999
  BY <1>2
<1>4. /\ Limbs(m)[1] \in 0 .. 999 /\ Limbs(m)[2] \in 0 .. 999
      /\ Limbs(m)[3] \in 0 .. 999 /\ Limbs(m)[4] \in 0 .. 999
  BY <1>1, <1>2, <1>3
<1>5. m = (m % 1000) + 1000 * (t % 1000) + 1000000 * (u % 1000) + 1000000000 * (v % 1000)
  BY <1>2
<1> QED BY <1>1, <1>4, <1>5

\* The columns are the coefficients of the product.
LEMMA Columns ==
  ASSUME NEW a, NEW b, a[1] \in Nat, a[2] \in Nat, a[3] \in Nat, a[4] \in Nat,
         b[1] \in Nat, b[2] \in Nat, b[3] \in Nat, b[4] \in Nat
  PROVE  /\ Column(a, b, 0) = a[1] * b[1]
         /\ Column(a, b, 1) = a[1] * b[2] + a[2] * b[1]
         /\ Column(a, b, 2) = a[1] * b[3] + a[2] * b[2] + a[3] * b[1]
         /\ Column(a, b, 3) = a[1] * b[4] + a[2] * b[3] + a[3] * b[2] + a[4] * b[1]
         /\ Column(a, b, 4) = a[2] * b[4] + a[3] * b[3] + a[4] * b[2]
         /\ Column(a, b, 5) = a[3] * b[4] + a[4] * b[3]
         /\ Column(a, b, 6) = a[4] * b[4]
<1>1. Column(a, b, 0) = a[1] * b[1]
  BY DEF Column
<1>2. Column(a, b, 1) = a[1] * b[2] + a[2] * b[1]
  BY DEF Column
<1>3. Column(a, b, 2) = a[1] * b[3] + a[2] * b[2] + a[3] * b[1]
  BY DEF Column
<1>4. Column(a, b, 3) = a[1] * b[4] + a[2] * b[3] + a[3] * b[2] + a[4] * b[1]
  BY DEF Column
<1>5. Column(a, b, 4) = a[2] * b[4] + a[3] * b[3] + a[4] * b[2]
  BY DEF Column
<1>6. Column(a, b, 5) = a[3] * b[4] + a[4] * b[3]
  BY DEF Column
<1>7. Column(a, b, 6) = a[4] * b[4]
  BY DEF Column
<1> QED BY <1>1, <1>2, <1>3, <1>4, <1>5, <1>6, <1>7

\* Multiplying out the limbs of two numbers.
LEMMA Product ==
  ASSUME NEW x \in Nat, NEW y \in Nat, x < 1000000000000, y < 1000000000000
  PROVE  LET c(k) == Column(Limbs(x), Limbs(y), k)
         IN  /\ c(0) \in Nat /\ c(1) \in Nat /\ c(2) \in Nat /\ c(3) \in Nat
             /\ c(4) \in Nat /\ c(5) \in Nat /\ c(6) \in Nat
             /\ x * y = c(0) + 1000 * (c(1) + 1000 * (c(2) + 1000 * (c(3) + 1000 * (c(4)
                          + 1000 * (c(5) + 1000 * c(6))))))
<1> DEFINE a1 == Limbs(x)[1]
           a2 == Limbs(x)[2]
           a3 == Limbs(x)[3]
           a4 == Limbs(x)[4]
           b1 == Limbs(y)[1]
           b2 == Limbs(y)[2]
           b3 == Limbs(y)[3]
           b4 == Limbs(y)[4]
<1>1. /\ a1 \in Nat /\ a2 \in Nat /\ a3 \in Nat /\ a4 \in Nat
      /\ x = a1 + 1000 * a2 + 1000000 * a3 + 1000000000 * a4
  <2>1. /\ a1 \in 0 .. 999 /\ a2 \in 0 .. 999 /\ a3 \in 0 .. 999 /\ a4 \in 0 .. 999
        /\ x = a1 + 1000 * a2 + 1000000 * a3 + 1000000000 * a4
    BY LimbsOf
  <2> HIDE DEF a1, a2, a3, a4
  <2> QED BY ONLY <2>1
<1>2. /\ b1 \in Nat /\ b2 \in Nat /\ b3 \in Nat /\ b4 \in Nat
      /\ y = b1 + 1000 * b2 + 1000000 * b3 + 1000000000 * b4
  <2>1. /\ b1 \in 0 .. 999 /\ b2 \in 0 .. 999 /\ b3 \in 0 .. 999 /\ b4 \in 0 .. 999
        /\ y = b1 + 1000 * b2 + 1000000 * b3 + 1000000000 * b4
    BY LimbsOf
  <2> HIDE DEF b1, b2, b3, b4
  <2> QED BY ONLY <2>1
<1> DEFINE c(k) == Column(Limbs(x), Limbs(y), k)
<1>0. /\ c(0) = a1 * b1 /\ c(1) = a1 * b2 + a2 * b1 /\ c(2) = a1 * b3 + a2 * b2 + a3 * b1
      /\ c(3) = a1 * b4 + a2 * b3 + a3 * b2 + a4 * b1
      /\ c(4) = a2 * b4 + a3 * b3 + a4 * b2 /\ c(5) = a3 * b4 + a4 * b3 /\ c(6) = a4 * b4
  BY <1>1, <1>2, Columns
<1> HIDE DEF a1, a2, a3, a4, b1, b2, b3, b4
<1>3. x * y = a1 * y + 1000 * (a2 * y) + 1000000 * (a3 * y) + 1000000000 * (a4 * y)
  BY ONLY <1>1, y \in Nat, SMTT(30)
<1>4. \A n \in Nat : n * y = n * b1 + 1000 * (n * b2) + 1000000 * (n * b3) + 1000000000 * (n * b4)
  BY ONLY <1>2, SMTT(30)
<1>5. /\ a1 * y = a1 * b1 + 1000 * (a1 * b2) + 1000000 * (a1 * b3) + 1000000000 * (a1 * b4)
      /\ a2 * y = a2 * b1 + 1000 * (a2 * b2) + 1000000 * (a2 * b3) + 1000000000 * (a2 * b4)
      /\ a3 * y = a3 * b1 + 1000 * (a3 * b2) + 1000000 * (a3 * b3) + 1000000000 * (a3 * b4)
      /\ a4 * y = a4 * b1 + 1000 * (a4 * b2) + 1000000 * (a4 * b3) + 1000000000 * (a4 * b4)
  BY <1>1, <1>4
<1>6. x * y = a1 * b1 + 1000 * ((a1 * b2 + a2 * b1) + 1000 * ((a1 * b3 + a2 * b2 + a3 * b1)
               + 1000 * ((a1 * b4 + a2 * b3 + a3 * b2 + a4 * b1) + 1000 * ((a2 * b4 + a3 * b3 + a4 * b2)
               + 1000 * ((a3 * b4 + a4 * b3) + 1000 * (a4 * b4))))))
  BY ONLY <1>1, <1>2, <1>3, <1>5, SMTT(30)
<1>7. /\ c(0) \in Nat /\ c(1) \in Nat /\ c(2) \in Nat /\ c(3) \in Nat
      /\ c(4) \in Nat /\ c(5) \in Nat /\ c(6) \in Nat
  <2> HIDE DEF c
  <2> QED BY ONLY <1>0, <1>1, <1>2
<1>8. x * y = c(0) + 1000 * (c(1) + 1000 * (c(2) + 1000 * (c(3) + 1000 * (c(4)
                + 1000 * (c(5) + 1000 * c(6))))))
  <2> HIDE DEF c
  <2> QED BY ONLY <1>0, <1>6
<1> QED BY <1>7, <1>8

\* The carries: the long multiplication is the product's quotient by 10^9, up
\* to the cut.
LEMMA MagnitudeExact ==
  ASSUME NEW x \in Nat, NEW y \in Nat, x < 1000000000000, y < 1000000000000
  PROVE  LET q == (x * y) \div 1000000000
         IN  MagnitudeNano(Limbs(x), Limbs(y)) = IF q < NanoCut THEN q ELSE NanoCut
<1> DEFINE d0 == Column(Limbs(x), Limbs(y), 0)
           d1 == Column(Limbs(x), Limbs(y), 1)
           d2 == Column(Limbs(x), Limbs(y), 2)
           d3 == Column(Limbs(x), Limbs(y), 3)
           d4 == Column(Limbs(x), Limbs(y), 4)
           d5 == Column(Limbs(x), Limbs(y), 5)
           d6 == Column(Limbs(x), Limbs(y), 6)
<1>1. /\ d0 \in Nat /\ d1 \in Nat /\ d2 \in Nat /\ d3 \in Nat /\ d4 \in Nat /\ d5 \in Nat /\ d6 \in Nat
      /\ x * y = d0 + 1000 * (d1 + 1000 * (d2 + 1000 * (d3 + 1000 * (d4 + 1000 * (d5 + 1000 * d6)))))
  BY Product
<1> DEFINE e2 == d2 + (d1 + d0 \div 1000) \div 1000
           e3 == d3 + e2 \div 1000
           e4 == d4 + e3 \div 1000
           e5 == d5 + e4 \div 1000
           e6 == d6 + e5 \div 1000
           q == e3 + 1000 * (d4 + 1000 * (d5 + 1000 * d6))
<1>3. MagnitudeNano(Limbs(x), Limbs(y))
        = IF e6 > 0 THEN NanoCut ELSE (e3 % 1000) + 1000 * (e4 % 1000) + 1000000 * e5
  BY DEF MagnitudeNano
<1> HIDE DEF d0, d1, d2, d3, d4, d5, d6
<1>2. /\ e2 \in Nat /\ e3 \in Nat /\ e4 \in Nat /\ e5 \in Nat /\ e6 \in Nat
      /\ e2 = d2 + (d1 + d0 \div 1000) \div 1000
      /\ e3 = d3 + e2 \div 1000 /\ e4 = d4 + e3 \div 1000
      /\ e5 = d5 + e4 \div 1000 /\ e6 = d6 + e5 \div 1000
  BY <1>1
<1>4. q \in Nat /\ q = e3 + 1000 * (d4 + 1000 * (d5 + 1000 * d6))
  BY <1>1, <1>2
<1> HIDE DEF e2, e3, e4, e5, e6, q
<1>5. (x * y) \div 1000000000 = q
  <2>1. PICK p \in Nat : p = x * y
    OBVIOUS
  <2>2. p \div 1000000000 = q
    BY ONLY <1>1, <1>2, <1>4, <2>1
  <2> QED BY <2>1, <2>2
<1>6. e6 > 0 => q >= 1000000000
  BY ONLY <1>1, <1>2, <1>4
<1>7. e6 = 0 => q < 1000000000 /\ q = (e3 % 1000) + 1000 * (e4 % 1000) + 1000000 * e5
  BY ONLY <1>1, <1>2, <1>4
<1>8. MagnitudeNano(Limbs(x), Limbs(y)) = IF q < NanoCut THEN q ELSE NanoCut
  <2>1. CASE e6 > 0
    BY ONLY <1>3, <1>4, <1>6, <2>1 DEF NanoCut
  <2>2. CASE e6 = 0
    BY ONLY <1>3, <1>4, <1>7, <2>2 DEF NanoCut
  <2> QED BY <1>2, <2>1, <2>2
<1> QED BY ONLY <1>5, <1>8

\* TimesNano is the code's 64-bit product and division, up to the cut.
LEMMA TimesNanoExact ==
  ASSUME NEW x \in Int, NEW slope \in Int,
         Magnitude(x) < 1000000000000, Magnitude(slope) < 1000000000000
  PROVE  LET q == (Magnitude(x) * Magnitude(slope)) \div 1000000000
         IN  TimesNano(x, slope) = Signed(x, Signed(slope, IF q < NanoCut THEN q ELSE NanoCut))
<1>1. Magnitude(x) \in Nat /\ Magnitude(slope) \in Nat
  BY DEF Magnitude
<1>2. LET q == (Magnitude(x) * Magnitude(slope)) \div 1000000000
      IN  MagnitudeNano(Limbs(Magnitude(x)), Limbs(Magnitude(slope))) = IF q < NanoCut THEN q ELSE NanoCut
  BY <1>1, MagnitudeExact
<1> QED BY <1>2 DEF TimesNano

\* Division and products, for the provers.
LEMMA Quotient ==
  ASSUME NEW n \in Nat, NEW S \in Nat \ {0}
  PROVE  n \div S \in Nat /\ S * (n \div S) <= n /\ n < S * (n \div S) + S
<1>1. n \div S \in Nat
  OBVIOUS
<1>2. S * (n \div S) <= n
  OBVIOUS
<1>3. n = S * (n \div S) + (n % S) /\ n % S < S
  OBVIOUS
<1> QED BY <1>1, <1>2, <1>3

LEMMA Monotone ==
  ASSUME NEW a \in Int, NEW b \in Int, NEW k \in Nat, a <= b
  PROVE  k * a <= k * b
OBVIOUS

\* The rounded slope M of a span S and the truncated product r are together
\* less than a promille off either way: the arithmetic,
LEMMA ShareBounds ==
  ASSUME NEW S \in Nat, NEW d \in Nat, NEW h \in Nat, NEW M \in Nat,
         NEW p \in Nat, NEW r \in Nat, NEW ideal \in Nat,
         0 < S, S < 4096, d < 4096, h <= S, S * M <= 1000000000 + h, 1000000000 + h < S * M + S,
         p = d * M, 1000000 * r <= p, p < 1000000 * r + 1000000,
         S * ideal <= 1000 * d, 1000 * d < S * ideal + S
  PROVE  r <= ideal + 1 /\ ideal - 1 <= r
<1> DEFINE k == S * M
           si == S * ideal
           dh == d * h
           ds == d * S
           sp == S * p
<1>1. k \in Nat /\ si \in Nat /\ dh \in Nat /\ ds \in Nat /\ sp \in Nat
  OBVIOUS
<1>2. sp = d * k
  OBVIOUS
<1>3. dh <= 4095 * S /\ ds <= 4095 * S
  BY <1>1
<1>4. sp <= 1000000000 * d + dh
  <2>1. k <= 1000000000 + h
    BY <1>1
  <2>2. d * k <= d * (1000000000 + h)
    BY ONLY <2>1, Monotone, k \in Nat, h \in Nat, d \in Nat
  <2> QED BY <1>1, <1>2, <2>2
<1>5. sp >= 1000000000 * d - ds
  <2>1. 1000000000 - S <= k
    BY <1>1
  <2>2. d * (1000000000 - S) <= d * k
    BY ONLY <2>1, Monotone, k \in Nat, S \in Nat, d \in Nat
  <2> QED BY <1>1, <1>2, <2>2
<1>6. ASSUME r >= ideal + 2 PROVE FALSE
  <2>1. 1000000 * (ideal + 2) <= p
    BY <1>6
  <2>2. S * (1000000 * (ideal + 2)) <= sp
    BY <1>1, <2>1, Monotone
  <2>3. 1000000 * si + 2000000 * S <= sp
    BY <1>1, <2>2
  <2> QED BY ONLY <1>1, <1>3, <1>4, <2>3, 1000 * d < S * ideal + S,
       S \in Nat, d \in Nat, ideal \in Nat, 0 < S, S < 4096, d < 4096
<1>7. ASSUME r <= ideal - 2 PROVE FALSE
  <2>1. p <= 1000000 * (ideal - 1)
    BY <1>7
  <2>2. sp <= S * (1000000 * (ideal - 1))
    BY <1>1, <2>1, Monotone
  <2>3. sp <= 1000000 * si - 1000000 * S
    BY <1>1, <2>2
  <2> QED BY ONLY <1>1, <1>3, <1>5, <2>3, S * ideal <= 1000 * d,
       S \in Nat, d \in Nat, ideal \in Nat, 0 < S, S < 4096, d < 4096
<1> QED BY <1>6, <1>7

\* and the values themselves.
LEMMA ShareOfSpan ==
  ASSUME NEW S \in Nat, NEW d \in Nat, 0 < S, S < 4096, d < 4096
  PROVE  LET M == (1000000000 + S \div 2) \div S
             r == (1000 * d * M) \div 1000000000
             ideal == (1000 * d) \div S
         IN  /\ M \in Nat /\ 0 < M /\ M <= 1000000000 /\ ideal \in Nat
             /\ r \in Nat /\ r <= ideal + 1 /\ ideal - 1 <= r /\ r < 1000000000
<1> DEFINE h == S \div 2
           M == (1000000000 + h) \div S
           p == d * M
           r == (1000 * d * M) \div 1000000000
           ideal == (1000 * d) \div S
<1>1. h \in Nat /\ 2 * h <= S
  OBVIOUS
<1> HIDE DEF h
<1>2. M \in Nat /\ S * M <= 1000000000 + h /\ 1000000000 + h < S * M + S
  BY <1>1, Quotient
<1>3. ideal \in Nat /\ S * ideal <= 1000 * d /\ 1000 * d < S * ideal + S
  BY Quotient
<1> HIDE DEF M, ideal
<1>4. M \in Nat /\ 0 < M /\ M <= 1000000000
  <2>1. M # 0
    BY <1>1, <1>2
  <2>2. ASSUME M >= 1000000001 PROVE FALSE
    <3>1. S * 1000000001 <= S * M
      BY <1>2, <2>2, Monotone
    <3> QED BY <1>1, <1>2, <3>1
  <2> QED BY <1>2, <2>1, <2>2
<1>5. p \in Nat /\ p <= 4096 * 1000000000
  <2>1. d * M <= d * 1000000000
    BY <1>4, Monotone
  <2> QED BY <1>4, <2>1
<1>6. r \in Nat /\ 1000000 * r <= p /\ p < 1000000 * r + 1000000
  <2>1. 1000 * d * M = 1000 * p
    BY <1>4
  <2>2. r = (1000 * p) \div 1000000000
    BY <2>1
  <2> HIDE DEF r, p
  <2> QED BY ONLY <1>5, <2>2
<1>7. p = d * M
  OBVIOUS
<1> HIDE DEF r, p
<1>8. r <= ideal + 1 /\ ideal - 1 <= r
  BY <1>1, <1>2, <1>3, <1>5, <1>6, <1>7, ShareBounds
<1>9. r < 1000000000
  BY ONLY <1>5, <1>6
<1>10. M \in Nat /\ 0 < M /\ M <= 1000000000 /\ ideal \in Nat /\ r \in Nat /\ r <= ideal + 1 /\ ideal - 1 <= r /\ r < 1000000000
  BY ONLY <1>3, <1>4, <1>6, <1>8, <1>9
<1> QED BY ONLY <1>10 DEF h, M, r, ideal

\* Zeroed modulo the turn, the angle of a valve d counts from its closed stop
\* is d counts, wherever the stop sits and whichever way the valve opens.
LEMMA ZeroedUp ==
  ASSUME NEW zero \in Nat, NEW d \in Nat, zero < 4096, d < 4096
  PROVE  /\ (zero + d) % 4096 \in Nat /\ (zero + d) % 4096 < 4096
         /\ (((zero + d) % 4096) * 1000 - zero * 1000) % 4096000 = 1000 * d
<1> DEFINE up == (zero + d) % 4096
<1>1. up \in Nat /\ up < 4096 /\ (up = zero + d \/ up = zero + d - 4096)
  OBVIOUS
<1> HIDE DEF up
<1>2. up * 1000 - zero * 1000 = 1000 * d \/ up * 1000 - zero * 1000 = 1000 * d - 4096000
  BY <1>1
<1>3. (up * 1000 - zero * 1000) % 4096000 = 1000 * d
  BY ONLY <1>2, d \in Nat, d < 4096
<1> QED BY <1>1, <1>3 DEF up

LEMMA ZeroedDown ==
  ASSUME NEW zero \in Nat, NEW d \in Nat, zero < 4096, d < 4096
  PROVE  /\ (zero - d) % 4096 \in Nat /\ (zero - d) % 4096 < 4096
         /\ (zero * 1000 - ((zero - d) % 4096) * 1000) % 4096000 = 1000 * d
<1> DEFINE down == (zero - d) % 4096
<1>1. down \in Nat /\ down < 4096 /\ (down = zero - d \/ down = zero - d + 4096)
  OBVIOUS
<1> HIDE DEF down
<1>2. zero * 1000 - down * 1000 = 1000 * d \/ zero * 1000 - down * 1000 = 1000 * d - 4096000
  BY <1>1
<1>3. (zero * 1000 - down * 1000) % 4096000 = 1000 * d
  BY ONLY <1>2, d \in Nat, d < 4096
<1> QED BY <1>1, <1>3 DEF down

\* The reading of an encoder is the travel times the rounded slope.
LEMMA EncoderReads ==
  ASSUME NEW zero \in 0 .. EncoderFullScale - 1, NEW span \in Int \ {0},
         Magnitude(span) < EncoderFullScale, NEW d \in 0 .. EncoderFullScale - 1
  PROVE  LET M == (1000000000 + Magnitude(span) \div 2) \div Magnitude(span)
         IN  EncoderAt(zero, span, d) = Saturate((1000 * d * M) \div 1000000000)
<1> DEFINE S == Magnitude(span)
           M == (1000000000 + S \div 2) \div S
           r == (1000 * d * M) \div 1000000000
           ideal == (1000 * d) \div S
           word == (zero + Signed(span, d)) % 4096
           calib == AngleOver(zero, span)
           zeroed == IF span < 0 THEN -(1000 * d) ELSE 1000 * d
<1>1. /\ S \in Nat /\ 0 < S /\ S < 4096 /\ span \in Int /\ span # 0
      /\ zero \in Nat /\ zero < 4096 /\ d \in Nat /\ d < 4096
  BY DEF Magnitude, EncoderFullScale
<1>2. /\ M \in Nat /\ 0 < M /\ M <= 1000000000 /\ ideal \in Nat
      /\ r \in Nat /\ r <= ideal + 1 /\ ideal - 1 <= r /\ r < 1000000000
  <2> HIDE DEF S
  <2> QED BY <1>1, ShareOfSpan
<1>3. calib = [offset |-> zero * 1000, constant |-> 0, slope |-> Signed(span, M)]
  <2>1. PICK n \in Nat : n = 1000000000 + S \div 2
    <3> HIDE DEF S
    <3> QED BY <1>1
  <2>2. Magnitude(n) = n /\ ~(n < 0)
    BY <2>1 DEF Magnitude
  <2>3. Truncated(n, span) = Signed(span, n \div S)
    BY ONLY <2>2 DEF Truncated, Signed
  <2> QED BY ONLY <1>1, <2>1, <2>3 DEF AngleOver
<1>4. /\ word \in Nat /\ word < 4096
      /\ IF span < 0 THEN (zero * 1000 - word * 1000) % 4096000 = 1000 * d
         ELSE (word * 1000 - zero * 1000) % 4096000 = 1000 * d
  <2>1. CASE span < 0
    <3>1. word = (zero - d) % 4096
      BY <1>1, <2>1 DEF Signed
    <3> HIDE DEF word
    <3> QED BY ONLY <1>1, <2>1, <3>1, ZeroedDown
  <2>2. CASE ~(span < 0)
    <3>1. word = (zero + d) % 4096
      BY <1>1, <2>2 DEF Signed
    <3> HIDE DEF word
    <3> QED BY ONLY <1>1, <2>2, <3>1, ZeroedUp
  <2> QED BY <2>1, <2>2
<1>5. /\ zeroed \in Int /\ Magnitude(zeroed) = 1000 * d
      /\ zeroed >= 0 <=> span >= 0 \/ d = 0
  BY ONLY <1>1 DEF Magnitude
<1>6. 1000 * d * M = (1000 * d) * M
  OBVIOUS
<1> HIDE DEF S, M, ideal, calib, word, zeroed
<1>7. /\ calib.slope = Signed(span, M) /\ calib.offset = zero * 1000
      /\ [calib EXCEPT !.offset = 0] = [offset |-> 0, constant |-> 0, slope |-> Signed(span, M)]
  BY ONLY <1>3
<1>8. /\ Signed(span, M) \in Int /\ Magnitude(Signed(span, M)) = M
      /\ Signed(span, M) < 0 <=> span < 0
      /\ Signed(span, M) # 0
  BY ONLY <1>1, <1>2 DEF Signed, Magnitude
<1>9. TimesNano(zeroed, Signed(span, M)) = r
  <2>1. TimesNano(zeroed, Signed(span, M))
          = Signed(zeroed, Signed(Signed(span, M), IF r < NanoCut THEN r ELSE NanoCut))
    BY <1>1, <1>2, <1>5, <1>6, <1>8, TimesNanoExact
  <2>2. d = 0 => r = 0
    BY <1>2
  <2> HIDE DEF r
  <2> QED BY ONLY <1>1, <1>2, <1>5, <1>8, <2>1, <2>2 DEF Signed, NanoCut
<1> HIDE DEF r
<1>10. ApplyWrapped(calib, word * 1000) = r
  <2>1. ApplyWrapped(calib, word * 1000) = Apply([calib EXCEPT !.offset = 0], zeroed)
    BY ONLY <1>1, <1>4, <1>7, <1>8 DEF ApplyWrapped, EncoderFullScale, zeroed
  <2>2. Apply([calib EXCEPT !.offset = 0], zeroed) = TimesNano(zeroed - 0, Signed(span, M)) + 0
    BY ONLY <1>7 DEF Apply
  <2>3. zeroed - 0 = zeroed
    BY ONLY <1>5
  <2> QED BY ONLY <1>2, <1>9, <2>1, <2>2, <2>3
<1>11. EncoderAt(zero, span, d) = Saturate(r)
  <2> DEFINE slot == [kind |-> "Angle", unit |-> "Promille", calib |-> calib]
  <2>1. EncoderAt(zero, span, d) = Calibrate(slot, word)
    BY DEF EncoderAt, calib, word, EncoderFullScale
  <2>2. slot.kind = "Angle" /\ slot.unit = "Promille" /\ slot.calib = calib
    OBVIOUS
  <2> HIDE DEF slot
  <2>3. word # RawInvalid /\ IsCalibrated(calib)
    BY ONLY <1>4, <1>7, <1>8 DEF RawInvalid, IsCalibrated
  <2>4. Linearise("Angle", word) = {word * 1000}
    BY DEF Linearise
  <2>5. Calibrate(slot, word) = Saturate(Truncated(ApplyWrapped(calib, word * 1000), PerMilli("Promille")))
    BY ONLY <2>2, <2>3, <2>4 DEF Calibrate
  <2>6. Truncated(r, PerMilli("Promille")) = r
    BY ONLY <1>2 DEF Truncated, PerMilli, Signed, Magnitude
  <2> QED BY ONLY <1>10, <2>1, <2>5, <2>6
<1> QED BY ONLY <1>11 DEF r, M, S

(***************************************************************************)
(* An encoder d counts from its valve's closed stop reads d's share of the  *)
(* travel to within a promille, for every span, wherever the stop sits on   *)
(* the turn, whichever way the valve opens and however far it has gone      *)
(* round (config/sensors.rs:403-428, 449-463).                              *)
(***************************************************************************)
THEOREM EncoderWithinAPromille ==
  ASSUME NEW zero \in 0 .. EncoderFullScale - 1, NEW span \in Int \ {0},
         Magnitude(span) < EncoderFullScale, NEW d \in 0 .. EncoderFullScale - 1
  PROVE  LET ideal == (1000 * d) \div Magnitude(span)
         IN  EncoderAt(zero, span, d) \in Saturate(ideal - 1) .. Saturate(ideal + 1)
<1> DEFINE S == Magnitude(span)
           M == (1000000000 + S \div 2) \div S
           r == (1000 * d * M) \div 1000000000
           ideal == (1000 * d) \div S
<1>1. S \in Nat /\ 0 < S /\ S < 4096 /\ d \in Nat /\ d < 4096
  BY DEF Magnitude, EncoderFullScale
<1>2. EncoderAt(zero, span, d) = Saturate(r)
  BY EncoderReads
<1> HIDE DEF S
<1>3. ideal \in Nat /\ r \in Nat /\ r <= ideal + 1 /\ ideal - 1 <= r
  BY ONLY <1>1, ShareOfSpan
<1> HIDE DEF M, r, ideal
<1>4. Saturate(r) \in Saturate(ideal - 1) .. Saturate(ideal + 1)
  BY ONLY <1>3 DEF Saturate
<1> QED BY ONLY <1>2, <1>4 DEF ideal, S

\* A rounding of the slope upward that stays, over the whole travel, within
\* one count of the share's last place never shows: the arithmetic.
LEMMA NeverAbove ==
  ASSUME NEW S \in Nat, NEW d \in Nat, NEW M \in Nat, NEW p \in Nat, NEW r \in Nat, NEW ideal \in Nat,
         0 < S, p = d * M, 1000000 * r <= p, 1000 * d < S * ideal + S,
         d * (S * M - 1000000000) < 1000000
  PROVE  r <= ideal
<1> DEFINE k == S * M
           si == S * ideal
           sp == S * p
<1>1. k \in Nat /\ si \in Nat /\ sp \in Nat
  OBVIOUS
<1>2. sp = d * k
  OBVIOUS
<1>3. d * (k - 1000000000) = d * k - d * 1000000000
  BY ONLY <1>1, d \in Nat
<1>4. d * k \in Nat /\ d * (k - 1000000000) < 1000000
  BY <1>1
<1>5. 1000 * d <= si + S - 1
  <2>1. si = S * ideal
    OBVIOUS
  <2> HIDE DEF si
  <2> QED BY ONLY <1>1, <2>1, 1000 * d < S * ideal + S, d \in Nat, S \in Nat
<1> HIDE DEF k
<1>6. sp < 1000000 * si + 1000000 * S
  <2> HIDE DEF si, sp
  <2> QED BY ONLY <1>1, <1>2, <1>3, <1>4, <1>5, d \in Nat, S \in Nat
<1>7. ASSUME r >= ideal + 1 PROVE FALSE
  <2>1. 1000000 * (ideal + 1) <= p
    BY <1>7
  <2>2. S * (1000000 * (ideal + 1)) <= sp
    BY <1>1, <2>1, Monotone
  <2>3. S * (1000000 * (ideal + 1)) = 1000000 * si + 1000000 * S
    BY <1>1
  <2> HIDE DEF si, sp
  <2> QED BY ONLY <1>1, <1>6, <2>2, <2>3, S \in Nat
<1> QED BY <1>7

\* In the travel of an encoder: the reading is never above its share when the
\* rounded slope is exact enough for that travel.
LEMMA EncoderNeverAbove ==
  ASSUME NEW zero \in 0 .. EncoderFullScale - 1, NEW span \in Int \ {0},
         Magnitude(span) < EncoderFullScale, NEW d \in 0 .. EncoderFullScale - 1, NEW M \in Nat,
         M = (1000000000 + Magnitude(span) \div 2) \div Magnitude(span),
         d * (Magnitude(span) * M - 1000000000) < 1000000, d <= Magnitude(span)
  PROVE  LET ideal == (1000 * d) \div Magnitude(span)
         IN  EncoderAt(zero, span, d) \in ideal - 1 .. ideal
<1> DEFINE S == Magnitude(span)
           p == d * M
           r == (1000 * d * M) \div 1000000000
           ideal == (1000 * d) \div S
<1>1. /\ S \in Nat /\ 0 < S /\ S < 4096 /\ d \in Nat /\ d < 4096 /\ d <= S
  BY DEF Magnitude, EncoderFullScale
<1>2. EncoderAt(zero, span, d) = Saturate(r)
  BY EncoderReads
<1>3. M = (1000000000 + S \div 2) \div S /\ d * (S * M - 1000000000) < 1000000
  OBVIOUS
<1> HIDE DEF S
<1>4. /\ M <= 1000000000 /\ ideal \in Nat /\ r \in Nat /\ ideal - 1 <= r
  BY ONLY <1>1, <1>3, ShareOfSpan
<1>5. ideal \in Nat /\ S * ideal <= 1000 * d /\ 1000 * d < S * ideal + S
  BY ONLY <1>1, Quotient
<1>6. p \in Nat /\ r = (1000 * p) \div 1000000000
  <2>1. 1000 * d * M = 1000 * (d * M)
    BY <1>1
  <2> QED BY <1>1, <2>1
<1>7. p = d * M
  OBVIOUS
<1> HIDE DEF p, r, ideal
<1>8. r \in Nat /\ 1000000 * r <= p
  BY ONLY <1>6
<1>9. r <= ideal
  BY ONLY <1>1, <1>3, <1>5, <1>6, <1>7, <1>8, M \in Nat, NeverAbove
<1>10. ideal <= 1000
  <2>1. ASSUME ideal >= 1001 PROVE FALSE
    <3>1. S * 1001 <= S * ideal
      BY ONLY <1>1, <1>5, <2>1, Monotone
    <3> QED BY ONLY <1>1, <1>5, <3>1
  <2> QED BY ONLY <1>5, <2>1
<1>11. Saturate(r) = r
  BY ONLY <1>5, <1>8, <1>9, <1>10 DEF Saturate
<1> QED BY ONLY <1>2, <1>4, <1>5, <1>8, <1>9, <1>11 DEF ideal, S

\* The spans the pipeline's statement samples are all exact enough.
LEMMA SampledSpans ==
  ASSUME NEW span \in SpansChecked, NEW zero \in ZerosChecked,
         NEW d \in {0, 1, 150, 1022, 1024, 2047}, d <= Magnitude(span)
  PROVE  EncoderAt(zero, span, d) \in
           LET ideal == (1000 * d) \div Magnitude(span) IN ideal - 1 .. ideal
<1> DEFINE S == Magnitude(span)
           M == (1000000000 + S \div 2) \div S
<1>1. /\ zero \in 0 .. EncoderFullScale - 1 /\ d \in 0 .. EncoderFullScale - 1
      /\ span \in Int \ {0} /\ Magnitude(span) < EncoderFullScale
  BY DEF SpansChecked, ZerosChecked, EncoderFullScale, Magnitude
<1>2. S \in {1, 300, 1023, 1024, 2047}
  BY DEF SpansChecked, Magnitude
<1>3. d \in Nat /\ d <= S
  OBVIOUS
<1> HIDE DEF S
<1>4. M \in Nat /\ d * (S * M - 1000000000) < 1000000
  <2>1. CASE S = 1
    <3>1. M = 1000000000
      BY ONLY <2>1
    <3> QED BY ONLY <1>3, <2>1, <3>1
  <2>2. CASE S = 300
    <3>1. M = 3333333
      BY ONLY <2>2
    <3>2. S * M - 1000000000 = -100
      BY ONLY <2>2, <3>1
    <3> QED BY ONLY <1>3, <3>1, <3>2
  <2>3. CASE S = 1023
    <3>1. M = 977517
      BY ONLY <2>3
    <3>2. S * M - 1000000000 = -109
      BY ONLY <2>3, <3>1
    <3> QED BY ONLY <1>3, <3>1, <3>2
  <2>4. CASE S = 1024
    <3>1. M = 976563
      BY ONLY <2>4
    <3>2. S * M - 1000000000 = 512
      BY ONLY <2>4, <3>1
    <3> QED BY ONLY <1>3, <2>4, <3>1, <3>2
  <2>5. CASE S = 2047
    <3>1. M = 488520
      BY ONLY <2>5
    <3>2. S * M - 1000000000 = 440
      BY ONLY <2>5, <3>1
    <3> QED BY ONLY <1>3, <2>5, <3>1, <3>2
  <2> QED BY ONLY <1>2, <2>1, <2>2, <2>3, <2>4, <2>5
<1> DEFINE ideal == (1000 * d) \div S
<1>5. M = (1000000000 + S \div 2) \div S
  OBVIOUS
<1> HIDE DEF M
<1>6. EncoderAt(zero, span, d) \in ideal - 1 .. ideal
  BY ONLY <1>1, <1>3, <1>4, <1>5, d \in {0, 1, 150, 1022, 1024, 2047}, EncoderNeverAbove DEF S
<1> QED BY ONLY <1>6 DEF ideal, S

\* Of numbers one is the least.
LEMMA LeastOf ==
  ASSUME NEW T, T \subseteq Nat, T # {}
  PROVE  \E x \in T : \A y \in T : x <= y
<1> DEFINE R == OpToRel(<, Nat)
<1>1. IsWellFoundedOn(R, Nat)
  BY NatLessThanWellFounded, Zenon
<1> HIDE DEF R
<1>2. PICK x \in T : \A y \in T : ~ (<<y, x>> \in R)
  BY <1>1, WFMin, Zenon
<1>3. \A y \in T : ~(y < x)
  BY <1>2, Zenon DEF R, OpToRel
<1> QED BY <1>3

\* The long division is defined: each of its digits exists, and follows from
\* the one before.
LEMMA LongDivision ==
  ASSUME NEW n \in Int, NEW z \in Nat, NEW d \in Nat \ {0}
  PROVE  \E step :
           /\ Scaled(n, z, d) = Signed(n, step[z].q)
           /\ \A k \in 0 .. z : step[k] \in [q : Nat, r : Nat]
           /\ step[0] = [q |-> Magnitude(n) \div d, r |-> Magnitude(n) % d]
           /\ \A k \in 1 .. z : LET p == step[k - 1]
                                IN  step[k] = [q |-> 10 * p.q + (10 * p.r) \div d, r |-> (10 * p.r) % d]
<1> DEFINE Digit == [q : Nat, r : Nat]
           first == [q |-> Magnitude(n) \div d, r |-> Magnitude(n) % d]
           After(p) == [q |-> 10 * p.q + (10 * p.r) \div d, r |-> (10 * p.r) % d]
           Divides(f, m) == f = [k \in 0 .. m |-> IF k = 0 THEN first ELSE After(f[k - 1])]
           Digits(m) == \E f : Divides(f, m)
<1>1. first \in Digit
  BY DEF Magnitude
<1>2. ASSUME NEW p \in Digit PROVE After(p) \in Digit
  <2>1. 10 * p.r \in Nat /\ p.q \in Nat
    BY <1>2
  <2>2. (10 * p.r) \div d \in Nat /\ (10 * p.r) % d \in Nat
    BY ONLY <2>1, d \in Nat \ {0}
  <2> QED BY <2>1, <2>2
<1> HIDE DEF first, After, Digit
<1>3. Digits(z)
  <2>1. Digits(0)
    <3>1. PICK f : f = [k \in 0 .. 0 |-> first]
      BY Zenon
    <3>2. f = [k \in 0 .. 0 |-> IF k = 0 THEN first ELSE After(f[k - 1])]
      BY <3>1
    <3> QED BY <3>2
  <2>2. ASSUME NEW m \in 1 .. z, Digits(m - 1) PROVE Digits(m)
    <3>1. PICK f : Divides(f, m - 1)
      BY <2>2
    <3>2. PICK g : g = [k \in 0 .. m |-> IF k = m THEN After(f[m - 1]) ELSE f[k]]
      BY Zenon
    <3>3. ASSUME NEW k \in 0 .. m
          PROVE  g[k] = IF k = 0 THEN first ELSE After(g[k - 1])
      <4>1. CASE k = m
        <5>1. k # 0 /\ k - 1 \in 0 .. m /\ k - 1 # m
          BY <4>1
        <5> QED BY <3>2, <4>1, <5>1
      <4>2. CASE k # m
        <5>1. g[k] = f[k] /\ k \in 0 .. m - 1
          BY <3>2, <4>2
        <5>2. f[k] = IF k = 0 THEN first ELSE After(f[k - 1])
          BY <3>1, <5>1
        <5>3. CASE k = 0
          BY <5>1, <5>2, <5>3
        <5>4. CASE k # 0
          <6>1. k - 1 \in 0 .. m /\ k - 1 # m
            BY <5>1, <5>4
          <6>2. g[k - 1] = f[k - 1]
            BY <3>2, <6>1
          <6> QED BY <5>1, <5>2, <5>4, <6>2
        <5> QED BY <5>3, <5>4
      <4> QED BY <4>1, <4>2
    <3>4. g = [k \in 0 .. m |-> g[k]]
      BY <3>2
    <3>5. g = [k \in 0 .. m |-> IF k = 0 THEN first ELSE After(g[k - 1])]
      BY <3>3, <3>4, Zenon
    <3> QED BY <3>5, Zenon
  <2> HIDE DEF Digits
  <2> DEFINE T == {m \in 0 .. z : ~Digits(m)}
  <2>3. ASSUME T # {} PROVE FALSE
    <3>1. T \subseteq Nat
      OBVIOUS
    <3>2. PICK m \in T : \A i \in T : m <= i
      <4> HIDE DEF T
      <4> QED BY <2>3, <3>1, LeastOf, Zenon
    <3>3. m # 0 /\ m \in 1 .. z
      BY <2>1
    <3>4. m - 1 \in 0 .. z /\ ~(m <= m - 1)
      BY <3>3
    <3>5. Digits(m - 1)
      BY <3>2, <3>4
    <3> QED BY <2>2, <3>3, <3>5
  <2> QED BY <2>3
<1>4. PICK step : Divides(step, z) /\ Scaled(n, z, d) = Signed(n, step[z].q)
  BY <1>3, Zenon DEF Scaled, first, After
<1>5. ASSUME NEW k \in 0 .. z
      PROVE  step[k] = IF k = 0 THEN first ELSE After(step[k - 1])
  BY <1>4
<1>6. \A k \in 0 .. z : step[k] \in Digit
  <2> DEFINE T == {k \in 0 .. z : step[k] \notin Digit}
  <2>1. ASSUME T # {} PROVE FALSE
    <3>1. T \subseteq Nat
      OBVIOUS
    <3>2. PICK k \in T : \A i \in T : k <= i
      <4> HIDE DEF T
      <4> QED BY <2>1, <3>1, LeastOf, Zenon
    <3>3. step[k] = IF k = 0 THEN first ELSE After(step[k - 1])
      BY <1>5
    <3>4. k # 0
      BY <1>1, <3>3
    <3>5. k - 1 \in 0 .. z /\ ~(k <= k - 1)
      BY <3>4
    <3>6. step[k - 1] \in Digit
      BY <3>2, <3>5
    <3> QED BY <1>2, <3>3, <3>4, <3>6
  <2> QED BY <2>1
<1>7. step[0] = first
  BY <1>5
<1>8. \A k \in 1 .. z : step[k] = After(step[k - 1])
  <2>1. ASSUME NEW k \in 1 .. z PROVE k \in 0 .. z /\ k # 0
    OBVIOUS
  <2> QED BY <1>5, <2>1, Zenon
<1> QED BY <1>4, <1>6, <1>7, <1>8, Zenon DEF Digit, first, After

\* It yields a number.
LEMMA ScaledIsInt ==
  ASSUME NEW n \in Int, NEW z \in Nat, NEW d \in Nat \ {0}
  PROVE  Scaled(n, z, d) \in Int
<1>1. PICK step :
        /\ Scaled(n, z, d) = Signed(n, step[z].q)
        /\ \A k \in 0 .. z : step[k] \in [q : Nat, r : Nat]
        /\ step[0] = [q |-> Magnitude(n) \div d, r |-> Magnitude(n) % d]
        /\ \A k \in 1 .. z : LET p == step[k - 1]
                             IN  step[k] = [q |-> 10 * p.q + (10 * p.r) \div d, r |-> (10 * p.r) % d]
  BY LongDivision, Zenon
<1>2. z \in 0 .. z
  OBVIOUS
<1> QED BY <1>1, <1>2 DEF Signed

\* A table of counts that falls from each point to the warmer.
Falls(curve) ==
  /\ Len(curve) \in Nat /\ Len(curve) >= 2
  /\ \A i \in 1 .. Len(curve) : curve[i] \in Nat
  /\ \A i \in 1 .. Len(curve) - 1 : curve[i] > curve[i + 1]

\* What segment i of a table reads.
Value(curve, i, counts) ==
  CurvePointMilliC(i) + (5000 * (curve[i] - counts)) \div (curve[i] - curve[i + 1])

\* Points further on are lower,
LEMMA FallsThroughout ==
  ASSUME NEW curve, Falls(curve), NEW i \in 1 .. Len(curve), NEW j \in 1 .. Len(curve), i < j
  PROVE  curve[i] > curve[j]
<1> DEFINE T == {k \in i + 1 .. Len(curve) : ~(curve[i] > curve[k])}
<1>1. Len(curve) \in Nat /\ \A k \in 1 .. Len(curve) : curve[k] \in Nat
  BY DEF Falls
<1>2. ASSUME T # {} PROVE FALSE
  <2>1. T \subseteq Nat
    BY <1>1
  <2>2. PICK k \in T : \A m \in T : k <= m
    <3> HIDE DEF T
    <3> QED BY <1>2, <2>1, LeastOf, Zenon
  <2>3. k \in i + 1 .. Len(curve) /\ ~(curve[i] > curve[k])
    BY <2>2
  <2>4. k - 1 \in 1 .. Len(curve) - 1 /\ (k - 1) + 1 = k /\ k - 1 \in 1 .. Len(curve) /\ k \in 1 .. Len(curve)
    BY <1>1, <2>3
  <2>5. curve[k - 1] > curve[k]
    BY <2>4 DEF Falls
  <2>6. CASE k - 1 = i
    BY <2>3, <2>5, <2>6
  <2>7. CASE k - 1 # i
    <3>1. k - 1 \in i + 1 .. Len(curve) /\ ~(k <= k - 1)
      BY <2>3, <2>4, <2>7
    <3>2. curve[i] > curve[k - 1]
      BY <2>2, <3>1
    <3>3. curve[i] \in Nat /\ curve[k] \in Nat /\ curve[k - 1] \in Nat
      BY <1>1, <2>4
    <3> QED BY <2>3, <2>5, <3>2, <3>3
  <2> QED BY <2>6, <2>7
<1>3. j \in i + 1 .. Len(curve)
  BY <1>1
<1> QED BY <1>2, <1>3

\* so a count on the curve is in one segment, the first that reaches down to
\* it, and is read there.
LEMMA InSegment ==
  ASSUME NEW curve, Falls(curve), NEW counts \in Nat, curve[Len(curve)] <= counts, counts <= curve[1]
  PROVE  \E i \in 1 .. Len(curve) - 1 :
           /\ curve[i + 1] <= counts /\ counts <= curve[i] /\ (i = 1 \/ counts < curve[i])
           /\ Interpolate(curve, counts) = {Value(curve, i, counts)}
<1>0. /\ Len(curve) \in Nat /\ Len(curve) >= 2
      /\ \A i \in 1 .. Len(curve) : curve[i] \in Nat
  BY DEF Falls
<1> DEFINE Segment(i) == curve[i + 1] <= counts /\ \A j \in 1 .. i - 1 : curve[j + 1] > counts
<1>1. \E i \in 1 .. Len(curve) - 1 : Segment(i)
  <2> DEFINE T == {i \in 1 .. Len(curve) - 1 : curve[i + 1] <= counts}
  <2>1. T \subseteq Nat
    BY <1>0
  <2>2. Len(curve) - 1 \in T
    BY <1>0
  <2>3. PICK i \in T : \A j \in T : i <= j
    <3> HIDE DEF T
    <3> QED BY <2>1, <2>2, LeastOf, Zenon
  <2>4. ASSUME NEW j \in 1 .. i - 1 PROVE curve[j + 1] > counts
    <3>1. j \in 1 .. Len(curve) - 1 /\ ~(i <= j) /\ j + 1 \in 1 .. Len(curve)
      BY <1>0, <2>3
    <3>2. curve[j + 1] \in Nat /\ j \notin T
      BY <1>0, <2>3, <3>1
    <3> QED BY <3>1, <3>2
  <2> QED BY <2>3, <2>4
<1> DEFINE i == CHOOSE i \in 1 .. Len(curve) - 1 : Segment(i)
<1>2. i \in 1 .. Len(curve) - 1 /\ Segment(i)
  BY <1>1, Zenon
<1>3. ~(counts > curve[1] \/ counts < curve[Len(curve)])
  <2>1. curve[1] \in Nat /\ curve[Len(curve)] \in Nat
    BY <1>0
  <2> QED BY <2>1
<1>4. Interpolate(curve, counts) = {Value(curve, i, counts)}
  BY <1>3, Zenon DEF Interpolate, Value
<1> HIDE DEF i, Segment
<1>5. curve[i + 1] <= counts /\ counts <= curve[i] /\ (i = 1 \/ counts < curve[i])
  <2>1. CASE i = 1
    BY <1>2, <2>1 DEF Segment
  <2>2. CASE i # 1
    <3>1. i - 1 \in 1 .. i - 1 /\ (i - 1) + 1 = i /\ i \in 1 .. Len(curve)
      BY <1>0, <1>2, <2>2
    <3>2. curve[i] > counts /\ curve[i + 1] <= counts
      BY <1>2, <3>1 DEF Segment
    <3>3. curve[i] \in Nat
      BY <1>0, <3>1
    <3> QED BY <3>2, <3>3
  <2> QED BY <2>1, <2>2
<1> QED BY <1>2, <1>4, <1>5

\* A segment reads between its two ends, and falls with the counts.
LEMMA SegmentValue ==
  ASSUME NEW curve, Falls(curve), NEW i \in 1 .. Len(curve) - 1,
         NEW counts \in Nat, curve[i + 1] <= counts, counts <= curve[i]
  PROVE  /\ Value(curve, i, counts) \in Int
         /\ CurvePointMilliC(i) <= Value(curve, i, counts)
         /\ Value(curve, i, counts) <= CurvePointMilliC(i + 1)
         /\ counts = curve[i] => Value(curve, i, counts) = CurvePointMilliC(i)
         /\ counts = curve[i + 1] => Value(curve, i, counts) = CurvePointMilliC(i + 1)
         /\ counts < curve[i] => Value(curve, i, counts + 1) <= Value(curve, i, counts)
<1> DEFINE p == curve[i] - counts
           s == curve[i] - curve[i + 1]
           q == (5000 * p) \div s
<1>1. curve[i] \in Nat /\ curve[i + 1] \in Nat /\ curve[i] > curve[i + 1] /\ i \in Nat
  <2>1. i \in 1 .. Len(curve) /\ i + 1 \in 1 .. Len(curve)
    BY DEF Falls
  <2> QED BY <2>1 DEF Falls
<1>2. p \in Nat /\ s \in Nat \ {0} /\ p <= s
  BY <1>1
<1>3. Value(curve, i, counts) = CurvePointMilliC(i) + q
  BY DEF Value
<1>4. counts < curve[i] => p - 1 \in Nat /\ Value(curve, i, counts + 1) = CurvePointMilliC(i) + (5000 * (p - 1)) \div s
  <2>1. curve[i] - (counts + 1) = p - 1
    <3>1. PICK n \in Int : n = curve[i]
      BY <1>1
    <3>2. n - (counts + 1) = n - counts - 1
      OBVIOUS
    <3> QED BY ONLY <3>1, <3>2
  <2> QED BY <1>1, <2>1 DEF Value
<1>5. counts = curve[i] => p = 0
  BY <1>1
<1>6. counts = curve[i + 1] => p = s
  BY <1>1
<1> HIDE DEF p, s
<1>7. q \in Nat /\ s * q <= 5000 * p /\ 5000 * p < s * q + s
  <2>1. PICK n \in Nat : n = 5000 * p
    BY <1>2
  <2>2. n \div s \in Nat /\ s * (n \div s) <= n /\ n < s * (n \div s) + s
    BY <1>2, Quotient, Zenon
  <2>3. q = n \div s
    BY ONLY <2>1
  <2> HIDE DEF q
  <2> QED BY ONLY <2>1, <2>2, <2>3
<1> HIDE DEF q
<1>8. q <= 5000
  <2>1. ASSUME q >= 5001 PROVE FALSE
    <3>1. s * 5001 <= s * q
      BY <1>2, <1>7, <2>1, Monotone
    <3> QED BY <1>2, <1>7, <3>1
  <2> QED BY <1>7, <2>1
<1>9. p = 0 => q = 0
  <2>1. ASSUME p = 0, q >= 1 PROVE FALSE
    <3>1. s * 1 <= s * q
      BY <1>2, <1>7, <2>1, Monotone
    <3> QED BY <1>2, <1>7, <2>1, <3>1
  <2> QED BY <1>7, <2>1
<1>10. p = s => q = 5000
  <2>1. ASSUME p = s, q <= 4999 PROVE FALSE
    <3>1. s * q <= s * 4999
      BY <1>2, <1>7, <2>1, Monotone
    <3> QED BY <1>2, <1>7, <2>1, <3>1
  <2> QED BY <1>7, <1>8, <2>1
<1>11. ASSUME counts < curve[i] PROVE (5000 * (p - 1)) \div s <= q
  <2> DEFINE t == (5000 * (p - 1)) \div s
  <2>1. 5000 * (p - 1) \in Nat
    BY <1>4, <1>11
  <2>2. t \in Nat /\ s * t <= 5000 * (p - 1)
    <3>1. PICK n \in Nat : n = 5000 * (p - 1)
      BY <2>1
    <3>2. n \div s \in Nat /\ s * (n \div s) <= n
      BY <1>2, Quotient, Zenon
    <3>3. t = n \div s
      BY ONLY <3>1
    <3> HIDE DEF t
    <3> QED BY ONLY <3>1, <3>2, <3>3
  <2> HIDE DEF t
  <2>3. ASSUME t >= q + 1 PROVE FALSE
    <3>1. s * (q + 1) <= s * t
      BY <1>2, <1>7, <2>2, <2>3, Monotone
    <3>2. s * (q + 1) = s * q + s
      BY <1>2, <1>7
    <3>3. s * q \in Nat /\ s * t \in Nat
      BY <1>2, <1>7, <2>2
    <3> QED BY <1>2, <1>7, <2>2, <3>1, <3>2, <3>3
  <2>4. t <= q
    BY <1>7, <2>2, <2>3
  <2> QED BY <2>4 DEF t
<1>12. /\ CurvePointMilliC(i) \in Int /\ CurvePointMilliC(i + 1) = CurvePointMilliC(i) + 5000
  BY <1>1 DEF CurvePointMilliC
<1>13. counts < curve[i] => (5000 * (p - 1)) \div s \in Int
  BY <1>2, <1>4
<1> HIDE DEF Falls
<1> QED BY <1>3, <1>4, <1>5, <1>6, <1>7, <1>8, <1>9, <1>10, <1>11, <1>12, <1>13

(***************************************************************************)
(* Linear interpolation over any falling table, not only the board's two:   *)
(* off either end it reads nothing; every point of the table reads its own  *)
(* temperature; readings stay between those of the two ends; and fewer      *)
(* counts are never colder (sensors/mod.rs:216-240).                        *)
(***************************************************************************)
THEOREM InterpolationFaithful ==
  ASSUME NEW curve, Falls(curve)
  PROVE  /\ \A counts \in Nat :
              Interpolate(curve, counts) = {} <=> counts \notin curve[Len(curve)] .. curve[1]
         /\ \A i \in 1 .. Len(curve) : Interpolate(curve, curve[i]) = {CurvePointMilliC(i)}
         /\ \A counts \in Nat : \A milli \in Interpolate(curve, counts) :
              /\ milli \in Int
              /\ CurvePointMilliC(1) <= milli /\ milli <= CurvePointMilliC(Len(curve))
              /\ \A warmer \in Interpolate(curve, counts + 1) : warmer <= milli
<1>1. /\ Len(curve) \in Nat /\ Len(curve) >= 2
      /\ \A i \in 1 .. Len(curve) : curve[i] \in Nat
  BY DEF Falls
<1>2. curve[1] \in Nat /\ curve[Len(curve)] \in Nat
  BY <1>1
<1>3. ASSUME NEW i \in Int, NEW j \in Int, i <= j PROVE CurvePointMilliC(i) <= CurvePointMilliC(j)
  BY <1>3 DEF CurvePointMilliC
<1>4. ASSUME NEW counts \in Nat, counts \notin curve[Len(curve)] .. curve[1]
      PROVE  Interpolate(curve, counts) = {}
  BY <1>2, <1>4 DEF Interpolate
<1>5. ASSUME NEW counts \in Nat, counts \in curve[Len(curve)] .. curve[1]
      PROVE  Interpolate(curve, counts) # {}
  <2>1. curve[Len(curve)] <= counts /\ counts <= curve[1]
    BY <1>2, <1>5
  <2>2. \E i \in 1 .. Len(curve) - 1 : Interpolate(curve, counts) = {Value(curve, i, counts)}
    BY <2>1, InSegment, Zenon
  <2> QED BY <2>2
<1>6. ASSUME NEW k \in 1 .. Len(curve) PROVE Interpolate(curve, curve[k]) = {CurvePointMilliC(k)}
  <2>1. curve[k] \in Nat /\ curve[Len(curve)] <= curve[k] /\ curve[k] <= curve[1]
    <3>1. k = 1 \/ 1 < k
      BY <1>1
    <3>2. k = Len(curve) \/ k < Len(curve)
      BY <1>1
    <3>3. 1 \in 1 .. Len(curve) /\ Len(curve) \in 1 .. Len(curve)
      BY <1>1
    <3>4. k = 1 \/ curve[1] > curve[k]
      BY <3>1, <3>3, FallsThroughout
    <3>5. k = Len(curve) \/ curve[k] > curve[Len(curve)]
      BY <3>2, <3>3, FallsThroughout
    <3> QED BY <1>1, <1>2, <3>4, <3>5
  <2>2. PICK i \in 1 .. Len(curve) - 1 :
          /\ curve[i + 1] <= curve[k] /\ curve[k] <= curve[i] /\ (i = 1 \/ curve[k] < curve[i])
          /\ Interpolate(curve, curve[k]) = {Value(curve, i, curve[k])}
    BY <2>1, InSegment
  <2>3. i \in 1 .. Len(curve) /\ i + 1 \in 1 .. Len(curve) /\ k \in Int
    BY <1>1
  <2>4. ~(k < i)
    <3>1. k < i => curve[k] > curve[i]
      BY <2>3, FallsThroughout
    <3> QED BY <1>1, <2>2, <2>3, <3>1
  <2>5. ~(i + 1 < k)
    <3>1. i + 1 < k => curve[i + 1] > curve[k]
      BY <2>3, FallsThroughout
    <3> QED BY <1>1, <2>2, <2>3, <3>1
  <2>6. k = i \/ k = i + 1
    BY <2>3, <2>4, <2>5
  <2>7. Value(curve, i, curve[k]) = CurvePointMilliC(k)
    <3>1. /\ curve[k] = curve[i] => Value(curve, i, curve[k]) = CurvePointMilliC(i)
          /\ curve[k] = curve[i + 1] => Value(curve, i, curve[k]) = CurvePointMilliC(i + 1)
      BY <2>1, <2>2, SegmentValue
    <3> QED BY <2>6, <3>1
  <2> QED BY <2>2, <2>7
<1>7. ASSUME NEW counts \in Nat, NEW milli \in Interpolate(curve, counts)
      PROVE  /\ milli \in Int
             /\ CurvePointMilliC(1) <= milli /\ milli <= CurvePointMilliC(Len(curve))
             /\ \A warmer \in Interpolate(curve, counts + 1) : warmer <= milli
  <2>1. curve[Len(curve)] <= counts /\ counts <= curve[1]
    BY <1>2, <1>4
  <2>2. PICK i \in 1 .. Len(curve) - 1 :
          /\ curve[i + 1] <= counts /\ counts <= curve[i] /\ (i = 1 \/ counts < curve[i])
          /\ Interpolate(curve, counts) = {Value(curve, i, counts)}
    BY <2>1, InSegment
  <2>3. /\ milli \in Int /\ milli = Value(curve, i, counts)
        /\ CurvePointMilliC(i) <= milli /\ milli <= CurvePointMilliC(i + 1)
        /\ counts < curve[i] => Value(curve, i, counts + 1) <= milli
    BY <2>2, SegmentValue
  <2>4. /\ i \in Int /\ 1 <= i /\ i + 1 <= Len(curve)
        /\ CurvePointMilliC(1) \in Int /\ CurvePointMilliC(i) \in Int
        /\ CurvePointMilliC(i + 1) \in Int /\ CurvePointMilliC(Len(curve)) \in Int
    BY <1>1 DEF CurvePointMilliC
  <2>5. CurvePointMilliC(1) <= milli /\ milli <= CurvePointMilliC(Len(curve))
    <3>1. CurvePointMilliC(1) <= CurvePointMilliC(i) /\ CurvePointMilliC(i + 1) <= CurvePointMilliC(Len(curve))
      BY <1>1, <1>3, <2>4
    <3> QED BY <2>3, <2>4, <3>1
  <2>6. ASSUME NEW warmer \in Interpolate(curve, counts + 1) PROVE warmer <= milli
    <3>1. counts + 1 \in Nat /\ curve[Len(curve)] <= counts + 1 /\ counts + 1 <= curve[1]
      BY <1>2, <1>4
    <3>2. PICK j \in 1 .. Len(curve) - 1 :
            /\ curve[j + 1] <= counts + 1 /\ counts + 1 <= curve[j] /\ (j = 1 \/ counts + 1 < curve[j])
            /\ Interpolate(curve, counts + 1) = {Value(curve, j, counts + 1)}
      BY <3>1, InSegment
    <3>3. warmer = Value(curve, j, counts + 1)
      BY <3>2
    <3>4. warmer \in Int /\ warmer <= CurvePointMilliC(j + 1)
      BY <3>1, <3>2, <3>3, SegmentValue
    <3>5. j \in 1 .. Len(curve) /\ i + 1 \in 1 .. Len(curve) /\ j \in Int
      BY <1>1
    <3>6. ~(i < j)
      <4>1. i + 1 < j => curve[i + 1] > curve[j]
        BY <3>5, FallsThroughout
      <4>2. curve[i + 1] \in Nat /\ curve[j] \in Nat
        BY <1>1, <3>5
      <4> QED BY <2>2, <2>4, <3>2, <3>5, <4>1, <4>2
    <3>7. CASE j = i
      <4>1. curve[i] \in Nat
        BY <1>1, <3>5, <3>7
      <4>2. counts < curve[i]
        BY <3>2, <3>7, <4>1
      <4> QED BY <2>3, <3>3, <3>7, <4>2
    <3>8. CASE j < i
      <4>1. CurvePointMilliC(j + 1) <= CurvePointMilliC(i) /\ CurvePointMilliC(j + 1) \in Int
        <5>1. j + 1 \in Int /\ j + 1 <= i
          BY <2>4, <3>5, <3>8
        <5> QED BY <1>3, <2>4, <5>1 DEF CurvePointMilliC
      <4> QED BY <2>3, <2>4, <3>4, <4>1
    <3> QED BY <2>4, <3>5, <3>6, <3>7, <3>8
  <2> QED BY <2>3, <2>5, <2>6
<1> QED BY <1>4, <1>5, <1>6, <1>7, Zenon

\* The two curves, point by point.
LEMMA NtcCurvePoints ==
  /\ NtcCurve[1] = 3996 /\ NtcCurve[2] = 3955 /\ NtcCurve[3] = 3900 /\ NtcCurve[4] = 3830 /\ NtcCurve[5] = 3740 /\ NtcCurve[6] = 3629
  /\ NtcCurve[7] = 3495 /\ NtcCurve[8] = 3337 /\ NtcCurve[9] = 3156 /\ NtcCurve[10] = 2955 /\ NtcCurve[11] = 2738 /\ NtcCurve[12] = 2510
  /\ NtcCurve[13] = 2278 /\ NtcCurve[14] = 2048 /\ NtcCurve[15] = 1825 /\ NtcCurve[16] = 1614 /\ NtcCurve[17] = 1419 /\ NtcCurve[18] = 1241
  /\ NtcCurve[19] = 1081 /\ NtcCurve[20] = 940 /\ NtcCurve[21] = 815 /\ NtcCurve[22] = 707 /\ NtcCurve[23] = 613 /\ NtcCurve[24] = 532
  /\ NtcCurve[25] = 462 /\ NtcCurve[26] = 401 /\ NtcCurve[27] = 350 /\ NtcCurve[28] = 305 /\ NtcCurve[29] = 267 /\ NtcCurve[30] = 234
  /\ NtcCurve[31] = 206 /\ NtcCurve[32] = 181 /\ NtcCurve[33] = 160 /\ NtcCurve[34] = 142
BY DEF NtcCurve

LEMMA NtcCurveFalls ==
  ASSUME NEW i \in 1 .. 33
  PROVE  NtcCurve[i] > NtcCurve[i + 1]
<1>1. i \in Int /\ 1 <= i /\ i <= 33
  OBVIOUS
<1> QED BY ONLY <1>1, NtcCurvePoints

LEMMA BoardNtcCurvePoints ==
  /\ BoardNtcCurve[1] = 4008 /\ BoardNtcCurve[2] = 3978 /\ BoardNtcCurve[3] = 3940 /\ BoardNtcCurve[4] = 3893 /\ BoardNtcCurve[5] = 3834 /\ BoardNtcCurve[6] = 3764
  /\ BoardNtcCurve[7] = 3680 /\ BoardNtcCurve[8] = 3581 /\ BoardNtcCurve[9] = 3468 /\ BoardNtcCurve[10] = 3341 /\ BoardNtcCurve[11] = 3200 /\ BoardNtcCurve[12] = 3047
  /\ BoardNtcCurve[13] = 2883 /\ BoardNtcCurve[14] = 2712 /\ BoardNtcCurve[15] = 2536 /\ BoardNtcCurve[16] = 2358 /\ BoardNtcCurve[17] = 2181 /\ BoardNtcCurve[18] = 2007
  /\ BoardNtcCurve[19] = 1840 /\ BoardNtcCurve[20] = 1680 /\ BoardNtcCurve[21] = 1529 /\ BoardNtcCurve[22] = 1388 /\ BoardNtcCurve[23] = 1258 /\ BoardNtcCurve[24] = 1138
  /\ BoardNtcCurve[25] = 1029 /\ BoardNtcCurve[26] = 929 /\ BoardNtcCurve[27] = 839 /\ BoardNtcCurve[28] = 758 /\ BoardNtcCurve[29] = 685 /\ BoardNtcCurve[30] = 619
  /\ BoardNtcCurve[31] = 560 /\ BoardNtcCurve[32] = 508 /\ BoardNtcCurve[33] = 460 /\ BoardNtcCurve[34] = 418
BY DEF BoardNtcCurve

LEMMA BoardNtcCurveFalls ==
  ASSUME NEW i \in 1 .. 33
  PROVE  BoardNtcCurve[i] > BoardNtcCurve[i + 1]
<1>1. i \in Int /\ 1 <= i /\ i <= 33
  OBVIOUS
<1> QED BY ONLY <1>1, BoardNtcCurvePoints

\* The board's curves fall.
LEMMA Curves ==
  /\ Falls(NtcCurve) /\ Len(NtcCurve) = 34 /\ NtcCurve[1] <= AdcFullScale
  /\ Falls(BoardNtcCurve) /\ Len(BoardNtcCurve) = 34 /\ BoardNtcCurve[1] <= AdcFullScale
<1>1. Len(NtcCurve) = 34 /\ NtcCurve[1] = 3996
  BY NtcCurvePoints DEF NtcCurve
<1>2. Len(BoardNtcCurve) = 34 /\ BoardNtcCurve[1] = 4008
  BY BoardNtcCurvePoints DEF BoardNtcCurve
<1>3. NtcCurve \in Seq(Nat) /\ BoardNtcCurve \in Seq(Nat)
  BY DEF NtcCurve, BoardNtcCurve
<1>4. /\ \A i \in 1 .. Len(NtcCurve) : NtcCurve[i] \in Nat
      /\ \A i \in 1 .. Len(BoardNtcCurve) : BoardNtcCurve[i] \in Nat
  BY <1>3, ElementOfSeq, Zenon
<1>5. ASSUME NEW i \in 1 .. 33 PROVE NtcCurve[i] > NtcCurve[i + 1]
  BY NtcCurveFalls
<1>6. ASSUME NEW i \in 1 .. 33 PROVE BoardNtcCurve[i] > BoardNtcCurve[i + 1]
  BY BoardNtcCurveFalls
<1>7. 34 - 1 = 33
  OBVIOUS
<1> QED BY <1>1, <1>2, <1>4, <1>5, <1>6, <1>7 DEF Falls, AdcFullScale

CurveOf(kind) == IF kind = "Ntc" THEN NtcCurve ELSE BoardNtcCurve

\* Temperatures, in thousandths of a degree, that a slot can report.
Fits(milli) == milli \in Int /\ Magnitude(milli) <= 320000

\* An untrimmed slot passes a temperature on, in hundredths of a degree.
LEMMA Untrimmed ==
  ASSUME NEW kind \in Ntcs \cup {"Pt1000"}, NEW word \in Nat, word < RawInvalid,
         NEW milli, Fits(milli), Linearise(kind, word) = {milli}
  PROVE  ByDefault(kind, word) = Truncated(milli, 10)
<1> DEFINE slot == [kind |-> kind, unit |-> NaturalUnit(kind), calib |-> DefaultCalib(kind)]
<1>1. /\ slot.kind = kind /\ slot.unit = "CentiCelsius" /\ slot.calib = Unity
      /\ kind # "None" /\ kind # "Angle"
  BY DEF Ntcs, Thermometers, NaturalUnit, DefaultCalib
<1>2. ByDefault(kind, word) = Calibrate(slot, word)
  BY DEF ByDefault
<1> HIDE DEF slot
<1>0. milli \in Int /\ Magnitude(milli) <= 320000
  BY DEF Fits
<1>3. IsCalibrated(Unity) /\ Unity.offset = 0 /\ Unity.constant = 0 /\ Unity.slope = 1000000000
  BY DEF IsCalibrated, Unity
<1>4. word # RawInvalid
  BY DEF RawInvalid
<1>5. (CHOOSE l \in Linearise(kind, word) : TRUE) = milli
  BY Zenon
<1>6. ByDefault(kind, word) = Saturate(Truncated(Apply(Unity, milli), PerMilli("CentiCelsius")))
  <2>1. IsCalibrated(Unity) /\ Linearise(kind, word) # {}
    BY <1>3
  <2> QED BY ONLY <1>1, <1>2, <1>4, <1>5, <2>1, Zenon DEF Calibrate
<1>7. PerMilli("CentiCelsius") = 10
  BY DEF PerMilli
<1>8. Apply(Unity, milli) = milli
  <2> DEFINE q == (Magnitude(milli) * Magnitude(1000000000)) \div 1000000000
  <2>1. Magnitude(milli) \in Nat /\ Magnitude(milli) < 1000000000000 /\ Magnitude(1000000000) = 1000000000
    BY ONLY <1>0 DEF Magnitude
  <2>2. q = Magnitude(milli) /\ q < NanoCut
    BY ONLY <1>0, <2>1 DEF NanoCut
  <2>3. TimesNano(milli, 1000000000) = Signed(milli, Signed(1000000000, IF q < NanoCut THEN q ELSE NanoCut))
    BY ONLY <1>0, <2>1, TimesNanoExact
  <2> HIDE DEF q
  <2>4. TimesNano(milli, 1000000000) = milli
    BY ONLY <1>0, <2>2, <2>3 DEF Signed, Magnitude
  <2>5. milli - 0 = milli /\ milli + 0 = milli
    BY <1>0
  <2> QED BY ONLY <1>3, <2>4, <2>5 DEF Apply
<1>9. /\ Truncated(milli, 10) \in Int
      /\ -32000 <= Truncated(milli, 10) /\ Truncated(milli, 10) <= 32000
  BY ONLY <1>0 DEF Truncated, Signed, Magnitude
<1>10. Saturate(Truncated(milli, 10)) = Truncated(milli, 10)
  BY ONLY <1>9 DEF Saturate
<1> QED BY ONLY <1>6, <1>7, <1>8, <1>10

\* Cutting a digit off keeps the order.
LEMMA TruncatedKeepsOrder ==
  ASSUME NEW a \in Int, NEW b \in Int, a <= b
  PROVE  Truncated(a, 10) \in Int /\ Truncated(a, 10) <= Truncated(b, 10)
BY DEF Truncated, Signed, Magnitude

(***************************************************************************)
(* A thermistor slot with its defaults: the curve of its kind, and no       *)
(* temperature off either end of it.                                        *)
(***************************************************************************)
LEMMA ThermistorReads ==
  ASSUME NEW kind \in {"Ntc", "BoardNtc"}, NEW word \in Nat, word <= AdcFullScale
  PROVE  LET curve == CurveOf(kind)
         IN  /\ word \notin curve[34] .. curve[1] => ByDefault(kind, word) = SensorInvalid
             /\ word \in curve[34] .. curve[1] =>
                  \E milli \in Int :
                    /\ Interpolate(curve, word) = {milli}
                    /\ ByDefault(kind, word) = Truncated(milli, 10)
                    /\ ByDefault(kind, word) # SensorInvalid
<1> DEFINE curve == CurveOf(kind)
<1>1. /\ Falls(curve) /\ Len(curve) = 34
      /\ Linearise(kind, word) = Interpolate(curve, word)
      /\ kind \in Ntcs \cup {"Pt1000"}
  <2>1. Linearise(kind, word) = Interpolate(curve, word)
    BY DEF Linearise, CurveOf
  <2> QED BY <2>1, Curves DEF Ntcs, CurveOf
<1> HIDE DEF curve
<1>2. word # RawInvalid /\ word < RawInvalid /\ kind # "None"
  BY <1>1 DEF AdcFullScale, RawInvalid, Ntcs
<1>3. ASSUME word \notin curve[34] .. curve[1] PROVE ByDefault(kind, word) = SensorInvalid
  <2>1. Interpolate(curve, word) = {}
    BY <1>1, <1>3, InterpolationFaithful, Zenon
  <2>2. NaturalUnit(kind) = "CentiCelsius"
    BY DEF NaturalUnit, Thermometers, Ntcs
  <2> QED BY <1>1, <1>2, <2>1, <2>2 DEF ByDefault, Calibrate
<1>4. ASSUME word \in curve[34] .. curve[1]
      PROVE  \E milli \in Int :
               /\ Interpolate(curve, word) = {milli}
               /\ ByDefault(kind, word) = Truncated(milli, 10)
               /\ ByDefault(kind, word) # SensorInvalid
  <2>1. Interpolate(curve, word) # {}
    BY <1>1, <1>4, InterpolationFaithful, Zenon
  <2>2. PICK milli : Interpolate(curve, word) = {milli}
    BY <2>1, Zenon DEF Interpolate
  <2>3. milli \in Interpolate(curve, word)
    BY <2>2
  <2>4. milli \in Int /\ CurvePointMilliC(1) <= milli /\ milli <= CurvePointMilliC(34)
    BY <1>1, <2>3, InterpolationFaithful, Zenon
  <2>5. -40000 <= milli /\ milli <= 125000
    BY <1>1, <2>4 DEF CurvePointMilliC
  <2>6. Fits(milli)
    BY <2>4, <2>5 DEF Magnitude, Fits
  <2>7. Linearise(kind, word) = {milli}
    BY <1>1, <2>2
  <2>8. Truncated(milli, 10) # SensorInvalid
    BY ONLY <2>4, <2>5 DEF Truncated, Signed, Magnitude, SensorInvalid
  <2>9. ByDefault(kind, word) = Truncated(milli, 10)
    BY ONLY <1>1, <1>2, <2>6, <2>7, word \in Nat, Untrimmed, Zenon
  <2> QED BY ONLY <2>2, <2>4, <2>8, <2>9, Zenon
<1> QED BY <1>3, <1>4, Zenon DEF curve

(***************************************************************************)
(* The thermistor slots, for every raw number.                              *)
(***************************************************************************)
LEMMA ThermistorsFaithful ==
  ASSUME NEW kind \in {"Ntc", "BoardNtc"}
  PROVE  ThermistorFaithful(kind)
<1> DEFINE curve == CurveOf(kind)
           reads == [word \in 0 .. AdcFullScale |-> ByDefault(kind, word)]
<1>1. /\ Falls(curve) /\ Len(curve) = 34 /\ curve[1] <= AdcFullScale
      /\ \A i \in 1 .. 34 : curve[i] \in Nat /\ curve[34] <= curve[i] /\ curve[i] <= curve[1]
  <2>1. Falls(curve) /\ Len(curve) = 34 /\ curve[1] <= AdcFullScale
    BY Curves DEF CurveOf
  <2> HIDE DEF curve
  <2>2. 1 \in 1 .. 34 /\ 34 \in 1 .. 34 /\ \A i \in 1 .. 34 : curve[i] \in Nat
    BY <2>1 DEF Falls
  <2>3. ASSUME NEW i \in 1 .. 34 PROVE curve[34] <= curve[i] /\ curve[i] <= curve[1]
    <3>0. (i = 1 \/ 1 < i) /\ (i = 34 \/ i < 34)
      OBVIOUS
    <3>1. i = 1 \/ curve[1] > curve[i]
      BY <2>1, <2>2, <3>0, FallsThroughout, Zenon
    <3>2. i = 34 \/ curve[i] > curve[34]
      BY <2>1, <2>2, <3>0, FallsThroughout, Zenon
    <3> QED BY <2>2, <3>1, <3>2
  <2> QED BY <2>1, <2>2, <2>3
<1>2. ASSUME NEW word \in 0 .. AdcFullScale
      PROVE  /\ word \notin curve[34] .. curve[1] => reads[word] = SensorInvalid
             /\ word \in curve[34] .. curve[1] =>
                  \E milli \in Int :
                    /\ Interpolate(curve, word) = {milli} /\ reads[word] = Truncated(milli, 10)
                    /\ reads[word] # SensorInvalid
  <2>1. word \in Nat /\ word <= AdcFullScale
    BY DEF AdcFullScale
  <2>2. reads[word] = ByDefault(kind, word)
    BY Zenon
  <2> HIDE DEF reads
  <2>3. /\ word \notin curve[34] .. curve[1] => ByDefault(kind, word) = SensorInvalid
        /\ word \in curve[34] .. curve[1] =>
             \E milli \in Int :
               /\ Interpolate(curve, word) = {milli} /\ ByDefault(kind, word) = Truncated(milli, 10)
               /\ ByDefault(kind, word) # SensorInvalid
    BY <2>1, ThermistorReads, Zenon
  <2> HIDE DEF curve
  <2> QED BY ONLY <2>2, <2>3, Zenon
<1>3. ASSUME NEW i \in 1 .. 34 PROVE reads[curve[i]] = CurvePointMilliC(i) \div 10
  <2>1. curve[i] \in 0 .. AdcFullScale /\ curve[i] \in curve[34] .. curve[1]
    <3> HIDE DEF curve
    <3>0. 1 \in 1 .. 34 /\ 34 \in 1 .. 34
      OBVIOUS
    <3>1. curve[1] \in Nat /\ curve[34] \in Nat /\ curve[i] \in Nat /\ curve[34] <= curve[i] /\ curve[i] <= curve[1]
      BY <1>1, <3>0, Zenon
    <3>2. PICK a \in Nat, b \in Nat, c \in Nat : a = curve[34] /\ b = curve[1] /\ c = curve[i]
      BY <3>1
    <3>3. a <= c /\ c <= b /\ b <= AdcFullScale /\ AdcFullScale \in Nat
      BY <1>1, <3>1, <3>2 DEF AdcFullScale
    <3>4. c \in 0 .. AdcFullScale /\ c \in a .. b
      BY ONLY <3>3, a \in Nat, b \in Nat, c \in Nat
    <3> QED BY <3>2, <3>4
  <2> HIDE DEF curve, reads
  <2>2. PICK milli \in Int : Interpolate(curve, curve[i]) = {milli} /\ reads[curve[i]] = Truncated(milli, 10)
    BY <1>2, <2>1, Zenon
  <2>3. Interpolate(curve, curve[i]) = {CurvePointMilliC(i)}
    BY <1>1, InterpolationFaithful, Zenon
  <2>4. milli = CurvePointMilliC(i)
    BY <2>2, <2>3
  <2>5. Truncated(CurvePointMilliC(i), 10) = CurvePointMilliC(i) \div 10
    BY DEF CurvePointMilliC, Truncated, Signed, Magnitude
  <2> QED BY <2>2, <2>4, <2>5
<1>4. ASSUME NEW word \in 0 .. AdcFullScale
      PROVE  reads[word] = SensorInvalid <=> word \notin curve[34] .. curve[1]
  <2> HIDE DEF curve, reads
  <2> QED BY <1>2, Zenon
<1>5. ASSUME NEW word \in curve[34] .. curve[1] - 1 PROVE reads[word] >= reads[word + 1]
  <2> HIDE DEF curve, reads
  <2>0. 1 \in 1 .. 34 /\ 34 \in 1 .. 34
    OBVIOUS
  <2>1. curve[1] \in Nat /\ curve[34] \in Nat /\ curve[1] <= AdcFullScale
    BY <1>1, <2>0, Zenon
  <2>2. /\ word \in 0 .. AdcFullScale /\ word \in curve[34] .. curve[1]
        /\ word + 1 \in 0 .. AdcFullScale /\ word + 1 \in curve[34] .. curve[1]
    <3>1. PICK a \in Nat, b \in Nat : a = curve[34] /\ b = curve[1]
      BY <2>1
    <3>2. AdcFullScale \in Nat /\ b <= AdcFullScale /\ word \in a .. b - 1
      BY <2>1, <3>1 DEF AdcFullScale
    <3>3. word \in 0 .. AdcFullScale /\ word \in a .. b /\ word + 1 \in 0 .. AdcFullScale /\ word + 1 \in a .. b
      BY ONLY <3>2, a \in Nat, b \in Nat
    <3> QED BY <3>1, <3>3
  <2>3. PICK milli \in Int : Interpolate(curve, word) = {milli} /\ reads[word] = Truncated(milli, 10)
    BY <1>2, <2>2, Zenon
  <2>4. PICK warmer \in Int : Interpolate(curve, word + 1) = {warmer} /\ reads[word + 1] = Truncated(warmer, 10)
    BY <1>2, <2>2, Zenon
  <2>5. milli \in Interpolate(curve, word) /\ warmer \in Interpolate(curve, word + 1) /\ word \in Nat
    BY <1>2, <2>2, <2>3, <2>4
  <2>6. warmer <= milli
    BY <1>1, <2>5, InterpolationFaithful, Zenon
  <2>7. Truncated(warmer, 10) \in Int /\ Truncated(milli, 10) \in Int /\ Truncated(warmer, 10) <= Truncated(milli, 10)
    BY <2>6, TruncatedKeepsOrder
  <2> QED BY <2>3, <2>4, <2>7
<1>6. ASSUME kind = "Ntc", NEW word \in 0 .. AdcFullScale
      PROVE  ByDefault("NtcToSupply", AdcFullScale - word) = reads[word]
  <2> DEFINE mirrored == AdcFullScale - word
  <2>1. mirrored \in Nat /\ word \in Nat /\ mirrored # RawInvalid /\ word # RawInvalid
        /\ (IF mirrored < AdcFullScale THEN AdcFullScale - mirrored ELSE 0) = word
    BY DEF AdcFullScale, RawInvalid
  <2> HIDE DEF mirrored
  <2>2. Linearise("NtcToSupply", mirrored) = Interpolate(NtcCurve, word)
    BY <2>1 DEF Linearise
  <2>3. Linearise("Ntc", word) = Interpolate(NtcCurve, word)
    BY DEF Linearise
  <2> DEFINE Reads(linear) ==
        IF linear = {} \/ ~IsCalibrated(Unity) THEN SensorInvalid
        ELSE Saturate(Truncated(Apply(Unity, CHOOSE l \in linear : TRUE), PerMilli("CentiCelsius")))
  <2>4. ASSUME NEW k \in Ntcs, NEW w, w # RawInvalid
        PROVE  ByDefault(k, w) = Reads(Linearise(k, w))
    <3> DEFINE slot == [kind |-> k, unit |-> NaturalUnit(k), calib |-> DefaultCalib(k)]
    <3>1. /\ slot.kind = k /\ slot.unit = "CentiCelsius" /\ slot.calib = Unity
          /\ k # "None" /\ k # "Angle"
      BY DEF Ntcs, Thermometers, NaturalUnit, DefaultCalib
    <3>2. ByDefault(k, w) = Calibrate(slot, w)
      BY DEF ByDefault
    <3> HIDE DEF slot
    <3>3. Calibrate(slot, w) = Reads(Linearise(k, w))
      BY ONLY <2>4, <3>1 DEF Calibrate
    <3> QED BY <3>2, <3>3, Zenon
  <2>5. ByDefault("NtcToSupply", mirrored) = ByDefault("Ntc", word)
    <3>1. "NtcToSupply" \in Ntcs /\ "Ntc" \in Ntcs
      BY DEF Ntcs
    <3> HIDE DEF Reads
    <3> QED BY <2>1, <2>2, <2>3, <2>4, <3>1, Zenon
  <2>6. reads[word] = ByDefault("Ntc", word)
    BY <1>6, Zenon
  <2> QED BY <2>5, <2>6 DEF mirrored
<1>7. Len(curve) = 34
  BY <1>1
<1> HIDE DEF reads
<1>8. curve = IF kind = "Ntc" THEN NtcCurve ELSE BoardNtcCurve
  BY DEF CurveOf
<1> HIDE DEF curve
<1> QED BY <1>3, <1>4, <1>5, <1>6, <1>7, <1>8, Zenon DEF reads, ThermistorFaithful

\* One digit further is ten times as fine.
LEMMA NextDigit ==
  ASSUME NEW d \in Nat \ {0}, NEW q \in Nat, NEW r \in Nat
  PROVE  LET t == 10 * q + (10 * r) \div d
             u == (10 * r) % d
         IN  u < d /\ d * t + u = 10 * (d * q + r)
<1> DEFINE e == (10 * r) \div d
           t == 10 * q + e
           u == (10 * r) % d
<1>1. PICK m \in Nat : m = 10 * r
  OBVIOUS
<1>2. m = d * (m \div d) + (m % d) /\ m % d < d /\ m \div d \in Nat /\ m % d \in Nat
  BY ONLY m \in Nat, d \in Nat \ {0}
<1>3. e \in Nat /\ u \in Nat /\ 10 * r = d * e + u /\ u < d
  BY ONLY <1>1, <1>2
<1> HIDE DEF e, u
<1>4. d * t = 10 * (d * q) + d * e
  BY ONLY <1>3, q \in Nat, d \in Nat \ {0}
<1>5. d * q \in Nat /\ d * e \in Nat
  BY <1>3
<1> HIDE DEF t
<1>6. u < d /\ d * t + u = 10 * (d * q + r)
  BY ONLY <1>3, <1>4, <1>5, r \in Nat
<1> QED BY ONLY <1>6 DEF t, u, e

Ten7 == 10000000

\* So seven digits of the quotient are the quotient of ten million times n.
LEMMA SevenDigits ==
  ASSUME NEW n \in Int, NEW d \in Nat \ {0}
  PROVE  \E q \in Nat : /\ Scaled(n, 7, d) = Signed(n, q)
                        /\ d * q <= Ten7 * Magnitude(n)
                        /\ Ten7 * Magnitude(n) < d * q + d
<1> DEFINE m == Magnitude(n)
<1>0. m \in Nat
  BY DEF Magnitude
<1>1. PICK step :
        /\ Scaled(n, 7, d) = Signed(n, step[7].q)
        /\ \A k \in 0 .. 7 : step[k] \in [q : Nat, r : Nat]
        /\ step[0] = [q |-> m \div d, r |-> m % d]
        /\ \A k \in 1 .. 7 : LET p == step[k - 1]
                             IN  step[k] = [q |-> 10 * p.q + (10 * p.r) \div d, r |-> (10 * p.r) % d]
  <2>1. 7 \in Nat
    OBVIOUS
  <2> QED BY <2>1, LongDivision, Zenon
<1> HIDE DEF m
<1> DEFINE S(k) == d * step[k].q + step[k].r
<1>2. S(0) = m /\ step[0].r < d /\ S(0) \in Nat
  <2>1. step[0].q = m \div d /\ step[0].r = m % d
    BY <1>1
  <2>2. m = d * (m \div d) + (m % d) /\ m % d < d
    BY ONLY <1>0, d \in Nat \ {0}
  <2> QED BY ONLY <1>0, <2>1, <2>2
<1>3. ASSUME NEW k \in 1 .. 7 PROVE step[k].r < d /\ S(k) = 10 * S(k - 1) /\ S(k - 1) \in Nat
  <2>1. k \in 0 .. 7 /\ k - 1 \in 0 .. 7
    OBVIOUS
  <2>2. step[k] \in [q : Nat, r : Nat] /\ step[k - 1] \in [q : Nat, r : Nat]
    BY <1>1, <2>1
  <2>3. step[k] = [q |-> 10 * step[k - 1].q + (10 * step[k - 1].r) \div d, r |-> (10 * step[k - 1].r) % d]
    BY <1>1
  <2>4. PICK q \in Nat, r \in Nat : q = step[k - 1].q /\ r = step[k - 1].r
    BY <2>2
  <2>5. PICK t \in Nat, u \in Nat : t = step[k].q /\ u = step[k].r
    BY <2>2
  <2>6. t = 10 * q + (10 * r) \div d /\ u = (10 * r) % d
    BY ONLY <2>3, <2>4, <2>5
  <2>7. u < d /\ d * t + u = 10 * (d * q + r)
    <3>1. ((10 * r) % d) < d /\ d * (10 * q + ((10 * r) \div d)) + ((10 * r) % d) = 10 * (d * q + r)
      BY NextDigit, Zenon
    <3> QED BY ONLY <2>6, <3>1
  <2>8. d * q + r \in Nat
    OBVIOUS
  <2> QED BY ONLY <2>4, <2>5, <2>7, <2>8
<1>4. /\ S(1) = 10 * S(0) /\ S(2) = 10 * S(1) /\ S(3) = 10 * S(2) /\ S(4) = 10 * S(3)
      /\ S(5) = 10 * S(4) /\ S(6) = 10 * S(5) /\ S(7) = 10 * S(6) /\ step[7].r < d
  <2>1. 1 \in 1 .. 7 /\ 2 \in 1 .. 7 /\ 3 \in 1 .. 7 /\ 4 \in 1 .. 7 /\ 5 \in 1 .. 7 /\ 6 \in 1 .. 7 /\ 7 \in 1 .. 7
    OBVIOUS
  <2>2. 1 - 1 = 0 /\ 2 - 1 = 1 /\ 3 - 1 = 2 /\ 4 - 1 = 3 /\ 5 - 1 = 4 /\ 6 - 1 = 5 /\ 7 - 1 = 6
    OBVIOUS
  <2> HIDE DEF S
  <2> QED BY ONLY <1>3, <2>1, <2>2
<1>5. step[7].q \in Nat /\ step[7].r \in Nat
  <2>1. 7 \in 0 .. 7
    OBVIOUS
  <2> QED BY <1>1, <2>1
<1>6. PICK q \in Nat, r \in Nat : q = step[7].q /\ r = step[7].r
  BY <1>5
<1>7. d * q + r = 10000000 * m /\ r < d
  <2>1. S(7) = 10000000 * m
    <3> HIDE DEF S
    <3> QED BY ONLY <1>0, <1>2, <1>4
  <2> QED BY ONLY <1>4, <1>6, <2>1
<1>8. d * q <= 10000000 * m /\ 10000000 * m < d * q + d
  <2>1. d * q \in Nat
    OBVIOUS
  <2> QED BY ONLY <1>0, <1>7, <2>1, r \in Nat, d \in Nat \ {0}
<1>9. Ten7 = 10000000
  BY DEF Ten7
<1> QED BY ONLY <1>1, <1>6, <1>8, <1>9 DEF m

(***************************************************************************)
(* The bridge's transfer function rises with every count, and its range     *)
(* fits the wire.  Below, n counts the steps from balance.                  *)
(***************************************************************************)
\* Above balance: k steps read more than k - 1 do.
LEMMA RisesAbove ==
  ASSUME NEW k \in Nat, k <= 510, NEW v \in Nat, NEW w \in Nat,
         (27815172 - 5082 * k) * v <= 2640000000 * k,
         2640000000 * (k + 1) < (27815172 - 5082 * (k + 1)) * w + (27815172 - 5082 * (k + 1))
  PROVE  v < w
<1> DEFINE D == 27815172 - 5082 * k
           E == 27815172 - 5082 * (k + 1)
<1>1. D \in Nat /\ E \in Nat /\ E <= D /\ E <= 27815172
  OBVIOUS
<1>2. D * v <= 2640000000 * k /\ 2640000000 * (k + 1) < E * w + E
  OBVIOUS
<1> HIDE DEF D, E
<1>3. ASSUME w <= v PROVE FALSE
  <2>1. E * w <= E * v
    BY <1>1, <1>3, Monotone
  <2>2. v * E <= v * D
    BY <1>1, Monotone
  <2>3. PICK a \in Nat, b \in Nat, c \in Nat : a = E * w /\ b = v * E /\ c = v * D
    BY <1>1
  <2>4. a <= b /\ b <= c /\ c <= 2640000000 * k /\ 2640000000 * (k + 1) < a + E
    BY ONLY <1>1, <1>2, <2>1, <2>2, <2>3, v \in Nat, w \in Nat
  <2> QED BY ONLY <1>1, <2>4, a \in Nat, b \in Nat, c \in Nat, k \in Nat
<1> QED BY <1>3

\* Below balance: k + 1 steps read further down than k.
LEMMA RisesBelow ==
  ASSUME NEW k \in Nat, k <= 511, NEW v \in Nat, NEW w \in Nat,
         2640000000 * (k + 1) < (27815172 + 5082 * (k + 1)) * v + (27815172 + 5082 * (k + 1)),
         (27815172 + 5082 * k) * w <= 2640000000 * k
  PROVE  w < v
<1> DEFINE D == 27815172 + 5082 * (k + 1)
           E == 27815172 + 5082 * k
<1>1. D \in Nat /\ E \in Nat /\ D = E + 5082 /\ 27815172 <= E /\ D <= 31000000
  OBVIOUS
<1>2. 2640000000 * (k + 1) < D * v + D /\ E * w <= 2640000000 * k
  OBVIOUS
<1> HIDE DEF D, E
<1>3. w <= 60000
  <2>1. ASSUME w >= 60001 PROVE FALSE
    <3>1. E * 60001 <= E * w
      BY <1>1, <2>1, Monotone
    <3>2. PICK a \in Nat : a = E * w
      BY <1>1
    <3> QED BY ONLY <1>1, <1>2, <3>1, <3>2, k \in Nat, k <= 511
  <2> QED BY <2>1
<1>4. ASSUME v <= w PROVE FALSE
  <2>1. D * v <= D * w
    BY <1>1, <1>4, Monotone
  <2>2. D * w = E * w + 5082 * w
    BY ONLY <1>1, w \in Nat
  <2>3. PICK a \in Nat, b \in Nat : a = D * v /\ b = E * w
    BY <1>1
  <2>4. a <= b + 5082 * w /\ b <= 2640000000 * k /\ 2640000000 * (k + 1) < a + D
    BY ONLY <1>2, <2>1, <2>2, <2>3
  <2> QED BY ONLY <1>1, <1>3, <2>4, a \in Nat, b \in Nat, w \in Nat, k \in Nat
<1> QED BY <1>4

LEMMA Pt1000Rises ==
  ASSUME NEW word \in 0 .. 1022
  PROVE  Pt1000MilliCelsius(word) < Pt1000MilliCelsius(word + 1)
<1> DEFINE N(k) == 264 * k
           D(k) == 27815172 - 5082 * k
<1>1. ASSUME NEW k \in Int, -512 <= k, k <= 511
      PROVE  \E q \in Nat :
               /\ Pt1000MilliCelsius(k + 512) = Signed(k, q)
               /\ D(k) * q <= 2640000000 * Magnitude(k)
               /\ 2640000000 * Magnitude(k) < D(k) * q + D(k)
  <2>1. N(k) \in Int /\ D(k) \in Nat \ {0}
    BY <1>1
  <2>2. Pt1000MilliCelsius(k + 512) = Scaled(N(k), 7, D(k))
    <3>1. (IF k + 512 < 1023 THEN k + 512 ELSE 1023) = k + 512
      BY <1>1
    <3>2. 8 * (33 * (k + 512) - 16896) = N(k) /\ 77 * (361236 - 2 * (33 * (k + 512) - 16896)) = D(k)
      BY <1>1
    <3> QED BY ONLY <3>1, <3>2 DEF Pt1000MilliCelsius
  <2>3. 10000000 * Magnitude(N(k)) = 2640000000 * Magnitude(k) /\ (N(k) < 0 <=> k < 0)
    BY ONLY <1>1 DEF Magnitude
  <2> HIDE DEF N, D
  <2>4. PICK q \in Nat : /\ Scaled(N(k), 7, D(k)) = Signed(N(k), q)
                         /\ D(k) * q <= Ten7 * Magnitude(N(k))
                         /\ Ten7 * Magnitude(N(k)) < D(k) * q + D(k)
    BY ONLY <2>1, SevenDigits, Zenon
  <2>5. Signed(N(k), q) = Signed(k, q)
    BY ONLY <2>3 DEF Signed
  <2>6. Ten7 = 10000000
    BY DEF Ten7
  <2> QED BY ONLY <2>2, <2>3, <2>4, <2>5, <2>6
<1> HIDE DEF N
<1> DEFINE k == word - 512
<1>2. k \in Int /\ -512 <= k /\ k <= 510 /\ k + 512 = word /\ (k + 1) + 512 = word + 1
  OBVIOUS
<1> HIDE DEF k
<1>3. PICK v \in Nat : /\ Pt1000MilliCelsius(word) = Signed(k, v)
                       /\ D(k) * v <= 2640000000 * Magnitude(k)
                       /\ 2640000000 * Magnitude(k) < D(k) * v + D(k)
  <2> HIDE DEF D
  <2>1. k <= 511
    BY <1>2
  <2> QED BY ONLY <1>1, <1>2, <2>1
<1>4. PICK w \in Nat : /\ Pt1000MilliCelsius(word + 1) = Signed(k + 1, w)
                       /\ D(k + 1) * w <= 2640000000 * Magnitude(k + 1)
                       /\ 2640000000 * Magnitude(k + 1) < D(k + 1) * w + D(k + 1)
  <2> HIDE DEF D
  <2>1. k + 1 \in Int /\ -512 <= k + 1 /\ k + 1 <= 511
    BY <1>2
  <2> QED BY ONLY <1>1, <1>2, <2>1
<1>5. CASE 0 <= k
  <2>1. Magnitude(k) = k /\ Magnitude(k + 1) = k + 1 /\ Signed(k, v) = v /\ Signed(k + 1, w) = w
    BY <1>2, <1>5 DEF Magnitude, Signed
  <2>2. k \in Nat /\ k <= 510
    BY <1>2, <1>5
  <2>3. (27815172 - 5082 * k) * v <= 2640000000 * k
    BY ONLY <1>3, <2>1
  <2>4. 2640000000 * (k + 1) < (27815172 - 5082 * (k + 1)) * w + (27815172 - 5082 * (k + 1))
    BY ONLY <1>4, <2>1
  <2>5. v < w
    BY ONLY <2>2, <2>3, <2>4, v \in Nat, w \in Nat, RisesAbove
  <2> QED BY ONLY <1>3, <1>4, <2>1, <2>5
<1>6. CASE k < 0
  <2> DEFINE j == -(k + 1)
  <2>1. j \in Nat /\ j <= 511 /\ k = -(j + 1) /\ k + 1 = -j
    BY <1>2, <1>6
  <2> HIDE DEF j
  <2>2. /\ Magnitude(k) = j + 1 /\ Magnitude(k + 1) = j
        /\ Signed(k, v) = -v /\ Signed(k + 1, w) = IF j = 0 THEN w ELSE -w
    BY ONLY <2>1 DEF Magnitude, Signed
  <2>3. D(k) = 27815172 + 5082 * (j + 1) /\ D(k + 1) = 27815172 + 5082 * j
    BY ONLY <2>1
  <2> HIDE DEF D
  <2>4. 2640000000 * (j + 1) < (27815172 + 5082 * (j + 1)) * v + (27815172 + 5082 * (j + 1))
    BY ONLY <1>3, <2>2, <2>3
  <2>5. (27815172 + 5082 * j) * w <= 2640000000 * j
    BY ONLY <1>4, <2>2, <2>3
  <2>6. w < v
    BY ONLY <2>1, <2>4, <2>5, v \in Nat, w \in Nat, RisesBelow
  <2>7. j = 0 => w = 0
    BY ONLY <2>1, <2>5, w \in Nat
  <2> QED BY ONLY <1>3, <1>4, <2>1, <2>2, <2>6, <2>7, v \in Nat, w \in Nat
<1> QED BY <1>2, <1>5, <1>6

LEMMA Pt1000OnWire ==
  ASSUME NEW word \in Nat, word <= 1023
  PROVE  /\ Fits(Pt1000MilliCelsius(word))
         /\ -60000 <= Pt1000MilliCelsius(word) /\ Pt1000MilliCelsius(word) <= 60000
<1> DEFINE k == word - 512
           n == 264 * k
           D == 27815172 - 5082 * k
<1>1. k \in Int /\ -512 <= k /\ k <= 511 /\ n \in Int /\ D \in Nat \ {0} /\ 25000000 <= D
  OBVIOUS
<1>2. Pt1000MilliCelsius(word) = Scaled(n, 7, D)
  <2>1. (IF word < 1023 THEN word ELSE 1023) = word
    OBVIOUS
  <2>2. 8 * (33 * word - 16896) = n /\ 77 * (361236 - 2 * (33 * word - 16896)) = D
    OBVIOUS
  <2> QED BY <2>1, <2>2 DEF Pt1000MilliCelsius
<1>3. Magnitude(n) \in Nat /\ Magnitude(n) <= 264 * 512
  BY <1>1 DEF Magnitude
<1> HIDE DEF n, D
<1>4. PICK q \in Nat : Scaled(n, 7, D) = Signed(n, q) /\ D * q <= Ten7 * Magnitude(n)
  <2>1. n \in Int /\ D \in Nat \ {0}
    BY <1>1
  <2> QED BY ONLY <2>1, SevenDigits, Zenon
<1>5. q <= 60000
  <2>1. ASSUME q >= 60001 PROVE FALSE
    <3>1. D * 60001 <= D * q
      BY <1>1, <2>1, Monotone
    <3>2. PICK a \in Nat, m \in Nat : a = D * q /\ m = Magnitude(n)
      BY <1>1, <1>3
    <3>3. Ten7 = 10000000
      BY DEF Ten7
    <3> QED BY ONLY <1>1, <1>3, <1>4, <3>1, <3>2, <3>3
  <2> QED BY <2>1
<1>6. Signed(n, q) \in Int /\ -60000 <= Signed(n, q) /\ Signed(n, q) <= 60000
  BY ONLY <1>1, <1>5, q \in Nat DEF Signed
<1>7. Fits(Signed(n, q))
  BY ONLY <1>6 DEF Fits, Magnitude
<1> QED BY ONLY <1>2, <1>4, <1>6, <1>7

\* On either curve every count is read as an integer, or as nothing.
LEMMA NtcReads ==
  ASSUME NEW counts \in Nat
  PROVE  Interpolate(NtcCurve, counts) \subseteq Int /\ Interpolate(BoardNtcCurve, counts) \subseteq Int
<1>1. \A milli \in Interpolate(NtcCurve, counts) : milli \in Int
  BY Curves, InterpolationFaithful, Zenon
<1>2. \A milli \in Interpolate(BoardNtcCurve, counts) : milli \in Int
  BY Curves, InterpolationFaithful, Zenon
<1> QED BY <1>1, <1>2

\* Every raw number is linearised to an integer, or to nothing.
LEMMA Linear ==
  ASSUME NEW kind \in SensorKind, NEW word \in Nat
  PROVE  Linearise(kind, word) \subseteq Int
<1>1. CASE kind \in {"None", "Pressure", "Mcp9700", "Angle"}
  BY <1>1 DEF Linearise
<1>2. CASE kind = "Pt1000"
  <2> DEFINE n == 33 * (IF word < 1023 THEN word ELSE 1023) - 16896
  <2>1. n \in Int /\ n <= 33 * 1023 - 16896
    OBVIOUS
  <2>2. Pt1000MilliCelsius(word) = Scaled(8 * n, 7, 77 * (361236 - 2 * n))
    BY DEF Pt1000MilliCelsius
  <2> HIDE DEF n
  <2>3. 8 * n \in Int /\ 77 * (361236 - 2 * n) \in Nat \ {0}
    BY <2>1
  <2>4. Pt1000MilliCelsius(word) \in Int
    BY <2>2, <2>3, ScaledIsInt
  <2> QED BY <1>2, <2>4 DEF Linearise
<1>3. CASE kind = "Ntc"
  <2>1. Interpolate(NtcCurve, word) \subseteq Int
    BY NtcReads
  <2> QED BY <1>3, <2>1 DEF Linearise
<1>4. CASE kind = "NtcToSupply"
  <2> DEFINE mirrored == IF word < AdcFullScale THEN AdcFullScale - word ELSE 0
  <2>1. mirrored \in Nat
    BY DEF AdcFullScale
  <2> HIDE DEF mirrored
  <2>2. Interpolate(NtcCurve, mirrored) \subseteq Int
    BY <2>1, NtcReads
  <2> QED BY <1>4, <2>2 DEF Linearise, mirrored
<1>5. CASE kind = "BoardNtc"
  <2>1. Interpolate(BoardNtcCurve, word) \subseteq Int
    BY NtcReads
  <2> QED BY <1>5, <2>1 DEF Linearise
<1> QED BY <1>1, <1>2, <1>3, <1>4, <1>5 DEF SensorKind

\* The trim yields an integer, whatever the coefficients.
LEMMA TimesNanoIsInt ==
  ASSUME NEW x \in Int, NEW slope \in Int
  PROVE  TimesNano(x, slope) \in Int
<1> DEFINE a == Limbs(Magnitude(x))
           b == Limbs(Magnitude(slope))
           c(k) == Column(a, b, k)
<1>1. ASSUME NEW m \in Nat
      PROVE  Limbs(m)[1] \in Nat /\ Limbs(m)[2] \in Nat /\ Limbs(m)[3] \in Nat /\ Limbs(m)[4] \in Nat
  BY DEF Limbs
<1>2. Magnitude(x) \in Nat /\ Magnitude(slope) \in Nat
  BY DEF Magnitude
<1>3. /\ a[1] \in Nat /\ a[2] \in Nat /\ a[3] \in Nat /\ a[4] \in Nat
      /\ b[1] \in Nat /\ b[2] \in Nat /\ b[3] \in Nat /\ b[4] \in Nat
  BY <1>1, <1>2
<1> HIDE DEF a, b
<1>4. /\ c(0) \in Nat /\ c(1) \in Nat /\ c(2) \in Nat /\ c(3) \in Nat
      /\ c(4) \in Nat /\ c(5) \in Nat /\ c(6) \in Nat
  <2>1. /\ c(0) = a[1] * b[1] /\ c(1) = a[1] * b[2] + a[2] * b[1]
        /\ c(2) = a[1] * b[3] + a[2] * b[2] + a[3] * b[1]
        /\ c(3) = a[1] * b[4] + a[2] * b[3] + a[3] * b[2] + a[4] * b[1]
        /\ c(4) = a[2] * b[4] + a[3] * b[3] + a[4] * b[2]
        /\ c(5) = a[3] * b[4] + a[4] * b[3] /\ c(6) = a[4] * b[4]
    BY <1>3, Columns
  <2>2. /\ a[1] * b[1] \in Nat /\ a[1] * b[2] \in Nat /\ a[1] * b[3] \in Nat /\ a[1] * b[4] \in Nat
        /\ a[2] * b[1] \in Nat /\ a[2] * b[2] \in Nat /\ a[2] * b[3] \in Nat /\ a[2] * b[4] \in Nat
        /\ a[3] * b[1] \in Nat /\ a[3] * b[2] \in Nat /\ a[3] * b[3] \in Nat /\ a[3] * b[4] \in Nat
        /\ a[4] * b[1] \in Nat /\ a[4] * b[2] \in Nat /\ a[4] * b[3] \in Nat /\ a[4] * b[4] \in Nat
    BY <1>3
  <2> HIDE DEF c
  <2> QED BY <2>1, <2>2
<1>5. MagnitudeNano(a, b) \in Nat
  BY <1>4 DEF MagnitudeNano, NanoCut
<1> QED BY <1>5 DEF TimesNano, Signed, a, b

LEMMA AppliedIsInt ==
  ASSUME NEW calib \in SensorCalib, NEW linear \in Int
  PROVE  Apply(calib, linear) \in Int /\ ApplyWrapped(calib, linear) \in Int
<1>1. ASSUME NEW c \in SensorCalib, NEW l \in Int PROVE Apply(c, l) \in Int
  <2>1. l - c.offset \in Int /\ c.slope \in Int /\ c.constant \in Int
    BY DEF SensorCalib
  <2>2. TimesNano(l - c.offset, c.slope) \in Int
    BY <2>1, TimesNanoIsInt, Zenon
  <2> QED BY <2>1, <2>2 DEF Apply
<1> DEFINE turn == EncoderFullScale * 1000
           zeroed == IF calib.slope < 0 THEN -((calib.offset - linear) % turn)
                     ELSE (linear - calib.offset) % turn
<1>2. calib.offset \in Int /\ turn = 4096000
  BY DEF SensorCalib, EncoderFullScale
<1>3. (calib.offset - linear) % turn \in Int /\ (linear - calib.offset) % turn \in Int
  <2> HIDE DEF turn
  <2> QED BY <1>2
<1>4. zeroed \in Int
  BY <1>3
<1>5. [calib EXCEPT !.offset = 0] \in SensorCalib
  BY DEF SensorCalib
<1>6. ApplyWrapped(calib, linear) = Apply([calib EXCEPT !.offset = 0], zeroed)
  BY DEF ApplyWrapped
<1> HIDE DEF zeroed
<1> QED BY <1>1, <1>4, <1>5, <1>6

LEMMA SaturatedIsValid ==
  ASSUME NEW v \in Int
  PROVE  -32767 <= Saturate(v) /\ Saturate(v) <= 32767
BY DEF Saturate

\* There is no raw number, no sensor, or nothing to convert it with.
HasNoReading(slot, word) ==
  \/ word = RawInvalid \/ slot.kind = "None"
  \/ /\ slot.unit # "RawCounts"
     /\ Linearise(slot.kind, word) = {} \/ ~IsCalibrated(slot.calib)

(***************************************************************************)
(* SENSOR_INVALID says that there is no reading, and nothing else does:     *)
(* whatever the kind, the unit, the coefficients and the raw number, a slot *)
(* reports it exactly when its device has no raw number, the slot is        *)
(* unused, or a reading in a physical unit is off its curve or has no       *)
(* calibration; any other value is inside the wire's range                  *)
(* (sensors/mod.rs:341-369).                                                *)
(***************************************************************************)
THEOREM InvalidMeansNoReading ==
  ASSUME NEW slot, slot.kind \in SensorKind, slot.unit \in Unit, slot.calib \in SensorCalib,
         NEW word \in 0 .. RawInvalid
  PROVE  IF HasNoReading(slot, word) THEN Calibrate(slot, word) = SensorInvalid
         ELSE -32767 <= Calibrate(slot, word) /\ Calibrate(slot, word) <= 32767
<1>1. word \in Nat
  <2>1. RawInvalid \in Nat
    BY DEF RawInvalid
  <2> QED BY <2>1, SMT
<1> DEFINE none == HasNoReading(slot, word)
           reading == Calibrate(slot, word)
           linear == CHOOSE l \in Linearise(slot.kind, word) : TRUE
           milli == IF slot.kind = "Angle" THEN ApplyWrapped(slot.calib, linear)
                    ELSE Apply(slot.calib, linear)
<1>2. ASSUME none PROVE reading = SensorInvalid
  BY <1>2 DEF Calibrate, HasNoReading
<1>3. ASSUME ~none, slot.unit = "RawCounts" PROVE -32767 <= reading /\ reading <= 32767
  <2>1. reading = Saturate(word)
    BY <1>3, Zenon DEF Calibrate, HasNoReading
  <2> QED BY ONLY <1>1, <2>1, SaturatedIsValid
<1>4. ASSUME ~none, slot.unit # "RawCounts" PROVE -32767 <= reading /\ reading <= 32767
  <2>1. reading = Saturate(Truncated(milli, PerMilli(slot.unit)))
    BY <1>4, Zenon DEF Calibrate, HasNoReading
  <2>2. linear \in Int
    <3>1. Linearise(slot.kind, word) \subseteq Int
      BY <1>1, Linear
    <3>2. Linearise(slot.kind, word) # {}
      BY <1>4 DEF HasNoReading
    <3> QED BY <3>1, <3>2
  <2> HIDE DEF linear
  <2>3. milli \in Int
    BY <2>2, AppliedIsInt
  <2> HIDE DEF milli
  <2>4. PerMilli(slot.unit) \in {1, 10, 100}
    BY DEF Unit, PerMilli
  <2>5. Truncated(milli, PerMilli(slot.unit)) \in Int
    <3>1. Magnitude(milli) \in Nat
      BY <2>3 DEF Magnitude
    <3>2. Magnitude(milli) \div 1 \in Nat /\ Magnitude(milli) \div 10 \in Nat
          /\ Magnitude(milli) \div 100 \in Nat
      BY <3>1
    <3>3. ASSUME NEW n \in {1, 10, 100} PROVE Truncated(milli, n) \in Int
      <4>1. Magnitude(n) = n /\ ~(n < 0)
        BY DEF Magnitude
      <4> QED BY <3>2, <4>1 DEF Truncated, Signed
    <3> QED BY <2>4, <3>3
  <2> QED BY ONLY <2>1, <2>5, SaturatedIsValid
<1> QED BY <1>2, <1>3, <1>4

(***************************************************************************)
(* What the two tasks put on the wire.                                      *)
(***************************************************************************)
WordsTyped ==
  /\ raw \in [Target -> 0 .. RawInvalid] /\ rawAnalog \in [AnalogInput -> 0 .. RawInvalid]
  /\ slots \in [Slot -> SensorSlotConfig] /\ copy \in [Slot -> SensorSlotConfig]

\* A register's field is no wider than a count.
LEMMA FieldsOfWords ==
  /\ \A word \in AmplifierWords : Conversion(word) \in 0 .. RawInvalid
  /\ \A word \in AngleWords : Angle(word) \in 0 .. RawInvalid
  /\ RawInvalid \in 0 .. RawInvalid
<1>1. AmplifierWords \subseteq Nat /\ \A word \in AngleWords : word[2] \in Nat
  BY SensorsAssumption
<1>2. \A n \in Nat : /\ (n \div 4) % 1024 \in Nat /\ (n \div 4) % 1024 <= 1023
                    /\ n % 4096 \in Nat /\ n % 4096 <= 4095
  OBVIOUS
<1>3. RawInvalid \in Nat /\ 1023 <= RawInvalid /\ 4095 <= RawInvalid
  BY DEF RawInvalid
<1> QED BY <1>1, <1>2, <1>3 DEF Conversion, Angle

\* A slot rewritten over SDO is a slot.
LEMMA RewrittenTyped ==
  ASSUME NEW c \in SensorSlotConfig
  PROVE  Rewritten(c) \subseteq SensorSlotConfig
<1>1. \A kind \in SensorKind : NaturalUnit(kind) \in Unit /\ DefaultCalib(kind) \in SensorCalib
  BY DEF SensorKind, NaturalUnit, Unit, DefaultCalib, SensorCalib, Unity, Mcp9700, WithConstant,
         FromPerCount, Zero
<1>2. Kinds \subseteq SensorKind /\ Units \subseteq Unit /\ Coefficients \subseteq Int
  BY SensorsAssumption
<1> SUFFICES ASSUME NEW new \in Rewritten(c) PROVE new \in SensorSlotConfig
  OBVIOUS
<1>3. \/ \E k \in Kinds : new = [c EXCEPT !.kind = k, !.unit = NaturalUnit(k), !.calib = DefaultCalib(k)]
      \/ \E u \in Units : new = [c EXCEPT !.unit = u]
      \/ \E n \in Coefficients : \/ new = [c EXCEPT !.calib.offset = n]
                                 \/ new = [c EXCEPT !.calib.slope = n]
                                 \/ new = [c EXCEPT !.calib.constant = n]
      \/ \E b \in {None} \cup 0 .. NumBuses - 1 : new = [c EXCEPT !.bus = b]
      \/ \E a \in 0 .. NumAmplifiers - 1 : new = [c EXCEPT !.amplifier = a]
      \/ \E p \in AnalogInput : new = [c EXCEPT !.analog = p]
      \/ \E p \in PdoChannel \cup {None} : new = [c EXCEPT !.pdo = p]
  BY Zenon DEF Rewritten
<1>4. ASSUME NEW k \in Kinds, new = [c EXCEPT !.kind = k, !.unit = NaturalUnit(k), !.calib = DefaultCalib(k)]
      PROVE  new \in SensorSlotConfig
  BY <1>1, <1>2, <1>4 DEF SensorSlotConfig
<1>5. ASSUME NEW u \in Units, new = [c EXCEPT !.unit = u]
      PROVE  new \in SensorSlotConfig
  BY <1>2, <1>5 DEF SensorSlotConfig
<1>6. ASSUME NEW b \in {None} \cup 0 .. NumBuses - 1, new = [c EXCEPT !.bus = b]
      PROVE  new \in SensorSlotConfig
  BY <1>6 DEF SensorSlotConfig
<1>7. ASSUME NEW p \in PdoChannel \cup {None}, new = [c EXCEPT !.pdo = p]
      PROVE  new \in SensorSlotConfig
  BY <1>7 DEF SensorSlotConfig
<1>8. ASSUME NEW n \in Coefficients,
             \/ new = [c EXCEPT !.calib.offset = n]
             \/ new = [c EXCEPT !.calib.slope = n]
             \/ new = [c EXCEPT !.calib.constant = n]
      PROVE  new \in SensorSlotConfig
  BY <1>2, <1>8 DEF SensorSlotConfig, SensorCalib
<1>9. ASSUME NEW a \in 0 .. NumAmplifiers - 1, new = [c EXCEPT !.amplifier = a]
      PROVE  new \in SensorSlotConfig
  BY <1>9 DEF SensorSlotConfig
<1>10. ASSUME NEW p \in AnalogInput, new = [c EXCEPT !.analog = p]
       PROVE  new \in SensorSlotConfig
  BY <1>10 DEF SensorSlotConfig
<1> QED BY ONLY <1>3, <1>4, <1>5, <1>6, <1>7, <1>8, <1>9, <1>10

LEMMA WordsStart == Init => WordsTyped
  BY FieldsOfWords, SensorsAssumption DEF Init, WordsTyped

LEMMA StepKeepsWords ==
  ASSUME WordsTyped, [Next]_vars
  PROVE  WordsTyped'
<1>1. CASE Begin
  <2>1. /\ copy' = slots /\ UNCHANGED <<slots, raw>>
        /\ rawAnalog' \in [AnalogInput -> AnalogCounts \cup {RawInvalid}]
    BY <1>1 DEF Begin, Clone, store
  <2>2. rawAnalog' \in [AnalogInput -> 0 .. RawInvalid]
    BY <2>1, FieldsOfWords, SensorsAssumption
  <2> QED BY <2>1, <2>2 DEF WordsTyped
<1>2. ASSUME NEW t \in Target, PassOver(t) \/ ReadAmplifier(t) \/ ReadEncoder(t) \/ ReadFails(t)
      PROVE  WordsTyped'
  <2>1. UNCHANGED <<slots, copy, rawAnalog>>
    BY <1>2 DEF PassOver, ReadAmplifier, ReadEncoder, ReadFails, store
  <2>2. \E n \in 0 .. RawInvalid : raw' = [raw EXCEPT ![t] = n]
    BY <1>2, FieldsOfWords DEF PassOver, ReadAmplifier, ReadEncoder, ReadFails, NoReading
  <2> QED BY <2>1, <2>2 DEF WordsTyped
<1>3. ASSUME NEW s \in Slot, Write(s) PROVE WordsTyped'
  <2>1. /\ \E c \in Rewritten(slots[s]) : slots' = [slots EXCEPT ![s] = c]
        /\ UNCHANGED <<copy, raw, rawAnalog>>
    BY <1>3 DEF Write
  <2>2. Rewritten(slots[s]) \subseteq SensorSlotConfig
    BY RewrittenTyped DEF WordsTyped
  <2> QED BY <2>1, <2>2 DEF WordsTyped
<1>4. CASE ScanNotDue \/ ScanStep \/ Publish \/ (\E t \in Target : Plug(t) \/ Unplug(t)) \/ UNCHANGED vars
  <2>1. UNCHANGED <<slots, copy, raw, rawAnalog>>
    BY <1>4 DEF ScanNotDue, ScanStep, Publish, Plug, Unplug, store, vars
  <2> QED BY <2>1 DEF WordsTyped
<1>5. CASE Restore
  <2>1. slots' = BootSlots /\ UNCHANGED <<copy, raw, rawAnalog>>
    BY <1>5 DEF Restore
  <2> QED BY <2>1, SensorsAssumption DEF WordsTyped
<1> QED BY <1>1, <1>2, <1>3, <1>4, <1>5 DEF Next, Cycle

\* A value is on the wire, or it says that there is none.
OnTheWire(v) == v = SensorInvalid \/ (-32767 <= v /\ v <= 32767)

\* Between two cycles a slot reports that it has no reading exactly when it
\* has none, and what a listener sees on a channel is always on the wire.
WireHonest ==
  /\ phase = "wait" =>
       \A s \in Slot : value[s] = SensorInvalid <=> HasNoReading(copy[s], RawFor(copy[s]))
  /\ \A c \in PdoChannel : OnTheWire(pdoValue[c])

ValuesOnWire == \A s \in Slot : OnTheWire(value[s])

LEMMA Reported ==
  ASSUME WordsTyped, NEW s \in Slot
  PROVE  /\ OnTheWire(Computed(s))
         /\ Computed(s) = SensorInvalid <=> HasNoReading(copy[s], RawFor(copy[s]))
<1>1. copy[s] \in SensorSlotConfig
  BY DEF WordsTyped
<1>2. /\ copy[s].kind \in SensorKind /\ copy[s].unit \in Unit /\ copy[s].calib \in SensorCalib
  BY <1>1 DEF SensorSlotConfig
<1>3. RawFor(copy[s]) \in 0 .. RawInvalid
  BY <1>1, SourcesExist, FieldsOfWords, Zenon DEF RawFor, WordsTyped
<1>4. IF HasNoReading(copy[s], RawFor(copy[s])) THEN Computed(s) = SensorInvalid
      ELSE -32767 <= Computed(s) /\ Computed(s) <= 32767
  BY <1>2, <1>3, InvalidMeansNoReading DEF Computed
<1>5. ~(-32767 <= SensorInvalid)
  BY DEF SensorInvalid
<1> QED BY <1>4, <1>5 DEF OnTheWire

LEMMA StepKeepsValues ==
  ASSUME WordsTyped, ValuesOnWire, [Next]_vars
  PROVE  ValuesOnWire'
<1>1. CASE Publish
  <2>1. value' = [s \in Slot |-> Computed(s)]
    BY <1>1 DEF Publish, Computed
  <2> QED BY <2>1, Reported DEF ValuesOnWire, OnTheWire
<1>2. CASE ~Publish
  <2>1. value' = value
    BY <1>2 DEF Next, Cycle, Begin, ScanNotDue, ScanStep, PassOver, ReadAmplifier, ReadEncoder,
                ReadFails, Plug, Unplug, Write, Restore, store, vars
  <2> QED BY <2>1 DEF ValuesOnWire, OnTheWire
<1> QED BY <1>1, <1>2

LEMMA ValuesInvariant == Spec => [](WordsTyped /\ ValuesOnWire)
<1>1. Init => ValuesOnWire
  BY DEF Init, ValuesOnWire, OnTheWire
<1> QED BY <1>1, WordsStart, StepKeepsWords, StepKeepsValues, PTL DEF Spec

(***************************************************************************)
(* SENSOR_INVALID is published exactly for the slots that have no reading,  *)
(* and every channel carries it or a number of the wire's range, whatever   *)
(* is plugged, read, rewritten and calibrated.                              *)
(***************************************************************************)
THEOREM InvalidIsPublished == Spec => []WireHonest
<1>1. ASSUME WordsTyped, ValuesOnWire, PublishedInv PROVE WireHonest
  <2>1. ASSUME phase = "wait", NEW s \in Slot
        PROVE  value[s] = SensorInvalid <=> HasNoReading(copy[s], RawFor(copy[s]))
    <3>1. value[s] = Computed(s)
      BY <1>1, <2>1 DEF PublishedInv
    <3> QED BY <1>1, <3>1, Reported
  <2>2. ASSUME NEW c \in PdoChannel PROVE OnTheWire(pdoValue[c])
    <3>1. CASE Claimants(slots, c) = {}
      BY <1>1, <3>1 DEF PublishedInv, ChannelValues, OnTheWire
    <3>2. CASE Claimants(slots, c) # {}
      <4>1. Claimants(slots, c) \subseteq 0 .. NumSlots - 1 /\ NumSlots \in Nat
        BY SensorsAssumption DEF Claimants, Slot
      <4>2. \E s \in Claimants(slots, c) : \A r \in Claimants(slots, c) : r <= s
        BY <3>2, <4>1, LastOf
      <4>3. Shown(slots, c) \in Slot
        BY <4>2 DEF Shown, Claimants
      <4>4. pdoValue[c] = value[Shown(slots, c)]
        BY <1>1, <3>2 DEF PublishedInv, ChannelValues
      <4> QED BY <1>1, <4>3, <4>4 DEF ValuesOnWire
    <3> QED BY <3>1, <3>2
  <2> QED BY <2>1, <2>2 DEF WireHonest
<1> QED BY <1>1, ValuesInvariant, PublishedInvariant, PTL

\* The die sensor falls 4.3 mV a degree.
LEMMA DieSensorFalls ==
  ASSUME NEW step \in 0 .. 30
  PROVE  McuMilliC(1430000 + 43 * step) = 25000 - 10 * step
<1>1. (1430000 - (1430000 + 43 * step)) * 10 = -(430 * step)
  OBVIOUS
<1>2. Truncated(-(430 * step), 43) = -(10 * step)
  BY DEF Truncated, Signed, Magnitude
<1> QED BY <1>1, <1>2 DEF McuMilliC

\* The Pt1000 slot stays on the wire.
LEMMA Pt1000Slot ==
  ASSUME NEW word \in 0 .. 1023
  PROVE  LET reading == ByDefault("Pt1000", word)
         IN  reading \in Int /\ -12000 <= reading /\ reading <= 14000
<1>1. word \in Nat /\ word <= 1023 /\ word < RawInvalid
  BY DEF RawInvalid
<1> DEFINE milli == Pt1000MilliCelsius(word)
<1>2. Fits(milli) /\ -60000 <= milli /\ milli <= 60000
  BY <1>1, Pt1000OnWire
<1>3. Linearise("Pt1000", word) = {milli}
  BY DEF Linearise
<1> HIDE DEF milli
<1>4. ByDefault("Pt1000", word) = Truncated(milli, 10)
  <2>1. word \in Nat /\ word < RawInvalid /\ Fits(milli) /\ "Pt1000" \in Ntcs \cup {"Pt1000"}
    BY <1>1, <1>2
  <2> QED BY ONLY <1>3, <2>1, Untrimmed, ZenonT(30)
<1>5. Truncated(milli, 10) \in Int /\ -12000 <= Truncated(milli, 10) /\ Truncated(milli, 10) <= 14000
  BY ONLY <1>2 DEF Fits, Truncated, Signed, Magnitude
<1> QED BY ONLY <1>4, <1>5

\* A pressure slot with a calibration always has a reading.
LEMMA PressureReads ==
  ASSUME NEW word \in {0, 1023, 4095}, NEW slope \in {-1000000000, 999999999},
         NEW constant \in {-90000000, 90000000}
  PROVE  Calibrate([kind |-> "Pressure", unit |-> "CentiBar",
                    calib |-> [offset |-> 0, slope |-> slope, constant |-> constant]], word) # SensorInvalid
<1> DEFINE calib == [offset |-> 0, slope |-> slope, constant |-> constant]
           slot == [kind |-> "Pressure", unit |-> "CentiBar", calib |-> calib]
<1>1. calib \in SensorCalib /\ calib.slope # 0
  BY DEF SensorCalib
<1>2. slot.kind = "Pressure" /\ slot.unit = "CentiBar" /\ slot.calib = calib
  OBVIOUS
<1>3. word \in 0 .. RawInvalid /\ word # RawInvalid
  BY DEF RawInvalid
<1>4. Linearise("Pressure", word) # {}
  BY DEF Linearise
<1> HIDE DEF calib, slot
<1>5. "Pressure" \in SensorKind /\ "CentiBar" \in Unit /\ "Pressure" # "None"
  BY DEF SensorKind, Unit
<1>6. IsCalibrated(calib)
  BY ONLY <1>1 DEF IsCalibrated
<1>7. -32767 <= Calibrate(slot, word)
  <2>1. /\ slot.kind \in SensorKind /\ slot.unit \in Unit /\ slot.calib \in SensorCalib
        /\ word \in 0 .. RawInvalid
    BY ONLY <1>1, <1>2, <1>3, <1>5
  <2>2. ~HasNoReading(slot, word)
    BY ONLY <1>2, <1>3, <1>4, <1>5, <1>6 DEF HasNoReading
  <2>3. IF HasNoReading(slot, word) THEN Calibrate(slot, word) = SensorInvalid
        ELSE -32767 <= Calibrate(slot, word) /\ Calibrate(slot, word) <= 32767
    BY ONLY <2>1, InvalidMeansNoReading, SMTT(20)
  <2> QED BY ONLY <2>2, <2>3
<1>8. Calibrate(slot, word) # SensorInvalid
  BY ONLY <1>7 DEF SensorInvalid
<1> QED BY ONLY <1>8 DEF slot, calib

\* Each part of the pipeline's statement.
LEMMA DieSensorHolds == DieSensorFaithful
BY DieSensorFalls DEF DieSensorFaithful

LEMMA Pt1000Holds == Pt1000Faithful
<1>1. ASSUME NEW word \in 0 .. 1022 PROVE Pt1000MilliCelsius(word) < Pt1000MilliCelsius(word + 1)
  BY Pt1000Rises
<1>2. ASSUME NEW word \in 0 .. 1023
      PROVE  -12000 <= ByDefault("Pt1000", word) /\ ByDefault("Pt1000", word) <= 14000
  BY Pt1000Slot
<1> QED BY <1>1, <1>2 DEF Pt1000Faithful

LEMMA EncodersHold ==
  ASSUME NEW span \in SpansChecked, NEW zero \in ZerosChecked
  PROVE  EncoderFaithful(zero, span)
BY SampledSpans DEF EncoderFaithful

LEMMA PressureHolds == PressureAlwaysRead
BY PressureReads DEF PressureAlwaysRead

(***************************************************************************)
(* The calibration pipeline agrees with what each device measures, over     *)
(* every raw number (sensors/mod.rs:86-90, 216-240, 341-369;                *)
(* config/sensors.rs).                                                      *)
(***************************************************************************)
THEOREM CalibrationTrue == Spec => []CalibrationFaithful
<1>1. PipelineFaithful
  BY ThermistorsFaithful, DieSensorHolds, Pt1000Holds, EncodersHold, PressureHolds, Zenon
     DEF PipelineFaithful
<1>2. CalibrationFaithful
  BY <1>1 DEF CalibrationFaithful
<1> QED BY <1>2, PTL
=============================================================================
