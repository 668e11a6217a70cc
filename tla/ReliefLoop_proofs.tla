--------------------------- MODULE ReliefLoop_proofs ---------------------------
(***************************************************************************)
(* The promises of the relief loop for every set of configurations a master *)
(* may install, every reading and every time between two updates.           *)
(***************************************************************************)
EXTENDS ReliefLoop, TLAPS

\* The longest cooldown bounds that of every configuration.
LEMMA LongestTimes ==
  /\ LongestCooldown \in Nat
  /\ \A c \in ReliefConfigs :
       /\ c \in ReliefConfig /\ c.pulseMs \in Nat \ {0} /\ c.cooldownMs \in Nat
       /\ c.cooldownMs <= LongestCooldown
<1>1. \A c \in ReliefConfigs : c \in ReliefConfig /\ c.pulseMs \in Nat \ {0} /\ c.cooldownMs \in Nat
  BY LoopAssumption DEF ReliefConfig
<1>2. LongestCooldown \in {c.cooldownMs : c \in ReliefConfigs}
      /\ \A c \in ReliefConfigs : c.cooldownMs <= LongestCooldown
  BY LoopAssumption DEF LongestCooldown
<1> QED BY <1>1, <1>2

\* The loop and its clock: updates are at most MaxGap apart.
LoopTypeOK ==
  /\ now \in Nat /\ updatedAt \in Nat /\ updatedAt <= now /\ now <= updatedAt + MaxGap
  /\ cfg \in ReliefConfigs
  /\ relief \in ReliefState
  /\ openedAt \in Optional(Instant) /\ closedAt \in Optional(Instant)
  /\ openedFor \in Nat /\ foundArmed \in BOOLEAN
  /\ undisturbed \in BOOLEAN
  /\ calmAt \in Nat /\ calmAt <= updatedAt

\* The deadline of a pulse is the one it was opened with.
PulseInv ==
  Relieving =>
    /\ openedAt \in Nat
    /\ relief.until = openedAt + openedFor
    /\ foundArmed
    /\ updatedAt = openedAt \/ updatedAt < openedAt + openedFor

\* Overpressure waits only for a cooldown that followed a pulse at once.
CalmInv ==
  /\ Relieving => calmAt = updatedAt
  /\ relief.state = "Cooldown" => relief.until <= calmAt + MaxGap + LongestCooldown
  /\ updatedAt <= calmAt + MaxGap + LongestCooldown

\* While nothing interferes, until is the end of the last cooldown.
SpacedInv ==
  undisturbed /\ closedAt # None =>
    /\ closedAt \in Nat
    /\ relief.state \in {"Cooldown", "Idle"}
    /\ relief.until = closedAt + cfg.cooldownMs
    /\ relief.state = "Idle" => relief.until <= now

LoopInv == LoopTypeOK /\ PulseInv /\ CalmInv /\ SpacedInv

\* The loop boots disabled, the first time and after every reset.
Booted ==
  /\ now = 0 /\ updatedAt = 0 /\ cfg \in ReliefConfigs /\ relief = NewRelief
  /\ openedAt = None /\ openedFor = 0 /\ foundArmed = FALSE
  /\ closedAt = None /\ undisturbed = FALSE /\ calmAt = 0

LEMMA LoopBoots == Booted => LoopInv
<1> SUFFICES ASSUME Booted PROVE LoopInv
  OBVIOUS
<1>1. /\ now = 0 /\ updatedAt = 0 /\ cfg \in ReliefConfigs /\ relief = NewRelief
      /\ openedAt = None /\ openedFor = 0 /\ foundArmed = FALSE
      /\ closedAt = None /\ undisturbed = FALSE /\ calmAt = 0
  BY DEF Booted
<1>2. relief \in ReliefState /\ relief.state = "Disabled"
  BY <1>1 DEF NewRelief, ReliefState, ReliefPhase, Instant
<1>3. LoopTypeOK
  <2>1. undisturbed \in BOOLEAN /\ foundArmed \in BOOLEAN /\ openedFor \in Nat
    BY <1>1
  <2>2. now \in Nat /\ updatedAt \in Nat /\ updatedAt <= now /\ now <= updatedAt + MaxGap
        /\ calmAt \in Nat /\ calmAt <= updatedAt
    BY <1>1, LoopAssumption
  <2>3. openedAt \in Optional(Instant) /\ closedAt \in Optional(Instant)
    BY <1>1 DEF Optional
  <2> QED BY <1>1, <1>2, <2>1, <2>2, <2>3 DEF LoopTypeOK
<1> QED BY <1>1, <1>2, <1>3, LongestTimes, LoopAssumption
        DEF LoopInv, PulseInv, CalmInv, SpacedInv, Relieving

LEMMA LoopBootsAgain == Booted' => LoopInv'
  BY LoopBoots, PTL

LEMMA LoopStarts == Init => LoopInv
  BY LoopBoots DEF Init, Booted

\* The seven ways an update can go, of which one opens the valve.
LEMMA Outcomes ==
  ASSUME LoopInv, NEW reading \in Readings, Update(reading)
  PROVE  \/ /\ ~ReliefArmed(cfg)
            /\ relief'.state = "Disabled" /\ relief'.until = relief.until
         \/ /\ ReliefArmed(cfg) /\ Relieving /\ now < relief.until /\ relief' = relief
         \/ /\ ReliefArmed(cfg) /\ reading = SensorInvalid
            /\ relief'.state = "Inhibited" /\ relief'.until = relief.until
         \/ /\ ReliefArmed(cfg) /\ reading # SensorInvalid /\ Relieving
            /\ relief'.state = "Cooldown" /\ relief'.until = now + cfg.cooldownMs
         \/ /\ ReliefArmed(cfg) /\ reading # SensorInvalid
            /\ relief.state = "Cooldown" /\ now < relief.until /\ relief' = relief
         \/ /\ ReliefArmed(cfg) /\ reading # SensorInvalid
            /\ ~Relieving /\ ~(relief.state = "Cooldown" /\ now < relief.until)
            /\ relief'.state = "Relieving" /\ relief'.until = now + cfg.pulseMs
         \/ /\ ReliefArmed(cfg) /\ reading # SensorInvalid /\ ~(reading > cfg.threshold)
            /\ ~Relieving /\ ~(relief.state = "Cooldown" /\ now < relief.until)
            /\ relief'.state = "Idle" /\ relief'.until = relief.until
<1>1. relief' = ReliefUpdate(relief, cfg, reading, now)
  BY DEF Update
<1>2. relief = [state |-> relief.state, until |-> relief.until]
  BY DEF LoopInv, LoopTypeOK, ReliefState
<1>3. \A phase : /\ [relief EXCEPT !.state = phase].state = phase
                 /\ [relief EXCEPT !.state = phase].until = relief.until
  BY <1>2
<1> QED BY <1>1, <1>2, <1>3
        DEF ReliefUpdate, Disarmed, Running, CoolingDown, AfterPulse, NewPulse, Relieving

\* An update leaves well-formed state.
LEMMA UpdateType ==
  ASSUME LoopInv, NEW reading \in Readings, Update(reading)
  PROVE  LoopTypeOK'
<1>1. cfg \in ReliefConfig /\ cfg.pulseMs \in Nat /\ cfg.cooldownMs \in Nat /\ now \in Nat
  BY LongestTimes DEF LoopInv, LoopTypeOK
<1>2. relief' \in ReliefState
  <2>1. \A phase \in ReliefPhase : [relief EXCEPT !.state = phase] \in ReliefState
    BY DEF LoopInv, LoopTypeOK, ReliefState
  <2>2. AfterPulse(cfg, now) \in ReliefState /\ NewPulse(cfg, now) \in ReliefState
    BY <1>1 DEF AfterPulse, NewPulse, ReliefState, ReliefPhase, Instant
  <2>3. relief' = ReliefUpdate(relief, cfg, reading, now) /\ relief \in ReliefState
    BY DEF Update, LoopInv, LoopTypeOK
  <2> QED BY <2>1, <2>2, <2>3 DEF ReliefUpdate, ReliefPhase
<1>3. undisturbed' \in BOOLEAN /\ foundArmed' \in BOOLEAN
  BY <1>1 DEF Update, Record, ReliefArmed, ReliefConfig
<1>4. /\ updatedAt' = now /\ now' = now /\ cfg' = cfg
      /\ openedAt' \in {now, openedAt} /\ openedFor' \in {cfg.pulseMs, openedFor}
      /\ closedAt' \in {now, None, closedAt}
      /\ calmAt' \in {calmAt, now}
  BY DEF Update, Record
<1> QED BY <1>1, <1>2, <1>3, <1>4, LoopAssumption DEF LoopInv, LoopTypeOK, Optional, Instant

\* A pulse is kept only before its deadline, and a new one starts with its own.
LEMMA UpdateKeepsPulse ==
  ASSUME LoopInv, NEW reading \in Readings, Update(reading)
  PROVE  PulseInv'
<1>1. /\ now \in Nat /\ cfg.pulseMs \in Nat \ {0} /\ relief.until \in Nat
  BY LongestTimes DEF LoopInv, LoopTypeOK, ReliefState, Instant
<1>2. /\ updatedAt' = now
      /\ openedAt' = IF ~Relieving /\ relief'.state = "Relieving" THEN now ELSE openedAt
      /\ openedFor' = IF ~Relieving /\ relief'.state = "Relieving" THEN cfg.pulseMs ELSE openedFor
      /\ foundArmed' = ReliefArmed(cfg)
  BY DEF Update, Record
<1> QED BY <1>1, <1>2, Outcomes DEF PulseInv, Relieving, LoopInv

\* A pulse is calm, and what overpressure waits for began within a gap of it.
LEMMA UpdateKeepsCalm ==
  ASSUME LoopInv, NEW reading \in Readings, Update(reading)
  PROVE  CalmInv'
<1>1. /\ now \in Nat /\ cfg.cooldownMs \in Nat /\ cfg.cooldownMs <= LongestCooldown
      /\ LongestCooldown \in Nat /\ MaxGap \in Nat /\ relief.until \in Nat
      /\ calmAt \in Nat /\ updatedAt \in Nat /\ calmAt <= updatedAt
      /\ updatedAt <= now /\ now <= updatedAt + MaxGap
  BY LongestTimes, LoopAssumption DEF LoopInv, LoopTypeOK, ReliefState, Instant
<1>2. /\ updatedAt' = now
      /\ calmAt' = IF ReliefArmed(cfg) /\ reading # SensorInvalid /\ reading > cfg.threshold
                      /\ relief'.state # "Relieving"
                   THEN calmAt ELSE now
  BY DEF Update, Record
<1> QED BY <1>1, <1>2, Outcomes DEF CalmInv, Relieving, LoopInv

\* A pulse that ends undisturbed starts the cooldown the next one waits out.
LEMMA UpdateKeepsSpaced ==
  ASSUME LoopInv, NEW reading \in Readings, Update(reading)
  PROVE  SpacedInv'
<1>1. now \in Nat /\ cfg.cooldownMs \in Nat /\ relief.until \in Nat /\ now # None
  BY LongestTimes DEF LoopInv, LoopTypeOK, ReliefState, Instant, None
<1> DEFINE opens == ~Relieving /\ relief'.state = "Relieving"
           closes == Relieving /\ relief'.state # "Relieving"
<1>2. /\ now' = now /\ cfg' = cfg
      /\ closedAt' = IF closes THEN now ELSE IF opens THEN None ELSE closedAt
      /\ undisturbed' => (closes \/ undisturbed) /\ ReliefArmed(cfg) /\ reading # SensorInvalid
  BY DEF Update, Record
<1>3. CASE closes
  BY <1>1, <1>2, <1>3, Outcomes DEF SpacedInv, Relieving
<1>4. CASE opens
  BY <1>2, <1>4 DEF SpacedInv, Relieving
<1>5. CASE ~opens /\ ~closes
  <2> SUFFICES ASSUME undisturbed', closedAt' # None
               PROVE  /\ closedAt' \in Nat /\ relief'.state \in {"Cooldown", "Idle"}
                      /\ relief'.until = closedAt' + cfg'.cooldownMs
                      /\ relief'.state = "Idle" => relief'.until <= now'
    BY DEF SpacedInv
  <2>1. /\ undisturbed /\ closedAt' = closedAt /\ closedAt # None
        /\ ReliefArmed(cfg) /\ reading # SensorInvalid
    BY <1>2, <1>5
  <2>2. /\ closedAt \in Nat /\ relief.state \in {"Cooldown", "Idle"}
        /\ relief.until = closedAt + cfg.cooldownMs
        /\ relief.state = "Idle" => relief.until <= now
    BY <2>1 DEF LoopInv, SpacedInv
  <2> QED BY <1>1, <1>2, <1>5, <2>1, <2>2, Outcomes DEF Relieving
<1> QED BY <1>3, <1>4, <1>5

\* Time and reconfiguration break none of it.
LEMMA StepKeepsLoop ==
  ASSUME LoopInv, [Next]_vars
  PROVE  LoopInv'
<1>1. ASSUME NEW reading \in Readings, Update(reading) PROVE LoopInv'
  BY <1>1, UpdateType, UpdateKeepsPulse, UpdateKeepsCalm, UpdateKeepsSpaced DEF LoopInv
<1>2. CASE Pass
  <2>1. /\ now' = now + 1 /\ now < updatedAt + MaxGap
        /\ UNCHANGED <<updatedAt, cfg, relief, openedAt, openedFor, foundArmed, closedAt,
                        undisturbed, calmAt>>
    BY <1>2 DEF Pass
  <2>2. LoopTypeOK'
    BY <2>1, LoopAssumption DEF LoopInv, LoopTypeOK
  <2>3. PulseInv' /\ CalmInv'
    BY <2>1 DEF LoopInv, PulseInv, CalmInv, Relieving
  <2>4. SpacedInv'
    <3>1. now \in Nat /\ relief.until \in Nat
      BY DEF LoopInv, LoopTypeOK, ReliefState, Instant
    <3> QED BY <2>1, <3>1 DEF LoopInv, SpacedInv
  <2> QED BY <2>2, <2>3, <2>4 DEF LoopInv
<1>3. ASSUME NEW new \in ReliefConfigs, Configure(new) PROVE LoopInv'
  <2>1. /\ cfg' = new /\ undisturbed' = FALSE
        /\ UNCHANGED <<now, updatedAt, relief, openedAt, openedFor, foundArmed, closedAt, calmAt>>
    BY <1>3 DEF Configure
  <2>2. undisturbed' \in BOOLEAN /\ ~undisturbed'
    BY <2>1
  <2>3. LoopTypeOK'
    BY <2>1, <2>2 DEF LoopInv, LoopTypeOK
  <2> QED BY <2>1, <2>2, <2>3 DEF LoopInv, PulseInv, CalmInv, SpacedInv, Relieving
<1>4. CASE Reset
  <2>1. Booted'
    BY <1>4 DEF Reset, Forget, Booted
  <2> QED BY <2>1, LoopBootsAgain
<1>5. CASE UNCHANGED vars
  BY <1>5 DEF vars, LoopInv, LoopTypeOK, PulseInv, CalmInv, SpacedInv, Relieving
<1> QED BY <1>1, <1>2, <1>3, <1>4, <1>5 DEF Next

LEMMA LoopInvariant == Spec => []LoopInv
BY LoopStarts, StepKeepsLoop, PTL DEF Spec
-----------------------------------------------------------------------------
(***************************************************************************)
(* A pulse ends at the first update after the time it was opened for, and   *)
(* at the first one that finds the loop disarmed, whatever reading is lost  *)
(* and whatever is configured meanwhile.                                    *)
(***************************************************************************)
THEOREM PulsesEnd == Spec => []PulseEnds
<1>1. LoopInv => PulseEnds
  BY DEF LoopInv, PulseInv, PulseEnds
<1> QED BY <1>1, LoopInvariant, PTL

(***************************************************************************)
(* Standing overpressure is answered within a cooldown and the time between *)
(* two updates.                                                             *)
(***************************************************************************)
THEOREM OverpressureRelieved == Spec => []OverpressureAnswered
<1>1. LoopInv => OverpressureAnswered
  BY LongestTimes, LoopAssumption DEF LoopInv, LoopTypeOK, CalmInv, OverpressureAnswered
<1> QED BY <1>1, LoopInvariant, PTL

(***************************************************************************)
(* Two pulses of a loop left alone are a whole cooldown apart.              *)
(***************************************************************************)
THEOREM PulsesApart == Spec => PulsesSpaced
<1>1. ASSUME LoopInv, [Next]_vars, Reopens, undisturbed, closedAt # None
      PROVE  now - closedAt >= cfg.cooldownMs
  <2>1. /\ closedAt \in Nat /\ relief.state \in {"Cooldown", "Idle"}
        /\ relief.until = closedAt + cfg.cooldownMs
        /\ relief.state = "Idle" => relief.until <= now
    BY <1>1 DEF LoopInv, SpacedInv
  <2>2. relief' # relief
    BY <1>1 DEF Reopens, Relieving
  <2>3. ~Reset
    BY <1>1 DEF Reset, Reopens, NewRelief
  <2>4. PICK reading \in Readings : Update(reading)
    BY <1>1, <2>2, <2>3 DEF Next, Pass, Configure, vars
  <2>5. now \in Nat /\ cfg.cooldownMs \in Nat /\ relief.until \in Nat
    BY <1>1, LongestTimes DEF LoopInv, LoopTypeOK, ReliefState, Instant
  <2>6. relief.until <= now
    BY <1>1, <2>1, <2>4, <2>5, Outcomes DEF Reopens, Relieving
  <2> QED BY <2>1, <2>5, <2>6
<1>2. LoopInv /\ [Next]_vars =>
        [Reopens /\ undisturbed /\ closedAt # None => now - closedAt >= cfg.cooldownMs]_vars
  BY <1>1
<1> QED BY <1>2, LoopInvariant, PTL DEF Spec, PulsesSpaced
=============================================================================
