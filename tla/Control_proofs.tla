---------------------------- MODULE Control_proofs ----------------------------
(***************************************************************************)
(* The control plane, for every number of valves and outputs, every        *)
(* configuration and every environment: its types, what one tick decides,  *)
(* how silence escalates, and when and where a fallback stage releases a   *)
(* servo.                                                                  *)
(***************************************************************************)
EXTENDS ControlHistory, ControlRelief, TLAPS

(***************************************************************************)
(* What the pure operators return.                                         *)
(***************************************************************************)
LEMMA DigitalType == ASSUME NEW on \in BOOLEAN PROVE Digital(on) \in OutState
  BY DEF Digital, OutState

LEMMA PwmType == ASSUME NEW us \in Int PROVE Pwm(us) \in OutState
  BY DEF Pwm, OutState, Greatest, Least

LEMMA RequestedType == ASSUME NEW state \in OutState PROVE Requested(state) \in OutState
  BY PwmType DEF Requested, OutState

LEMMA PulseWidthType ==
  ASSUME NEW cfg \in ValveConfig, NEW p \in Promille
  PROVE  PulseWidthUs(cfg, p) \in Int
<1>1. PromilleMax \in Nat \ {0} /\ p \in Nat /\ cfg.openUs \in Nat /\ cfg.closedUs \in Nat
  BY BoardAssumption DEF Promille, ValveConfig
<1>2. ((cfg.openUs - cfg.closedUs) * p) \in Int /\ ((cfg.closedUs - cfg.openUs) * p) \in Int
  BY <1>1
<1>3. ASSUME NEW a \in Int PROVE a \div PromilleMax \in Int
  BY <1>1
<1> QED
  BY <1>1, <1>2, <1>3 DEF PulseWidthUs

LEMMA DriveStateType ==
  ASSUME NEW cfg \in ValveConfig, NEW word \in Word, NEW h \in Hco
  PROVE  DriveState(cfg, word, h) \in OutState
<1>1. word.pos \in Promille /\ word.off \in BOOLEAN
  BY DEF Word
<1>2. PowerState(cfg, word) \in OutState
  BY <1>1, DigitalType DEF PowerState, SolenoidOpen, Low
<1>3. SignalState(cfg, word) \in OutState
  BY <1>1, <1>2, PulseWidthType, PwmType DEF SignalState
<1> QED
  BY <1>2, <1>3 DEF DriveState

LEMMA WordTypes ==
  ASSUME NEW p \in Promille
  PROVE  Driven(p) \in Word /\ UnpoweredAt(p) \in Word
  BY DEF Driven, UnpoweredAt, Word

LEMMA EvaluateType ==
  ASSUME NEW cfg, NEW debug, NEW seen, NEW since
  PROVE  Evaluate(cfg, debug, seen, since) \in LinkState
  BY DEF Evaluate, LinkState

LEMMA HeatingDecideType ==
  ASSUME NEW state \in HeatingState, NEW cfg, NEW reading
  PROVE  HeatingDecide(state, cfg, reading) \in HeatingState
  BY DEF HeatingDecide, HeatingState

LEMMA ReliefUpdateType ==
  ASSUME NEW r \in ReliefState, NEW cfg \in ReliefConfig, NEW reading \in Int, NEW t \in Instant
  PROVE  ReliefUpdate(r, cfg, reading, t) \in ReliefState
<1>1. /\ cfg.cooldownMs \in Nat /\ cfg.pulseMs \in Nat
      /\ r.state \in ReliefPhase /\ r.until \in Instant
  BY DEF ReliefConfig, ReliefState
<1>2. \A phase \in ReliefPhase, ms \in Nat : [state |-> phase, until |-> t + ms] \in ReliefState
  BY DEF ReliefState, Instant
<1>3. \A phase \in ReliefPhase : [r EXCEPT !.state = phase] \in ReliefState
  BY <1>1 DEF ReliefState
<1> QED
  BY <1>1, <1>2, <1>3 DEF ReliefUpdate, AfterPulse, NewPulse, ReliefPhase

(***************************************************************************)
(* The valve model keeps its state in ValveState.                          *)
(***************************************************************************)
LEMMA RetargetType ==
  ASSUME NEW valve \in ValveState, NEW word \in Word
  PROVE  Retarget(valve, word) \in ValveState
<1>1. /\ valve.measured \in Promille /\ valve.status \in ValveStatus
      /\ None \in Optional(Instant) /\ "Moving" \in ValveStatus
  BY DEF ValveState, Optional, ValveStatus
<1> QED
  BY <1>1 DEF Retarget, ValveState

LEMMA StepType ==
  ASSUME NEW cfg \in ValveConfig, NEW ms \in Nat
  PROVE  StepOf(cfg, ms) \in Nat
<1>1. PromilleMax \in Nat \ {0} /\ cfg.travelMs \in Nat \ {0}
  BY BoardAssumption DEF ValveConfig
<1>2. ms * PromilleMax \in Nat
  BY <1>1
<1>3. ASSUME NEW a \in Nat PROVE a \div cfg.travelMs \in Nat
  BY <1>1
<1> QED
  BY <1>1, <1>2, <1>3 DEF StepOf, Least

LEMMA UpdatePositionType ==
  ASSUME NEW valve \in ValveState, NEW cfg \in ValveConfig, NEW position \in Promille,
         NEW elapsedMs \in Nat, NEW feedback \in Optional(Promille)
  PROVE  UpdatePosition(valve, cfg, position, elapsedMs, feedback) \in ValveState
<1>1. /\ valve.movedMs \in Nat /\ valve.origin \in Promille
      /\ Promille \subseteq Nat /\ position \in Nat /\ position <= PromilleMax
      /\ valve.origin \in Nat /\ valve.origin <= PromilleMax
      /\ PromilleMax \in Nat
  BY BoardAssumption DEF ValveState, Promille
<1>2. valve.movedMs + elapsedMs \in Nat
  BY <1>1
<1>3. StepOf(cfg, valve.movedMs + elapsedMs) \in Nat
  BY <1>2, StepType
<1>4. ASSUME feedback # None PROVE Least(feedback, PromilleMax) \in Promille
  BY <1>4, <1>1 DEF Least, Promille, Optional
<1>5. ASSUME NEW step \in Nat
      PROVE  /\ Least(valve.origin + step, position) \in Promille
             /\ Greatest(valve.origin - step, position) \in Promille
  BY <1>1 DEF Least, Greatest, Promille
<1> QED
  BY <1>1, <1>2, <1>3, <1>4, <1>5 DEF UpdatePosition, Extrapolate, ValveState

LEMMA UpdateStallType ==
  ASSUME NEW valve \in ValveState, NEW cfg \in ValveConfig, NEW t \in Instant, NEW ma
  PROVE  UpdateStall(valve, cfg, t, ma) \in ValveState
  BY DEF UpdateStall, ValveState, ValveStatus, Optional

LEMMA UpdateArrivalType ==
  ASSUME NEW valve \in ValveState, NEW position \in Promille, NEW t \in Instant
  PROVE  UpdateArrival(valve, position, t) \in ValveState
  BY DEF UpdateArrival, ValveState, ValveStatus, Optional

LEMMA ValveTickType ==
  ASSUME NEW valve \in ValveState, NEW cfg \in ValveConfig, NEW word \in Word,
         NEW t \in Instant, NEW elapsedMs \in Nat, NEW ma, NEW feedback \in Optional(Promille)
  PROVE  ValveTick(valve, cfg, word, t, elapsedMs, ma, feedback) \in ValveState
<1>1. word.pos \in Promille
  BY DEF Word
<1>2. ServoTick(valve, cfg, word, t, elapsedMs, ma, feedback) \in ValveState
  <2> DEFINE aimed == Retarget(valve, word)
  <2> DEFINE moved == UpdatePosition(aimed, cfg, word.pos, elapsedMs, feedback)
  <2>1. aimed \in ValveState
    BY RetargetType
  <2>2. moved \in ValveState
    BY <1>1, <2>1, UpdatePositionType
  <2>3. UpdateArrival(UpdateStall(moved, cfg, t, ma), word.pos, t) \in ValveState
    BY <1>1, <2>2, UpdateStallType, UpdateArrivalType
  <2>4. [aimed EXCEPT !.status = "Unpowered", !.overSince = None] \in ValveState
    <3> HIDE DEF aimed
    <3> QED BY <2>1 DEF ValveState, ValveStatus, Optional
  <2> QED
    BY <2>3, <2>4 DEF ServoTick
<1>3. PromilleMax \in Promille /\ 0 \in Promille
  BY BoardAssumption DEF Promille
<1>4. [valve EXCEPT !.status = "Unmapped"] \in ValveState
  BY DEF ValveState, ValveStatus
<1>5. [valve EXCEPT !.target = word, !.status = "Holding",
                    !.measured = IF SolenoidOpen(word) THEN PromilleMax ELSE 0] \in ValveState
  BY <1>3 DEF ValveState, ValveStatus
<1> QED
  BY <1>2, <1>4, <1>5 DEF ValveTick

(***************************************************************************)
(* What a tick computes.                                                   *)
(***************************************************************************)
LEMMA ConfigTypes ==
  ASSUME TypeOK, NEW v \in Valve
  PROVE  /\ config.valves[v] \in ValveConfig
         /\ config.valves[v].min \in Promille /\ config.valves[v].max \in Promille
         /\ config.relief \in ReliefConfig /\ config.relief.position \in Promille
         /\ \A stage : ActionFor(stage, config.valves[v]) \in FallbackAction
<1>1. config.valves[v] \in ValveConfig /\ config.relief \in ReliefConfig
  BY DEF TypeOK, Config
<1> QED
  BY <1>1 DEF ValveConfig, ReliefConfig, ActionFor

LEMMA DirectNowType == ASSUME TypeOK PROVE DirectNow \in [Hco -> OutState]
  BY RequestedType, DigitalType DEF TypeOK, DirectNow, Low

LEMMA OverrideNowType == ASSUME TypeOK PROVE OverrideNow \in [Hco -> OutState \cup {NoState}]
  BY RequestedType DEF TypeOK, OverrideNow

LEMMA EnteredType == ASSUME TypeOK PROVE Entered \in Latch
<1>1. Stage \in LinkState
  BY EvaluateType DEF Stage
<1>2. Rearm(latch, Recommanded) \in Latch
  BY DEF TypeOK, Latch, Rearm
<1> QED
  BY <1>1, <1>2 DEF Entered, EnterStage, Latch

LEMMA ReleasedType == ASSUME TypeOK, NEW v \in Valve PROVE Released(v) \in BOOLEAN
<1>1. Entered.unpowered[v] \in BOOLEAN
  BY EnteredType DEF Latch
<1>2. Action(v).unpower \in BOOLEAN
  BY ConfigTypes DEF Action, FallbackAction
<1>3. Settled(v) \in BOOLEAN
  BY DEF Settled, SettledAt
<1> QED
  BY <1>1, <1>2, <1>3 DEF Released, StaysReleased

LEMMA LatchNowType == ASSUME TypeOK, NEW reading PROVE LatchNow(reading) \in Latch
<1>1. \A v \in Valve : Entered.unpowered[v] \in BOOLEAN
  BY EnteredType DEF Latch
<1> QED
  BY <1>1, EnteredType, ReleasedType DEF LatchNow, Latch

LEMMA TargetNowType ==
  ASSUME TypeOK, NEW v \in Valve, NEW reading
  PROVE  TargetNow(v, reading) \in Word
<1>1. Driven(config.relief.position) \in Word
  BY ConfigTypes, WordTypes
<1>2. FallbackTarget(Action(v), Released(v)) \in Word
  BY ConfigTypes, ReleasedType DEF FallbackTarget, Action, FallbackAction, Word
<1>3. Clamped(config.valves[v], commanded[v]) \in Word
  <2>1. commanded[v] \in Word /\ commanded[v].pos \in Promille
    BY DEF TypeOK, Word
  <2>2. ClampTo(config.valves[v], commanded[v].pos) \in Promille
    BY <2>1, ConfigTypes, BoardAssumption DEF ClampTo, Greatest, Least, Promille
  <2> QED
    BY <2>1, <2>2 DEF Clamped, Word
<1> QED
  BY <1>1, <1>2, <1>3 DEF TargetNow

LEMMA ValveNowType ==
  ASSUME TypeOK, NEW v \in Valve, NEW word \in Word,
         NEW positions \in [Valve -> Int], NEW rails
  PROVE  ValveNow(v, word, positions, rails) \in ValveState
<1>1. /\ valves[v] \in ValveState /\ now \in Instant /\ now - lastTick \in Nat
  BY DEF TypeOK, Instant
<1>2. SensedPosition(config.valves[v], positions[v]) \in Optional(Promille)
  <2>1. positions[v] \in Int /\ PromilleMax \in Nat
    BY BoardAssumption
  <2>2. ASSUME ~(positions[v] < 0) PROVE Least(positions[v], PromilleMax) \in Promille
    BY <2>1, <2>2 DEF Least, Promille
  <2> QED
    BY <2>2 DEF SensedPosition, Optional
<1> QED
  BY <1>1, <1>2, ConfigTypes, ValveTickType DEF ValveNow

\* The last of a nonempty set of valves is one of them.
LEMMA LastIn == ASSUME NEW S \in SUBSET Valve, S # {} PROVE Last(S) \in S
  BY BoardAssumption DEF Last

\* Arbitration returns an output state, after any step that keeps the types.
LEMMA ArbitratedType ==
  ASSUME BoardAssumption, NEW h \in Hco,
         config' \in Config, target' \in [Valve -> Word], direct' \in [Hco -> OutState],
         override' \in [Hco -> OutState \cup {NoState}]
  PROVE  Arbitrated(h)' \in OutState
<1> DEFINE pad == heating'[Last(PadsNaming(h)')]
           v == Last(ValvesNaming(h)')
<1>1. Digital(pad = "Heating") \in OutState
  BY DigitalType
<1>2. ASSUME ValvesNaming(h)' # {}
      PROVE  DriveState(config'.valves[v], target'[v], h) \in OutState
  <2>1. v \in Valve
    BY <1>2, LastIn DEF ValvesNaming
  <2>2. config'.valves[v] \in ValveConfig /\ target'[v] \in Word
    BY <2>1 DEF Config
  <2> QED
    BY <2>2, DriveStateType
<1>3. direct'[h] \in OutState /\ override'[h] \in OutState \cup {NoState}
  OBVIOUS
<1> QED
  BY <1>1, <1>2, <1>3 DEF Arbitrated

(***************************************************************************)
(* Type correctness, one lemma per kind of step.                           *)
(***************************************************************************)
LEMMA BootTypes ==
  /\ Driven(0) \in Word /\ NewValve \in ValveState
  /\ NewLatch \in Latch /\ NewRelief \in ReliefState /\ "Disabled" \in HeatingState
  /\ NothingPending \in [valves : [Valve -> BOOLEAN], config : BOOLEAN]
  /\ AllLow \in [Hco -> OutState] /\ NoStates \in [Hco -> OutState \cup {NoState}]
<1>1. 0 \in Promille
  BY BoardAssumption DEF Promille
<1>2. None \in Optional(Instant)
  BY DEF Optional
<1>3. Low \in OutState
  BY DigitalType DEF Low
<1>4. Driven(0) \in Word /\ UnpoweredAt(0) \in Word
  BY <1>1, WordTypes
<1>5. NewValve \in ValveState
  BY <1>1, <1>2, <1>4 DEF NewValve, ValveState, ValveStatus
<1>6. NewLatch \in Latch /\ NewRelief \in ReliefState /\ "Disabled" \in HeatingState
  BY DEF NewLatch, Latch, LinkState, NewRelief, ReliefState, ReliefPhase, HeatingState, Instant
<1>7. NothingPending \in [valves : [Valve -> BOOLEAN], config : BOOLEAN]
  BY DEF NothingPending
<1>8. AllLow \in [Hco -> OutState] /\ NoStates \in [Hco -> OutState \cup {NoState}]
  BY <1>3 DEF AllLow, NoStates
<1> QED
  BY <1>4, <1>5, <1>6, <1>7, <1>8

LEMMA InitType == Init => TypeOK
<1> SUFFICES ASSUME Init PROVE TypeOK
  OBVIOUS
<1>1. now = 0 /\ lastTick = 0 /\ heartbeat \in [ms : Instant, seen : BOOLEAN]
  BY DEF Init, Instant
<1>2. config \in Config /\ rawDebug \in BOOLEAN
  BY ControlAssumption DEF Init
<1>3. commanded \in [Valve -> Word] /\ target \in [Valve -> Word]
  BY BootTypes DEF Init
<1>4. valves \in [Valve -> ValveState] /\ heating \in [Valve -> HeatingState]
  BY BootTypes DEF Init
<1>5. /\ latch \in Latch /\ relief \in ReliefState
      /\ pending \in [valves : [Valve -> BOOLEAN], config : BOOLEAN]
      /\ writes \in [Hco -> OutState \cup {NoState}]
      /\ override \in [Hco -> OutState \cup {NoState}]
      /\ direct \in [Hco -> OutState] /\ out \in [Hco -> OutState]
  BY BootTypes DEF Init
<1> QED
  BY <1>1, <1>2, <1>3, <1>4, <1>5 DEF TypeOK, Instant

LEMMA TimeType == TypeOK /\ (Pass \/ MasterHeartbeat \/ OtherFrame) => TypeOK'
<1> SUFFICES ASSUME TypeOK, Pass \/ MasterHeartbeat \/ OtherFrame PROVE TypeOK'
  OBVIOUS
<1>1. CASE Pass
  BY <1>1 DEF TypeOK, Pass, storeVars, taskVars, Instant
<1>2. CASE NoteHeartbeat
  <2>1. now % MsWrap \in Nat
    BY WrapAssumption DEF TypeOK, Instant
  <2> QED
    BY <1>2, <2>1 DEF TypeOK, NoteHeartbeat, storeVars, taskVars, Instant
<1> QED
  BY <1>1, <1>2 DEF MasterHeartbeat, OtherFrame

LEMMA WriteType == TypeOK /\ Write => TypeOK'
<1> SUFFICES ASSUME TypeOK, Write PROVE TypeOK'
  OBVIOUS
<1> USE ControlAssumption DEF TypeOK, StoreWrite, taskVars
<1>1. CASE \E v \in Valve, word \in Commands : CommandValve(v, word)
  <2>1. PICK v \in Valve, word \in Commands : CommandValve(v, word)
    BY <1>1
  <2>2. commanded' \in [Valve -> Word]
    BY <2>1 DEF CommandValve
  <2>3. pending' \in [valves : [Valve -> BOOLEAN], config : BOOLEAN]
    BY <2>1 DEF CommandValve
  <2> QED
    BY <2>1, <2>2, <2>3 DEF CommandValve
<1>2. CASE \E h \in Hco, state \in DirectStates : WriteDirect(h, state)
  BY <1>2 DEF WriteDirect
<1>3. CASE \E on \in BOOLEAN : SetRawDebug(on)
  BY <1>3 DEF SetRawDebug
<1>4. CASE \E new \in Configs : WriteConfig(new)
  BY <1>4 DEF WriteConfig
<1> QED
  BY <1>1, <1>2, <1>3, <1>4 DEF Write

LEMMA TickType ==
  ASSUME TypeOK, NEW reading \in Int, NEW heat, NEW positions \in [Valve -> Int], NEW rails,
         Tick(reading, heat, positions, rails)
  PROVE  TypeOK'
<1>1. UNCHANGED <<now, heartbeat, config, commanded, rawDebug>> /\ lastTick' = now
  BY DEF Tick
<1>2. direct' \in [Hco -> OutState] /\ override' \in [Hco -> OutState \cup {NoState}]
  BY DirectNowType, OverrideNowType DEF Tick
<1>3. relief' \in ReliefState
  <2>1. config.relief \in ReliefConfig /\ relief \in ReliefState /\ now \in Instant
    BY DEF TypeOK, Config
  <2> QED
    BY <2>1, ReliefUpdateType DEF Tick, ReliefNow
<1>4. latch' \in Latch
  BY LatchNowType DEF Tick
<1>5. target' \in [Valve -> Word]
  BY TargetNowType DEF Tick
<1>6. valves' \in [Valve -> ValveState]
  BY <1>5, ValveNowType DEF Tick
<1>7. heating' \in [Valve -> HeatingState]
  BY HeatingDecideType DEF Tick, TypeOK
<1>8. config' \in Config
  BY <1>1 DEF TypeOK
<1>9. out' \in [Hco -> OutState]
  <2>1. \A h \in Hco : Arbitrated(h)' \in OutState
    BY <1>2, <1>5, <1>8, ArbitratedType, BoardAssumption
  <2>2. out' = [h \in Hco |-> Arbitrated(h)']
    BY DEF Tick
  <2> QED
    BY <2>1, <2>2
<1>10. /\ pending' \in [valves : [Valve -> BOOLEAN], config : BOOLEAN]
       /\ writes' \in [Hco -> OutState \cup {NoState}]
  BY DEF Tick, NothingPending, NoStates
<1> QED
  BY <1>1, <1>2, <1>3, <1>4, <1>5, <1>6, <1>7, <1>9, <1>10 DEF TypeOK, Instant

LEMMA PanicType == TypeOK /\ Panic => TypeOK'
<1> SUFFICES ASSUME TypeOK, Panic PROVE TypeOK'
  OBVIOUS
<1>1. PICK reading \in Readings : PanicReset(reading)
  BY DEF Panic
<1>2. now' = 0 /\ lastTick' = 0 /\ heartbeat' \in [ms : Instant, seen : BOOLEAN]
  BY <1>1 DEF PanicReset, Instant
<1>3. config' \in Config /\ rawDebug' \in BOOLEAN
  BY <1>1, ControlAssumption DEF PanicReset
<1>4. commanded' \in [Valve -> Word] /\ target' \in [Valve -> Word]
  BY <1>1, BootTypes DEF PanicReset
<1>5. valves' \in [Valve -> ValveState] /\ heating' \in [Valve -> HeatingState]
  BY <1>1, BootTypes DEF PanicReset
<1>6. /\ latch' \in Latch /\ relief' \in ReliefState
      /\ pending' \in [valves : [Valve -> BOOLEAN], config : BOOLEAN]
      /\ writes' \in [Hco -> OutState \cup {NoState}]
      /\ override' \in [Hco -> OutState \cup {NoState}]
      /\ direct' \in [Hco -> OutState] /\ out' \in [Hco -> OutState]
  BY <1>1, BootTypes DEF PanicReset
<1> QED
  BY <1>2, <1>3, <1>4, <1>5, <1>6 DEF TypeOK, Instant

LEMMA NextType == TypeOK /\ [Next]_vars => TypeOK'
<1> SUFFICES ASSUME TypeOK, [Next]_vars PROVE TypeOK'
  OBVIOUS
<1>1. CASE ControlTask
  <2>1. PICK reading \in Readings, heat \in [Valve -> HeatReadings],
             positions \in [Valve -> Positions], rails \in [Rail -> RailCurrents] :
          Tick(reading, heat, positions, rails)
    BY <1>1 DEF ControlTask
  <2>2. reading \in Int /\ positions \in [Valve -> Int]
    BY ControlAssumption
  <2> QED
    BY <2>1, <2>2, TickType
<1>2. CASE UNCHANGED vars
  BY <1>2 DEF TypeOK, vars, storeVars, taskVars
<1> QED
  BY <1>1, <1>2, TimeType, WriteType, PanicType DEF Next

\* The state of the control plane always has its declared types: positions
\* stay promille, clocks stay ordered and every output holds a drivable
\* state, whatever is configured, commanded and sensed.
THEOREM TypeCorrect == Spec => []TypeOK
  BY InitType, NextType, PTL DEF Spec

(***************************************************************************)
(* What a tick decides.                                                    *)
(***************************************************************************)
\* Only the control task does what Ticked says, or nothing changes at all: a
\* write parks something, and the defaults cannot panic.
LEMMA OnlyTasksTick ==
  ASSUME TypeOK, Next, Ticked
  PROVE  ControlTask \/ UNCHANGED vars
<1>1. ASSUME Pass PROVE FALSE
  BY <1>1 DEF Pass, Ticked, TypeOK, Instant
<1>2. ASSUME MasterHeartbeat \/ OtherFrame PROVE UNCHANGED vars
  BY <1>2 DEF MasterHeartbeat, OtherFrame, NoteHeartbeat, Ticked, vars
<1>3. ASSUME Write PROVE UNCHANGED vars
  <2>1. ASSUME NEW v \in Valve, NEW word \in Commands, CommandValve(v, word) PROVE FALSE
    <3>1. pending'.valves[v] = TRUE
      BY <2>1 DEF CommandValve, TypeOK
    <3>2. pending'.valves[v] = FALSE
      BY <2>1 DEF Ticked, NothingPending
    <3> QED BY <3>1, <3>2
  <2>2. ASSUME NEW h \in Hco, NEW state \in DirectStates, WriteDirect(h, state) PROVE FALSE
    <3>1. writes'[h] = state /\ state \in OutState
      BY <2>2, ControlAssumption DEF WriteDirect, TypeOK
    <3>2. writes'[h] = NoState
      BY <2>2 DEF Ticked, NoStates
    <3> QED BY <3>1, <3>2 DEF OutState, NoState
  <2>3. ASSUME NEW on \in BOOLEAN, SetRawDebug(on) PROVE UNCHANGED vars
    BY <2>3 DEF SetRawDebug, StoreWrite, Ticked, vars, storeVars
  <2>4. ASSUME NEW new \in Configs, WriteConfig(new) PROVE FALSE
    <3>1. pending'.config = TRUE
      BY <2>4 DEF WriteConfig, TypeOK
    <3> QED BY <3>1 DEF Ticked, NothingPending
  <2> QED BY <1>3, <2>1, <2>2, <2>3, <2>4 DEF Write
<1>4. ASSUME Panic PROVE FALSE
  <2>1. PICK reading \in Readings : PanicReset(reading)
    BY <1>4 DEF Panic
  <2>2. config = BootConfig
    BY <2>1 DEF PanicReset, Ticked
  <2> QED BY <2>1, <2>2, ControlAssumption DEF PanicReset, TickPanics
<1> QED BY <1>1, <1>2, <1>3, <1>4 DEF Next

\* Out of raw debug mode no override is left.
LEMMA NoOverrideLeft ==
  ASSUME NEW h \in Hco, NEW reading, NEW heat, NEW positions, NEW rails, ~rawDebug,
         Tick(reading, heat, positions, rails)
  PROVE  override'[h] = NoState
  BY DEF Tick, OverrideNow

\* The drive of a valve reaches an output nobody else is mapped to.
LEMMA OwnerDrives ==
  ASSUME TypeOK, ~rawDebug, ControlTask, NEW v \in Valve, NEW h \in Hco, OnlyOwner(v, h)
  PROVE  out'[h] = DriveState(config.valves[v], target'[v], h)
<1>1. PICK reading \in Readings, heat \in [Valve -> HeatReadings],
           positions \in [Valve -> Positions], rails \in [Rail -> RailCurrents] :
        Tick(reading, heat, positions, rails)
  BY DEF ControlTask
<1>2. config' = config /\ out'[h] = Arbitrated(h)'
  BY <1>1 DEF Tick
<1>3. PadsNaming(h)' = {}
  BY <1>2 DEF PadsNaming, OnlyOwner
<1>4. ValvesNaming(h)' = {v}
  BY <1>2 DEF ValvesNaming, OnlyOwner
<1>5. Last({v}) = v
  <2>1. {v} \in SUBSET Valve /\ {v} # {}
    OBVIOUS
  <2>2. Last({v}) \in {v}
    BY <2>1, LastIn
  <2> QED BY <2>2
<1>6. Arbitrated(h)' = DriveState(config'.valves[v], target'[v], h)
  BY <1>1, <1>3, <1>4, <1>5, NoOverrideLeft DEF Arbitrated
<1> QED BY <1>2, <1>6

\* Out of raw debug mode no direct write, accepted before or after the
\* mapping or the mode changed, reaches an output a valve owns.
THEOREM OwnersDecide == Spec => OwnerDecides
<1>1. TypeOK /\ [Next]_vars =>
        [Ticked /\ ~rawDebug =>
           \A v \in Valve, h \in Hco :
             OnlyOwner(v, h) => out'[h] = DriveState(config.valves[v], target'[v], h)]_vars
  BY OnlyTasksTick, OwnerDrives
<1> QED BY <1>1, TypeCorrect, PTL DEF Spec, OwnerDecides

LEMMA RelievedIsOpened ==
  ASSUME ControlTask, relief'.state = "Relieving", config.relief.valve \in Valve
  PROVE  target'[config.relief.valve] = Driven(config.relief.position)
<1>1. PICK reading \in Readings, heat \in [Valve -> HeatReadings],
           positions \in [Valve -> Positions], rails \in [Rail -> RailCurrents] :
        Tick(reading, heat, positions, rails)
  BY DEF ControlTask
<1>2. relief' = ReliefNow(reading) /\ Relieved(config.relief.valve, reading)
  BY <1>1 DEF Tick, Relieved, RelievedValve
<1> QED BY <1>1, <1>2 DEF Tick, TargetNow

\* The latch of the valve relief opens is cleared in the same tick.
LEMMA RelievedIsRearmed ==
  ASSUME TypeOK, ControlTask, relief'.state = "Relieving", config.relief.valve \in Valve
  PROVE  ~latch'.unpowered[config.relief.valve]
<1>1. PICK reading \in Readings, heat \in [Valve -> HeatReadings],
           positions \in [Valve -> Positions], rails \in [Rail -> RailCurrents] :
        Tick(reading, heat, positions, rails)
  BY DEF ControlTask
<1>2. latch' = LatchNow(reading) /\ Relieved(config.relief.valve, reading)
  BY <1>1 DEF Tick, Relieved, RelievedValve
<1>3. Entered = [stage |-> Entered.stage, unpowered |-> Entered.unpowered]
  BY DEF Entered, EnterStage, Rearm, TypeOK, Latch
<1> QED BY <1>2, <1>3 DEF LatchNow

\* While relief holds its valve open the outputs of that valve say so, over
\* the command, the clamp, both stages and their latch, which it clears.
THEOREM ReliefHasPriority == Spec => ReliefOutranks
<1> DEFINE rv == config.relief.valve
<1>1. ASSUME TypeOK, ControlTask, relief'.state = "Relieving"
      PROVE  rv \in Valve
  <2>1. rv \in Optional(Valve)
    BY <1>1 DEF TypeOK, Config, ReliefConfig
  <2>2. PICK reading \in Readings, heat \in [Valve -> HeatReadings],
             positions \in [Valve -> Positions], rails \in [Rail -> RailCurrents] :
          Tick(reading, heat, positions, rails)
    BY <1>1 DEF ControlTask
  <2>3. ReliefArmed(config.relief)
    BY <1>1, <2>2 DEF Tick, ReliefNow, ReliefUpdate, Disarmed
  <2> QED BY <2>1, <2>3 DEF ReliefArmed, Optional
<1>2. ASSUME TypeOK, ControlTask, relief'.state = "Relieving", NEW h \in Hco, ~rawDebug,
             OnlyOwner(rv, h)
      PROVE  out'[h] = DriveState(config.valves[rv], Driven(config.relief.position), h)
  BY <1>1, <1>2, OwnerDrives, RelievedIsOpened
<1>3. ASSUME TypeOK, ControlTask, relief'.state = "Relieving"
      PROVE  ~latch'.unpowered[rv]
  BY <1>1, <1>3, RelievedIsRearmed
<1>4. TypeOK /\ [Next]_vars =>
        [Ticked /\ relief'.state = "Relieving" =>
           /\ ~latch'.unpowered[config.relief.valve]
           /\ \A h \in Hco :
                ~rawDebug /\ OnlyOwner(config.relief.valve, h) =>
                  out'[h] = DriveState(config.valves[config.relief.valve],
                                       Driven(config.relief.position), h)]_vars
  BY <1>2, <1>3, OnlyTasksTick
<1> QED BY <1>4, TypeCorrect, PTL DEF Spec, ReliefOutranks

\* The tick that sees a configuration change drops an output the new mapping
\* gives to nobody, unless a write asks for it anew.
THEOREM RemapsDropOutputs == Spec => RemapDropsOutputs
<1>1. ASSUME TypeOK, ControlTask, pending.config, ~rawDebug, NEW h \in Hco,
             ~IsOwned(config, h), writes[h] = NoState,
             \A v \in Valve : h \notin config.heating[v].outputs
      PROVE  out'[h] = Low
  <2>1. PICK reading \in Readings, heat \in [Valve -> HeatReadings],
             positions \in [Valve -> Positions], rails \in [Rail -> RailCurrents] :
          Tick(reading, heat, positions, rails)
    BY <1>1 DEF ControlTask
  <2>2. config' = config /\ rawDebug' = rawDebug /\ out'[h] = Arbitrated(h)'
    BY <2>1 DEF Tick
  <2>3. direct'[h] = Low
    BY <1>1, <2>1 DEF Tick, DirectNow
  <2>4. PadsNaming(h)' = {}
    BY <1>1, <2>2 DEF PadsNaming
  <2>5. ASSUME ValvesNaming(h)' # {} PROVE Arbitrated(h)' = Low
    <3> DEFINE v == Last(ValvesNaming(h)')
    <3>1. v \in Valve /\ h \in OutputsOf(config.valves[v])
      BY <2>2, <2>5, LastIn DEF ValvesNaming
    <3>2. ~IsMapped(config.valves[v])
      BY <1>1, <3>1 DEF IsOwned
    <3>3. DriveState(config.valves[v], target'[v], h) = Low
      BY <3>2 DEF DriveState, PowerState, SignalState, IsServo
    <3> HIDE DEF v
    <3>4. Arbitrated(h)' = DriveState(config'.valves[v], target'[v], h)
      BY <1>1, <2>1, <2>4, <2>5, NoOverrideLeft DEF Arbitrated, v
    <3> QED BY <2>2, <3>3, <3>4
  <2> QED BY <1>1, <2>1, <2>2, <2>3, <2>4, <2>5, NoOverrideLeft DEF Arbitrated
<1>2. TypeOK /\ [Next]_vars =>
        [Ticked /\ pending.config /\ ~rawDebug =>
           \A h \in Hco :
             /\ ~IsOwned(config, h) /\ writes[h] = NoState
             /\ \A v \in Valve : h \notin config.heating[v].outputs
             => out'[h] = Low]_vars
  <2>1. ASSUME TypeOK, Next, vars' # vars, Ticked PROVE ControlTask
    BY <2>1, OnlyTasksTick
  <2> QED BY <1>1, <2>1
<1> QED BY <1>2, TypeCorrect, PTL DEF Spec, RemapDropsOutputs


(***************************************************************************)
(* A fallback stage and its releases.                                      *)
(***************************************************************************)
\* Only a fallback stage has released valves.
ReleasesNeedStage == \A v \in Valve : latch.unpowered[v] => InFallback(latch.stage)

LEMMA TickLatches ==
  ASSUME TypeOK, ReleasesNeedStage, NEW reading, NEW v \in Valve
  PROVE  /\ LatchNow(reading).stage = Stage
         /\ LatchNow(reading).unpowered[v] => InFallback(Stage)
<1>1. Rearm(latch, Recommanded).stage = latch.stage /\ Rearm(latch, Recommanded) \in Latch
  BY DEF Rearm, Latch, TypeOK
<1>2. Rearm(latch, Recommanded).unpowered[v] => latch.unpowered[v]
  BY DEF Rearm, Latch, TypeOK
<1>3. Entered.stage = Stage /\ Entered \in Latch
  BY <1>1, EnteredType DEF Entered, EnterStage
<1>4. Entered.unpowered[v] => InFallback(Stage)
  BY <1>1, <1>2 DEF Entered, EnterStage, ReleasesNeedStage
<1>5. LatchNow(reading).stage = Stage
  BY <1>3 DEF LatchNow, Latch
<1>6. LatchNow(reading).unpowered[v] => InFallback(Stage) \/ Entered.unpowered[v]
  BY <1>3 DEF LatchNow, Latch
<1> QED BY <1>4, <1>5, <1>6

LEMMA ReleasesStep == TypeOK /\ ReleasesNeedStage /\ [Next]_vars => ReleasesNeedStage'
<1> SUFFICES ASSUME TypeOK, ReleasesNeedStage, [Next]_vars PROVE ReleasesNeedStage'
  OBVIOUS
<1>1. CASE ControlTask
  <2>1. PICK reading \in Readings : latch' = LatchNow(reading)
    BY <1>1 DEF ControlTask, Tick
  <2> QED BY <2>1, TickLatches DEF ReleasesNeedStage
<1>2. CASE Panic
  BY <1>2 DEF Panic, PanicReset, NewLatch, ReleasesNeedStage
<1>3. CASE Pass \/ MasterHeartbeat \/ OtherFrame \/ Write \/ UNCHANGED vars
  <2>1. latch' = latch
    BY <1>3 DEF Pass, MasterHeartbeat, OtherFrame, NoteHeartbeat, Write, CommandValve, WriteDirect,
                SetRawDebug, WriteConfig, StoreWrite, taskVars, vars
  <2> QED BY <2>1 DEF ReleasesNeedStage
<1> QED BY <1>1, <1>2, <1>3 DEF Next

\* While a stage lasts, a valve it has released stays released unless the
\* master commands it, relief opens it or its configuration changes.
THEOREM ReleasesLast == Spec => ReleaseDoesNotOscillate
<1>1. Init => ReleasesNeedStage
  BY DEF Init, NewLatch, ReleasesNeedStage
<1>2. ASSUME TypeOK, ReleasesNeedStage, ControlTask, NEW v \in Valve, latch.unpowered[v],
             latch'.stage = latch.stage, ~pending.valves[v],
             RelievedValve(relief', config.relief) # v
      PROVE  target'[v].off
  <2>1. PICK reading \in Readings :
          /\ latch' = LatchNow(reading) /\ relief' = ReliefNow(reading)
          /\ target'[v] = TargetNow(v, reading)
    BY <1>2 DEF ControlTask, Tick
  <2>2. latch.stage = Stage /\ InFallback(Stage)
    BY <1>2, <2>1, TickLatches DEF ReleasesNeedStage
  <2>3. v \notin Recommanded
    BY <1>2 DEF Recommanded
  <2>4. Entered.unpowered[v]
    BY <1>2, <2>2, <2>3 DEF Entered, EnterStage, Rearm, Latch, TypeOK
  <2>5. Released(v) /\ ~Relieved(v, reading)
    BY <1>2, <2>1, <2>4 DEF Released, StaysReleased, Relieved
  <2>6. target'[v] = FallbackTarget(Action(v), Released(v))
    BY <2>1, <2>2, <2>5 DEF TargetNow
  <2> QED BY <2>5, <2>6 DEF FallbackTarget
<1>3. TypeOK /\ ReleasesNeedStage /\ [Next]_vars =>
        [\A v \in Valve :
           /\ latch.unpowered[v] /\ latch'.stage = latch.stage
           /\ ~pending.valves[v] /\ ~pending.config
           /\ RelievedValve(relief', config.relief) # v
           /\ Ticked
           => target'[v].off]_vars
  <2>1. ASSUME TypeOK, Next, vars' # vars, Ticked PROVE ControlTask
    BY <2>1, OnlyTasksTick
  <2> QED BY <1>2, <2>1
<1> QED BY <1>1, <1>3, ReleasesStep, TypeCorrect, PTL DEF Spec, ReleaseDoesNotOscillate

(***************************************************************************)
(* Silence, as long as the heartbeat timestamp does not wrap: after 49     *)
(* days of it a u32 of milliseconds starts over, and with it the stages.   *)
(***************************************************************************)
HeardBefore == now <= MaxUptime /\ heartbeat.ms <= now

LEMMA HeardStep ==
  ASSUME MaxUptime < MsWrap, TypeOK, HeardBefore, [Next]_vars
  PROVE  HeardBefore'
<1>1. CASE Pass
  BY <1>1, ControlAssumption DEF Pass, HeardBefore, TypeOK, Instant
<1>2. CASE MasterHeartbeat \/ OtherFrame
  <2>1. now % MsWrap = now
    BY WrapAssumption, ControlAssumption DEF HeardBefore, TypeOK, Instant
  <2> QED BY <1>2, <2>1 DEF MasterHeartbeat, OtherFrame, NoteHeartbeat, HeardBefore, TypeOK, Instant
<1>3. CASE Panic
  BY <1>3, ControlAssumption DEF Panic, PanicReset, HeardBefore
<1>4. CASE Write \/ ControlTask \/ UNCHANGED vars
  <2>1. now' = now /\ heartbeat' = heartbeat
    BY <1>4 DEF ControlTask, Tick, Write, CommandValve, WriteDirect, SetRawDebug, WriteConfig,
                StoreWrite, vars
  <2> QED BY <2>1 DEF HeardBefore
<1> QED BY <1>1, <1>2, <1>3, <1>4 DEF Next

LEMMA NotWrapped ==
  ASSUME NEW n \in Nat \ {0}, NEW a \in Nat, NEW b \in Nat, b <= a, a < n
  PROVE  (a - b) % n = a - b
<1>1. PICK d \in Nat : d = a - b
  OBVIOUS
<1>2. d % n = d
  BY <1>1
<1> QED BY <1>1, <1>2

\* Longer silence is worse in the same configuration and mode.
LEMMA SeverityGrows ==
  ASSUME NEW debug, NEW seen, NEW cfg \in Config, NEW s \in Nat, NEW t \in Nat, s <= t
  PROVE  Severity(Evaluate(cfg, debug, seen, s)) <= Severity(Evaluate(cfg, debug, seen, t))
<1>1. cfg.fallbackAMs \in Nat /\ cfg.fallbackBMs \in Nat
  BY DEF Config
<1> QED BY <1>1 DEF Severity, Evaluate

\* Silence only ever escalates: without a frame, a write to the configuration
\* or to raw debug mode the stage never falls back from B to A, or out of the
\* fallback, for as long as the millisecond clock has not wrapped.
THEOREM SilenceEscalates ==
  ASSUME MaxUptime < MsWrap
  PROVE  Spec => SilenceOnlyEscalates
<1>1. Init => HeardBefore
  BY ControlAssumption DEF Init, HeardBefore
<1>2. TypeOK /\ HeardBefore /\ [Next]_vars => HeardBefore'
  BY HeardStep
<1>3. TypeOK /\ HeardBefore /\ [Next]_vars =>
        [UNCHANGED <<heartbeat, config, rawDebug>> => Severity(Stage) <= Severity(Stage')]_vars
  <2> SUFFICES ASSUME TypeOK, HeardBefore, Next, UNCHANGED <<heartbeat, config, rawDebug>>
               PROVE  Severity(Stage) <= Severity(Stage')
    OBVIOUS
  <2>1. now' >= now
    <3>1. ASSUME Panic PROVE FALSE
      <4>1. PICK reading \in Readings : PanicReset(reading)
        BY <3>1 DEF Panic
      <4>2. config = BootConfig
        BY <4>1 DEF PanicReset
      <4> QED BY <4>1, <4>2, ControlAssumption DEF PanicReset, TickPanics
    <3>2. now \in Nat
      BY DEF TypeOK, Instant
    <3> QED BY <3>1, <3>2 DEF Next, Pass, MasterHeartbeat, OtherFrame, NoteHeartbeat, ControlTask,
                Tick, Write, CommandValve, WriteDirect, SetRawDebug, WriteConfig, StoreWrite
  <2>2. /\ now \in Nat /\ now' \in Nat /\ now < MsWrap /\ now' < MsWrap
        /\ heartbeat.ms \in Nat /\ heartbeat.ms <= now /\ heartbeat' = heartbeat
    BY HeardStep, NextType, ControlAssumption, WrapAssumption DEF HeardBefore, TypeOK, Instant
  <2>3. /\ SinceHeartbeat(now, heartbeat.ms) = now - heartbeat.ms
        /\ SinceHeartbeat(now', heartbeat.ms) = now' - heartbeat.ms
    <3>1. (now - heartbeat.ms) % MsWrap = now - heartbeat.ms
      BY <2>2, WrapAssumption, NotWrapped
    <3>2. (now' - heartbeat.ms) % MsWrap = now' - heartbeat.ms
      BY <2>1, <2>2, WrapAssumption, NotWrapped
    <3> QED BY <3>1, <3>2 DEF SinceHeartbeat
  <2>4. /\ Stage = Evaluate(config, rawDebug, heartbeat.seen, now - heartbeat.ms)
        /\ Stage' = Evaluate(config, rawDebug, heartbeat.seen, now' - heartbeat.ms)
    BY <2>2, <2>3 DEF Stage
  <2>5. config \in Config
    BY DEF TypeOK
  <2> QED BY <2>1, <2>2, <2>4, <2>5, SeverityGrows
<1> QED BY <1>1, <1>2, <1>3, TypeCorrect, PTL DEF Spec, SilenceOnlyEscalates

-----------------------------------------------------------------------------
(***************************************************************************)
(* Releases: a fallback stage releases a servo only where it has put it.   *)
(***************************************************************************)
(***************************************************************************)
(* What one tick of the valve model does to the arrival instant.           *)
(***************************************************************************)
LEMMA RetargetArrival ==
  ASSUME NEW valve \in ValveState, NEW word \in Word, NotArrived(valve)
  PROVE  /\ NotArrived(Retarget(valve, word))
         /\ Retarget(valve, word).target = word
         /\ Retarget(valve, word).arrivedAt # None =>
              word = valve.target /\ Retarget(valve, word).arrivedAt = valve.arrivedAt
  BY DEF Retarget, NotArrived, ValveState

LEMMA PositionArrival ==
  ASSUME NEW valve \in ValveState, NEW cfg, NEW position, NEW elapsedMs, NEW feedback
  PROVE  LET moved == UpdatePosition(valve, cfg, position, elapsedMs, feedback)
         IN  /\ moved.status = valve.status /\ moved.target = valve.target
             /\ moved.arrivedAt = valve.arrivedAt
  BY DEF UpdatePosition, Extrapolate, ValveState

LEMMA StallArrival ==
  ASSUME NEW valve \in ValveState, NEW cfg, NEW t, NEW ma, NotArrived(valve)
  PROVE  LET stalled == UpdateStall(valve, cfg, t, ma)
         IN  /\ NotArrived(stalled) /\ stalled.target = valve.target
             /\ stalled.arrivedAt = valve.arrivedAt
  BY DEF UpdateStall, NotArrived, ValveState

LEMMA ArrivalArrival ==
  ASSUME NEW valve \in ValveState, NEW position, NEW t, NotArrived(valve)
  PROVE  LET new == UpdateArrival(valve, position, t)
         IN  /\ NotArrived(new) /\ new.target = valve.target
             /\ new.arrivedAt # None =>
                  /\ new.measured = position
                  /\ new.arrivedAt \in {t, valve.arrivedAt}
                  /\ valve.arrivedAt # None => new.arrivedAt = valve.arrivedAt
  BY DEF UpdateArrival, NotArrived, ValveState

\* A driven servo that has arrived is at its target, since now or since before.
LEMMA ServoTickArrival ==
  ASSUME NEW valve \in ValveState, NEW cfg \in ValveConfig, NEW word \in Word,
         NEW t \in Instant, NEW elapsedMs \in Nat, NEW ma, NEW feedback \in Optional(Promille),
         NotArrived(valve)
  PROVE  LET new == ServoTick(valve, cfg, word, t, elapsedMs, ma, feedback)
         IN  /\ NotArrived(new) /\ new.target = word
             /\ new.arrivedAt # None =>
                  /\ ~word.off => new.measured = word.pos
                  /\ \/ ~word.off /\ new.arrivedAt = t
                     \/ word = valve.target /\ new.arrivedAt = valve.arrivedAt
<1> DEFINE aimed == Retarget(valve, word)
           moved == UpdatePosition(aimed, cfg, word.pos, elapsedMs, feedback)
           stalled == UpdateStall(moved, cfg, t, ma)
           new == ServoTick(valve, cfg, word, t, elapsedMs, ma, feedback)
<1>1. /\ aimed \in ValveState /\ NotArrived(aimed) /\ aimed.target = word
      /\ aimed.arrivedAt # None => word = valve.target /\ aimed.arrivedAt = valve.arrivedAt
  BY RetargetType, RetargetArrival
<1>2. CASE word.off
  <2>1. new = [aimed EXCEPT !.status = "Unpowered", !.overSince = None]
    BY <1>2 DEF ServoTick
  <2> HIDE DEF aimed
  <2>2. NotArrived(new) /\ new.target = word /\ new.arrivedAt = aimed.arrivedAt
    BY <1>1, <2>1 DEF NotArrived, ValveState
  <2> QED
    BY <1>1, <1>2, <2>2
<1>3. CASE ~word.off
  <2>1. new = UpdateArrival(stalled, word.pos, t)
    BY <1>3 DEF ServoTick
  <2>2. word.pos \in Promille
    BY DEF Word
  <2> HIDE DEF aimed
  <2>3. /\ moved \in ValveState /\ moved.status = aimed.status
        /\ moved.target = word /\ moved.arrivedAt = aimed.arrivedAt
    BY <1>1, <2>2, UpdatePositionType, PositionArrival
  <2>4. NotArrived(moved)
    BY <1>1, <2>3 DEF NotArrived
  <2> HIDE DEF moved
  <2>5. /\ stalled \in ValveState /\ NotArrived(stalled) /\ stalled.target = word
        /\ stalled.arrivedAt = aimed.arrivedAt
    BY <2>3, <2>4, UpdateStallType, StallArrival
  <2> HIDE DEF stalled, new
  <2>6. /\ NotArrived(new) /\ new.target = word
        /\ new.arrivedAt # None =>
             /\ new.measured = word.pos
             /\ new.arrivedAt \in {t, aimed.arrivedAt}
             /\ aimed.arrivedAt # None => new.arrivedAt = aimed.arrivedAt
    BY <2>1, <2>5, ArrivalArrival
  <2> QED
    BY <1>1, <1>3, <2>6 DEF new
<1> QED
  BY <1>2, <1>3

LEMMA ValveTickArrival ==
  ASSUME NEW valve \in ValveState, NEW cfg \in ValveConfig, NEW word \in Word,
         NEW t \in Instant, NEW elapsedMs \in Nat, NEW ma, NEW feedback \in Optional(Promille),
         NotArrived(valve)
  PROVE  LET new == ValveTick(valve, cfg, word, t, elapsedMs, ma, feedback)
         IN  /\ NotArrived(new)
             /\ IsServo(cfg) => new = ServoTick(valve, cfg, word, t, elapsedMs, ma, feedback)
             /\ ~IsServo(cfg) => new.arrivedAt = valve.arrivedAt
<1>1. CASE IsServo(cfg)
  BY <1>1, ServoTickArrival DEF ValveTick, IsServo
<1>2. CASE ~IsServo(cfg)
  BY <1>2 DEF ValveTick, NotArrived, ValveState
<1> QED
  BY <1>1, <1>2

(***************************************************************************)
(* A tick, for one valve.                                                  *)
(***************************************************************************)
\* A valve the tick leaves released was released before, in the same stage,
\* or has just settled at the position of the stage.
LEMMA ReleaseCause ==
  ASSUME TypeOK, NEW v \in Valve, NEW reading, NEW heat, NEW positions, NEW rails,
         Tick(reading, heat, positions, rails), latch'.unpowered[v],
         latch.unpowered[v] => InFallback(latch.stage)
  PROVE  /\ latch'.stage = Stage /\ InFallback(Stage) /\ target'[v].off
         /\ \/ latch.unpowered[v] /\ latch.stage = Stage
            \/ Settled(v)
<1>1. latch \in Latch /\ Entered \in Latch
  BY EnteredType DEF TypeOK
<1>2. /\ latch' = LatchNow(reading)
      /\ target' = [w \in Valve |-> TargetNow(w, reading)]
  BY DEF Tick
<1>3. latch'.stage = Entered.stage /\ Entered.stage = Stage
  <2>1. latch'.stage = Entered.stage
    BY <1>1, <1>2 DEF LatchNow, Latch
  <2>2. Entered.stage = Stage
    BY DEF Entered, EnterStage, Rearm, Latch, TypeOK
  <2> QED
    BY <2>1, <2>2
<1>4. /\ ~Relieved(v, reading)
      /\ IF InFallback(Stage) THEN Released(v) ELSE Entered.unpowered[v]
  BY <1>1, <1>2 DEF LatchNow, Latch
<1>5. Entered.unpowered[v] => latch.unpowered[v] /\ latch.stage = Stage
  BY <1>1 DEF Entered, EnterStage, Rearm, Latch
<1>6. InFallback(Stage)
  BY <1>4, <1>5
<1>7. Released(v)
  BY <1>4, <1>6
<1>8. target'[v] = FallbackTarget(Action(v), Released(v))
  BY <1>2, <1>4, <1>6 DEF TargetNow
<1>9. target'[v].off
  BY <1>7, <1>8 DEF FallbackTarget
<1> QED
  BY <1>3, <1>5, <1>6, <1>7, <1>9 DEF Released, StaysReleased

LEMMA TickRelease ==
  ASSUME TypeOK, HTypeOK, ReleaseInv, NEW v \in Valve,
         NEW reading \in Int, NEW heat, NEW positions \in [Valve -> Int], NEW rails,
         Tick(reading, heat, positions, rails), TypeOK',
         hold' = [w \in Valve |-> HoldAfterTick(w)],
         excused' = [w \in Valve |-> ExcusedAfterTick(w)]
  PROVE  ReleaseInvOf(v)'
<1> DEFINE cfg == config.valves[v]
           old == valves[v]
           new == valves'[v]
           word == target'[v]
           sensed == SensedPosition(cfg, positions[v])
           ma == ValveCurrent(cfg, rails)
<1>1. /\ config' = config /\ now' = now
      /\ cfg \in ValveConfig /\ old \in ValveState /\ word \in Word
      /\ now \in Instant /\ lastTick \in Instant /\ now - lastTick \in Nat
      /\ sensed \in Optional(Promille)
  <2>1. sensed \in Optional(Promille)
    <3>1. positions[v] \in Int /\ PromilleMax \in Nat
      BY BoardAssumption
    <3>2. ASSUME ~(positions[v] < 0) PROVE Least(positions[v], PromilleMax) \in Promille
      BY <3>1, <3>2 DEF Least, Promille
    <3> QED
      BY <3>2 DEF SensedPosition, Optional
  <2> QED
    BY <2>1, ConfigTypes DEF TypeOK, Tick, Instant
<1>2. new = ValveTick(old, cfg, word, now, now - lastTick, ma, sensed)
  BY DEF Tick, ValveNow
<1>3. /\ NotArrived(old) /\ ArrivedHeld(v) /\ hold[v].from <= now
      /\ latch.unpowered[v] => InFallback(latch.stage)
      /\ latch.unpowered[v] /\ ~excused[v] => IsServo(cfg) /\ WasPut(v)
  BY DEF ReleaseInv, ReleaseInvOf
<1>4. /\ hold'[v] = HoldAfterTick(v)
      /\ excused'[v] <=> ExcusedAfterTick(v)
      /\ hold[v] \in Hold /\ NoHold \in Hold /\ excused[v] \in BOOLEAN
  <2>1. NoHold \in Hold
    BY BoardAssumption DEF NoHold, Hold, Optional, Promille
  <2> QED
    BY <2>1 DEF HTypeOK
<1> HIDE DEF cfg, old, new, word, sensed, ma
<1>5. /\ NotArrived(new)
      /\ IsServo(cfg) => new = ServoTick(old, cfg, word, now, now - lastTick, ma, sensed)
      /\ ~IsServo(cfg) => new.arrivedAt = old.arrivedAt
  BY <1>1, <1>2, <1>3, ValveTickArrival
<1>6. ASSUME IsServo(cfg), new.arrivedAt # None
      PROVE  /\ new.target = word
             /\ ~word.off => new.measured = word.pos
             /\ \/ ~word.off /\ new.arrivedAt = now
                \/ word = old.target /\ new.arrivedAt = old.arrivedAt
  BY <1>1, <1>3, <1>5, <1>6, ServoTickArrival
<1>7. ASSUME ~excused'[v] PROVE ~excused[v] \/ DrivenAnew(v)
  BY <1>4, <1>7 DEF ExcusedAfterTick
<1>8. DrivenAnew(v) => IsServo(cfg) /\ word # old.target /\ ~latch'.unpowered[v]
  BY DEF DrivenAnew, cfg, word, old
<1>9. ASSUME ~excused'[v], IsServo(cfg) PROVE Obeyed(v)'
  BY <1>4, <1>9 DEF ExcusedAfterTick, cfg
<1>10. hold'[v].from <= now
  BY <1>1, <1>3, <1>4 DEF HoldAfterTick, NoHold, Hold, Instant, None
<1>11. ArrivedHeld(v)'
  <2> SUFFICES ASSUME new.arrivedAt # None, ~excused'[v]
               PROVE  /\ IsServo(cfg) /\ ~new.target.off
                      /\ IsOpen(hold'[v]) /\ hold'[v].pos = new.target.pos
                      /\ hold'[v].from <= new.arrivedAt
    BY <1>1 DEF ArrivedHeld, cfg, new
  <2>1. old.arrivedAt # None /\ ~excused[v] =>
          /\ IsServo(cfg) /\ ~old.target.off
          /\ IsOpen(hold[v]) /\ hold[v].pos = old.target.pos
          /\ hold[v].from <= old.arrivedAt
    BY <1>3 DEF ArrivedHeld, cfg, old
  <2>2. IsServo(cfg)
    BY <1>5, <1>7, <1>8, <2>1
  <2>3. CASE word.off
    BY <1>6, <1>7, <1>8, <2>1, <2>2, <2>3
  <2>4. CASE ~word.off
    <3>1. hold'[v] = IF IsOpen(hold[v]) /\ hold[v].pos = word.pos THEN hold[v]
                     ELSE [pos |-> word.pos, from |-> now, to |-> None]
      BY <1>4, <1>6, <1>9, <2>2, <2>4 DEF HoldAfterTick, cfg, new, word
    <3>2. IsOpen(hold'[v]) /\ hold'[v].pos = word.pos
      BY <1>1, <3>1 DEF IsOpen, None, Instant
    <3>3. new.target = word
      BY <1>6, <2>2
    <3>4. CASE new.arrivedAt = now
      BY <1>10, <2>2, <2>4, <3>2, <3>3, <3>4
    <3>5. CASE word = old.target /\ new.arrivedAt = old.arrivedAt
      BY <1>7, <1>8, <2>1, <2>2, <2>4, <3>1, <3>2, <3>3, <3>5
    <3> QED
      BY <1>6, <2>2, <3>4, <3>5
  <2> QED
    BY <2>3, <2>4
<1>12. ASSUME latch'.unpowered[v]
       PROVE  /\ InFallback(latch'.stage)
              /\ ~excused'[v] => IsServo(config'.valves[v]) /\ WasPut(v)'
  <2>1. /\ latch'.stage = Stage /\ InFallback(Stage) /\ word.off
        /\ (latch.unpowered[v] /\ latch.stage = Stage) \/ Settled(v)
    BY <1>3, <1>12, ReleaseCause DEF word
  <2>2. ASSUME ~excused'[v] PROVE IsServo(cfg) /\ WasPut(v)'
    <3>1. ~excused[v]
      BY <1>7, <1>8, <1>12, <2>2
    <3>2. hold'[v] = IF IsOpen(hold[v]) THEN [hold[v] EXCEPT !.to = now] ELSE hold[v]
      BY <1>4, <2>1 DEF HoldAfterTick, word
    <3>3. WasPut(v)' <=> HeldFor(hold'[v], Action(v).position, cfg.settleMs)
      BY <1>1, <2>1 DEF WasPut, Action, cfg
    <3>4. CASE latch.unpowered[v] /\ latch.stage = Stage
      <4>1. IsServo(cfg) /\ HeldFor(hold[v], Action(v).position, cfg.settleMs)
        BY <1>3, <3>1, <3>4 DEF WasPut, Action, cfg
      <4>2. hold'[v] = hold[v]
        BY <3>2, <4>1 DEF HeldFor, IsOpen
      <4> QED
        BY <3>3, <4>1, <4>2
    <3>5. CASE Settled(v)
      <4>1. /\ old.target = Driven(Action(v).position) /\ old.arrivedAt # None
            /\ now - old.arrivedAt >= cfg.settleMs
        BY <3>5 DEF Settled, SettledAt, old, cfg
      <4>2. /\ IsServo(cfg) /\ IsOpen(hold[v]) /\ hold[v].pos = Action(v).position
            /\ hold[v].from <= old.arrivedAt
        BY <1>3, <3>1, <4>1 DEF ArrivedHeld, Driven, cfg, old
      <4>3. hold'[v] = [hold[v] EXCEPT !.to = now]
        BY <3>2, <4>2
      <4>4. /\ hold'[v].from = hold[v].from /\ hold'[v].pos = hold[v].pos
            /\ hold'[v].to = now
        BY <1>4, <4>3 DEF Hold
      <4>5. now - hold[v].from >= cfg.settleMs
        <5>1. hold[v].from \in Int /\ old.arrivedAt \in Int /\ cfg.settleMs \in Int /\ now \in Int
          BY <1>1, <1>4 DEF Hold, ValveState, ValveConfig, Optional, Instant, None
        <5> QED
          BY <4>1, <4>2, <5>1
      <4> QED
        BY <1>1, <3>3, <4>2, <4>4, <4>5 DEF HeldFor, IsOpen, None, Instant
    <3> QED
      BY <2>1, <3>4, <3>5
  <2> QED
    BY <1>1, <2>1, <2>2 DEF cfg
<1> QED
  BY <1>1, <1>5, <1>10, <1>11, <1>12 DEF ReleaseInvOf, new

(***************************************************************************)
(* The other steps leave the valves and their latch alone.                 *)
(***************************************************************************)
LEMMA QuietRelease ==
  ASSUME HTypeOK, ReleaseInv, TypeOK',
         UNCHANGED <<valves, latch, hold>>, now' >= now,
         excused' \in [Valve -> BOOLEAN],
         calmSince' \in [Valve -> Instant],
         \A v \in Valve : ~excused'[v] => ~excused[v] /\ config'.valves[v] = config.valves[v]
  PROVE  HTypeOK' /\ ReleaseInv'
<1>1. HTypeOK'
  BY DEF HTypeOK
<1>2. ASSUME NEW v \in Valve PROVE ReleaseInvOf(v)'
  <2>1. ReleaseInvOf(v) /\ (~excused'[v] => ~excused[v] /\ config'.valves[v] = config.valves[v])
    BY DEF ReleaseInv
  <2>2. hold'[v].from <= now'
    <3>1. hold[v].from \in Int /\ now \in Int /\ now' \in Int /\ hold[v].from <= now
      BY <2>1 DEF ReleaseInvOf, HTypeOK, TypeOK, Hold, Optional, Instant, None
    <3> QED
      BY <3>1
  <2> QED
    BY <2>1, <2>2 DEF ReleaseInvOf, ArrivedHeld, WasPut
<1> QED
  BY <1>1, <1>2 DEF ReleaseInv

LEMMA HInitRelease == HInit => HTypeOK /\ ReleaseInv
<1> SUFFICES ASSUME HInit PROVE HTypeOK /\ ReleaseInv
  OBVIOUS
<1>1. TypeOK
  BY InitType DEF HInit
<1>2. NoHold \in Hold
  BY BoardAssumption DEF NoHold, Hold, Optional, Promille
<1>3. HTypeOK
  BY <1>1, <1>2 DEF HInit, HTypeOK, Instant
<1>4. ReleaseInv
  BY DEF HInit, Init, ReleaseInv, ReleaseInvOf, NotArrived, ArrivedHeld,
         NewValve, NewLatch, NoHold, None
<1> QED
  BY <1>3, <1>4

LEMMA HTickRelease ==
  ASSUME HTypeOK, ReleaseInv, TypeOK', ControlTask,
         hold' = [v \in Valve |-> HoldAfterTick(v)],
         excused' = [v \in Valve |-> ExcusedAfterTick(v)],
         calmSince' = [v \in Valve |-> IF Interfered(v) THEN now ELSE calmSince[v]]
  PROVE  HTypeOK' /\ ReleaseInv'
<1>1. PICK reading \in Readings, heat \in [Valve -> HeatReadings],
           positions \in [Valve -> Positions], rails \in [Rail -> RailCurrents] :
        Tick(reading, heat, positions, rails)
  BY DEF ControlTask
<1>2. reading \in Int /\ positions \in [Valve -> Int]
  BY ControlAssumption
<1>3. TypeOK
  BY DEF HTypeOK
<1>4. ReleaseInv'
  BY <1>1, <1>2, <1>3, TickRelease DEF ReleaseInv
<1>5. hold' \in [Valve -> Hold]
  <2> SUFFICES ASSUME NEW v \in Valve PROVE HoldAfterTick(v) \in Hold
    OBVIOUS
  <2>1. /\ hold[v] \in Hold /\ now \in Optional(Instant) /\ None \in Optional(Instant)
        /\ target'[v].pos \in Promille
    BY DEF HTypeOK, TypeOK, Optional, Word
  <2>2. NoHold \in Hold
    BY BoardAssumption DEF NoHold, Hold, Optional, Promille
  <2> QED
    BY <2>1, <2>2 DEF HoldAfterTick, Hold
<1>6. excused' \in [Valve -> BOOLEAN]
  BY DEF ExcusedAfterTick
<1>7. calmSince' \in [Valve -> Instant]
  BY <1>3 DEF HTypeOK, TypeOK
<1> QED
  BY <1>4, <1>5, <1>6, <1>7 DEF HTypeOK

\* A reset is the initial state again.
LEMMA PanicRelease ==
  ASSUME TypeOK', Panic,
         hold' = [v \in Valve |-> NoHold],
         excused' = [v \in Valve |-> FALSE], calmSince' = [v \in Valve |-> 0]
  PROVE  HTypeOK' /\ ReleaseInv'
<1>1. PICK reading \in Readings : PanicReset(reading)
  BY DEF Panic
<1>2. NoHold \in Hold
  BY BoardAssumption DEF NoHold, Hold, Optional, Promille
<1>3. HTypeOK'
  BY <1>2 DEF HTypeOK, Instant
<1>4. ReleaseInv'
  BY <1>1 DEF PanicReset, ReleaseInv, ReleaseInvOf, NotArrived, ArrivedHeld,
              NewValve, NewLatch, NoHold, None
<1> QED
  BY <1>3, <1>4

\* Every step with history is a step of the control plane.
LEMMA HNextIsNext == [HNext]_hvars => [Next]_vars
  BY DEF HNext, HPass, HTick, HPanic, Next, Write, hvars

LEMMA HNextRelease == HTypeOK /\ ReleaseInv /\ [HNext]_hvars => HTypeOK' /\ ReleaseInv'
<1> SUFFICES ASSUME HTypeOK, ReleaseInv, [HNext]_hvars PROVE HTypeOK' /\ ReleaseInv'
  OBVIOUS
<1>1. TypeOK /\ TypeOK'
  BY HNextIsNext, NextType DEF HTypeOK
<1>2. ASSUME UNCHANGED <<valves, latch, config, hold, excused, calmSince>>,
             now' >= now
      PROVE  HTypeOK' /\ ReleaseInv'
  BY <1>1, <1>2, QuietRelease DEF HTypeOK
<1>3. now \in Instant
  BY DEF HTypeOK, TypeOK
<1>4. CASE HPass
  <2>1. now' >= now
    BY <1>3, <1>4 DEF HPass, Pass, Instant
  <2> QED
    BY <1>2, <1>3, <1>4, <2>1 DEF HPass, Pass, storeVars, taskVars, history
<1>5. CASE MasterHeartbeat /\ UNCHANGED history
  BY <1>2, <1>3, <1>5 DEF MasterHeartbeat, NoteHeartbeat, storeVars, taskVars, history, Instant
<1>6. CASE OtherFrame /\ UNCHANGED history
  BY <1>2, <1>3, <1>6 DEF OtherFrame, NoteHeartbeat, storeVars, taskVars, history, Instant
<1>7. CASE \E v \in Valve, word \in Commands : CommandValve(v, word) /\ UNCHANGED history
  BY <1>2, <1>3, <1>7 DEF CommandValve, StoreWrite, taskVars, history, Instant
<1>8. CASE \E h \in Hco, state \in DirectStates : WriteDirect(h, state) /\ UNCHANGED history
  BY <1>2, <1>3, <1>8 DEF WriteDirect, StoreWrite, taskVars, history, Instant
<1>9. CASE \E on \in BOOLEAN : SetRawDebug(on) /\ UNCHANGED history
  BY <1>2, <1>3, <1>9 DEF SetRawDebug, StoreWrite, taskVars, history, Instant
<1>10. CASE \E new \in Configs :
              /\ WriteConfig(new)
              /\ excused' = [v \in Valve |-> excused[v] \/ new.valves[v] # config.valves[v]]
              /\ UNCHANGED <<hold, calmSince>>
  <2>1. /\ UNCHANGED <<valves, latch, hold, now, calmSince>>
        /\ \E new \in Configs :
             /\ config' = new
             /\ excused' = [v \in Valve |-> excused[v] \/ new.valves[v] # config.valves[v]]
    BY <1>10 DEF WriteConfig, StoreWrite, taskVars
  <2>2. /\ excused' \in [Valve -> BOOLEAN]
        /\ \A v \in Valve : ~excused'[v] => ~excused[v] /\ config'.valves[v] = config.valves[v]
    BY <2>1 DEF HTypeOK
  <2> QED
    BY <1>1, <1>3, <2>1, <2>2, QuietRelease DEF HTypeOK, Instant
<1>11. CASE UNCHANGED hvars
  BY <1>2, <1>3, <1>11 DEF hvars, vars, storeVars, taskVars, history, Instant
<1> QED
  BY <1>1, <1>4, <1>5, <1>6, <1>7, <1>8, <1>9, <1>10, <1>11, HTickRelease, PanicRelease DEF HNext, HTick, HPanic

\* The control plane never releases a servo but where the running stage has
\* driven it and held it for its settle time, unless its outputs were bypassed
\* or its mapping changed since it was last driven to a new position.
THEOREM ReleaseSafe == HSpec => []ReleasedWherePut
<1>1. HInit => HTypeOK /\ ReleaseInv
  BY HInitRelease
<1>2. HTypeOK /\ ReleaseInv /\ [HNext]_hvars => (HTypeOK /\ ReleaseInv)'
  BY HNextRelease
<1>3. ReleaseInv => ReleasedWherePut
  BY DEF ReleaseInv, ReleaseInvOf, ReleasedWherePut
<1> QED
  BY <1>1, <1>2, <1>3, PTL DEF HSpec

(***************************************************************************)
(* Releases in time: a servo that should be released is.                   *)
(***************************************************************************)
\* Enough travel takes the estimate to its target, from wherever it started.
LEMMA TravelArrives ==
  ASSUME NEW cfg \in ValveConfig, NEW origin \in Promille, NEW position \in Promille,
         NEW ms \in Nat, ms >= cfg.travelMs
  PROVE  Extrapolate(origin, position, StepOf(cfg, ms)) = position
<1>1. PromilleMax \in Nat \ {0} /\ cfg.travelMs \in Nat \ {0}
  BY BoardAssumption DEF ValveConfig
<1>2. (ms * PromilleMax) \div cfg.travelMs >= PromilleMax
  <2>1. PICK travel \in Nat \ {0} : travel = cfg.travelMs
    BY <1>1
  <2>2. PICK n \in Nat : n = ms * PromilleMax
    BY <1>1
  <2>3. n >= travel * PromilleMax
    BY <1>1, <2>1, <2>2
  <2>4. PICK q \in Int : q = n \div travel
    BY <2>1, <2>2
  <2>5. n < travel * (q + 1)
    BY <2>1, <2>2, <2>4
  <2>6. ASSUME q < PromilleMax PROVE FALSE
    <3>1. travel * (q + 1) <= travel * PromilleMax
      BY <1>1, <2>1, <2>4, <2>6
    <3> QED BY <1>1, <2>1, <2>2, <2>3, <2>4, <2>5, <3>1
  <2> QED BY <1>1, <2>1, <2>2, <2>4, <2>6
<1>3. StepOf(cfg, ms) = PromilleMax
  <2>1. (ms * PromilleMax) \div cfg.travelMs \in Int
    BY <1>1
  <2> QED BY <1>1, <1>2, <2>1 DEF StepOf, Least
<1>4. /\ origin \in Int /\ position \in Int /\ 0 <= origin /\ origin <= PromilleMax
      /\ 0 <= position /\ position <= PromilleMax
  BY <1>1 DEF Promille
<1> QED BY <1>1, <1>3, <1>4 DEF Extrapolate, Least, Greatest

\* What a tick does to the travel and arrival of a servo without a sensor that
\* is driven to position and does not stand stalled after it.
LEMMA ServoTickTravel ==
  ASSUME NEW valve \in ValveState, NEW cfg \in ValveConfig, NEW position \in Promille,
         NEW t \in Instant, NEW elapsedMs \in Nat, NEW ma,
         NEW new, new = ServoTick(valve, cfg, Driven(position), t, elapsedMs, ma, None),
         new.status # "Stalled"
  PROVE  /\ new.movedMs >= elapsedMs
         /\ valve.target = Driven(position) => new.movedMs >= valve.movedMs + elapsedMs
         /\ new.movedMs >= cfg.travelMs => new.arrivedAt # None
         /\ new.arrivedAt # None =>
              \/ new.arrivedAt = t /\ (valve.target = Driven(position) => valve.arrivedAt = None)
              \/ valve.target = Driven(position) /\ new.arrivedAt = valve.arrivedAt
         /\ valve.target = Driven(position) => valve.status # "Stalled"
<1> DEFINE word == Driven(position)
           aimed == Retarget(valve, word)
           moved == UpdatePosition(aimed, cfg, position, elapsedMs, None)
           stalled == UpdateStall(moved, cfg, t, ma)
<1>1. word \in Word /\ word.pos = position /\ word.off = FALSE
  BY DEF Driven, Word
<1>2. /\ aimed \in ValveState
      /\ valve.target = word => aimed = valve
      /\ valve.target # word =>
           aimed.movedMs = 0 /\ aimed.arrivedAt = None /\ aimed.status # "Stalled"
  <2>1. aimed \in ValveState
    BY <1>1, RetargetType
  <2> QED BY <2>1 DEF Retarget, ValveState, ValveStatus
<1>3. new = UpdateArrival(stalled, position, t)
  BY <1>1 DEF ServoTick
<1> HIDE DEF word, aimed
<1>4. moved \in ValveState /\ None \in Optional(Promille)
  BY <1>2, UpdatePositionType DEF Optional
<1>5. stalled \in ValveState
  BY <1>4, UpdateStallType
<1>6. /\ stalled.movedMs = moved.movedMs /\ stalled.measured = moved.measured
      /\ stalled.arrivedAt = moved.arrivedAt
      /\ moved.status = "Stalled" => stalled.status = "Stalled"
  BY <1>4 DEF UpdateStall, ValveState
<1>7. aimed.status # "Stalled" =>
        /\ moved.movedMs = aimed.movedMs + elapsedMs
        /\ moved.measured = Extrapolate(aimed.origin, position, StepOf(cfg, aimed.movedMs + elapsedMs))
  BY <1>2 DEF UpdatePosition, ValveState
<1>8. moved.status = aimed.status /\ moved.arrivedAt = aimed.arrivedAt
  BY <1>2, PositionArrival
<1> HIDE DEF moved
<1>9. /\ stalled.status # "Stalled"
      /\ new.movedMs = stalled.movedMs
      /\ stalled.measured = position => new.arrivedAt # None
      /\ new.arrivedAt # None =>
           new.arrivedAt = IF stalled.arrivedAt = None THEN t ELSE stalled.arrivedAt
  <2> HIDE DEF stalled
  <2>1. stalled.status # "Stalled"
    BY <1>3 DEF UpdateArrival
  <2>2. CASE stalled.measured = position
    <3>1. new = [stalled EXCEPT !.status = "Holding", !.arrivedAt = IF @ = None THEN t ELSE @]
      BY <1>3, <2>1, <2>2 DEF UpdateArrival
    <3>2. new.movedMs = stalled.movedMs
          /\ new.arrivedAt = IF stalled.arrivedAt = None THEN t ELSE stalled.arrivedAt
      BY <1>5, <3>1 DEF ValveState
    <3> QED BY <2>1, <3>2 DEF Instant, None
  <2>3. CASE stalled.measured # position
    <3>1. new = [stalled EXCEPT !.status = "Moving", !.arrivedAt = None]
      BY <1>3, <2>1, <2>3 DEF UpdateArrival
    <3>2. new.movedMs = stalled.movedMs /\ new.arrivedAt = None
      BY <1>5, <3>1 DEF ValveState
    <3> QED BY <2>1, <2>3, <3>2
  <2> QED BY <2>2, <2>3
<1> HIDE DEF stalled
<1>10. aimed.status # "Stalled" /\ aimed.movedMs \in Nat /\ aimed.origin \in Promille
  BY <1>2, <1>6, <1>8, <1>9 DEF ValveState
<1>11. new.movedMs = aimed.movedMs + elapsedMs
  BY <1>6, <1>7, <1>9, <1>10
<1>12. aimed.movedMs + elapsedMs >= cfg.travelMs => stalled.measured = position
  BY <1>6, <1>7, <1>10, TravelArrives
<1>13. new.movedMs >= cfg.travelMs => new.arrivedAt # None
  BY <1>9, <1>11, <1>12
<1>14. new.arrivedAt # None =>
         new.arrivedAt = IF aimed.arrivedAt = None THEN t ELSE aimed.arrivedAt
  BY <1>6, <1>8, <1>9
<1>15. valve.target = word =>
         /\ valve.status # "Stalled" /\ aimed.movedMs = valve.movedMs
         /\ aimed.arrivedAt = valve.arrivedAt
  BY <1>2, <1>10
<1>16. new.movedMs >= elapsedMs /\ (valve.target = word => new.movedMs >= valve.movedMs + elapsedMs)
  BY <1>10, <1>11, <1>15
<1> QED BY <1>2, <1>13, <1>14, <1>15, <1>16 DEF word

\* Not even an undisturbed tick arrives before it happens.
LEMMA ValveTickArrivedBefore ==
  ASSUME NEW valve \in ValveState, NEW cfg \in ValveConfig, NEW word \in Word,
         NEW t \in Instant, NEW elapsedMs \in Nat, NEW ma, NEW feedback \in Optional(Promille),
         NotArrived(valve), valve.arrivedAt # None => valve.arrivedAt <= t,
         NEW new, new = ValveTick(valve, cfg, word, t, elapsedMs, ma, feedback),
         new.arrivedAt # None
  PROVE  new.arrivedAt <= t
<1>1. new.arrivedAt \in {t, valve.arrivedAt}
  <2>1. CASE IsServo(cfg)
    <3>1. new = ServoTick(valve, cfg, word, t, elapsedMs, ma, feedback)
      BY <2>1, ValveTickArrival
    <3> QED BY <3>1, ServoTickArrival
  <2>2. CASE ~IsServo(cfg)
    BY <2>2, ValveTickArrival
  <2> QED BY <2>1, <2>2
<1> QED BY <1>1 DEF Instant

\* An undisturbed tick that leaves v waiting found it waiting, and drives it to
\* where the stage wants it.
LEMMA CalmTick ==
  ASSUME TypeOK, ReleasesNeedStage, NEW v \in Valve,
         NEW reading \in Int, NEW heat, NEW positions, NEW rails,
         Tick(reading, heat, positions, rails), ~Interfered(v), Waiting(v)'
  PROVE  /\ Waiting(v) /\ latch'.stage = latch.stage
         /\ target'[v] = Driven(ActionFor(latch.stage, config.valves[v]).position)
         /\ ~SettledAt(valves[v], config.valves[v], now,
                       ActionFor(latch.stage, config.valves[v]).position)
<1>1. /\ latch'.stage = latch.stage /\ InFallback(latch.stage)
      /\ ~pending.valves[v] /\ ~pending.config /\ config' = config
      /\ ~Relieved(v, reading)
  BY DEF Interfered, Tick, Relieved
<1>2. latch' = LatchNow(reading) /\ target'[v] = TargetNow(v, reading)
  BY DEF Tick
<1>3. Stage = latch.stage
  BY <1>1, <1>2, TickLatches
<1>4. ~Released(v)
  <2>1. Entered.unpowered \in [Valve -> BOOLEAN]
    BY EnteredType DEF Latch
  <2>2. latch'.unpowered[v] <=> Released(v)
    BY <1>1, <1>2, <1>3, <2>1, EnteredType DEF LatchNow, Latch
  <2> QED BY <2>2 DEF Waiting
<1>5. Action(v) = ActionFor(latch.stage, config.valves[v]) /\ Action(v).unpower
  BY <1>1, <1>3 DEF Action, Waiting
<1>6. ~Settled(v) /\ ~Entered.unpowered[v]
  BY <1>4, <1>5 DEF Released, StaysReleased
<1>7. ~latch.unpowered[v]
  <2>1. v \notin Recommanded
    BY <1>1 DEF Recommanded
  <2> QED BY <1>3, <1>6, <2>1 DEF Entered, EnterStage, Rearm, Latch, TypeOK
<1>8. Waiting(v)
  BY <1>1, <1>7 DEF Waiting
<1>9. target'[v] = Driven(Action(v).position)
  <2>1. Released(v) = FALSE
    BY <1>4, ReleasedType
  <2> QED BY <1>1, <1>2, <1>3, <2>1 DEF TargetNow, FallbackTarget, Driven
<1> QED BY <1>1, <1>3, <1>5, <1>6, <1>8, <1>9 DEF Settled

LEMMA TickWait ==
  ASSUME HTypeOK, ReleaseInv, ReleasesNeedStage, WaitInv, TypeOK', NEW v \in Valve,
         NEW reading \in Int, NEW heat, NEW positions \in [Valve -> Int], NEW rails,
         Tick(reading, heat, positions, rails),
         calmSince' = [w \in Valve |-> IF Interfered(w) THEN now ELSE calmSince[w]]
  PROVE  WaitInvOf(v)'
<1> DEFINE cfg == config.valves[v]
           old == valves[v]
           new == valves'[v]
           word == target'[v]
           sensed == SensedPosition(cfg, positions[v])
           ma == ValveCurrent(cfg, rails)
           position == ActionFor(latch'.stage, cfg).position
<1>1. /\ TypeOK /\ config' = config /\ lastTick' = now /\ now' = now
      /\ cfg \in ValveConfig /\ old \in ValveState /\ word \in Word
      /\ now \in Nat /\ lastTick \in Nat /\ lastTick <= now /\ now <= lastTick + MaxGap
      /\ calmSince[v] \in Nat /\ position \in Promille
  <2>1. ActionFor(latch'.stage, cfg) \in FallbackAction
    BY ConfigTypes DEF HTypeOK
  <2> QED BY <2>1, ConfigTypes DEF HTypeOK, TypeOK, Tick, Instant, WaitInv, FallbackAction
<1>2. new = ValveTick(old, cfg, word, now, now - lastTick, ma, sensed)
  BY DEF Tick, ValveNow
<1>3. sensed \in Optional(Promille) /\ now - lastTick \in Nat
  <2>1. positions[v] \in Int /\ PromilleMax \in Nat
    BY BoardAssumption
  <2>2. ASSUME ~(positions[v] < 0) PROVE Least(positions[v], PromilleMax) \in Promille
    BY <2>1, <2>2 DEF Least, Promille
  <2> QED BY <1>1, <2>2 DEF SensedPosition, Optional
<1>4. NotArrived(old) /\ calmSince[v] <= lastTick /\ (old.arrivedAt # None => old.arrivedAt <= lastTick)
  BY DEF ReleaseInv, ReleaseInvOf, WaitInv, WaitInvOf
<1>5. calmSince'[v] = IF Interfered(v) THEN now ELSE calmSince[v]
  OBVIOUS
<1>6. new \in ValveState
  BY DEF TypeOK
<1>7. Waiting(v)' => IsServo(cfg) /\ sensed = None
  BY <1>1 DEF Waiting, SensedPosition
<1> HIDE DEF old, new, word, sensed, ma, cfg
<1>8. new.arrivedAt # None => new.arrivedAt <= now
  <2>1. old.arrivedAt # None => old.arrivedAt <= now
    BY <1>1, <1>4 DEF ValveState, Optional, Instant, None
  <2> QED BY <1>1, <1>2, <1>3, <1>4, <2>1, ValveTickArrivedBefore DEF Instant
<1>9. Waiting(v)' =>
        /\ new = ServoTick(old, cfg, word, now, now - lastTick, ma, None) /\ new.target = word
  BY <1>1, <1>2, <1>3, <1>4, <1>7, ValveTickArrival, ServoTickArrival DEF Instant
<1>10. ASSUME Waiting(v)', new.target = Driven(position), new.status # "Stalled"
       PROVE  /\ new.movedMs >= now - lastTick
              /\ old.target = Driven(position) => new.movedMs >= old.movedMs + (now - lastTick)
              /\ new.movedMs >= cfg.travelMs => new.arrivedAt # None
              /\ new.arrivedAt # None =>
                   \/ new.arrivedAt = now /\ (old.target = Driven(position) => old.arrivedAt = None)
                   \/ old.target = Driven(position) /\ new.arrivedAt = old.arrivedAt
              /\ old.target = Driven(position) => old.status # "Stalled"
  <2>1. new = ServoTick(old, cfg, Driven(position), now, now - lastTick, ma, None)
    BY <1>9, <1>10
  <2> HIDE DEF position
  <2> QED BY <1>1, <1>3, <1>10, <2>1, ServoTickTravel DEF Instant
<1>11. /\ new.movedMs \in Nat /\ new.arrivedAt \in Optional(Nat)
       /\ old.movedMs \in Nat /\ old.arrivedAt \in Optional(Nat)
       /\ cfg.travelMs \in Nat \ {0} /\ cfg.settleMs \in Nat /\ MaxGap \in Nat
  BY <1>1, <1>6, ControlAssumption DEF ValveState, ValveConfig, Instant
<1>12. CASE Interfered(v)
  <2>1. calmSince'[v] = lastTick'
    BY <1>1, <1>5, <1>12
  <2>2. ASSUME Waiting(v)', new.target = Driven(position), new.status # "Stalled"
        PROVE  UnderWay(v)'
    <3>1. new.movedMs >= 0 /\ (new.movedMs >= cfg.travelMs => new.arrivedAt # None)
      BY <1>10, <1>11, <2>2
    <3>2. new.arrivedAt # None => new.arrivedAt < now + cfg.travelMs + MaxGap
      BY <1>1, <1>8, <1>11 DEF Optional
    <3>3. lastTick' - calmSince'[v] = 0
      BY <1>1, <2>1
    <3> QED BY <1>1, <2>1, <3>1, <3>2, <3>3 DEF UnderWay, new, cfg
  <2> QED BY <1>1, <1>8, <2>1, <2>2 DEF WaitInvOf, new, cfg
<1>13. CASE ~Interfered(v)
  <2>1. calmSince'[v] = calmSince[v] /\ calmSince'[v] <= lastTick'
    BY <1>1, <1>4, <1>5, <1>13
  <2>2. ASSUME Waiting(v)'
        PROVE  /\ Waiting(v) /\ word = Driven(position) /\ latch'.stage = latch.stage
               /\ ~SettledAt(old, cfg, now, position)
    BY <1>1, <1>13, <2>2, CalmTick DEF word, old, cfg
  <2>3. ASSUME Waiting(v)' PROVE new.target = Driven(position)
    BY <1>9, <2>2, <2>3
  <2>4. ASSUME Waiting(v)', new.status # "Stalled" PROVE UnderWay(v)'
    <3> DEFINE sent == old.target = Driven(position)
    <3>1. sent \/ calmSince[v] = lastTick
      BY <2>2, <2>4 DEF WaitInv, WaitInvOf, old, cfg
    <3>2. sent => old.status # "Stalled"
      BY <1>10, <2>3, <2>4
    <3>3. sent => UnderWay(v)
      BY <2>2, <2>4, <3>2 DEF WaitInv, WaitInvOf, old, cfg
    <3>4. sent =>
            /\ old.movedMs >= lastTick - calmSince[v]
            /\ old.movedMs >= cfg.travelMs => old.arrivedAt # None
            /\ old.arrivedAt # None => old.arrivedAt < calmSince[v] + cfg.travelMs + MaxGap
      BY <3>3 DEF UnderWay, old, cfg
    <3>5. sent /\ old.arrivedAt # None => now - old.arrivedAt < cfg.settleMs
      <4>1. sent /\ old.arrivedAt # None => ~(now - old.arrivedAt >= cfg.settleMs)
        BY <2>2, <2>4 DEF SettledAt
      <4> QED BY <1>1, <1>11, <4>1 DEF Optional
    <3>6. sent \in BOOLEAN
      OBVIOUS
    <3> HIDE DEF sent
    <3>7. /\ new.movedMs >= now - lastTick
          /\ sent => new.movedMs >= old.movedMs + (now - lastTick)
          /\ new.movedMs >= cfg.travelMs => new.arrivedAt # None
          /\ new.arrivedAt # None =>
               \/ new.arrivedAt = now /\ (sent => old.arrivedAt = None)
               \/ sent /\ new.arrivedAt = old.arrivedAt
      BY <1>10, <2>3, <2>4 DEF sent
    <3>8. /\ new.movedMs >= now - calmSince[v]
          /\ new.arrivedAt # None =>
               /\ new.arrivedAt < calmSince[v] + cfg.travelMs + MaxGap
               /\ now <= new.arrivedAt + cfg.settleMs
      <4>1. sent =>
              /\ old.movedMs >= lastTick - calmSince[v]
              /\ old.movedMs >= cfg.travelMs => old.arrivedAt # None
              /\ old.arrivedAt # None => old.arrivedAt < calmSince[v] + cfg.travelMs + MaxGap
              /\ old.arrivedAt # None => now - old.arrivedAt < cfg.settleMs
              /\ new.movedMs >= old.movedMs + (now - lastTick)
        BY <3>4, <3>5, <3>7
      <4>2. /\ sent \/ calmSince[v] = lastTick
            /\ new.movedMs >= now - lastTick
            /\ new.arrivedAt # None =>
                 \/ new.arrivedAt = now /\ (sent => old.arrivedAt = None)
                 \/ sent /\ new.arrivedAt = old.arrivedAt
        BY <3>1, <3>7
      <4>3. /\ now \in Nat /\ lastTick \in Nat /\ lastTick <= now /\ now <= lastTick + MaxGap
            /\ calmSince[v] \in Nat /\ calmSince[v] <= lastTick
        BY <1>1, <1>4
      <4>4. /\ old.arrivedAt # None => old.arrivedAt \in Nat
            /\ new.arrivedAt # None => new.arrivedAt \in Nat
        BY <1>11 DEF Optional
      <4>5. CASE sent
        <5>1. new.movedMs >= now - calmSince[v]
          BY <1>11, <4>1, <4>3, <4>5
        <5>2. old.arrivedAt = None => lastTick - calmSince[v] < cfg.travelMs
          BY <1>11, <4>1, <4>3, <4>5
        <5>3. CASE new.arrivedAt = now /\ old.arrivedAt = None
          BY <1>11, <4>3, <5>1, <5>2, <5>3
        <5>4. CASE new.arrivedAt = old.arrivedAt
          BY <1>11, <4>1, <4>3, <4>4, <4>5, <5>1, <5>4
        <5>5. CASE new.arrivedAt = None
          BY <5>1, <5>5
        <5> QED BY <4>2, <4>5, <5>1, <5>3, <5>4, <5>5
      <4>6. CASE ~sent
        <5>1. new.movedMs >= now - calmSince[v]
          BY <1>11, <4>2, <4>3, <4>6
        <5>2. CASE new.arrivedAt = now
          BY <1>11, <4>2, <4>3, <4>6, <5>1, <5>2
        <5>3. CASE new.arrivedAt = None
          BY <5>1, <5>3
        <5> QED BY <4>2, <4>6, <5>2, <5>3
      <4> QED BY <4>5, <4>6
    <3> QED BY <1>1, <2>1, <3>7, <3>8 DEF UnderWay, new, cfg
  <2> QED BY <1>1, <1>8, <2>1, <2>3, <2>4 DEF WaitInvOf, new, cfg
<1> QED BY <1>12, <1>13

\* The other steps leave what a waiting valve depends on alone, or end the wait.
LEMMA QuietWait ==
  ASSUME WaitInv, now' <= lastTick' + MaxGap,
         UNCHANGED <<lastTick, valves, latch, calmSince>>,
         pending'.config \/ (pending'.config = pending.config /\ config' = config)
  PROVE  WaitInv'
<1>1. ASSUME NEW v \in Valve PROVE WaitInvOf(v)'
  <2>1. WaitInvOf(v)
    BY DEF WaitInv
  <2>2. Waiting(v)' => Waiting(v) /\ config' = config
    BY DEF Waiting
  <2> QED BY <2>1, <2>2 DEF WaitInvOf, UnderWay
<1> QED BY <1>1 DEF WaitInv

LEMMA BootWait == HInit => WaitInv
  BY ControlAssumption DEF HInit, Init, WaitInv, WaitInvOf, Waiting, InFallback, NewValve, NewLatch, None

LEMMA HNextWait ==
  ASSUME HTypeOK, ReleaseInv, ReleasesNeedStage, WaitInv, [HNext]_hvars
  PROVE  WaitInv'
<1>1. TypeOK /\ TypeOK'
  BY HNextIsNext, NextType DEF HTypeOK
<1>2. MaxGap \in Nat /\ now \in Nat /\ lastTick \in Nat /\ now <= lastTick + MaxGap
  BY <1>1, ControlAssumption DEF TypeOK, Instant, WaitInv
<1>3. ASSUME UNCHANGED <<now, lastTick, valves, latch, calmSince>>,
             pending'.config = pending.config /\ config' = config
      PROVE  WaitInv'
  BY <1>2, <1>3, QuietWait
<1>4. CASE HPass
  <2>1. now' <= lastTick' + MaxGap
    BY <1>2, <1>4 DEF HPass, Pass, taskVars
  <2> QED BY <1>4, <2>1, QuietWait DEF HPass, Pass, storeVars, taskVars, history
<1>5. CASE MasterHeartbeat /\ UNCHANGED history
  BY <1>3, <1>5 DEF MasterHeartbeat, NoteHeartbeat, storeVars, taskVars, history
<1>6. CASE OtherFrame /\ UNCHANGED history
  BY <1>3, <1>6 DEF OtherFrame, NoteHeartbeat, storeVars, taskVars, history
<1>7. CASE \E v \in Valve, word \in Commands : CommandValve(v, word) /\ UNCHANGED history
  <2>1. pending'.config = pending.config
    BY <1>1, <1>7 DEF CommandValve, TypeOK
  <2> QED BY <1>3, <1>7, <2>1 DEF CommandValve, StoreWrite, taskVars, history
<1>8. CASE \E h \in Hco, state \in DirectStates : WriteDirect(h, state) /\ UNCHANGED history
  BY <1>3, <1>8 DEF WriteDirect, StoreWrite, taskVars, history
<1>9. CASE \E on \in BOOLEAN : SetRawDebug(on) /\ UNCHANGED history
  BY <1>3, <1>9 DEF SetRawDebug, StoreWrite, taskVars, history
<1>10. CASE \E new \in Configs : WriteConfig(new) /\ UNCHANGED calmSince
  <2>1. pending'.config
    BY <1>1, <1>10 DEF WriteConfig, TypeOK
  <2>2. UNCHANGED <<now, lastTick, valves, latch, calmSince>>
    BY <1>10 DEF WriteConfig, StoreWrite, taskVars
  <2>3. now' <= lastTick' + MaxGap
    BY <1>2, <2>2
  <2> QED BY <2>1, <2>2, <2>3, QuietWait
<1>11. CASE HTick
  <2>1. PICK reading \in Readings, heat \in [Valve -> HeatReadings],
             positions \in [Valve -> Positions], rails \in [Rail -> RailCurrents] :
          Tick(reading, heat, positions, rails)
    BY <1>11 DEF HTick, ControlTask
  <2>2. reading \in Int /\ positions \in [Valve -> Int]
    BY ControlAssumption
  <2>3. calmSince' = [w \in Valve |-> IF Interfered(w) THEN now ELSE calmSince[w]]
    BY <1>11 DEF HTick
  <2>4. \A v \in Valve : WaitInvOf(v)'
    BY <1>1, <2>1, <2>2, <2>3, TickWait
  <2>5. now' <= lastTick' + MaxGap
    BY <1>2, <2>1 DEF Tick
  <2> QED BY <2>4, <2>5 DEF WaitInv
<1>12. CASE HPanic
  <2>1. PICK reading \in Readings : PanicReset(reading)
    BY <1>12 DEF HPanic, Panic
  <2> QED BY <1>2, <1>12, <2>1 DEF HPanic, PanicReset, WaitInv, WaitInvOf, Waiting, InFallback,
                                   NewValve, NewLatch, None
<1>13. CASE UNCHANGED hvars
  BY <1>3, <1>13 DEF hvars, vars, storeVars, taskVars, history
<1> QED BY <1>4, <1>5, <1>6, <1>7, <1>8, <1>9, <1>10, <1>11, <1>12, <1>13 DEF HNext

LEMMA WaitEnds == HTypeOK /\ WaitInv => ReleasedInTime
<1> SUFFICES ASSUME HTypeOK, WaitInv, NEW v \in Valve, Waiting(v), valves[v].status # "Stalled"
             PROVE  lastTick - calmSince[v]
                      < config.valves[v].travelMs + config.valves[v].settleMs + MaxGap
  BY DEF ReleasedInTime
<1>1. /\ lastTick \in Nat /\ calmSince[v] \in Nat /\ MaxGap \in Nat
      /\ config.valves[v].travelMs \in Nat \ {0} /\ config.valves[v].settleMs \in Nat
      /\ valves[v].arrivedAt \in Optional(Nat) /\ valves[v].movedMs \in Nat
  BY ConfigTypes, ControlAssumption DEF HTypeOK, TypeOK, ValveConfig, ValveState, Instant
<1>2. CASE calmSince[v] = lastTick
  BY <1>1, <1>2
<1>3. CASE calmSince[v] # lastTick
  <2>1. UnderWay(v) /\ calmSince[v] <= lastTick
    BY <1>3 DEF WaitInv, WaitInvOf
  <2>2. /\ valves[v].movedMs >= lastTick - calmSince[v]
        /\ valves[v].movedMs >= config.valves[v].travelMs => valves[v].arrivedAt # None
        /\ valves[v].arrivedAt # None =>
             /\ valves[v].arrivedAt < calmSince[v] + config.valves[v].travelMs + MaxGap
             /\ lastTick <= valves[v].arrivedAt + config.valves[v].settleMs
    BY <1>1, <1>3, <2>1 DEF UnderWay
  <2>3. valves[v].arrivedAt # None => valves[v].arrivedAt \in Nat
    BY <1>1 DEF Optional
  <2>4. CASE valves[v].arrivedAt = None
    BY <1>1, <2>1, <2>2, <2>4
  <2>5. CASE valves[v].arrivedAt # None
    BY <1>1, <2>1, <2>2, <2>3, <2>5
  <2> QED BY <2>4, <2>5
<1> QED BY <1>2, <1>3

\* A stage that should release a servo does so within its travel time, its
\* settle time and the longest gap between two ticks, counted from the last
\* tick that interfered with it, unless a sensor is fitted or it has stalled.
THEOREM ReleasesInTime == HSpec => []ReleasedInTime
<1> DEFINE Inv == HTypeOK /\ ReleaseInv /\ ReleasesNeedStage /\ WaitInv
<1>1. HInit => Inv
  BY HInitRelease, BootWait DEF HInit, Init, NewLatch, ReleasesNeedStage
<1>2. Inv /\ [HNext]_hvars => Inv'
  <2> SUFFICES ASSUME Inv, [HNext]_hvars PROVE Inv'
    OBVIOUS
  <2>1. ReleasesNeedStage'
    BY HNextIsNext, ReleasesStep DEF HTypeOK
  <2> QED BY <2>1, HNextRelease, HNextWait
<1>3. Inv => ReleasedInTime
  BY WaitEnds
<1> QED BY <1>1, <1>2, <1>3, PTL DEF HSpec
-----------------------------------------------------------------------------
(***************************************************************************)
(* The relief loop inside the control task.                                *)
(***************************************************************************)
LEMMA SameRelief ==
  /\ Loop!NewRelief = NewRelief
  /\ \A state, cfg, reading, t :
       Loop!ReliefUpdate(state, cfg, reading, t) = ReliefUpdate(state, cfg, reading, t)
<1>1. Loop!NewRelief = NewRelief
  BY DEF NewRelief, Loop!NewRelief
<1>2. ASSUME NEW state, NEW cfg, NEW reading, NEW t
      PROVE  Loop!ReliefUpdate(state, cfg, reading, t) = ReliefUpdate(state, cfg, reading, t)
  BY DEF ReliefUpdate, Disarmed, ReliefArmed, CoolingDown, Running, AfterPulse, NewPulse,
         SensorInvalid, None, Loop!ReliefUpdate, Loop!Disarmed, Loop!ReliefArmed, Loop!CoolingDown, Loop!Running, Loop!AfterPulse,
         Loop!NewPulse, Loop!SensorInvalid, Loop!None
<1> QED BY <1>1, <1>2

\* Booting starts the loop with the relief block of the factory defaults.
LEMMA LoopStarts == LInit => Loop!Init
  BY SameRelief DEF LInit, Init, Loop!Init, Loop!None, None, ReliefBlocks

\* What touches neither the relief state nor its block is a stutter of the loop.
LEMMA LoopRests ==
  ASSUME UNCHANGED <<now, lastTick, relief, loopHistory>>, config'.relief = config.relief
  PROVE  UNCHANGED Loop!vars
  BY DEF loopHistory, Loop!vars

LEMMA LoopStep == [LNext]_lvars => [Loop!Next]_(Loop!vars)
<1> SUFFICES ASSUME [LNext]_lvars PROVE [Loop!Next]_(Loop!vars)
  OBVIOUS
<1>1. CASE Pass /\ UNCHANGED loopHistory
  <2>1. Loop!Pass
    BY <1>1 DEF Pass, storeVars, taskVars, loopHistory, Loop!Pass
  <2> QED BY <2>1 DEF Loop!Next
<1>2. CASE Elsewhere /\ UNCHANGED loopHistory
  <2>1. UNCHANGED <<now, lastTick, relief, config>>
    BY <1>2 DEF Elsewhere, MasterHeartbeat, OtherFrame, NoteHeartbeat, CommandValve, WriteDirect,
                SetRawDebug, StoreWrite, storeVars, taskVars
  <2> QED BY <1>2, <2>1, LoopRests
<1>3. ASSUME NEW new \in Configs, LWriteConfig(new) PROVE [Loop!Next]_(Loop!vars)
  <2>1. /\ UNCHANGED <<now, lastTick, relief, openedAt, openedFor, foundArmed, closedAt, calmAt>>
        /\ config' = new
        /\ undisturbed' = IF new.relief = config.relief THEN undisturbed ELSE FALSE
    BY <1>3 DEF LWriteConfig, WriteConfig, StoreWrite, taskVars
  <2>2. CASE new.relief = config.relief
    BY <2>1, <2>2, LoopRests DEF loopHistory
  <2>3. CASE new.relief # config.relief
    <3>1. Loop!Configure(new.relief)
      BY <2>1, <2>3 DEF Loop!Configure
    <3>2. new.relief \in ReliefBlocks
      BY DEF ReliefBlocks
    <3> QED BY <3>1, <3>2 DEF Loop!Next
  <2> QED BY <2>2, <2>3
<1>4. CASE LTick
  <2>1. PICK reading \in Readings, heat \in [Valve -> HeatReadings],
             positions \in [Valve -> Positions], rails \in [Rail -> RailCurrents] :
          Tick(reading, heat, positions, rails) /\ Loop!Record(reading)
    BY <1>4 DEF LTick
  <2>2. Loop!Update(reading)
    BY <2>1, SameRelief DEF Tick, ReliefNow, Loop!Update
  <2> QED BY <2>2 DEF Loop!Next
<1>5. CASE LPanic
  <2>1. PICK reading \in Readings : PanicReset(reading)
    BY <1>5 DEF LPanic, Panic
  <2>2. Loop!Reset
    BY <1>5, <2>1, SameRelief DEF LPanic, PanicReset, Loop!Reset, ReliefBlocks
  <2> QED BY <2>2 DEF Loop!Next
<1>6. CASE UNCHANGED lvars
  BY <1>6, LoopRests DEF lvars, vars, storeVars, taskVars
<1> QED BY <1>1, <1>2, <1>3, <1>4, <1>5, <1>6 DEF LNext

\* Beside the history they record, the behaviours are those of Control.
LEMMA LSpecIsSpec == LSpec => Spec
<1>1. LInit => Init
  BY DEF LInit
<1>2. [LNext]_lvars => [Next]_vars
  BY DEF LNext, lvars, Elsewhere, LWriteConfig, LTick, LPanic, Next, Write, ControlTask
<1> QED BY <1>1, <1>2, PTL DEF LSpec, Spec

(***************************************************************************)
(* The control task implements the relief loop: commands, stages,          *)
(* overrides, remaps and lateness of the ticks never reach the relief      *)
(* state, which only its own update and a reset change.                    *)
(***************************************************************************)
THEOREM ReliefImplemented == LSpec => ReliefIsItsOwn
  BY LoopStarts, LoopStep, PTL DEF LSpec, ReliefIsItsOwn, Loop!Spec

(***************************************************************************)
(* With its theorems, the loop brings its promises into the control task.  *)
(***************************************************************************)
LoopProved == INSTANCE ReliefLoop_proofs WITH
  cfg <- config.relief,
  updatedAt <- lastTick,
  ReliefConfigs <- ReliefBlocks

\* What the loop assumes of its configurations, the control plane provides.
LEMMA LoopAssumed == LoopProved!LoopAssumption
<1>1. ReliefBlocks \subseteq LoopProved!ReliefConfig
  <2>1. LoopProved!ReliefConfig = ReliefConfig
    BY DEF LoopProved!ReliefConfig, ReliefConfig, LoopProved!Promille, Promille,
           LoopProved!Optional, Optional, LoopProved!None, None
  <2>2. \A c \in Config : c.relief \in ReliefConfig
    BY DEF Config
  <2> QED BY <2>1, <2>2, ControlAssumption DEF ReliefBlocks
<1> QED BY <1>1, ControlAssumption, ReliefTimesAssumption DEF LoopProved!LoopAssumption

\* The two instances are the same loop.
LEMMA SameLoop ==
  /\ Loop!Init => LoopProved!Init
  /\ Loop!Next => LoopProved!Next
  /\ UNCHANGED Loop!vars => UNCHANGED LoopProved!vars
<1>1. /\ Loop!NewRelief = LoopProved!NewRelief /\ Loop!None = LoopProved!None
      /\ Loop!SensorInvalid = LoopProved!SensorInvalid /\ Loop!Relieving = LoopProved!Relieving
      /\ Loop!Relieving' = LoopProved!Relieving'
      /\ \A cfg : Loop!ReliefArmed(cfg) = LoopProved!ReliefArmed(cfg)
  BY DEF Loop!NewRelief, LoopProved!NewRelief, Loop!None, LoopProved!None, Loop!SensorInvalid,
         LoopProved!SensorInvalid, Loop!Relieving, LoopProved!Relieving, Loop!ReliefArmed,
         LoopProved!ReliefArmed
<1>2. \A state, cfg, reading, t :
        Loop!ReliefUpdate(state, cfg, reading, t) = LoopProved!ReliefUpdate(state, cfg, reading, t)
  BY <1>1 DEF Loop!ReliefUpdate, Loop!Disarmed, Loop!CoolingDown, Loop!Running, Loop!AfterPulse,
              Loop!NewPulse, LoopProved!ReliefUpdate, LoopProved!Disarmed, LoopProved!CoolingDown, LoopProved!Running,
              LoopProved!AfterPulse, LoopProved!NewPulse
<1>3. Loop!Init => LoopProved!Init
  BY <1>1 DEF Loop!Init, LoopProved!Init
<1>4. /\ Loop!Pass => LoopProved!Pass
      /\ \A new : Loop!Configure(new) => LoopProved!Configure(new)
      /\ Loop!Reset => LoopProved!Reset
  BY <1>1 DEF Loop!Pass, Loop!Configure, Loop!Reset, Loop!Forget, LoopProved!Pass,
              LoopProved!Configure, LoopProved!Reset, LoopProved!Forget
<1>5. \A reading : Loop!Update(reading) => LoopProved!Update(reading)
  BY <1>1, <1>2 DEF Loop!Update, Loop!Record, LoopProved!Update, LoopProved!Record
<1>6. Loop!Next => LoopProved!Next
  BY <1>4, <1>5 DEF Loop!Next, LoopProved!Next
<1> QED BY <1>3, <1>6 DEF Loop!vars, LoopProved!vars

LEMMA LoopProvedToo == LSpec => LoopProved!Spec
<1>1. LInit => LoopProved!Init
  BY LoopStarts, SameLoop
<1>2. [LNext]_lvars => [LoopProved!Next]_(LoopProved!vars)
  BY LoopStep, SameLoop
<1> QED BY <1>1, <1>2, PTL DEF LSpec, LoopProved!Spec

(***************************************************************************)
(* In the control task a pulse ends at the first tick after the time it    *)
(* was opened for and at the first tick that finds the loop disarmed,      *)
(* overpressure is answered within a cooldown and a gap between ticks, and *)
(* two pulses of a loop left alone are a cooldown apart.                   *)
(***************************************************************************)
THEOREM ReliefPromises ==
  LSpec => /\ []Loop!PulseEnds
           /\ []Loop!OverpressureAnswered
           /\ Loop!PulsesSpaced
<1>1. /\ LoopProved!Spec => []LoopProved!PulseEnds
      /\ LoopProved!Spec => []LoopProved!OverpressureAnswered
      /\ LoopProved!Spec => LoopProved!PulsesSpaced
  BY LoopAssumed, BoardAssumption, LoopProved!PulsesEnd, LoopProved!OverpressureRelieved,
     LoopProved!PulsesApart DEF LoopProved!LoopAssumption
<1>2. LoopProved!PulseEnds => Loop!PulseEnds
  BY DEF Loop!PulseEnds, Loop!Relieving, LoopProved!PulseEnds, LoopProved!Relieving
<1>3. LoopProved!OverpressureAnswered => Loop!OverpressureAnswered
  BY DEF Loop!OverpressureAnswered, Loop!LongestCooldown, LoopProved!OverpressureAnswered,
         LoopProved!LongestCooldown
<1>4. [LoopProved!Reopens /\ undisturbed /\ closedAt # LoopProved!None
         => now - closedAt >= config.relief.cooldownMs]_(LoopProved!vars)
      => [Loop!Reopens /\ undisturbed /\ closedAt # Loop!None
            => now - closedAt >= config.relief.cooldownMs]_(Loop!vars)
  BY DEF Loop!Reopens, Loop!Relieving, Loop!None, Loop!vars, LoopProved!Reopens,
         LoopProved!Relieving, LoopProved!None, LoopProved!vars
<1> QED
  BY <1>1, <1>2, <1>3, <1>4, LoopProvedToo, PTL DEF Loop!PulsesSpaced, LoopProved!PulsesSpaced
=============================================================================
