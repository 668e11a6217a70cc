------------------------------- MODULE Control --------------------------------
(***************************************************************************)
(* The control plane of the board: the intent the SDO server and the debug *)
(* button leave in the store, the heartbeat atomics, and the control task  *)
(* that turns both into output states once per tick (src/src/control.rs,   *)
(* store.rs, safety.rs, outputs.rs).                                       *)
(*                                                                         *)
(* Tasks are cooperative and the store lock is never held over an await,   *)
(* so every write handler is one step.  A tick is one step as well: it     *)
(* decides from what it copied under its first lock, and what it does      *)
(* after that touches state of its own.  Only direct output writes can     *)
(* fall between its later locks.                                           *)
(***************************************************************************)
EXTENDS Valves, Safety, Relief, Heating

CONSTANTS
  BootConfig,    \* the factory defaults the node boots with
  Configs,       \* configurations an SDO write or a restore can install
  Commands,      \* position words the master commands
  DirectStates,  \* output states of direct digital and PWM writes
  Readings,      \* readings of the slot relief watches
  HeatReadings,  \* readings of the slots the heating pads watch
  Positions,     \* readings of the valves' position sensors
  RailCurrents,  \* rail currents in mA; None on a board without sensing
  MaxUptime,     \* bound: the clock stops there
  MaxGap,        \* bound: the longest time between two ticks
  TrafficUntil   \* bound: when the environment falls silent

Rail == {h \div 2 : h \in Hco}

ASSUME ControlAssumption ==
  /\ Configs \subseteq Config /\ BootConfig \in Config
  \* No bounds of the factory defaults cross.
  /\ \A v \in Valve : ~ClampPanics(BootConfig.valves[v])
  /\ Commands \subseteq Word
  /\ DirectStates \subseteq OutState
  /\ Readings \subseteq Int /\ HeatReadings \subseteq Int /\ Positions \subseteq Int
  /\ RailCurrents \subseteq Optional(Nat)
  /\ MaxUptime \in Nat /\ MaxGap \in Nat /\ TrafficUntil \in Nat

VARIABLES
  now,        \* Instant::now() in milliseconds
  lastTick,   \* Valve::last_tick, common to all valves
  heartbeat,  \* LAST_HEARTBEAT_MS and HEARTBEAT_SEEN: [ms, seen]
  config,     \* Store::config
  commanded,  \* Store::valve_commanded
  rawDebug,   \* Store::raw_debug
  pending,    \* Store::pending, the control task's share: [valves, config]
  writes,     \* direct writes not yet taken: the dirty hco_digital/hco_pwm_us
  valves,     \* Control::valves
  latch,      \* Control::latch
  relief,     \* Control::relief
  heating,    \* Control::heating
  direct,     \* Control::direct
  override,   \* Outputs::raw_override
  target,     \* Store::valve_target, as the last tick published it
  out         \* Outputs::last, the states on the hardware

storeVars == <<config, commanded, rawDebug, pending, writes>>
taskVars == <<lastTick, valves, latch, relief, heating, direct, override, target, out>>
vars == <<now, heartbeat, storeVars, taskVars>>

NothingPending == [valves |-> [v \in Valve |-> FALSE], config |-> FALSE]
NoStates == [h \in Hco |-> NoState]
AllLow == [h \in Hco |-> Low]
-----------------------------------------------------------------------------
(***************************************************************************)
(* Time and the bus.  embassy's tick wait times out after 20 ms and the    *)
(* watchdog resets a board whose executor stops, which is what MaxGap      *)
(* stands for.                                                             *)
(***************************************************************************)
Pass ==
  /\ now < MaxUptime /\ now < lastTick + MaxGap
  /\ now' = now + 1
  /\ UNCHANGED <<heartbeat, storeVars, taskVars>>

\* note_master_heartbeat: the timestamp is a u32.
NoteHeartbeat ==
  /\ now <= TrafficUntil
  /\ heartbeat' = [ms |-> now % MsWrap, seen |-> TRUE]
  /\ UNCHANGED <<now, storeVars, taskVars>>

MasterHeartbeat == NoteHeartbeat

\* Any frame but an SDO request to this node ends in the same call.
OtherFrame == NoteHeartbeat
-----------------------------------------------------------------------------
(***************************************************************************)
(* Store writes.  A write validates and parks; the tick acts on it.        *)
(***************************************************************************)
StoreWrite == now <= TrafficUntil /\ UNCHANGED <<now, heartbeat, taskVars>>

CommandValve(v, word) ==
  /\ IsMapped(config.valves[v])
  /\ commanded' = [commanded EXCEPT ![v] = word]
  /\ pending' = [pending EXCEPT !.valves[v] = TRUE]
  /\ StoreWrite /\ UNCHANGED <<config, rawDebug, writes>>

\* check_direct_access guards an owned output unless raw debug mode is on.
WriteDirect(h, state) ==
  /\ rawDebug \/ ~IsOwned(config, h)
  /\ writes' = [writes EXCEPT ![h] = state]
  /\ StoreWrite /\ UNCHANGED <<config, commanded, rawDebug, pending>>

\* 0x2031, or the debug button.
SetRawDebug(on) ==
  /\ rawDebug' = on
  /\ StoreWrite /\ UNCHANGED <<config, commanded, pending, writes>>

\* Any 0x3000 write, or the persistence task restoring the defaults.
WriteConfig(new) ==
  /\ config' = new
  /\ pending' = [pending EXCEPT !.config = TRUE]
  /\ StoreWrite /\ UNCHANGED <<commanded, rawDebug, writes>>
-----------------------------------------------------------------------------
(***************************************************************************)
(* What one tick decides (Control::decide).                                *)
(***************************************************************************)
\* apply_pending: a config change drops the direct states, then writes land.
Requested(state) == IF state.mode = "pwm" THEN Pwm(state.val) ELSE state

\* Mutant: direct states outliving a remap.
KeptDirect == [h \in Hco |-> IF writes[h] # NoState THEN Requested(writes[h]) ELSE direct[h]]

DirectNow ==
  [h \in Hco |-> IF writes[h] # NoState THEN Requested(writes[h])
                 ELSE IF pending.config THEN Low ELSE direct[h]]

Recommanded == {v \in Valve : pending.valves[v]}

\* Mutant: overrides not cleared on leaving raw debug mode.
KeptOverrides ==
  [h \in Hco |->
     IF \E v \in Recommanded : h \in OutputsOf(config.valves[v]) THEN NoState
     ELSE IF rawDebug /\ writes[h] # NoState /\ IsOwned(config, h) THEN Requested(writes[h])
     ELSE override[h]]

OverrideNow ==
  [h \in Hco |->
     IF ~rawDebug \/ \E v \in Recommanded : h \in OutputsOf(config.valves[v])
     THEN NoState
     ELSE IF writes[h] # NoState /\ IsOwned(config, h) THEN Requested(writes[h])
     ELSE override[h]]

Stage == Evaluate(config, rawDebug, heartbeat.seen, SinceHeartbeat(now, heartbeat.ms))
Entered == EnterStage(Rearm(latch, Recommanded), Stage)

\* Mutant: the relief loop timed by the tick before.
ReliefOneTickLate(reading) == ReliefUpdate(relief, config.relief, reading, lastTick)

ReliefNow(reading) == ReliefUpdate(relief, config.relief, reading, now)
Relieved(v, reading) == v = RelievedValve(ReliefNow(reading), config.relief)

\* resolve_target under an active stage: whether the valve is released.
Action(v) == ActionFor(Stage, config.valves[v])
Settled(v) == SettledAt(valves[v], config.valves[v], now, Action(v).position)
Released(v) == StaysReleased(Entered.unpowered[v], Action(v), Settled(v))

LatchNow(reading) ==
  [Entered EXCEPT !.unpowered =
     [v \in Valve |-> /\ ~Relieved(v, reading)
                      /\ IF InFallback(Stage) THEN Released(v) ELSE Entered.unpowered[v]]]

\* The input clamp bounds the position and lets the release flag through.
Clamped(cfg, word) == [word EXCEPT !.pos = ClampTo(cfg, @)]

\* Mutant: a fallback stage that outranks relief.
FallbackFirst(v, reading) ==
  IF InFallback(Stage) THEN FallbackTarget(Action(v), Released(v))
  ELSE IF Relieved(v, reading) THEN Driven(config.relief.position)
  ELSE Clamped(config.valves[v], commanded[v])

TargetNow(v, reading) ==
  IF Relieved(v, reading) THEN Driven(config.relief.position)
  ELSE IF InFallback(Stage) THEN FallbackTarget(Action(v), Released(v))
  ELSE Clamped(config.valves[v], commanded[v])

\* Rust's clamp panics, mapped valve or not, when an SDO write crossed the bounds.
TickPanics(reading) ==
  \E v \in Valve : /\ ~Relieved(v, reading) /\ ~InFallback(Stage)
                   /\ ClampPanics(config.valves[v])

SensedPosition(cfg, reading) ==
  IF ~cfg.hasSensor \/ reading < 0 THEN None ELSE Least(reading, PromilleMax)

ValveCurrent(cfg, rails) == IF cfg.signal = None THEN None ELSE rails[cfg.signal \div 2]

ValveNow(v, word, positions, rails) ==
  LET cfg == config.valves[v]
  IN  ValveTick(valves[v], cfg, word, now, now - lastTick,
                ValveCurrent(cfg, rails), SensedPosition(cfg, positions[v]))

(***************************************************************************)
(* Who decides output h: an override, else the last heating pad that names *)
(* it, else the last valve whose mapping names it, else the direct state.  *)
(***************************************************************************)
PadsNaming(h) == {v \in Valve : ~rawDebug /\ h \in config.heating[v].outputs}
ValvesNaming(h) == {v \in Valve : h \in OutputsOf(config.valves[v])}
Last(S) == CHOOSE v \in S : \A w \in S : w <= v

Arbitrated(h) ==
  IF override[h] # NoState THEN override[h]
  ELSE IF PadsNaming(h) # {} THEN Digital(heating[Last(PadsNaming(h))] = "Heating")
  ELSE IF ValvesNaming(h) # {}
  THEN LET v == Last(ValvesNaming(h)) IN DriveState(config.valves[v], target[v], h)
  ELSE direct[h]

Tick(reading, heat, positions, rails) ==
  /\ ~TickPanics(reading)
  /\ UNCHANGED <<now, heartbeat, config, commanded, rawDebug>>
  /\ lastTick' = now
  /\ direct' = DirectNow
  /\ override' = OverrideNow
  /\ relief' = ReliefNow(reading)
  /\ latch' = LatchNow(reading)
  /\ target' = [v \in Valve |-> TargetNow(v, reading)]
  /\ valves' = [v \in Valve |-> ValveNow(v, target'[v], positions, rails)]
  /\ heating' = [v \in Valve |-> HeatingDecide(heating[v], config.heating[v], heat[v])]
  /\ out' = [h \in Hco |-> Arbitrated(h)']
  /\ pending' = NothingPending
  /\ writes' = NoStates
-----------------------------------------------------------------------------
Init ==
  /\ now = 0 /\ lastTick = 0
  /\ heartbeat = [ms |-> 0, seen |-> FALSE]
  /\ config = BootConfig
  /\ commanded = [v \in Valve |-> Driven(0)]
  /\ rawDebug = FALSE
  /\ pending = NothingPending
  /\ writes = NoStates
  /\ valves = [v \in Valve |-> NewValve]
  /\ latch = NewLatch
  /\ relief = NewRelief
  /\ heating = [v \in Valve |-> "Disabled"]
  /\ direct = AllLow
  /\ override = NoStates
  /\ target = [v \in Valve |-> Driven(0)]
  /\ out = AllLow

\* The panic handler drives the outputs low and resets the board: Init, primed.
PanicReset(reading) ==
  /\ TickPanics(reading)
  /\ now' = 0 /\ lastTick' = 0
  /\ heartbeat' = [ms |-> 0, seen |-> FALSE]
  /\ config' = BootConfig
  /\ commanded' = [v \in Valve |-> Driven(0)]
  /\ rawDebug' = FALSE
  /\ pending' = NothingPending /\ writes' = NoStates
  /\ valves' = [v \in Valve |-> NewValve]
  /\ latch' = NewLatch /\ relief' = NewRelief
  /\ heating' = [v \in Valve |-> "Disabled"]
  /\ direct' = AllLow /\ override' = NoStates
  /\ target' = [v \in Valve |-> Driven(0)]
  /\ out' = AllLow

ControlTask ==
  \E reading \in Readings, heat \in [Valve -> HeatReadings],
     positions \in [Valve -> Positions], rails \in [Rail -> RailCurrents] :
    Tick(reading, heat, positions, rails)

Panic == \E reading \in Readings : PanicReset(reading)

Write ==
  \/ \E v \in Valve, word \in Commands : CommandValve(v, word)
  \/ \E h \in Hco, state \in DirectStates : WriteDirect(h, state)
  \/ \E on \in BOOLEAN : SetRawDebug(on)
  \/ \E new \in Configs : WriteConfig(new)

Next == Pass \/ MasterHeartbeat \/ OtherFrame \/ Write \/ ControlTask \/ Panic

Spec == Init /\ [][Next]_vars
-----------------------------------------------------------------------------
TypeOK ==
  /\ now \in Instant /\ lastTick \in Instant /\ lastTick <= now
  /\ heartbeat \in [ms : Instant, seen : BOOLEAN]
  /\ config \in Config
  /\ commanded \in [Valve -> Word]
  /\ rawDebug \in BOOLEAN
  /\ pending \in [valves : [Valve -> BOOLEAN], config : BOOLEAN]
  /\ writes \in [Hco -> OutState \cup {NoState}]
  /\ valves \in [Valve -> ValveState]
  /\ latch \in Latch
  /\ relief \in ReliefState
  /\ heating \in [Valve -> HeatingState]
  /\ direct \in [Hco -> OutState]
  /\ override \in [Hco -> OutState \cup {NoState}]
  /\ target \in [Valve -> Word]
  /\ out \in [Hco -> OutState]

\* A step of the control task that changes anything, by what only it does.
Ticked ==
  /\ UNCHANGED <<now, heartbeat, config, commanded, rawDebug>>
  /\ lastTick' = now /\ pending' = NothingPending /\ writes' = NoStates

\* While a stage lasts, a valve it has released stays released unless the
\* master commands it, relief opens it or its configuration changes: the
\* oscillation FallbackLatch exists to prevent (safety.rs:81-85).
ReleaseDoesNotOscillate ==
  [][\A v \in Valve :
       /\ latch.unpowered[v] /\ latch'.stage = latch.stage
       /\ ~pending.valves[v] /\ ~pending.config
       /\ RelievedValve(relief', config.relief) # v
       /\ Ticked
       => target'[v].off]_vars

\* Silence only ever escalates: unless a frame, a command to the
\* configuration or raw debug mode intervenes, the stage the next tick will
\* find never falls back from stage B to A, or out of the fallback.
Severity(stage) == IF stage = "FallbackB" THEN 2 ELSE IF stage = "FallbackA" THEN 1 ELSE 0
SilenceOnlyEscalates ==
  [][UNCHANGED <<heartbeat, config, rawDebug>> => Severity(Stage) <= Severity(Stage')]_vars

\* Once the environment falls silent, every servo ends up where stage B wants
\* it, still driven or released as configured, unless raw debug mode or a
\* disabled fallback suspends the stages, relief may take the valve, or the
\* board resets again and again (safety.rs:3-6, 12-14).
AtStageB(v) ==
  LET a == config.valves[v].fallbackB
  IN  /\ valves[v].measured = a.position
      /\ target[v] = FallbackTarget(a, a.unpower)
Relievable(v) == ReliefArmed(config.relief) /\ config.relief.valve = v
SilentMasterVents ==
  \/ []<>(now = 0)
  \/ <>[]( \/ rawDebug \/ ~config.fallbackEnabled
           \/ /\ latch.stage = "FallbackB"
              /\ \A v \in Valve :
                   IsServo(config.valves[v]) /\ ~Relievable(v) => AtStageB(v) )

\* An output a valve shares with neither a heating pad nor another valve.
OnlyOwner(v, h) ==
  /\ IsMapped(config.valves[v]) /\ h \in OutputsOf(config.valves[v])
  /\ \A w \in Valve : /\ h \notin config.heating[w].outputs
                      /\ w # v => h \notin OutputsOf(config.valves[w])

\* Out of raw debug mode no direct write, accepted before or after the
\* mapping or the mode changed, reaches an output a valve owns
\* (store.rs:624-629, outputs.rs:4).
OwnerDecides ==
  [][Ticked /\ ~rawDebug =>
       \A v \in Valve, h \in Hco :
         OnlyOwner(v, h) => out'[h] = DriveState(config.valves[v], target'[v], h)]_vars

\* While relief holds its valve open the outputs of that valve say so, over
\* the command, the clamp, both stages and their latch, and the latch forgets
\* that the stage had released it (control.rs:293-296, 308-319).
ReliefOutranks ==
  [][Ticked /\ relief'.state = "Relieving" =>
       /\ ~latch'.unpowered[config.relief.valve]
       /\ \A h \in Hco :
            ~rawDebug /\ OnlyOwner(config.relief.valve, h) =>
              out'[h] = DriveState(config.valves[config.relief.valve],
                                   Driven(config.relief.position), h)]_vars

\* The tick that sees a configuration change drops an output the new mapping
\* gives to nobody, unless a write asks for it anew (control.rs:369-375).
RemapDropsOutputs ==
  [][Ticked /\ pending.config /\ ~rawDebug =>
       \A h \in Hco :
         /\ ~IsOwned(config, h) /\ writes[h] = NoState
         /\ \A v \in Valve : h \notin config.heating[v].outputs
         => out'[h] = Low]_vars

(***************************************************************************)
(* A claim of the documentation that the code breaks.                      *)
(***************************************************************************)
\* An SDO write never leaves a configuration the control task panics on: the
\* sanity check runs after every write that could break an invariant
\* (config/mod.rs:229-230).
WritesNeverPanic == [][~Panic]_vars
=============================================================================
