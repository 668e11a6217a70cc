---------------------------- MODULE ControlHistory ----------------------------
(***************************************************************************)
(* Control with history variables, which record what the outputs have done *)
(* so that properties can relate a tick to the past.  They are written and *)
(* never read by the control plane.                                        *)
(***************************************************************************)
EXTENDS Control

VARIABLES
  hold,      \* per valve: the period its outputs last drove it where it is
  excused,   \* per valve: bypassed or remapped, and not driven anew since
  calmSince  \* per valve: the last tick that interfered with its fallback

history == <<hold, excused, calmSince>>
hvars == <<vars, history>>

(***************************************************************************)
(* A hold is an interval: from the tick that first drove the valve at pos  *)
(* with the estimate already there, to the tick that dropped the drive;    *)
(* to is None while it lasts.                                              *)
(***************************************************************************)
Hold == [pos : Promille, from : Optional(Instant), to : Optional(Instant)]
NoHold == [pos |-> 0, from |-> None, to |-> None]
IsOpen(held) == held.from # None /\ held.to = None

HeldFor(held, position, ms) ==
  /\ held.from # None /\ held.to # None /\ held.pos = position
  /\ held.to - held.from >= ms

\* Whether the outputs do what the valve model of v asked of them.
Obeyed(v) ==
  \A h \in OutputsOf(config.valves[v]) : out[h] = DriveState(config.valves[v], target[v], h)

HoldAfterTick(v) ==
  IF ~IsServo(config.valves[v]) \/ target'[v].off
  THEN IF IsOpen(hold[v]) THEN [hold[v] EXCEPT !.to = now] ELSE hold[v]
  ELSE IF ~Obeyed(v)' \/ valves'[v].measured # target'[v].pos THEN NoHold
  ELSE IF IsOpen(hold[v]) /\ hold[v].pos = target'[v].pos THEN hold[v]
  ELSE [pos |-> target'[v].pos, from |-> now, to |-> None]

\* A servo that is driven to a new word starts over; one whose outputs were
\* bypassed has not been where its model says.
DrivenAnew(v) ==
  /\ IsServo(config.valves[v]) /\ target'[v] # valves[v].target
  /\ ~latch'.unpowered[v]
ExcusedAfterTick(v) ==
  \/ excused[v] /\ ~DrivenAnew(v)
  \/ IsServo(config.valves[v]) /\ ~Obeyed(v)'

\* A tick interferes with the fallback of v when it starts or leaves a stage,
\* acts on a command or a configuration change, or relieves v.
Interfered(v) ==
  \/ latch'.stage # latch.stage \/ ~InFallback(latch'.stage)
  \/ pending.valves[v] \/ pending.config
  \/ v = RelievedValve(relief', config.relief)

HInit ==
  /\ Init
  /\ hold = [v \in Valve |-> NoHold]
  /\ excused = [v \in Valve |-> FALSE]
  /\ calmSince = [v \in Valve |-> 0]

HPass == Pass /\ UNCHANGED history

HTick ==
  /\ ControlTask
  /\ hold' = [v \in Valve |-> HoldAfterTick(v)]
  /\ excused' = [v \in Valve |-> ExcusedAfterTick(v)]
  /\ calmSince' = [v \in Valve |-> IF Interfered(v) THEN now ELSE calmSince[v]]

HPanic ==
  /\ Panic
  /\ hold' = [v \in Valve |-> NoHold]
  /\ excused' = [v \in Valve |-> FALSE]
  /\ calmSince' = [v \in Valve |-> 0]

HNext ==
  \/ HPass
  \/ HTick
  \/ MasterHeartbeat /\ UNCHANGED history
  \/ OtherFrame /\ UNCHANGED history
  \/ \E v \in Valve, word \in Commands : CommandValve(v, word) /\ UNCHANGED history
  \/ \E h \in Hco, state \in DirectStates : WriteDirect(h, state) /\ UNCHANGED history
  \/ \E on \in BOOLEAN : SetRawDebug(on) /\ UNCHANGED history
  \/ \E new \in Configs :
       /\ WriteConfig(new)
       /\ excused' = [v \in Valve |-> excused[v] \/ new.valves[v] # config.valves[v]]
       /\ UNCHANGED <<hold, calmSince>>
  \/ HPanic

HSpec == HInit /\ [][HNext]_hvars

\* Time passes, and the executor runs the control task again and again: it has
\* always just ticked, or panicked and booted anew, at some later moment.
\* Nothing is assumed of the master.
HFairSpec == HSpec /\ WF_hvars(HPass) /\ []<>(lastTick = now)
-----------------------------------------------------------------------------
HTypeOK ==
  /\ TypeOK
  /\ hold \in [Valve -> Hold]
  /\ excused \in [Valve -> BOOLEAN]
  /\ calmSince \in [Valve -> Instant]

\* The valve latch.stage has released was, until the tick that released it,
\* driven by its outputs at that stage's position for its settle time.
WasPut(v) ==
  LET cfg == config.valves[v]
  IN  HeldFor(hold[v], ActionFor(latch.stage, cfg).position, cfg.settleMs)

\* A fallback releases a servo only where it put it: no bypassed output, no
\* remapped valve and no stall stands between.  This is what keeps a vehicle
\* from being left with an unpowered valve somewhere else (valves.rs:139-151,
\* safety.rs:119-120).  Excused valves are those it does not hold for.
ReleasedWherePut == \A v \in Valve : latch.unpowered[v] /\ ~excused[v] => WasPut(v)

\* The running stage wants v released by its position estimate, and it is not.
Waiting(v) ==
  LET cfg == config.valves[v]
  IN  /\ InFallback(latch.stage) /\ IsServo(cfg) /\ ~pending.config
      /\ ActionFor(latch.stage, cfg).unpower /\ ~cfg.hasSensor
      /\ ~latch.unpowered[v]

\* A stage that should release a servo does so within its travel time, its
\* settle time and the gap between two ticks, unless something interferes, a
\* sensor is fitted or the servo has stalled (control.rs:427-433,
\* valves.rs:149-152, 262-269).
ReleasedInTime ==
  \A v \in Valve :
    Waiting(v) /\ valves[v].status # "Stalled" =>
      lastTick - calmSince[v] < config.valves[v].travelMs + config.valves[v].settleMs + MaxGap

-----------------------------------------------------------------------------
(***************************************************************************)
(* The inductive strengthening of ReleasedWherePut.                        *)
(***************************************************************************)
\* A servo that moves or is stalled has not arrived.
NotArrived(valve) == valve.status \in {"Moving", "Stalled"} => valve.arrivedAt = None

\* A valve that has arrived is being held where it was sent.
ArrivedHeld(v) ==
  valves[v].arrivedAt # None /\ ~excused[v] =>
    /\ IsServo(config.valves[v]) /\ ~valves[v].target.off
    /\ IsOpen(hold[v]) /\ hold[v].pos = valves[v].target.pos
    /\ hold[v].from <= valves[v].arrivedAt

ReleaseInvOf(v) ==
  /\ NotArrived(valves[v])
  /\ ArrivedHeld(v) /\ hold[v].from <= now
  /\ latch.unpowered[v] => InFallback(latch.stage)
  /\ latch.unpowered[v] /\ ~excused[v] => IsServo(config.valves[v]) /\ WasPut(v)

ReleaseInv == \A v \in Valve : ReleaseInvOf(v)

(***************************************************************************)
(* The inductive strengthening of ReleasedInTime: from the second tick of  *)
(* its wait on a valve is driven to the stage's position, the extrapolated *)
(* travel keeps up with the clock, and the settle time runs from arrival.  *)
(***************************************************************************)
UnderWay(v) ==
  LET cfg == config.valves[v]
      valve == valves[v]
      calm == lastTick - calmSince[v]
  IN  /\ valve.movedMs >= calm
      /\ valve.movedMs >= cfg.travelMs => valve.arrivedAt # None
      /\ valve.arrivedAt # None =>
           /\ valve.arrivedAt < calmSince[v] + cfg.travelMs + MaxGap
           /\ calm = 0 \/ lastTick <= valve.arrivedAt + cfg.settleMs

WaitInvOf(v) ==
  LET sent == valves[v].target = Driven(ActionFor(latch.stage, config.valves[v]).position)
  IN  /\ calmSince[v] <= lastTick
      /\ valves[v].arrivedAt # None => valves[v].arrivedAt <= lastTick
      /\ Waiting(v) =>
           /\ sent \/ calmSince[v] = lastTick
           /\ sent /\ valves[v].status # "Stalled" => UnderWay(v)

WaitInv == now <= lastTick + MaxGap /\ \A v \in Valve : WaitInvOf(v)
=============================================================================
