-------------------------------- MODULE Valves --------------------------------
(***************************************************************************)
(* The valve model of src/src/valves.rs: the state one Valve keeps, what a *)
(* control tick does to it, and what it asks of its outputs.  These are    *)
(* operators on the valve's state; Control.tla owns the state.             *)
(***************************************************************************)
EXTENDS BoardTypes

ValveStatus == {"Unmapped", "Unpowered", "Moving", "Holding", "Stalled"}

(***************************************************************************)
(* The fields of Valve.  last_tick is not among them: every valve is       *)
(* ticked with the same instant, so Control.tla keeps it once.             *)
(***************************************************************************)
ValveState ==
  [status : ValveStatus, measured : Promille, target : Word,
   origin : Promille, movedMs : Nat,
   arrivedAt : Optional(Instant), overSince : Optional(Instant)]

NewValve ==
  [status |-> "Unmapped", measured |-> 0, target |-> UnpoweredAt(0),
   origin |-> 0, movedMs |-> 0, arrivedAt |-> None, overSince |-> None]

\* Mutant: settled wherever the last target was.
SettledAnywhere(valve, cfg, now, position) ==
  valve.arrivedAt # None /\ now - valve.arrivedAt >= cfg.settleMs

\* The valve reached position under drive and has stayed there for settle_ms.
SettledAt(valve, cfg, now, position) ==
  /\ valve.target = Driven(position)
  /\ valve.arrivedAt # None
  /\ now - valve.arrivedAt >= cfg.settleMs

\* A new target word restarts the move and retries a stalled valve.
Retarget(valve, word) ==
  IF word = valve.target THEN valve
  ELSE [valve EXCEPT !.target = word, !.origin = valve.measured, !.movedMs = 0,
                     !.arrivedAt = None, !.overSince = None,
                     !.status = IF @ = "Stalled" THEN "Moving" ELSE @]

StepOf(cfg, movedMs) == Least((movedMs * PromilleMax) \div cfg.travelMs, PromilleMax)

Extrapolate(origin, position, step) ==
  IF position > origin THEN Least(origin + step, position) ELSE Greatest(origin - step, position)

\* update_position: a reading wins, a stall freezes, otherwise extrapolate.
UpdatePosition(valve, cfg, position, elapsedMs, feedback) ==
  LET movedMs == valve.movedMs + elapsedMs
      step == StepOf(cfg, movedMs)
      sensed == Least(feedback, PromilleMax)
  IN  IF feedback # None
      THEN [valve EXCEPT !.measured = sensed, !.origin = sensed, !.movedMs = 0]
      ELSE IF valve.status = "Stalled" THEN valve
      ELSE [valve EXCEPT !.movedMs = movedMs,
                         !.measured = Extrapolate(valve.origin, position, step)]

\* update_stall: over the threshold for stall_ms while moving.
UpdateStall(valve, cfg, now, currentMa) ==
  LET since == IF valve.overSince = None THEN now ELSE valve.overSince
  IN  IF \/ currentMa = None \/ cfg.stallMa = 0
         \/ valve.status # "Moving" \/ currentMa <= cfg.stallMa
      THEN [valve EXCEPT !.overSince = None]
      ELSE [valve EXCEPT !.overSince = since,
                         !.status = IF now - since >= cfg.stallMs THEN "Stalled" ELSE @]

\* Mutant: every tick at the target counts as the arrival.
ArrivesEveryTick(valve, position, now) ==
  IF valve.status = "Stalled" THEN valve
  ELSE IF valve.measured = position
  THEN [valve EXCEPT !.status = "Holding", !.arrivedAt = now]
  ELSE [valve EXCEPT !.status = "Moving", !.arrivedAt = None]

\* The end of Valve::tick: unless stalled, the valve holds or moves.
UpdateArrival(valve, position, now) ==
  IF valve.status = "Stalled" THEN valve
  ELSE IF valve.measured = position
  THEN [valve EXCEPT !.status = "Holding", !.arrivedAt = IF @ = None THEN now ELSE @]
  ELSE [valve EXCEPT !.status = "Moving", !.arrivedAt = None]

ServoTick(valve, cfg, word, now, elapsedMs, currentMa, feedback) ==
  LET aimed == Retarget(valve, word)
      moved == UpdatePosition(aimed, cfg, word.pos, elapsedMs, feedback)
  IN  IF word.off
      THEN [aimed EXCEPT !.status = "Unpowered", !.overSince = None]
      ELSE UpdateArrival(UpdateStall(moved, cfg, now, currentMa), word.pos, now)

SolenoidOpen(word) == ~word.off /\ word.pos # 0

\* Valve::tick, its effect on the valve's own state.
ValveTick(valve, cfg, word, now, elapsedMs, currentMa, feedback) ==
  IF ~IsMapped(cfg) THEN [valve EXCEPT !.status = "Unmapped"]
  ELSE IF IsServo(cfg)
  THEN ServoTick(valve, cfg, word, now, elapsedMs, currentMa, feedback)
  ELSE [valve EXCEPT !.target = word, !.status = "Holding",
                     !.measured = IF SolenoidOpen(word) THEN PromilleMax ELSE 0]

(***************************************************************************)
(* The ValveDrive that Valve::tick returns, as control.rs's apply_drive    *)
(* puts it on the two outputs of the mapping.  Released is also the answer *)
(* of an unmapped valve.                                                   *)
(***************************************************************************)
PowerState(cfg, word) ==
  IF ~IsMapped(cfg) THEN Low
  ELSE IF IsServo(cfg) THEN Digital(~word.off)
  ELSE Digital(SolenoidOpen(word))

SignalState(cfg, word) ==
  IF IsServo(cfg) /\ ~word.off THEN Pwm(PulseWidthUs(cfg, word.pos))
  ELSE PowerState(cfg, word)

DriveState(cfg, word, h) ==
  IF h = cfg.signal THEN SignalState(cfg, word) ELSE PowerState(cfg, word)
=============================================================================
