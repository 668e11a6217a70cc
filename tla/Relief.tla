-------------------------------- MODULE Relief --------------------------------
(***************************************************************************)
(* Local overpressure relief (src/src/relief.rs): one tick of the state    *)
(* machine that pulses a valve open while a sensor slot reads too high.    *)
(***************************************************************************)
EXTENDS BoardTypes

ReliefPhase == {"Idle", "Relieving", "Cooldown", "Inhibited", "Disabled"}
ReliefState == [state : ReliefPhase, until : Instant]

NewRelief == [state |-> "Disabled", until |-> 0]

ReliefArmed(cfg) == cfg.enabled /\ cfg.valve # None

\* The deadline of the current pulse or cooldown lies ahead.
Running(relief, now) == now < relief.until

\* Mutant: a pulse is finished before the loop looks whether it is disarmed.
DisarmWaits(relief, cfg, now) ==
  ~ReliefArmed(cfg) /\ ~(relief.state = "Relieving" /\ Running(relief, now))

\* A disarmed loop lets go at once, whatever it was doing.
Disarmed(relief, cfg, now) == ~ReliefArmed(cfg)

\* Mutants: phases that never end, are skipped, or take each other's time.
EndlessCooldown(relief, now) == relief.state = "Cooldown"
NoCooldown(cfg, now) == [state |-> "Idle", until |-> now]
CooldownLongPulse(cfg, now) == [state |-> "Relieving", until |-> now + cfg.cooldownMs]

CoolingDown(relief, now) == relief.state = "Cooldown" /\ Running(relief, now)
AfterPulse(cfg, now) == [state |-> "Cooldown", until |-> now + cfg.cooldownMs]
NewPulse(cfg, now) == [state |-> "Relieving", until |-> now + cfg.pulseMs]

(***************************************************************************)
(* Relief::update.  It returns a position exactly when it leaves the state *)
(* Relieving, so the returned Option is the state.  warned_invalid only    *)
(* rations a log line and a counter and is left out.                       *)
(***************************************************************************)
ReliefUpdate(relief, cfg, reading, now) ==
  LET rest(phase) == [relief EXCEPT !.state = phase]
  IN  IF Disarmed(relief, cfg, now) THEN rest("Disabled")
      ELSE IF relief.state = "Relieving" /\ Running(relief, now) THEN relief
      ELSE IF reading = SensorInvalid THEN rest("Inhibited")
      ELSE IF relief.state = "Relieving" THEN AfterPulse(cfg, now)
      ELSE IF CoolingDown(relief, now) THEN relief
      ELSE IF reading > cfg.threshold THEN NewPulse(cfg, now)
      ELSE rest("Idle")

\* The valve relief holds open after the update, if any.
RelievedValve(relief, cfg) == IF relief.state = "Relieving" THEN cfg.valve ELSE None
=============================================================================
