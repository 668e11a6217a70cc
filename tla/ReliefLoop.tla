------------------------------ MODULE ReliefLoop ------------------------------
(***************************************************************************)
(* The relief loop on its own (src/src/relief.rs): one Relief::update per  *)
(* control tick, with a reading nobody controls and a configuration that   *)
(* SDO writes may change between two ticks.                                *)
(***************************************************************************)
EXTENDS Relief

CONSTANTS
  ReliefConfigs, \* configurations an SDO write can install
  Readings,      \* readings of the watched slot
  MaxUptime,     \* bound: the clock stops there
  MaxGap         \* bound: the longest time between two updates

ASSUME LoopAssumption ==
  /\ ReliefConfigs \subseteq ReliefConfig
  /\ Readings \subseteq Int
  /\ MaxUptime \in Nat /\ MaxGap \in Nat
  \* Times are 16 bits wide: there is a longest cooldown.
  /\ \E c \in ReliefConfigs : \A d \in ReliefConfigs : d.cooldownMs <= c.cooldownMs

VARIABLES
  now,         \* Instant::now()
  updatedAt,   \* when the loop was last updated
  cfg,         \* Config::relief
  relief,      \* Control::relief
  \* History, written and never read by the loop:
  openedAt,    \* when the last pulse began
  openedFor,   \* the pulse time of the configuration it began under
  foundArmed,  \* the last update found the loop armed
  closedAt,    \* when the loop last left a pulse; None before and during one
  undisturbed, \* since closedAt: always armed with one config and a valid reading
  calmAt       \* the last update that was not waiting under overpressure

vars == <<now, updatedAt, cfg, relief, openedAt, openedFor, foundArmed, closedAt, undisturbed, calmAt>>

Relieving == relief.state = "Relieving"

Init ==
  /\ now = 0 /\ updatedAt = 0
  /\ cfg \in ReliefConfigs
  /\ relief = NewRelief
  /\ openedAt = None /\ openedFor = 0 /\ foundArmed = FALSE
  /\ closedAt = None
  /\ undisturbed = FALSE
  /\ calmAt = 0

Pass ==
  /\ now < MaxUptime /\ now < updatedAt + MaxGap
  /\ now' = now + 1
  /\ UNCHANGED <<updatedAt, cfg, relief, openedAt, openedFor, foundArmed, closedAt,
                 undisturbed, calmAt>>

\* A 0x3000 write to the relief block; the loop sees it at its next update.
Configure(new) ==
  /\ new # cfg
  /\ cfg' = new
  /\ undisturbed' = FALSE
  /\ UNCHANGED <<now, updatedAt, relief, openedAt, openedFor, foundArmed, closedAt, calmAt>>

\* What one update adds to the history.
Record(reading) ==
  LET opens == ~Relieving /\ relief'.state = "Relieving"
      closes == Relieving /\ relief'.state # "Relieving"
  IN  /\ openedAt' = IF opens THEN now ELSE openedAt
      /\ openedFor' = IF opens THEN cfg.pulseMs ELSE openedFor
      /\ foundArmed' = ReliefArmed(cfg)
      /\ closedAt' = IF closes THEN now ELSE IF opens THEN None ELSE closedAt
      /\ undisturbed' = ((closes \/ undisturbed) /\ ReliefArmed(cfg) /\ reading # SensorInvalid)
      /\ calmAt' = IF /\ ReliefArmed(cfg) /\ reading # SensorInvalid
                      /\ reading > cfg.threshold /\ relief'.state # "Relieving"
                   THEN calmAt ELSE now

\* One tick's Relief::update.
Update(reading) ==
  /\ relief' = ReliefUpdate(relief, cfg, reading, now)
  /\ updatedAt' = now
  /\ Record(reading)
  /\ UNCHANGED <<now, cfg>>

\* A board that resets boots a new loop, with the outputs low.
Forget ==
  /\ openedAt' = None /\ openedFor' = 0 /\ foundArmed' = FALSE
  /\ closedAt' = None
  /\ undisturbed' = FALSE
  /\ calmAt' = 0

Reset ==
  /\ now' = 0 /\ updatedAt' = 0
  /\ cfg' \in ReliefConfigs
  /\ relief' = NewRelief
  /\ Forget

Next ==
  \/ Pass
  \/ \E new \in ReliefConfigs : Configure(new)
  \/ \E reading \in Readings : Update(reading)
  \/ Reset

Spec == Init /\ [][Next]_vars
-----------------------------------------------------------------------------
TypeOK ==
  /\ now \in Instant /\ updatedAt \in Instant /\ updatedAt <= now
  /\ cfg \in ReliefConfig
  /\ relief \in ReliefState
  /\ openedAt \in Optional(Instant) /\ closedAt \in Optional(Instant)
  /\ openedFor \in Nat /\ foundArmed \in BOOLEAN
  /\ undisturbed \in BOOLEAN
  /\ calmAt \in Instant

Reopens == ~Relieving /\ relief'.state = "Relieving"

\* Two pulses are a whole cooldown apart, as long as the sensor keeps reading
\* and the loop is left configured as it is (relief.rs:93-101).
PulsesSpaced ==
  [][Reopens /\ undisturbed /\ closedAt # None => now - closedAt >= cfg.cooldownMs]_vars

\* An update that leaves the valve open found the loop armed and the pulse
\* younger than the time it was opened for: the first update after that time,
\* and the first one that finds the loop disarmed, end it, whatever reading is
\* lost and whatever pulse time is configured meanwhile (relief.rs:73-102).
PulseEnds ==
  Relieving =>
    /\ foundArmed
    /\ updatedAt = openedAt \/ updatedAt < openedAt + openedFor

\* Standing overpressure is answered: an armed loop with valid readings over
\* the threshold waits out at most a cooldown before it opens the valve.
LongestCooldown == CHOOSE ms \in {c.cooldownMs : c \in ReliefConfigs} :
                     \A c \in ReliefConfigs : c.cooldownMs <= ms
OverpressureAnswered == updatedAt - calmAt <= LongestCooldown + MaxGap
=============================================================================
