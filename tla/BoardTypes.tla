------------------------------ MODULE BoardTypes ------------------------------
(***************************************************************************)
(* Identifiers, position words, output states and configuration records    *)
(* shared by the modules of the ioCan board (src/src/index.rs, hco.rs,     *)
(* config/*.rs and iocan-proto/src/valve.rs).                              *)
(***************************************************************************)
EXTENDS Integers, FiniteSets

CONSTANTS
  Valve,        \* the valve slots, numbered as in ValveId (0..3 on the board)
  Hco,          \* the high current outputs, numbered as in HcoId (0..3)
  PromilleMax   \* fully open: 1000 on the board, smaller in a model

ASSUME BoardAssumption ==
  /\ Valve \subseteq Nat
  /\ Hco \subseteq Nat
  /\ PromilleMax \in Nat \ {0}
  \* The slots are walked in increasing order: a set of them has a last one.
  /\ \A S \in SUBSET Valve : S # {} => \E v \in S : \A w \in S : w <= v

\* Rust's Option::None wherever the payload is a natural number.
None == -1
Optional(S) == S \cup {None}

Promille == 0 .. PromilleMax
Instant == Nat              \* milliseconds since boot

\* i16::MIN, the "no valid reading" value of a sensor slot.
SensorInvalid == -32768

Least(a, b) == IF a <= b THEN a ELSE b
Greatest(a, b) == IF a <= b THEN b ELSE a
-----------------------------------------------------------------------------
(***************************************************************************)
(* The position word of 0x2010..0x2012: a promille field and bit 15, which *)
(* says that the drive is released.                                        *)
(***************************************************************************)
Word == [pos : Promille, off : BOOLEAN]
Driven(p) == [pos |-> p, off |-> FALSE]
UnpoweredAt(p) == [pos |-> p, off |-> TRUE]
-----------------------------------------------------------------------------
(***************************************************************************)
(* The state of one output: a level, or a servo pulse width in             *)
(* microseconds, which PwmMicros clamps to the servo-safe range.           *)
(***************************************************************************)
OutState == [mode : {"digital", "pwm"}, val : Nat]
Digital(on) == [mode |-> "digital", val |-> IF on THEN 1 ELSE 0]
Pwm(us) == [mode |-> "pwm", val |-> Greatest(500, Least(us, 2500))]
Low == Digital(FALSE)
NoState == [mode |-> "none", val |-> 0]      \* Option<State>::None
-----------------------------------------------------------------------------
(***************************************************************************)
(* The parts of Config the control task reads.                             *)
(***************************************************************************)
FallbackAction == [position : Promille, unpower : BOOLEAN]

ValveConfig ==
  [kind : {"None", "Servo", "Solenoid"},
   power : Optional(Hco), signal : Optional(Hco),
   closedUs : Nat, openUs : Nat, travelMs : Nat \ {0},
   stallMa : Nat, stallMs : Nat, settleMs : Nat,
   min : Promille, max : Promille,
   hasSensor : BOOLEAN,                       \* position_sensor is Some
   fallbackA : FallbackAction, fallbackB : FallbackAction]

HeatingConfig ==
  [enabled : BOOLEAN, outputs : SUBSET Hco, hasSensor : BOOLEAN,
   setpoint : Int, hysteresis : Nat]

ReliefConfig ==
  [enabled : BOOLEAN, valve : Optional(Valve), threshold : Int,
   position : Promille, pulseMs : Nat \ {0}, cooldownMs : Nat]

Config ==
  [fallbackEnabled : BOOLEAN, fallbackAMs : Nat, fallbackBMs : Nat,
   valves : [Valve -> ValveConfig], heating : [Valve -> HeatingConfig],
   relief : ReliefConfig]

IsMapped(cfg) == cfg.kind # "None" /\ cfg.signal # None
IsServo(cfg) == IsMapped(cfg) /\ cfg.kind = "Servo"

\* Every output a valve's mapping names, whether or not the valve is mapped.
OutputsOf(cfg) == {cfg.power, cfg.signal} \ {None}

\* Whether some mapped valve owns the output (Config::hco_owner is Some).
IsOwned(config, h) ==
  \E v \in Valve : IsMapped(config.valves[v]) /\ h \in OutputsOf(config.valves[v])

(***************************************************************************)
(* ValveConfig::clamp.  Rust's Ord::clamp panics when the bounds cross,    *)
(* which ClampPanics tells apart.                                          *)
(***************************************************************************)
ClampPanics(cfg) == cfg.min > Least(cfg.max, PromilleMax)
ClampTo(cfg, p) == Greatest(cfg.min, Least(p, cfg.max))

(***************************************************************************)
(* Linear interpolation from promille to pulse width, dividing toward zero *)
(* as i32 division does.                                                   *)
(***************************************************************************)
PulseWidthUs(cfg, p) ==
  IF cfg.openUs >= cfg.closedUs
  THEN cfg.closedUs + ((cfg.openUs - cfg.closedUs) * p) \div PromilleMax
  ELSE cfg.closedUs - ((cfg.closedUs - cfg.openUs) * p) \div PromilleMax
=============================================================================
