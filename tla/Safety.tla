-------------------------------- MODULE Safety --------------------------------
(***************************************************************************)
(* Master liveness and the two fallback stages (src/src/safety.rs): how    *)
(* the link is classified, and the latch that remembers which valves the   *)
(* running stage has already released.                                     *)
(***************************************************************************)
EXTENDS BoardTypes

CONSTANT MsWrap     \* the range of the u32 heartbeat timestamp: 2^32

ASSUME WrapAssumption == MsWrap \in Nat \ {0}

LinkState == {"NeverSeen", "Alive", "FallbackA", "FallbackB", "Suspended"}

\* Mutant: the timestamp kept in a narrower integer.
NarrowSince(now, lastHeartbeat) == (now - lastHeartbeat) % (MsWrap \div 8)

\* since_last_heartbeat: a u32 wrapping subtraction.
SinceHeartbeat(now, lastHeartbeat) == (now - lastHeartbeat) % MsWrap

\* Mutant: the thresholds tested in the wrong order.
OnlyStageA(config, rawDebug, seen, since) ==
  IF seen /\ since < config.fallbackAMs THEN "Alive"
  ELSE IF rawDebug \/ ~config.fallbackEnabled THEN "Suspended"
  ELSE IF since >= config.fallbackAMs THEN "FallbackA"
  ELSE IF since >= config.fallbackBMs THEN "FallbackB"
  ELSE "NeverSeen"

Evaluate(config, rawDebug, seen, since) ==
  IF seen /\ since < config.fallbackAMs THEN "Alive"
  ELSE IF rawDebug \/ ~config.fallbackEnabled THEN "Suspended"
  ELSE IF since >= config.fallbackBMs THEN "FallbackB"
  ELSE IF since >= config.fallbackAMs THEN "FallbackA"
  ELSE "NeverSeen"

InFallback(stage) == stage \in {"FallbackA", "FallbackB"}

\* action_for, asked only while InFallback(stage).
ActionFor(stage, cfg) == IF stage = "FallbackA" THEN cfg.fallbackA ELSE cfg.fallbackB

Latch == [stage : LinkState, unpowered : [Valve -> BOOLEAN]]
NewLatch == [stage |-> "NeverSeen", unpowered |-> [v \in Valve |-> FALSE]]

\* FallbackLatch::enter keeps the releases of a stage only while it lasts.
EnterStage(latch, stage) ==
  IF latch.stage = stage THEN latch
  ELSE [stage |-> stage, unpowered |-> [v \in Valve |-> FALSE]]

\* FallbackLatch::rearm.
Rearm(latch, valves) ==
  [latch EXCEPT !.unpowered = [v \in Valve |-> latch.unpowered[v] /\ v \notin valves]]

\* Mutant: the latch forgotten.
ForgetfulRelease(unpowered, action, settled) == action.unpower /\ settled

\* FallbackLatch::target: whether the valve is released now, and its target word.
StaysReleased(unpowered, action, settled) == unpowered \/ (action.unpower /\ settled)
FallbackTarget(action, released) == [pos |-> action.position, off |-> released]
=============================================================================
