---------------------------- MODULE ControlRelief -----------------------------
(***************************************************************************)
(* Control implements ReliefLoop: whatever the rest of the control task    *)
(* and the store do, the relief state inside it is updated once per tick,  *)
(* at the tick's own time, and touched by nothing else but a reset.  The   *)
(* history of the loop is recorded beside it, written and never read.      *)
(***************************************************************************)
EXTENDS Control

VARIABLES openedAt, openedFor, foundArmed, closedAt, undisturbed, calmAt \* as in ReliefLoop

loopHistory == <<openedAt, openedFor, foundArmed, closedAt, undisturbed, calmAt>>
lvars == <<vars, loopHistory>>

\* The relief blocks a write, a restore or a reset can install.
ReliefBlocks == {c.relief : c \in Configs \cup {BootConfig}}

\* Times are 16 bits wide: there is a longest cooldown.
ASSUME ReliefTimesAssumption ==
  \E c \in ReliefBlocks : \A d \in ReliefBlocks : d.cooldownMs <= c.cooldownMs

Loop == INSTANCE ReliefLoop WITH
  cfg <- config.relief,
  updatedAt <- lastTick,
  ReliefConfigs <- ReliefBlocks

LInit ==
  /\ Init
  /\ openedAt = None /\ openedFor = 0 /\ foundArmed = FALSE
  /\ closedAt = None
  /\ undisturbed = FALSE
  /\ calmAt = 0

LTick ==
  \E reading \in Readings, heat \in [Valve -> HeatReadings],
     positions \in [Valve -> Positions], rails \in [Rail -> RailCurrents] :
    Tick(reading, heat, positions, rails) /\ Loop!Record(reading)

LWriteConfig(new) ==
  /\ WriteConfig(new)
  /\ undisturbed' = IF new.relief = config.relief THEN undisturbed ELSE FALSE
  /\ UNCHANGED <<openedAt, openedFor, foundArmed, closedAt, calmAt>>

LPanic == Panic /\ Loop!Forget

\* What else the environment does leaves the loop alone.
Elsewhere ==
  \/ MasterHeartbeat \/ OtherFrame
  \/ \E v \in Valve, word \in Commands : CommandValve(v, word)
  \/ \E h \in Hco, state \in DirectStates : WriteDirect(h, state)
  \/ \E on \in BOOLEAN : SetRawDebug(on)

LNext ==
  \/ Pass /\ UNCHANGED loopHistory
  \/ Elsewhere /\ UNCHANGED loopHistory
  \/ \E new \in Configs : LWriteConfig(new)
  \/ LTick
  \/ LPanic

LSpec == LInit /\ [][LNext]_lvars
-----------------------------------------------------------------------------
\* The relief loop inside the control task is the relief loop on its own, with
\* what that promises of pulses, cooldowns and answers: no command, stage,
\* override, remap or late tick of the rest of the task reaches it
\* (control.rs:290-295).
ReliefIsItsOwn == Loop!Spec
=============================================================================
