----------------------------- MODULE DirectWrites -----------------------------
(***************************************************************************)
(* Direct output writes and the two locks of a control tick.  A tick takes *)
(* the pending flags and copies the config under its first lock, awaits    *)
(* the ADC on boards that have one (control.rs:200), then takes the direct *)
(* writes under its second lock, applies them, and mirrors the outputs     *)
(* back into the fields the writes use (control.rs:202-260).  The SDO      *)
(* server and the debug button may write in between.                       *)
(*                                                                         *)
(* Control has the whole tick as one step; here it is two, the drive of a  *)
(* mapped valve is any state, and outputs of heating pads are left out.    *)
(***************************************************************************)
EXTENDS BoardTypes

CONSTANTS
  WriteStates,   \* what direct writes ask for
  DriveStates,   \* what mapped valves ask of their outputs
  Mappings,      \* what a valve may be configured as: [mapped, outputs it names]
  AdcWaits,      \* the tick awaits an ADC between its locks: rev3
  MaxWrites      \* bound: accepted SDO writes

ASSUME DirectAssumption ==
  /\ WriteStates \subseteq OutState /\ DriveStates \subseteq OutState
  /\ Mappings \subseteq [mapped : BOOLEAN, outputs : SUBSET Hco]
  \* The SDO server reduces a level to 0 or 1 as it decodes it.
  /\ \A state \in WriteStates : state.mode = "digital" => state.val \in {0, 1}
  /\ AdcWaits \in BOOLEAN /\ MaxWrites \in Nat

VARIABLES
  mapping,   \* Config::valves; Store::hco_owner follows it at every write
  rawDebug,  \* Store::raw_debug
  level,     \* Store::hco_digital
  width,     \* Store::hco_pwm_us
  isPwm,     \* Store::hco_direct_pwm
  dirty,     \* Store::hco_direct_dirty
  pending,   \* Store::pending: [valves, outputs, config]
  tick,      \* "waiting", or "sampling" between the locks
  taken,     \* the tick's locals: [mapping, rawDebug, pending]
  direct,    \* Control::direct
  override,  \* Outputs::raw_override
  out,       \* Outputs::last, the states on the hardware
  writes,    \* bound counter
  asked,     \* history: what the last write to an output asks for, while it counts
  raced      \* history: that write fell between the locks of a tick

wires == <<level, width, isPwm, dirty>>
outputs == <<direct, override, out>>
history == <<asked, raced>>
directVars == <<mapping, rawDebug, wires, pending, tick, taken, outputs, writes, history>>

Unmapped == [v \in Valve |-> [mapped |-> FALSE, outputs |-> {}]]
NothingPending == [valves |-> {}, outputs |-> FALSE, config |-> FALSE]
NothingTaken == [mapping |-> Unmapped, rawDebug |-> FALSE, pending |-> NothingPending]
NoStates == [h \in Hco |-> NoState]

\* The valves whose signal or power output is h, in use or not, and whether
\* one in use owns it.
Naming(map, h) == {v \in Valve : h \in map[v].outputs}
Owned(map, h) == \E v \in Naming(map, h) : map[v].mapped
-----------------------------------------------------------------------------
(***************************************************************************)
(* Accepted writes.                                                        *)
(***************************************************************************)
Accept ==
  /\ tick = "waiting" \/ AdcWaits
  /\ writes < MaxWrites /\ writes' = writes + 1
  /\ UNCHANGED <<tick, taken, outputs>>

\* HCO_DIGITAL and HCO_PWM_US.  The width is clamped where it is applied.
WriteDirect(h, state) ==
  /\ rawDebug \/ ~Owned(mapping, h)
  /\ IF state.mode = "pwm"
     THEN width' = [width EXCEPT ![h] = state.val] /\ UNCHANGED level
     ELSE level' = [level EXCEPT ![h] = state.val] /\ UNCHANGED width
  /\ isPwm' = [isPwm EXCEPT ![h] = state.mode = "pwm"]
  /\ dirty' = [dirty EXCEPT ![h] = TRUE]
  /\ pending' = [pending EXCEPT !.outputs = TRUE]
  /\ asked' = [asked EXCEPT ![h] = IF state.mode = "pwm" THEN Pwm(state.val) ELSE state]
  /\ raced' = [raced EXCEPT ![h] = tick = "sampling"]
  /\ Accept /\ UNCHANGED <<mapping, rawDebug>>

CommandValve(v) ==
  /\ mapping[v].mapped
  /\ pending' = [pending EXCEPT !.valves = @ \cup {v}]
  /\ Accept /\ UNCHANGED <<mapping, rawDebug, wires, history>>

SetRawDebug(on) ==
  /\ rawDebug' = on
  /\ pending' = [pending EXCEPT !.outputs = TRUE]
  /\ Accept /\ UNCHANGED <<mapping, wires, history>>

\* A write of a valve's kind or outputs; refresh_derived recomputes the owners.
Remap(v, new) ==
  /\ mapping' = [mapping EXCEPT ![v] = new]
  /\ pending' = [pending EXCEPT !.config = TRUE]
  /\ Accept /\ UNCHANGED <<rawDebug, wires, history>>
-----------------------------------------------------------------------------
(***************************************************************************)
(* The tick.                                                               *)
(***************************************************************************)
TickTakes ==
  /\ tick = "waiting"
  /\ tick' = "sampling"
  /\ taken' = [mapping |-> mapping, rawDebug |-> rawDebug, pending |-> pending]
  /\ pending' = NothingPending
  /\ UNCHANGED <<mapping, rawDebug, wires, outputs, writes, history>>

\* The second lock is taken only for writes the first one knew of.
\* Mutants: every output taken as written; or the flags kept.
TakesAll(h) == taken.pending.outputs
KeepsDirty == dirty
Lands(h) == taken.pending.outputs /\ dirty[h]
DirtyNow == IF taken.pending.outputs THEN [h \in Hco |-> FALSE] ELSE dirty

Written(h) == IF isPwm[h] THEN Pwm(width[h]) ELSE Digital(level[h] # 0)

\* A commanded valve takes back every output it names.
Recommanded(h) == \E v \in taken.pending.valves : h \in taken.mapping[v].outputs

DirectNow ==
  [h \in Hco |-> IF Lands(h) THEN Written(h)
                 ELSE IF taken.pending.config THEN Low ELSE direct[h]]

OverrideNow ==
  [h \in Hco |->
     IF ~taken.rawDebug \/ Recommanded(h) THEN NoState
     ELSE IF Lands(h) /\ Owned(taken.mapping, h) THEN Written(h)
     ELSE override[h]]

\* What reaches output h: an override, the drive of the last valve that names
\* it, which is low for one that is not mapped, or the direct state.
Last(S) == CHOOSE v \in S : \A w \in S : w <= v
Driver(h) == Last(Naming(taken.mapping, h))

Arbitrated(h, drive) ==
  IF override'[h] # NoState THEN override'[h]
  ELSE IF Naming(taken.mapping, h) = {} THEN direct'[h]
  ELSE IF taken.mapping[Driver(h)].mapped THEN drive[h] ELSE Low

\* The outputs mirrored into the fields of the direct writes.
Mirror ==
  /\ level' = [h \in Hco |-> IF out'[h].mode = "digital" THEN out'[h].val ELSE 1]
  /\ width' = [h \in Hco |-> IF out'[h].mode = "pwm" THEN out'[h].val ELSE 0]

\* A write stops counting when the mapping changes before it lands, when it
\* lands on an output a valve owns, or when that valve is commanded.
Voided(h) ==
  \/ taken.pending.config /\ ~dirty[h]
  \/ Owned(taken.mapping, h) /\ (~taken.rawDebug \/ Recommanded(h))

TickEnds(drive) ==
  /\ tick = "sampling"
  /\ tick' = "waiting" /\ taken' = NothingTaken
  /\ direct' = DirectNow
  /\ override' = OverrideNow
  /\ out' = [h \in Hco |-> Arbitrated(h, drive)]
  /\ dirty' = DirtyNow
  /\ Mirror
  /\ asked' = [h \in Hco |-> IF Voided(h) THEN NoState ELSE asked[h]]
  /\ UNCHANGED <<mapping, rawDebug, isPwm, pending, writes, raced>>
-----------------------------------------------------------------------------
DirectInit ==
  /\ mapping \in [Valve -> Mappings]
  /\ rawDebug = FALSE
  /\ level = [h \in Hco |-> 0] /\ width = [h \in Hco |-> 0]
  /\ isPwm = [h \in Hco |-> FALSE] /\ dirty = [h \in Hco |-> FALSE]
  /\ pending = NothingPending
  /\ tick = "waiting" /\ taken = NothingTaken
  /\ direct = [h \in Hco |-> Low] /\ override = NoStates
  /\ out = [h \in Hco |-> Low]
  /\ writes = 0
  /\ asked = NoStates /\ raced = [h \in Hco |-> FALSE]

Write ==
  \/ \E h \in Hco, state \in WriteStates : WriteDirect(h, state)
  \/ \E v \in Valve : CommandValve(v)
  \/ \E on \in BOOLEAN : SetRawDebug(on)
  \/ \E v \in Valve, new \in Mappings : Remap(v, new)

DirectNext ==
  \/ Write
  \/ TickTakes
  \/ \E drive \in [Hco -> DriveStates] : TickEnds(drive)

DirectSpec == DirectInit /\ [][DirectNext]_directVars
-----------------------------------------------------------------------------
DirectTypeOK ==
  /\ mapping \in [Valve -> Mappings]
  /\ rawDebug \in BOOLEAN
  /\ level \in [Hco -> Nat] /\ width \in [Hco -> Nat]
  /\ isPwm \in [Hco -> BOOLEAN] /\ dirty \in [Hco -> BOOLEAN]
  /\ pending \in [valves : SUBSET Valve, outputs : BOOLEAN, config : BOOLEAN]
  /\ tick \in {"waiting", "sampling"}
  /\ taken \in [mapping : [Valve -> [mapped : BOOLEAN, outputs : SUBSET Hco]], rawDebug : BOOLEAN,
                pending : [valves : SUBSET Valve, outputs : BOOLEAN, config : BOOLEAN]]
  /\ direct \in [Hco -> OutState]
  /\ override \in [Hco -> OutState \cup {NoState}]
  /\ out \in [Hco -> OutState]
  /\ writes \in Nat
  /\ asked \in [Hco -> OutState \cup {NoState}]
  /\ raced \in [Hco -> BOOLEAN]

\* A write is never left behind: whatever is marked dirty is in the tick under
\* way, or a flag is up that makes the next tick take it (store.rs:147-150).
NoWriteStranded ==
  \A h \in Hco :
    dirty[h] => pending.outputs \/ (tick = "sampling" /\ taken.pending.outputs)

\* An override a remap left on an output nobody owns now still beats its
\* direct writes (control.rs:389-392), and a valve that names an output but is
\* not mapped holds it low although a direct write to it is accepted
\* (control.rs:323, 517-529).
Stuck(h) == ~Owned(mapping, h) /\ override[h] # NoState
HeldLow(h) == ~Owned(mapping, h) /\ Naming(mapping, h) # {}

\* What an accepted write comes to: itself, but for those two.
Shows(h) ==
  asked[h] # NoState =>
    out[h] = IF Stuck(h) THEN override[h] ELSE IF HeldLow(h) THEN Low ELSE asked[h]

\* Once a tick is done with everything parked, an output shows what the last
\* accepted write asked of it, whatever was remapped, commanded or switched in
\* between: last writer wins (store.rs:711), unless an override is stuck on the
\* output, an unmapped valve names it, or the write fell between the locks of a
\* tick.
Done == tick = "waiting" /\ pending = NothingPending
WritesApplied == Done => \A h \in Hco : ~raced[h] => Shows(h)

(***************************************************************************)
(* A claim of the documentation that the code breaks: a write to an output *)
(* "free for direct control" (od.rs:242), or one of raw debug mode, where  *)
(* "HCO arbitration becomes last-writer-wins" (od.rs:254), is applied,     *)
(* whenever it arrives.  On rev3 one that falls into the ADC await of a    *)
(* tick that knew of no write is overwritten by the outputs that tick      *)
(* mirrors back (control.rs:200-260), and the next tick applies those.     *)
(***************************************************************************)
EveryWriteShows == Done => \A h \in Hco : Shows(h)
=============================================================================
