-------------------------- MODULE DirectWrites_proofs --------------------------
(***************************************************************************)
(* Direct output writes and the two locks of a tick: whatever is mapped,   *)
(* written and commanded in between, no write is left behind and the last  *)
(* writer wins.  The argument follows one write: until it lands, the       *)
(* fields hold it and a flag is up for it; from then on the direct state,  *)
(* or the override of an owned output, holds it, until a tick voids it.    *)
(***************************************************************************)
EXTENDS DirectWrites, TLAPS

\* What the tick under way decides from, or the next one will.
MappingSeen == IF tick = "sampling" THEN taken.mapping ELSE mapping
RemapSeen == IF tick = "sampling" THEN taken.pending.config ELSE pending.config

\* The write to h counts and did not fall between the locks.
Counts(h) == asked[h] # NoState /\ ~raced[h]

\* A mapping changes under a tick only with the flag for the next one.
RemapFlagged == tick = "sampling" /\ mapping # taken.mapping => pending.config

\* Until it lands, the fields hold the write, and the tick under way knows of it.
Parked(h) ==
  dirty[h] /\ Counts(h) =>
    /\ Written(h) = asked[h]
    /\ tick = "sampling" => taken.pending.outputs

\* Landed, it is the state of its output for as long as the mapping stands.
Landed(h) ==
  ~dirty[h] /\ Counts(h) /\ ~RemapSeen =>
    IF Owned(MappingSeen, h)
    THEN override[h] = asked[h] /\ out[h] = asked[h]
    ELSE /\ direct[h] = asked[h]
         /\ out[h] = IF override[h] # NoState THEN override[h]
                     ELSE IF Naming(MappingSeen, h) # {} THEN Low ELSE asked[h]

WriteInv ==
  /\ DirectTypeOK /\ RemapFlagged /\ NoWriteStranded
  /\ \A h \in Hco : Parked(h) /\ Landed(h)

(***************************************************************************)
(* Types.                                                                  *)
(***************************************************************************)
LEMMA StateTypes ==
  /\ \A us \in Nat : Pwm(us) \in OutState
  /\ \A on \in BOOLEAN : Digital(on) \in OutState
  /\ Low \in OutState /\ NoState \notin OutState
<1>1. \A us \in Nat : Pwm(us) \in OutState
  BY DEF Pwm, OutState, Greatest, Least
<1>2. \A on \in BOOLEAN : Digital(on) \in OutState
  BY DEF Digital, OutState
<1> QED BY <1>1, <1>2 DEF Low, NoState, OutState

LEMMA WrittenType == ASSUME DirectTypeOK, NEW h \in Hco PROVE Written(h) \in OutState
  BY StateTypes DEF DirectTypeOK, Written

\* Nothing pending and nothing taken have their types.
LEMMA NothingTypes ==
  /\ NothingPending \in [valves : SUBSET Valve, outputs : BOOLEAN, config : BOOLEAN]
  /\ NothingTaken \in [mapping : [Valve -> [mapped : BOOLEAN, outputs : SUBSET Hco]], rawDebug : BOOLEAN,
                       pending : [valves : SUBSET Valve, outputs : BOOLEAN, config : BOOLEAN]]
  /\ NoStates \in [Hco -> OutState \cup {NoState}]
  BY DEF NothingPending, NothingTaken, Unmapped, NoStates

LEMMA InitWrites == DirectInit => WriteInv
<1> SUFFICES ASSUME DirectInit PROVE WriteInv
  OBVIOUS
<1>1. DirectTypeOK
  BY NothingTypes, StateTypes DEF DirectInit, DirectTypeOK
<1>2. \A h \in Hco : ~dirty[h] /\ asked[h] = NoState
  BY DEF DirectInit, NoStates
<1>3. tick = "waiting"
  BY DEF DirectInit
<1> QED BY <1>1, <1>2, <1>3 DEF WriteInv, RemapFlagged, NoWriteStranded, Parked, Landed, Counts

(***************************************************************************)
(* Accepted writes, at any point of a tick.                                *)
(***************************************************************************)
\* The fields hold what a write asks for, clamped where it is applied.
LEMMA WriteKeepsWrites ==
  ASSUME WriteInv, NEW h \in Hco, NEW state \in WriteStates, WriteDirect(h, state)
  PROVE  WriteInv'
<1> DEFINE want == IF state.mode = "pwm" THEN Pwm(state.val) ELSE state
<1>1. state \in OutState /\ DirectTypeOK
  BY DirectAssumption DEF WriteInv
<1>2. /\ UNCHANGED <<mapping, rawDebug, tick, taken, direct, override, out>>
      /\ pending' = [pending EXCEPT !.outputs = TRUE]
      /\ dirty' = [dirty EXCEPT ![h] = TRUE]
      /\ isPwm' = [isPwm EXCEPT ![h] = state.mode = "pwm"]
      /\ asked' = [asked EXCEPT ![h] = want]
      /\ raced' = [raced EXCEPT ![h] = tick = "sampling"]
      /\ writes' = writes + 1
  BY DEF WriteDirect, Accept, outputs
<1>3. /\ level' \in [Hco -> Nat] /\ width' \in [Hco -> Nat]
      /\ \A g \in Hco \ {h} : level'[g] = level[g] /\ width'[g] = width[g]
      /\ state.mode = "pwm" => width'[h] = state.val
      /\ state.mode # "pwm" => level'[h] = state.val
  BY <1>1 DEF WriteDirect, DirectTypeOK, OutState
<1>4. want \in OutState
  BY <1>1, StateTypes DEF OutState
<1> HIDE DEF want
<1>5. DirectTypeOK'
  <2>1. /\ dirty' \in [Hco -> BOOLEAN] /\ isPwm' \in [Hco -> BOOLEAN]
        /\ raced' \in [Hco -> BOOLEAN]
    BY <1>1, <1>2 DEF DirectTypeOK
  <2>2. asked' \in [Hco -> OutState \cup {NoState}]
    BY <1>1, <1>2, <1>4 DEF DirectTypeOK
  <2>3. pending' \in [valves : SUBSET Valve, outputs : BOOLEAN, config : BOOLEAN]
    BY <1>1, <1>2 DEF DirectTypeOK
  <2>4. writes' \in Nat
    BY <1>1, <1>2 DEF DirectTypeOK
  <2> QED BY <1>1, <1>2, <1>3, <2>1, <2>2, <2>3, <2>4 DEF DirectTypeOK
<1>6. pending'.outputs = TRUE /\ pending'.config = pending.config
  BY <1>1, <1>2 DEF DirectTypeOK
<1>7. RemapFlagged' /\ NoWriteStranded'
  BY <1>2, <1>6 DEF WriteInv, RemapFlagged, NoWriteStranded
<1>8. \A g \in Hco \ {h} : Parked(g)' /\ Landed(g)'
  <2> SUFFICES ASSUME NEW g \in Hco \ {h} PROVE Parked(g)' /\ Landed(g)'
    OBVIOUS
  <2>1. /\ dirty'[g] = dirty[g] /\ asked'[g] = asked[g] /\ raced'[g] = raced[g]
        /\ isPwm'[g] = isPwm[g] /\ level'[g] = level[g] /\ width'[g] = width[g]
    BY <1>1, <1>2, <1>3 DEF DirectTypeOK
  <2>2. Written(g)' = Written(g) /\ Counts(g)' = Counts(g)
    BY <2>1 DEF Written, Counts
  <2>3. MappingSeen' = MappingSeen /\ RemapSeen' = RemapSeen
    BY <1>2, <1>6 DEF MappingSeen, RemapSeen
  <2> QED BY <1>2, <2>1, <2>2, <2>3 DEF WriteInv, Parked, Landed
<1>9. Parked(h)' /\ Landed(h)'
  <2>1. dirty'[h] = TRUE /\ raced'[h] = (tick = "sampling") /\ asked'[h] = want
    BY <1>1, <1>2 DEF DirectTypeOK
  <2>2. CASE state.mode = "pwm"
    <3>1. isPwm'[h] = TRUE /\ width'[h] = state.val
      BY <1>1, <1>2, <1>3, <2>2 DEF DirectTypeOK
    <3>2. Written(h)' = want
      BY <2>2, <3>1 DEF Written, want
    <3> QED BY <1>2, <2>1, <3>2 DEF Parked, Landed, Counts
  <2>3. CASE state.mode # "pwm"
    <3>1. isPwm'[h] = FALSE /\ level'[h] = state.val
      BY <1>1, <1>2, <1>3, <2>3 DEF DirectTypeOK
    <3>2. state.mode = "digital" /\ state.val \in {0, 1}
      BY <1>1, <2>3, DirectAssumption DEF OutState
    <3>3. state = Digital(state.val # 0)
      BY <1>1, <3>2 DEF Digital, OutState
    <3>4. Written(h)' = want
      BY <2>3, <3>1, <3>3 DEF Written, want
    <3> QED BY <1>2, <2>1, <3>4 DEF Parked, Landed, Counts
  <2> QED BY <2>2, <2>3
<1> QED BY <1>5, <1>7, <1>8, <1>9 DEF WriteInv

\* A command, a change of mode and a remap leave the writes where they are.
LEMMA OthersKeepWrites ==
  ASSUME WriteInv,
         \/ \E v \in Valve : CommandValve(v)
         \/ \E on \in BOOLEAN : SetRawDebug(on)
         \/ \E v \in Valve, new \in Mappings : Remap(v, new)
  PROVE  WriteInv'
<1>1. /\ UNCHANGED <<wires, history, tick, taken, direct, override, out>>
      /\ writes' = writes + 1
  BY DEF CommandValve, SetRawDebug, Remap, Accept, outputs
<1>2. /\ mapping' \in [Valve -> Mappings] /\ rawDebug' \in BOOLEAN
      /\ pending' \in [valves : SUBSET Valve, outputs : BOOLEAN, config : BOOLEAN]
  <2>1. ASSUME NEW v \in Valve, CommandValve(v)
        PROVE  /\ mapping' \in [Valve -> Mappings] /\ rawDebug' \in BOOLEAN
               /\ pending' \in [valves : SUBSET Valve, outputs : BOOLEAN, config : BOOLEAN]
    BY <2>1 DEF CommandValve, WriteInv, DirectTypeOK
  <2>2. ASSUME NEW on \in BOOLEAN, SetRawDebug(on)
        PROVE  /\ mapping' \in [Valve -> Mappings] /\ rawDebug' \in BOOLEAN
               /\ pending' \in [valves : SUBSET Valve, outputs : BOOLEAN, config : BOOLEAN]
    BY <2>2 DEF SetRawDebug, WriteInv, DirectTypeOK
  <2>3. ASSUME NEW v \in Valve, NEW new \in Mappings, Remap(v, new)
        PROVE  /\ mapping' \in [Valve -> Mappings] /\ rawDebug' \in BOOLEAN
               /\ pending' \in [valves : SUBSET Valve, outputs : BOOLEAN, config : BOOLEAN]
    BY <2>3 DEF Remap, WriteInv, DirectTypeOK
  <2> QED BY <2>1, <2>2, <2>3
<1>3. /\ pending.outputs => pending'.outputs
      /\ pending.config => pending'.config
      /\ mapping' = mapping \/ pending'.config
  BY DEF CommandValve, SetRawDebug, Remap, WriteInv, DirectTypeOK
<1>4. DirectTypeOK'
  BY <1>1, <1>2 DEF WriteInv, DirectTypeOK, wires, history
<1>5. RemapFlagged' /\ NoWriteStranded'
  BY <1>1, <1>3 DEF WriteInv, RemapFlagged, NoWriteStranded, wires
<1>6. \A h \in Hco : Parked(h)' /\ Landed(h)'
  <2> SUFFICES ASSUME NEW h \in Hco PROVE Parked(h)' /\ Landed(h)'
    OBVIOUS
  <2>1. Written(h)' = Written(h) /\ Counts(h)' = Counts(h)
    BY <1>1 DEF Written, Counts, wires, history
  <2>2. RemapSeen' \/ (MappingSeen' = MappingSeen /\ ~RemapSeen)
    BY <1>1, <1>3 DEF MappingSeen, RemapSeen
  <2> QED BY <1>1, <2>1, <2>2 DEF WriteInv, Parked, Landed, wires, history
<1> QED BY <1>4, <1>5, <1>6 DEF WriteInv

(***************************************************************************)
(* The two halves of a tick.                                               *)
(***************************************************************************)
LEMMA TickTakesKeepsWrites ==
  ASSUME WriteInv, TickTakes
  PROVE  WriteInv'
<1>1. /\ tick = "waiting" /\ tick' = "sampling"
      /\ taken' = [mapping |-> mapping, rawDebug |-> rawDebug, pending |-> pending]
      /\ pending' = NothingPending
      /\ UNCHANGED <<mapping, rawDebug, wires, direct, override, out, writes, history>>
  BY DEF TickTakes, outputs
<1>2. DirectTypeOK'
  <2>1. taken' \in [mapping : [Valve -> [mapped : BOOLEAN, outputs : SUBSET Hco]], rawDebug : BOOLEAN,
                   pending : [valves : SUBSET Valve, outputs : BOOLEAN, config : BOOLEAN]]
    BY <1>1, DirectAssumption DEF WriteInv, DirectTypeOK
  <2> QED BY <1>1, <2>1, NothingTypes DEF WriteInv, DirectTypeOK, wires, history
<1>3. /\ taken'.mapping = mapping /\ taken'.pending = pending
      /\ MappingSeen' = MappingSeen /\ RemapSeen' = RemapSeen
  BY <1>1 DEF MappingSeen, RemapSeen
<1>4. RemapFlagged' /\ NoWriteStranded'
  BY <1>1, <1>3 DEF WriteInv, RemapFlagged, NoWriteStranded, wires
<1>5. \A h \in Hco : Parked(h)' /\ Landed(h)'
  <2> SUFFICES ASSUME NEW h \in Hco PROVE Parked(h)' /\ Landed(h)'
    OBVIOUS
  <2>1. Written(h)' = Written(h) /\ Counts(h)' = Counts(h)
    BY <1>1 DEF Written, Counts, wires, history
  <2>2. dirty[h] => pending.outputs
    BY <1>1 DEF WriteInv, NoWriteStranded
  <2> QED BY <1>1, <1>3, <2>1, <2>2 DEF WriteInv, Parked, Landed, wires, history
<1> QED BY <1>2, <1>4, <1>5 DEF WriteInv

LEMMA TickEndsType ==
  ASSUME WriteInv, NEW drive \in [Hco -> DriveStates], TickEnds(drive)
  PROVE  DirectTypeOK'
<1>1. DirectTypeOK /\ drive \in [Hco -> OutState]
  BY DirectAssumption DEF WriteInv
<1>2. /\ tick' = "waiting" /\ taken' = NothingTaken
      /\ direct' = DirectNow /\ override' = OverrideNow
      /\ out' = [h \in Hco |-> Arbitrated(h, drive)] /\ dirty' = DirtyNow
      /\ UNCHANGED <<mapping, rawDebug, isPwm, pending, writes, raced>>
  BY DEF TickEnds
<1>3. direct' \in [Hco -> OutState] /\ override' \in [Hco -> OutState \cup {NoState}]
  BY <1>1, <1>2, WrittenType, StateTypes DEF DirectNow, OverrideNow, DirectTypeOK
<1>4. out' \in [Hco -> OutState]
  <2>1. \A h \in Hco : Arbitrated(h, drive) \in OutState
    BY <1>1, <1>3, StateTypes DEF Arbitrated
  <2> QED BY <1>2, <2>1
<1>5. dirty' \in [Hco -> BOOLEAN]
  BY <1>1, <1>2 DEF DirtyNow, DirectTypeOK
<1>6. level' \in [Hco -> Nat] /\ width' \in [Hco -> Nat]
  BY <1>4 DEF TickEnds, Mirror, OutState
<1>7. asked' \in [Hco -> OutState \cup {NoState}]
  BY <1>1 DEF TickEnds, DirectTypeOK
<1> QED BY <1>1, <1>2, <1>3, <1>4, <1>5, <1>6, <1>7, NothingTypes DEF DirectTypeOK

\* An output that valves name but none in use owns is held low.
LEMMA DriverNotMapped ==
  ASSUME NEW h \in Hco, ~Owned(taken.mapping, h), Naming(taken.mapping, h) # {}
  PROVE  ~taken.mapping[Driver(h)].mapped
<1>1. Naming(taken.mapping, h) \in SUBSET Valve
  BY DEF Naming
<1>2. Driver(h) \in Naming(taken.mapping, h)
  BY <1>1, BoardAssumption DEF Driver, Last
<1> QED BY <1>2 DEF Owned

\* A write that lands, or has landed and is not voided, shows on its output.
LEMMA TickEndsLands ==
  ASSUME WriteInv, NEW drive \in [Hco -> DriveStates], TickEnds(drive), NEW h \in Hco,
         Counts(h)', mapping = taken.mapping
  PROVE  /\ ~dirty'[h]
         /\ IF Owned(mapping, h)
            THEN override'[h] = asked'[h] /\ out'[h] = asked'[h]
            ELSE /\ direct'[h] = asked'[h]
                 /\ out'[h] = IF override'[h] # NoState THEN override'[h]
                             ELSE IF Naming(mapping, h) # {} THEN Low ELSE asked'[h]
<1>1. /\ tick = "sampling" /\ raced' = raced
      /\ asked'[h] = IF Voided(h) THEN NoState ELSE asked[h]
      /\ direct'[h] = IF Lands(h) THEN Written(h)
                      ELSE IF taken.pending.config THEN Low ELSE direct[h]
      /\ override'[h] = IF ~taken.rawDebug \/ Recommanded(h) THEN NoState
                        ELSE IF Lands(h) /\ Owned(taken.mapping, h) THEN Written(h)
                        ELSE override[h]
      /\ out'[h] = Arbitrated(h, drive)
      /\ dirty'[h] = IF taken.pending.outputs THEN FALSE ELSE dirty[h]
  BY DEF TickEnds, DirectNow, OverrideNow, DirtyNow
<1>2. ~Voided(h) /\ asked'[h] = asked[h] /\ asked[h] # NoState /\ Counts(h)
  BY <1>1 DEF Counts
<1>3. Parked(h) /\ Landed(h)
  BY DEF WriteInv
<1>4. CASE dirty[h]
  <2>1. Lands(h) /\ Written(h) = asked[h] /\ ~dirty'[h]
    BY <1>1, <1>2, <1>3, <1>4 DEF Parked, Lands
  <2> QED BY <1>1, <1>2, <2>1, DriverNotMapped DEF Voided, Arbitrated, Owned
<1>5. CASE ~dirty[h]
  <2>1. ~Lands(h) /\ ~dirty'[h] /\ ~taken.pending.config
    BY <1>1, <1>2, <1>5 DEF Lands, Voided
  <2>2. IF Owned(taken.mapping, h)
        THEN override[h] = asked[h]
        ELSE direct[h] = asked[h]
    BY <1>1, <1>2, <1>3, <1>5, <2>1 DEF Landed, RemapSeen, MappingSeen
  <2> QED BY <1>1, <1>2, <2>1, <2>2, DriverNotMapped DEF Voided, Arbitrated, Owned
<1> QED BY <1>4, <1>5 DEF WriteInv, DirectTypeOK

\* A write the tick did not know of stays dirty; it raced, and its flag is up.
LEMMA TickEndsKeepsWrites ==
  ASSUME WriteInv, NEW drive \in [Hco -> DriveStates], TickEnds(drive)
  PROVE  WriteInv'
<1>1. /\ tick = "sampling" /\ tick' = "waiting" /\ dirty' = DirtyNow
      /\ UNCHANGED <<mapping, pending, raced>>
  BY DEF TickEnds
<1>2. RemapFlagged'
  BY <1>1 DEF RemapFlagged
<1>3. NoWriteStranded'
  <2>1. ASSUME NEW h \in Hco, dirty'[h] PROVE dirty[h] /\ ~taken.pending.outputs
    BY <1>1, <2>1 DEF DirtyNow
  <2> QED BY <1>1, <2>1 DEF WriteInv, NoWriteStranded
<1>4. ASSUME NEW h \in Hco PROVE Parked(h)'
  <2>1. SUFFICES ASSUME dirty'[h], Counts(h)' PROVE FALSE
    BY DEF Parked
  <2>2. dirty[h] /\ ~taken.pending.outputs
    BY <1>1, <2>1 DEF DirtyNow
  <2>3. Counts(h)
    BY <2>1 DEF TickEnds, Counts
  <2> QED BY <1>1, <2>2, <2>3 DEF WriteInv, Parked
<1>5. ASSUME NEW h \in Hco PROVE Landed(h)'
  <2>1. SUFFICES ASSUME Counts(h)', ~RemapSeen' PROVE Landed(h)'
    BY DEF Landed
  <2>2. mapping = taken.mapping
    BY <1>1, <2>1 DEF WriteInv, RemapFlagged, RemapSeen
  <2>3. MappingSeen' = mapping
    BY <1>1 DEF MappingSeen
  <2> QED BY <2>1, <2>2, <2>3, TickEndsLands DEF Landed
<1> QED BY <1>2, <1>3, <1>4, <1>5, TickEndsType DEF WriteInv

LEMMA StepKeepsWrites == WriteInv /\ [DirectNext]_directVars => WriteInv'
<1> SUFFICES ASSUME WriteInv, [DirectNext]_directVars PROVE WriteInv'
  OBVIOUS
<1>1. CASE UNCHANGED directVars
  BY <1>1 DEF directVars, wires, outputs, history, WriteInv, DirectTypeOK, RemapFlagged, NoWriteStranded,
              Parked, Landed, Counts, Written, MappingSeen, RemapSeen
<1>2. CASE Write
  BY <1>2, WriteKeepsWrites, OthersKeepWrites DEF Write
<1> QED BY <1>1, <1>2, TickTakesKeepsWrites, TickEndsKeepsWrites DEF DirectNext

LEMMA WriteInvariant == DirectSpec => []WriteInv
  BY InitWrites, StepKeepsWrites, PTL DEF DirectSpec

\* A write is never left behind: whatever is marked dirty is in the tick under
\* way, or a flag is up that makes the next tick take it.
THEOREM WritesAreTaken == DirectSpec => []NoWriteStranded
  BY WriteInvariant, PTL DEF WriteInv

\* Once a tick is done with everything parked, an output shows what the last
\* accepted write asked of it, whatever valves name, unless the write fell between
\* the locks of a tick; an override stuck on the output, or low where an unmapped
\* valve names it, are what it shows instead (store.rs:711, control.rs:389-392).
THEOREM LastWriterWins == DirectSpec => []WritesApplied
<1>1. WriteInv => WritesApplied
  <2> SUFFICES ASSUME WriteInv, tick = "waiting", pending = NothingPending, NEW h \in Hco,
                      ~raced[h], asked[h] # NoState
               PROVE  out[h] = IF Stuck(h) THEN override[h]
                               ELSE IF HeldLow(h) THEN Low ELSE asked[h]
    BY DEF WritesApplied, Shows, Done
  <2>1. ~dirty[h] /\ ~RemapSeen /\ MappingSeen = mapping
    BY DEF WriteInv, NoWriteStranded, NothingPending, RemapSeen, MappingSeen
  <2>2. Landed(h) /\ Counts(h)
    BY DEF WriteInv, Counts
  <2> QED BY <2>1, <2>2 DEF Landed, Stuck, HeldLow
<1> QED BY <1>1, WriteInvariant, PTL
=============================================================================
