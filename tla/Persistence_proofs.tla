-------------------------- MODULE Persistence_proofs ---------------------------
(***************************************************************************)
(* Saving and restoring for every set of configurations, every factory     *)
(* default, any number of requests and power cuts and any flash failure.   *)
(***************************************************************************)
EXTENDS Persistence, TLAPS

(***************************************************************************)
(* What the operators of NorStore return.                                  *)
(***************************************************************************)
LEMMA SlotFacts == \A s \in Slot : 1 - s \in Slot /\ 1 - s # s
  BY DEF Slot

LEMMA SaveSlotType == ASSUME NEW r \in Ram PROVE SaveSlot(r) \in Slot /\ SaveSlot(r) # r.slot
  BY SlotFacts DEF SaveSlot, Ram

LEMMA FreshRamType == FreshRam \in Ram
  BY DEF FreshRam, Ram, Slot

LEMMA NoRecordType == NoRecord \in Sector
  BY DEF Sector

LEMMA NewestType == ASSUME NEW sectors PROVE Newest(sectors) \in Slot
  BY DEF Newest, Slot

LEMMA SectorFields ==
  ASSUME NEW sector \in Sector
  PROVE  sector.seq \in Nat /\ sector.config \in ConfigValue \cup {NoConfig}
  BY DEF Sector, Record, NoRecord

LEMMA LoadedRamType ==
  ASSUME NEW sectors \in [Slot -> Sector] PROVE LoadedRam(sectors) \in Ram
<1>1. Newest(sectors) \in Slot /\ sectors[Newest(sectors)] \in Sector
  BY NewestType
<1>2. sectors[Newest(sectors)].seq \in Nat
  BY <1>1, SectorFields
<1> QED
  BY <1>1, <1>2, FreshRamType, NorAssumption DEF LoadedRam, Stored, Ram

LEMMA SavedRecordType ==
  ASSUME NEW r \in Ram, NEW c \in ConfigValue
  PROVE  SavedRecord(r, c) \in Sector /\ RamAfterSave(r, c) \in Ram
  BY SaveSlotType DEF SavedRecord, RamAfterSave, Ram, Sector, Record

\* Whatever a flash operation does or leaves undone, sectors stay sectors.
LEMMA ErasedType ==
  ASSUME TypeOK, NEW s \in Slot PROVE Erased(s) \in [Slot -> Sector]
  BY NoRecordType DEF TypeOK, Erased

LEMMA WrittenType ==
  ASSUME TypeOK PROVE Written \in [Slot -> Sector]
<1>1. SavedRecord(ram, job.config) \in Sector
  BY SavedRecordType DEF TypeOK
<1> QED
  BY <1>1 DEF TypeOK, Written

LEMMA CutShortType ==
  ASSUME TypeOK, NEW sectors \in CutShort PROVE sectors \in [Slot -> Sector]
<1>1. slots \in [Slot -> Sector] /\ SaveSlot(ram) \in Slot /\ 0 \in Slot /\ 1 \in Slot
  BY SaveSlotType DEF TypeOK, Slot
<1> QED
  BY <1>1, ErasedType, WrittenType DEF CutShort

(***************************************************************************)
(* The parked flags.                                                       *)
(***************************************************************************)
Flags == [save : BOOLEAN, restore : BOOLEAN, config : BOOLEAN]

LEMMA NothingPendingType == NothingPending \in Flags
  BY DEF NothingPending, Flags

LEMMA FlagsType ==
  ASSUME NEW p \in Flags
  PROVE  /\ p.save \in BOOLEAN /\ p.restore \in BOOLEAN
         /\ [p EXCEPT !.save = TRUE] \in Flags
         /\ [p EXCEPT !.restore = TRUE] \in Flags
         /\ [p EXCEPT !.config = TRUE] \in Flags
         /\ [p EXCEPT !.config = FALSE] \in Flags
         /\ [p EXCEPT !.save = FALSE, !.restore = FALSE] \in Flags
  BY DEF Flags

\* An accepted write leaves everything but the store well typed.
LEMMA AcceptType ==
  ASSUME TypeOK, Accept, pending' \in Flags, config' \in ConfigValue,
         server' \in {"serving", "rebooting"}, owed' \in SUBSET ConfigValue
  PROVE  TypeOK'
<1>1. wake' \in BOOLEAN
  BY FlagsType DEF Accept, Signal, TypeOK
<1>2. requests' \in Nat
  <2>1. requests \in Nat /\ requests' = requests + 1
    BY DEF Accept, TypeOK
  <2> QED
    BY <2>1
<1> QED
  BY <1>1, <1>2 DEF Accept, TypeOK, Flags, taskVars
-----------------------------------------------------------------------------
(***************************************************************************)
(* Type correctness.                                                       *)
(***************************************************************************)
LEMMA NoJobType == NoJob \in [restore : BOOLEAN, config : ConfigValue]
  BY PersistenceAssumption, NorAssumption DEF NoJob

LEMMA InitType == Init => TypeOK
<1> SUFFICES ASSUME Init PROVE TypeOK
  OBVIOUS
<1>1. slots \in [Slot -> Sector] /\ ram \in Ram
  BY NoRecordType, FreshRamType DEF Init
<1>2. config \in ConfigValue /\ owed \in SUBSET ConfigValue
  BY PersistenceAssumption, NorAssumption DEF Init
<1>3. pending \in Flags /\ job \in [restore : BOOLEAN, config : ConfigValue]
  BY NothingPendingType, NoJobType DEF Init
<1> QED
  BY <1>1, <1>2, <1>3 DEF Init, TypeOK, Flags

LEMMA BootType ==
  ASSUME TypeOK, NEW sectors \in [Slot -> Sector], Boot(sectors), cuts' \in Nat
  PROVE  TypeOK'
<1>1. ram' \in Ram
  BY LoadedRamType, FreshRamType DEF Boot
<1>2. config' \in ConfigValue
  BY PersistenceAssumption, NorAssumption DEF Boot
<1>3. pending' \in Flags /\ job' \in [restore : BOOLEAN, config : ConfigValue]
  BY NothingPendingType, NoJobType DEF Boot
<1> QED
  BY <1>1, <1>2, <1>3 DEF Boot, TypeOK, Flags

LEMMA NextType == TypeOK /\ [Next]_vars => TypeOK'
<1> SUFFICES ASSUME TypeOK, [Next]_vars PROVE TypeOK'
  OBVIOUS
<1> pending \in Flags
  BY DEF TypeOK, Flags
<1>1. ASSUME NEW new \in ConfigValue, WriteConfig(new) PROVE TypeOK'
  <2>1. pending' \in Flags /\ config' \in ConfigValue /\ server' = server
    BY <1>1, FlagsType DEF WriteConfig
  <2>2. owed' \in SUBSET ConfigValue
    BY <1>1 DEF WriteConfig, TypeOK
  <2> QED
    BY <1>1, <2>1, <2>2, AcceptType DEF WriteConfig, TypeOK
<1>2. CASE RequestSave
  BY <1>2, FlagsType, AcceptType DEF RequestSave, TypeOK
<1>3. CASE RequestRestore
  BY <1>3, FlagsType, AcceptType DEF RequestRestore, TypeOK
<1>4. CASE RequestReboot
  BY <1>4, AcceptType DEF RequestReboot, TypeOK
<1>5. CASE ControlTake
  <2>1. pending' \in Flags
    BY <1>5, FlagsType DEF ControlTake, ControlTakes
  <2> QED
    BY <1>5, <2>1 DEF ControlTake, TypeOK, Flags, taskVars, history
<1>6. CASE PersistWake
  <2>1. pending' \in Flags
    BY <1>6, FlagsType DEF PersistWake
  <2>2. job' \in [restore : BOOLEAN, config : ConfigValue]
    BY <1>6, FlagsType DEF PersistWake, TypeOK
  <2>3. owed' \in SUBSET ConfigValue
    BY <1>6 DEF PersistWake, TypeOK
  <2>4. task' \in {"waiting", "erasing", "writing", "wiping 0", "wiping 1"}
    BY <1>6 DEF PersistWake, Work, AfterSave
  <2>5. stale' \in BOOLEAN
    BY <1>6 DEF PersistWake, TypeOK
  <2> QED
    BY <1>6, <2>1, <2>2, <2>3, <2>4, <2>5 DEF PersistWake, TypeOK, Flags
<1>7. CASE EraseDone
  BY <1>7, SaveSlotType, ErasedType DEF EraseDone, TaskStep, TypeOK, history
<1>8. CASE WriteDone
  <2>1. slots' \in [Slot -> Sector] /\ ram' \in Ram
    BY <1>8, WrittenType, SavedRecordType DEF WriteDone, TypeOK
  <2>2. stale' \in BOOLEAN
    BY <1>8 DEF WriteDone, TypeOK
  <2> QED
    BY <1>8, <2>1, <2>2 DEF WriteDone, TaskStep, AfterSave, TypeOK
<1>9. CASE FirstWiped
  <2>1. Erased(0) \in [Slot -> Sector]
    BY ErasedType DEF Slot
  <2> QED
    BY <1>9, <2>1 DEF FirstWiped, TaskStep, TypeOK, history
<1>10. CASE SecondWiped
  <2>1. Erased(1) \in [Slot -> Sector]
    BY ErasedType DEF Slot
  <2>2. pending' \in Flags
    BY <1>10, FlagsType DEF SecondWiped
  <2>3. config' \in ConfigValue /\ owed' \in SUBSET ConfigValue
    BY <1>10, PersistenceAssumption, NorAssumption DEF SecondWiped, TypeOK
  <2> QED
    BY <1>10, <2>1, <2>2, <2>3, FreshRamType DEF SecondWiped, TaskStep, TypeOK, Flags
<1>11. CASE FlashError
  <2>1. slots' \in [Slot -> Sector]
    BY <1>11, CutShortType DEF FlashError
  <2>2. task' \in {"waiting", "wiping 0"}
    BY <1>11 DEF FlashError, AfterSave
  <2>3. stale' \in BOOLEAN /\ owed' \in SUBSET ConfigValue
    BY <1>11 DEF FlashError, TypeOK
  <2> QED
    BY <1>11, <2>1, <2>2, <2>3 DEF FlashError, TaskStep, TypeOK
<1>12. CASE PowerCut
  <2>1. PICK sectors \in CutShort : Boot(sectors)
    BY <1>12 DEF PowerCut
  <2>2. cuts \in Nat /\ cuts' = cuts + 1
    BY <1>12 DEF PowerCut, TypeOK
  <2>3. cuts' \in Nat
    BY <2>2
  <2> QED
    BY <2>1, <2>3, CutShortType, BootType
<1>13. CASE Reboot
  BY <1>13, BootType DEF Reboot, TypeOK
<1>14. CASE UNCHANGED vars
  BY <1>14 DEF vars, taskVars, history, TypeOK
<1> QED
  BY <1>1, <1>2, <1>3, <1>4, <1>5, <1>6, <1>7, <1>8, <1>9, <1>10, <1>11, <1>12, <1>13, <1>14
  DEF Next, Request, FlashStep

\* Every reachable state is well typed: in particular the save slot stays a
\* slot and sectors hold records or nothing (persist.rs:470-482).
THEOREM PersistenceType == Spec => []TypeOK
  BY InitType, NextType, PTL DEF Spec
-----------------------------------------------------------------------------
(***************************************************************************)
(* No parked request is slept through.                                     *)
(***************************************************************************)
LEMMA NextWake == TypeOK /\ WakeCoversPending /\ [Next]_vars => WakeCoversPending'
<1> SUFFICES ASSUME TypeOK, WakeCoversPending, [Next]_vars PROVE WakeCoversPending'
  OBVIOUS
<1> USE DEF WakeCoversPending
<1> pending \in Flags
  BY DEF TypeOK, Flags
<1>1. ASSUME Accept PROVE WakeCoversPending'
  BY <1>1 DEF Accept, Signal
<1>2. CASE Request
  BY <1>1, <1>2 DEF Request, WriteConfig, RequestSave, RequestRestore, RequestReboot
<1>3. CASE ControlTake
  BY <1>3 DEF ControlTake, ControlTakes, Flags
<1>4. CASE PersistWake
  BY <1>4 DEF PersistWake, Flags
<1>5. CASE FlashStep
  BY <1>5 DEF FlashStep, EraseDone, WriteDone, FirstWiped, SecondWiped, FlashError, TaskStep, Flags
<1>6. CASE PowerCut \/ Reboot
  BY <1>6 DEF PowerCut, Reboot, Boot, NothingPending
<1>7. CASE UNCHANGED vars
  BY <1>7 DEF vars
<1> QED
  BY <1>2, <1>3, <1>4, <1>5, <1>6, <1>7 DEF Next

\* A save or a restore that is parked always has the signal up, whatever takes
\* flags and signal in between (store.rs:38-39, node.rs:172-180).
THEOREM NoRequestSleeps == Spec => []WakeCoversPending
<1>1. Init => WakeCoversPending
  BY DEF Init, WakeCoversPending, NothingPending
<1> QED
  BY <1>1, InitType, NextType, NextWake, PTL DEF Spec
-----------------------------------------------------------------------------
(***************************************************************************)
(* A save covers what it was asked for.                                    *)
(***************************************************************************)
LEMMA SlotIsSaveOrNewest == ASSUME NEW s \in Slot, NEW r \in Ram, s # SaveSlot(r) PROVE s = r.slot
  BY DEF SaveSlot, Ram, Slot

\* The fields of the sectors after an operation on one of them.
LEMMA ErasedSectors ==
  ASSUME TypeOK, NEW s \in Slot
  PROVE  Erased(s)[s] = NoRecord /\ \A t \in Slot : t # s => Erased(s)[t] = slots[t]
  BY DEF TypeOK, Erased

LEMMA WrittenSectors ==
  ASSUME TypeOK
  PROVE  /\ Written[SaveSlot(ram)] = [seq |-> ram.seq + 1, config |-> job.config]
         /\ Written[ram.slot] = slots[ram.slot]
<1>1. ram.slot \in Slot /\ SaveSlot(ram) \in Slot /\ SaveSlot(ram) # ram.slot
  BY SaveSlotType DEF TypeOK, Ram
<1> QED
  BY <1>1 DEF TypeOK, Written, SavedRecord

\* A booted board's mirror agrees with its sectors.
LEMMA BootMirrored ==
  ASSUME NEW sectors \in [Slot -> Sector], Boot(sectors) PROVE Mirrored'
<1>1. CASE ram' = FreshRam
  BY <1>1 DEF Mirrored, FreshRam
<1>2. CASE ram' = LoadedRam(sectors) /\ Stored(sectors) \in Sane
  <2>1. Newest(sectors) \in Slot /\ sectors[Newest(sectors)] \in Sector
    BY NewestType
  <2>2. Stored(sectors) # NoConfig
    BY <1>2, NorAssumption
  <2>3. sectors[Newest(sectors)] \in Record
    BY <2>1, <2>2 DEF Sector, NoRecord, Stored
  <2> DEFINE newest == sectors[Newest(sectors)]
  <2>4. newest = [seq |-> newest.seq, config |-> newest.config]
    BY <2>3 DEF Record
  <2>5. /\ ram'.slot = Newest(sectors) /\ ram'.seq = newest.seq
        /\ ram'.body = newest.config
    BY <1>2 DEF LoadedRam, Stored
  <2>6. slots' = sectors
    BY DEF Boot
  <2> HIDE DEF newest
  <2>7. slots'[ram'.slot] = newest
    BY <2>5, <2>6 DEF newest
  <2> QED
    BY <2>4, <2>5, <2>7 DEF Mirrored
<1> QED
  BY <1>1, <1>2 DEF Boot

LEMMA BootSaveInv ==
  ASSUME NEW sectors \in [Slot -> Sector], Boot(sectors) PROVE SaveInv'
  BY BootMirrored DEF SaveInv, OwedKept, RestoreOwesNothing, Wiping, Saving, Boot

LEMMA NextSaveInv == TypeOK /\ SaveInv /\ [Next]_vars => SaveInv'
<1> SUFFICES ASSUME TypeOK, SaveInv, [Next]_vars PROVE SaveInv'
  OBVIOUS
<1> pending \in Flags
  BY DEF TypeOK, Flags
<1>1. ASSUME NEW new \in ConfigValue, WriteConfig(new) PROVE SaveInv'
  BY <1>1 DEF WriteConfig, Accept, SaveInv, Mirrored, OwedKept, RestoreOwesNothing,
     Wiping, Saving, taskVars, Flags
<1>2. CASE RequestSave
  BY <1>2 DEF RequestSave, Accept, SaveInv, Mirrored, OwedKept, RestoreOwesNothing,
     Wiping, Saving, taskVars, Flags
<1>3. CASE RequestRestore
  BY <1>3 DEF RequestRestore, Accept, SaveInv, Mirrored, OwedKept, RestoreOwesNothing,
     Wiping, Saving, taskVars, Flags
<1>4. CASE RequestReboot
  BY <1>4 DEF RequestReboot, Accept, SaveInv, Mirrored, OwedKept, RestoreOwesNothing,
     Wiping, Saving, taskVars
<1>5. CASE ControlTake
  BY <1>5 DEF ControlTake, ControlTakes, SaveInv, Mirrored, OwedKept, RestoreOwesNothing,
     Wiping, Saving, taskVars, history, Flags
<1>6. CASE PersistWake
  <2>1. /\ ~pending'.save /\ job'.restore = pending.restore /\ job'.config = config
        /\ UNCHANGED <<slots, ram>> /\ task = "waiting"
    BY <1>6 DEF PersistWake, Flags
  <2>2. /\ task' = Work(pending.save, pending.restore)
        /\ owed' = IF pending.restore \/ config \notin Sane THEN {} ELSE owed
        /\ stale' = (stale \/ task' = "wiping 0")
    BY <1>6 DEF PersistWake
  <2>3. Mirrored' /\ (Wiping => stale)'
    BY <2>1, <2>2 DEF SaveInv, Mirrored, Wiping, Work, AfterSave
  <2>4. RestoreOwesNothing'
    BY <2>1, <2>2 DEF RestoreOwesNothing, Wiping, Saving, Work, AfterSave
  <2>5. ASSUME pending.save, NeedsFlash(ram, config) PROVE OwedKept'
    <3>1. task' = "erasing"
      BY <2>2, <2>5 DEF Work
    <3>2. owed' # {} => owed' = owed /\ config \in owed
      BY <2>2, <2>5 DEF SaveInv, OwedKept
    <3> QED
      BY <2>1, <3>1, <3>2 DEF OwedKept, Saving
  <2>6. ASSUME ~(pending.save /\ NeedsFlash(ram, config)) PROVE OwedKept'
    <3>1. ~Saving'
      BY <2>2, <2>6 DEF Saving, Work, AfterSave
    <3>2. ASSUME owed' # {}, ~stale' PROVE slots[ram.slot].config \in owed
      <4>1. owed' = owed /\ owed # {} /\ config \in Sane /\ ~stale
        BY <2>2, <3>2
      <4>2. CASE ~pending.save
        BY <2>1, <4>1, <4>2 DEF SaveInv, OwedKept, Saving
      <4>3. CASE pending.save
        <5>1. config \in owed
          BY <4>1, <4>3 DEF SaveInv, OwedKept
        <5>2. ram.body = config /\ config # NoConfig
          BY <2>6, <4>1, <4>3, NorAssumption DEF NeedsFlash, Unchanged
        <5>3. slots[ram.slot].config = config
          BY <4>1, <5>2 DEF SaveInv, Mirrored
        <5> QED
          BY <5>1, <5>3
      <4> QED
        BY <4>2, <4>3
    <3>3. owed' # {} => owed' = owed
      BY <2>2
    <3> QED
      BY <2>1, <3>1, <3>2, <3>3 DEF OwedKept
  <2> QED
    BY <2>3, <2>4, <2>5, <2>6 DEF SaveInv
<1>7. CASE EraseDone
  <2>1. slots'[ram.slot] = slots[ram.slot]
    BY <1>7, SaveSlotType, ErasedSectors DEF EraseDone, TypeOK, Ram
  <2> QED
    BY <1>7, <2>1 DEF EraseDone, TaskStep, SaveInv, Mirrored, OwedKept, RestoreOwesNothing,
       Wiping, Saving, history
<1>8. CASE WriteDone
  <2>1. ram' = [seq |-> ram.seq + 1, slot |-> SaveSlot(ram), body |-> job.config]
    BY <1>8 DEF WriteDone, RamAfterSave
  <2>2. slots'[ram'.slot] = [seq |-> ram.seq + 1, config |-> job.config]
    BY <1>8, <2>1, WrittenSectors DEF WriteDone
  <2>3. Mirrored'
    BY <2>1, <2>2 DEF Mirrored
  <2>4. (Wiping => stale)' /\ RestoreOwesNothing'
    BY <1>8 DEF WriteDone, TaskStep, AfterSave, SaveInv, RestoreOwesNothing, Wiping, Saving
  <2>5. ~Saving' /\ pending' = pending /\ owed' = owed /\ config' = config /\ task = "writing"
    BY <1>8 DEF WriteDone, TaskStep, AfterSave, Saving
  <2>6. slots'[ram'.slot].config = job.config
    BY <2>2
  <2>7. owed # {} => IF pending.save THEN config \in owed ELSE job.config \in owed
    BY <2>5 DEF SaveInv, OwedKept, Saving
  <2>8. OwedKept'
    BY <2>5, <2>6, <2>7 DEF OwedKept
  <2> QED
    BY <2>3, <2>4, <2>8 DEF SaveInv
<1>9. CASE FirstWiped
  BY <1>9 DEF FirstWiped, TaskStep, SaveInv, Mirrored, OwedKept, RestoreOwesNothing,
     Wiping, Saving, history
<1>10. CASE SecondWiped
  <2>1. Mirrored'
    BY <1>10 DEF SecondWiped, Mirrored, FreshRam
  <2>2. pending'.save = pending.save
    BY <1>10 DEF SecondWiped, Flags
  <2> QED
    BY <1>10, <2>1, <2>2 DEF SecondWiped, TaskStep, SaveInv, OwedKept, RestoreOwesNothing,
       Wiping, Saving
<1>11. CASE FlashError
  <2>1. ~stale' => ~Wiping /\ ~stale /\ slots'[ram.slot] = slots[ram.slot]
    <3>1. CASE Wiping
      BY <1>11, <3>1 DEF FlashError, SaveInv
    <3>2. CASE task = "erasing"
      <4>1. Erased(SaveSlot(ram))[ram.slot] = slots[ram.slot]
        BY SaveSlotType, ErasedSectors DEF TypeOK, Ram
      <4> QED
        BY <1>11, <3>2, <4>1 DEF FlashError, CutShort, Wiping
    <3>3. CASE task = "writing"
      BY <1>11, <3>3 DEF FlashError, Wiping
    <3> QED
      BY <1>11, <3>1, <3>2, <3>3 DEF FlashError, TypeOK, Wiping
  <2>2. Mirrored' /\ (Wiping => stale)'
    BY <1>11, <2>1 DEF FlashError, SaveInv, Mirrored, Wiping, AfterSave
  <2> QED
    BY <1>11, <2>2 DEF FlashError, TaskStep, AfterSave, SaveInv, OwedKept, RestoreOwesNothing
<1>12. CASE PowerCut
  BY <1>12, CutShortType, BootSaveInv DEF PowerCut
<1>13. CASE Reboot
  BY <1>13, BootSaveInv DEF Reboot, TypeOK
<1>14. CASE UNCHANGED vars
  BY <1>14 DEF vars, taskVars, history, SaveInv, Mirrored, OwedKept, RestoreOwesNothing,
     Wiping, Saving
<1> QED
  BY <1>1, <1>2, <1>3, <1>4, <1>5, <1>6, <1>7, <1>8, <1>9, <1>10, <1>11, <1>12, <1>13, <1>14
  DEF Next, Request, FlashStep

LEMMA SaveInvariant == Spec => [](TypeOK /\ SaveInv)
<1>1. Init => SaveInv
  BY DEF Init, SaveInv, Mirrored, OwedKept, RestoreOwesNothing, Wiping, Saving, FreshRam
<1> QED
  BY <1>1, InitType, NextType, NextSaveInv, PTL DEF Spec

\* Once the persistence task is idle with nothing parked, what it was asked to
\* save is on the chip (store.rs:87-90).
THEOREM SavesCovered == Spec => []SaveCoversRequest
<1>1. TypeOK /\ SaveInv => SaveCoversRequest
  BY DEF TypeOK, SaveInv, OwedKept, SaveCoversRequest, Saving
<1> QED
  BY <1>1, SaveInvariant, PTL

\* What the RAM mirror calls stored is stored (persist.rs:395-400).
THEOREM MirrorTrue == Spec => []Mirrored
<1>1. SaveInv => Mirrored
  BY DEF SaveInv
<1> QED
  BY <1>1, SaveInvariant, PTL

\* A reboot never cuts off a save that was accepted before it (sdo.rs:189-201).
THEOREM RebootSafe == Spec => RebootCutsNothing
<1>1. TypeOK /\ SaveInv /\ [Next]_vars =>
        [Reboot /\ owed # {} /\ ~stale => slots[ram.slot].config \in owed]_vars
  BY DEF SaveInv, OwedKept, Reboot, NothingQueued, Saving
<1> QED
  BY <1>1, SaveInvariant, PTL DEF Spec, RebootCutsNothing
-----------------------------------------------------------------------------
(***************************************************************************)
(* The two sectors implement a durable configuration, whether boots load   *)
(* or not: for every set of configurations, any number of requests and     *)
(* power cuts, and any flash failure.  The argument: of the records it has *)
(* not inherited unread, the mirror in RAM knows which a load would choose; *)
(* so once none is inherited only the other sector is ever erased, and a   *)
(* finished write outnumbers it.                                           *)
(***************************************************************************)

(***************************************************************************)
(* The sectors, seen as a load sees them.                                  *)
(***************************************************************************)
LEMMA SectorSeq ==
  ASSUME NEW sectors \in [Slot -> Sector], NEW s \in Slot
  PROVE  /\ sectors[s] \in Sector /\ sectors[s].seq \in Nat
         /\ sectors[s] = NoRecord => sectors[s].seq = 0 /\ sectors[s].config = NoConfig
<1>1. sectors[s] \in Sector
  OBVIOUS
<1> QED
  BY <1>1, SectorFields DEF NoRecord

LEMMA SlotPair == 0 \in Slot /\ 1 \in Slot /\ \A s \in Slot : s = 0 \/ s = 1
  BY DEF Slot

\* A load never finds a config that fails the sanity check.
LEMMA StoredSane ==
  ASSUME NEW sectors \in [Slot -> Sector], Sound(sectors)
  PROVE  Stored(sectors) \in Sane \cup {NoConfig}
<1>1. Newest(sectors) \in Slot
  BY NewestType
<1> QED
  BY <1>1, SectorSeq DEF Stored, Sound

\* A readable record that outnumbers the other sector is the one loaded.
LEMMA Outnumbers ==
  ASSUME NEW sectors \in [Slot -> Sector], NEW s \in Slot, NEW t \in Slot, s # t,
         sectors[t].seq < sectors[s].seq
  PROVE  Newest(sectors) = s
<1>1. sectors[s] # NoRecord
  <2>1. sectors[s].seq # 0
    BY SectorSeq
  <2> QED
    BY <2>1, SectorSeq
<1>2. CASE s = 1
  <2>1. t = 0
    BY <1>2, SlotPair
  <2> QED
    BY <1>1, <1>2, <2>1 DEF Newest, Readable
<1>3. CASE s = 0
  <2>1. t = 1
    BY <1>3, SlotPair
  <2>2. sectors[1].seq < sectors[0].seq /\ sectors[1].seq \in Nat /\ sectors[0].seq \in Nat
    BY <1>3, <2>1, SectorSeq
  <2>3. ~(sectors[1].seq > sectors[0].seq)
    BY <2>2
  <2> QED
    BY <1>1, <1>3, <2>3 DEF Newest, Readable
<1> QED
  BY <1>2, <1>3, SlotPair

LEMMA EmptyStored ==
  ASSUME NEW sectors \in [Slot -> Sector], \A s \in Slot : sectors[s] = NoRecord
  PROVE  Stored(sectors) = NoConfig
  BY NewestType, SectorSeq DEF Stored

\* No two records carry the same number: one sector has the odd ones.
LEMMA SoundDistinct ==
  ASSUME NEW sectors \in [Slot -> Sector], Sound(sectors), sectors[0].seq = sectors[1].seq
  PROVE  sectors[0] = NoRecord
<1>1. SUFFICES ASSUME sectors[0] # NoRecord PROVE FALSE
  OBVIOUS
<1>2. sectors[0].seq > 0 /\ sectors[0].seq % 2 = 1
  BY <1>1, SlotPair DEF Sound
<1>3. sectors[1] # NoRecord
  BY <1>2, SectorSeq, SlotPair
<1>4. sectors[1].seq % 2 = 0
  BY <1>3, SlotPair DEF Sound
<1> QED
  BY <1>2, <1>4

LEMMA NextIsOther == ASSUME NEW n \in Nat, NEW s \in Slot, n % 2 = 1 - s PROVE (n + 1) % 2 = s
  BY DEF Slot

LEMMA ErasedSound ==
  ASSUME TypeOK, Sound(slots), NEW s \in Slot PROVE Sound(Erased(s))
<1>1. Erased(s)[s] = NoRecord /\ \A t \in Slot : t # s => Erased(s)[t] = slots[t]
  BY ErasedSectors
<1> QED
  BY <1>1 DEF Sound

LEMMA WrittenSound ==
  ASSUME TypeOK, Sound(slots), MirrorLeads, job.config \in Sane PROVE Sound(Written)
<1>1. /\ ram.slot \in Slot /\ SaveSlot(ram) \in Slot /\ SaveSlot(ram) # ram.slot
      /\ ram.seq \in Nat
  BY SaveSlotType DEF TypeOK, Ram
<1>2. /\ Written[SaveSlot(ram)] = [seq |-> ram.seq + 1, config |-> job.config]
      /\ Written[ram.slot] = slots[ram.slot]
  BY WrittenSectors
<1>3. (ram.seq + 1) % 2 = ram.slot
  BY <1>1, NextIsOther DEF MirrorLeads
<1>4. ram.slot = 1 - SaveSlot(ram) /\ \A s \in Slot : s = ram.slot \/ s = SaveSlot(ram)
  BY <1>1, SlotPair
<1>5. ram.seq + 1 > 0
  BY <1>1
<1> QED
  BY <1>2, <1>3, <1>4, <1>5 DEF Sound

\* Whenever the flash is interrupted, the sectors stay sound.
LEMMA CutShortSound ==
  ASSUME TypeOK, DurableInv, NEW sectors \in CutShort PROVE Sound(sectors)
<1>1. SaveSlot(ram) \in Slot
  BY SaveSlotType DEF TypeOK
<1>2. ASSUME task = "writing" PROVE Sound(Written)
  BY <1>2, WrittenSound DEF DurableInv, Saving
<1> QED
  BY <1>1, <1>2, ErasedSound, SlotPair DEF CutShort, DurableInv
-----------------------------------------------------------------------------
(***************************************************************************)
(* The mirror.                                                             *)
(***************************************************************************)
\* While the promise is in force, the sector the next save takes is not the
\* one a load would choose, and erasing it changes nothing for a load.
LEMMA MirrorChoosesNewest ==
  ASSUME TypeOK, Sound(slots), MirrorLeads, Mirrored, ~stale, inherited = {}
  PROVE  /\ Stored(slots) = NoConfig \/ Newest(slots) = ram.slot
         /\ Stored(Erased(SaveSlot(ram))) = Stored(slots)
<1> DEFINE other == SaveSlot(ram)
           after == Erased(other)
<1>1. ram.slot \in Slot /\ other \in Slot /\ other # ram.slot /\ ram.seq \in Nat
  BY SaveSlotType DEF TypeOK, Ram
<1>2. /\ slots \in [Slot -> Sector] /\ after \in [Slot -> Sector]
      /\ after[other] = NoRecord /\ after[ram.slot] = slots[ram.slot]
  BY <1>1, ErasedType, ErasedSectors DEF TypeOK
<1>3. /\ slots[other].seq \in Nat /\ slots[ram.slot].seq \in Nat
      /\ KnownSeq(other) = slots[other].seq /\ KnownSeq(ram.slot) = slots[ram.slot].seq
  BY <1>1, <1>2, SectorSeq DEF KnownSeq
<1>4. slots[other].seq < ram.seq \/ slots[other].seq = 0
  BY <1>3 DEF MirrorLeads
<1>5. CASE ram.seq = 0
  <2>1. slots[ram.slot].seq = 0 /\ slots[other].seq = 0
    BY <1>3, <1>4, <1>5 DEF MirrorLeads
  <2>2. slots[ram.slot] = NoRecord /\ slots[other] = NoRecord
    BY <1>1, <2>1 DEF Sound
  <2>3. \A s \in Slot : slots[s] = NoRecord /\ after[s] = NoRecord
    BY <1>1, <1>2, <2>2, SlotPair
  <2> QED
    BY <1>2, <2>3, EmptyStored
<1>6. CASE ram.seq > 0
  <2>1. slots[ram.slot].seq = ram.seq
    BY <1>3, <1>6 DEF MirrorLeads, Mirrored
  <2>2. slots[other].seq < slots[ram.slot].seq
    BY <1>4, <1>6, <2>1
  <2>3. after[other].seq < after[ram.slot].seq
    BY <1>1, <1>2, <1>6, <2>1, SectorSeq
  <2>4. Newest(slots) = ram.slot /\ Newest(after) = ram.slot
    BY <1>1, <1>2, <2>2, <2>3, Outnumbers
  <2> QED
    BY <1>2, <2>4 DEF Stored
<1> QED
  BY <1>1, <1>5, <1>6

\* A write that was done is what the next load finds.
LEMMA WrittenStored ==
  ASSUME TypeOK, MirrorLeads, inherited = {} PROVE Stored(Written) = job.config
<1>1. /\ ram.slot \in Slot /\ SaveSlot(ram) \in Slot /\ SaveSlot(ram) # ram.slot
      /\ ram.seq \in Nat
  BY SaveSlotType DEF TypeOK, Ram
<1>2. /\ Written[SaveSlot(ram)] = [seq |-> ram.seq + 1, config |-> job.config]
      /\ Written[ram.slot] = slots[ram.slot]
  BY WrittenSectors
<1>3. Written[ram.slot].seq < Written[SaveSlot(ram)].seq
  BY <1>1, <1>2 DEF MirrorLeads, KnownSeq
<1>4. Newest(Written) = SaveSlot(ram)
  BY <1>1, <1>3, WrittenType, Outnumbers
<1> QED
  BY <1>2, <1>4 DEF Stored
-----------------------------------------------------------------------------
(***************************************************************************)
(* The invariant.                                                          *)
(***************************************************************************)
\* A boot that loads brings the mirror back in step with the sectors; one that
\* does not knows nothing of them.
LEMMA BootLeads ==
  ASSUME NEW sectors \in [Slot -> Sector], Sound(sectors), Boot(sectors), fitted'
  PROVE  MirrorLeads'
<1> DEFINE s == Newest(sectors)
<1>1. slots' = sectors /\ s \in Slot /\ 1 - s \in Slot /\ 1 - s # s
  BY NewestType, SlotFacts DEF Boot
<1>2. sectors[s].seq \in Nat /\ sectors[1 - s].seq \in Nat
  BY <1>1, SectorSeq
<1>3. CASE Stored(sectors) \in Sane /\ ram' = LoadedRam(sectors) /\ inherited' = {}
  <2>1. ram' = [seq |-> sectors[s].seq, slot |-> s, body |-> Stored(sectors)]
    BY <1>3 DEF LoadedRam
  <2>2. SaveSlot(ram') = 1 - s
    BY <2>1 DEF SaveSlot
  <2>3. \A t \in Slot : KnownSeq(t)' = sectors[t].seq
    BY <1>1, <1>3 DEF KnownSeq
  <2>4. Stored(sectors) # NoConfig /\ sectors[s] # NoRecord
    BY <1>1, <1>3, SectorSeq, NorAssumption DEF Stored
  <2>5. sectors[s].seq % 2 = 1 - s
    BY <1>1, <2>4 DEF Sound
  <2>6. sectors[1 - s].seq < sectors[s].seq \/ sectors[1 - s].seq = 0
    <3>1. CASE s = 1
      BY <1>1, <1>2, <3>1, SectorSeq, SlotPair DEF Newest, Readable
    <3>2. CASE s = 0
      <4>1. sectors[1] = NoRecord \/ ~(sectors[1].seq > sectors[0].seq)
        BY <3>2 DEF Newest, Readable
      <4>2. sectors[1] = NoRecord => sectors[1].seq = 0
        BY SectorSeq, SlotPair
      <4>3. sectors[0].seq # sectors[1].seq
        BY <2>4, <3>2, SoundDistinct
      <4> QED
        BY <1>2, <3>2, <4>1, <4>2, <4>3
    <3> QED
      BY <1>1, <3>1, <3>2, SlotPair
  <2>7. sectors[1 - s].seq # sectors[s].seq + 1
    BY <1>2, <2>6
  <2> QED
    BY <1>1, <2>1, <2>2, <2>3, <2>4, <2>5, <2>6, <2>7 DEF MirrorLeads, Behind
<1>4. CASE ram' = FreshRam /\ inherited' = {t \in Slot : Readable(sectors[t])}
  <2>1. \A t \in Slot : KnownSeq(t)' = 0
    BY <1>1, <1>4, SectorSeq DEF KnownSeq, Readable
  <2>2. ram'.seq = 0 /\ ram'.slot = 1 /\ ram'.slot \in Slot /\ SaveSlot(ram') \in Slot
    BY <1>4, FreshRamType, SaveSlotType DEF FreshRam, Slot
  <2>3. 0 % 2 = 1 - 1
    OBVIOUS
  <2> QED
    BY <2>1, <2>2, <2>3 DEF MirrorLeads, Behind
<1> QED
  BY <1>3, <1>4 DEF Boot

LEMMA BootDurable ==
  ASSUME NEW sectors \in [Slot -> Sector], Sound(sectors), Boot(sectors)
  PROVE  DurableInv'
<1>1. Sound(slots)' /\ ~Saving' /\ task' = "waiting"
  BY DEF Boot, Sound, Saving
<1> QED
  BY <1>1, BootLeads DEF DurableInv

\* What the mirror knows of a sector after a step.
KnownSeqNext(s) == IF s \in inherited' THEN 0 ELSE slots'[s].seq

\* A step that leaves the mirror alone may take records away from it, or leave
\* one behind that the flash called failed.
LEMMA LeadsKept ==
  ASSUME TypeOK, MirrorLeads, ram' = ram, stale => stale',
         KnownSeqNext(ram.slot) \in {0, KnownSeq(ram.slot)},
         \/ KnownSeqNext(SaveSlot(ram)) \in {0, KnownSeq(SaveSlot(ram))}
         \/ KnownSeqNext(SaveSlot(ram)) = ram.seq + 1 /\ stale'
  PROVE  MirrorLeads'
<1>1. /\ KnownSeq(ram.slot)' = KnownSeqNext(ram.slot)
      /\ KnownSeq(SaveSlot(ram))' = KnownSeqNext(SaveSlot(ram))
  BY DEF KnownSeq, KnownSeqNext
<1>2. ram.seq \in Nat
  BY DEF TypeOK, Ram
<1>3. 0 # ram.seq + 1
  BY <1>2
<1> QED
  BY <1>1, <1>2, <1>3 DEF MirrorLeads, Behind

\* A flash step disowns what it changes and keeps what it knew of the rest.
LEMMA KnownAfter ==
  ASSUME TaskStep, NEW s \in Slot
  PROVE  /\ KnownSeqNext(s) \in {0, slots'[s].seq}
         /\ slots'[s] = slots[s] => KnownSeqNext(s) = KnownSeq(s)
  BY DEF TaskStep, KnownSeqNext, KnownSeq

LEMMA NextDurableInv ==
  TypeOK /\ SaveInv /\ DurableInv /\ [Next]_vars => DurableInv'
<1> SUFFICES ASSUME TypeOK, SaveInv, DurableInv, [Next]_vars PROVE DurableInv'
  OBVIOUS
<1> DEFINE other == SaveSlot(ram)
<1>0. /\ ram.slot \in Slot /\ other \in Slot /\ other # ram.slot /\ ram.seq \in Nat
      /\ slots \in [Slot -> Sector]
  BY SaveSlotType DEF TypeOK, Ram
<1>1. CASE Request \/ ControlTake
  <2>1. UNCHANGED <<fitted, task, job, slots, ram, stale, inherited>>
    BY <1>1 DEF Request, WriteConfig, RequestSave, RequestRestore, RequestReboot, Accept,
       ControlTake, taskVars, history
  <2> QED
    BY <2>1 DEF DurableInv, Sound, Saving, MirrorLeads, Behind, KnownSeq
<1>2. CASE PersistWake
  <2>1. /\ UNCHANGED <<fitted, slots, ram, inherited>> /\ fitted
        /\ stale => stale'
        /\ job'.config = config /\ task' = Work(pending.save, pending.restore)
    BY <1>2 DEF PersistWake
  <2>2. Saving' => job'.config \in Sane
    BY <2>1 DEF Saving, Work, AfterSave, NeedsFlash
  <2>3. task' # "wiping 1"
    BY <2>1 DEF Work, AfterSave
  <2>4. \A s \in Slot : KnownSeqNext(s) = KnownSeq(s)
    BY <2>1 DEF KnownSeqNext, KnownSeq
  <2> QED
    BY <1>0, <2>1, <2>2, <2>3, <2>4, LeadsKept DEF DurableInv, Sound
<1>3. CASE EraseDone
  <2>1. /\ UNCHANGED <<fitted, ram, job, stale>> /\ slots' = Erased(other)
        /\ task' = "writing" /\ task = "erasing"
    BY <1>3 DEF EraseDone, TaskStep
  <2>2. KnownSeqNext(other) = 0 /\ KnownSeqNext(ram.slot) = KnownSeq(ram.slot)
    <3>1. slots'[other].seq = 0 /\ slots'[ram.slot] = slots[ram.slot]
      BY <1>0, <2>1, ErasedSectors DEF NoRecord
    <3> QED
      BY <1>0, <1>3, <3>1, KnownAfter DEF EraseDone
  <2>3. Sound(slots)'
    BY <1>0, <2>1, ErasedSound DEF DurableInv, Sound
  <2>4. MirrorLeads'
    BY <2>1, <2>2, LeadsKept DEF DurableInv
  <2> QED
    BY <2>1, <2>3, <2>4 DEF DurableInv, Saving
<1>4. CASE WriteDone
  <2>1. /\ UNCHANGED <<fitted, job>> /\ slots' = Written /\ task = "writing"
        /\ ram' = [seq |-> ram.seq + 1, slot |-> other, body |-> job.config]
        /\ task' \in {"waiting", "wiping 0"}
    BY <1>4 DEF WriteDone, TaskStep, RamAfterSave, AfterSave
  <2>2. fitted /\ MirrorLeads /\ job.config \in Sane
    BY <2>1 DEF DurableInv, Saving
  <2>3. Sound(slots)'
    BY <2>1, <2>2, WrittenSound DEF DurableInv, Sound
  <2>4. ram'.slot = other /\ SaveSlot(ram') = ram.slot
    <3>1. ram'.slot = 1 - ram.slot
      BY <2>1 DEF SaveSlot
    <3>2. 1 - ram'.slot = ram.slot
      BY <1>0, <3>1, SlotPair
    <3> QED
      BY <2>1, <3>2 DEF SaveSlot
  <2>5. /\ KnownSeqNext(ram'.slot) \in {0, ram.seq + 1}
        /\ KnownSeqNext(ram.slot) \in {0, ram.seq}
    <3>1. /\ slots'[other] = [seq |-> ram.seq + 1, config |-> job.config]
          /\ slots'[ram.slot] = slots[ram.slot]
      BY <2>1, WrittenSectors
    <3>2. slots'[other].seq = ram.seq + 1
      BY <3>1
    <3>3. /\ KnownSeqNext(other) \in {0, slots'[other].seq}
          /\ KnownSeqNext(ram.slot) = KnownSeq(ram.slot)
      BY <1>0, <1>4, <3>1, KnownAfter DEF WriteDone
    <3> QED
      BY <2>2, <2>4, <3>2, <3>3 DEF MirrorLeads
  <2>6. ram'.body # NoConfig
    BY <2>1, NorAssumption DEF TypeOK
  <2>7. MirrorLeads'
    <3>1. ram'.seq = ram.seq + 1
      BY <2>1
    <3>2. KnownSeqNext(ram.slot) < ram'.seq /\ KnownSeqNext(ram.slot) # ram'.seq + 1
      BY <1>0, <2>5, <3>1
    <3>3. /\ KnownSeq(ram.slot)' = KnownSeqNext(ram'.slot)
          /\ KnownSeq(SaveSlot(ram))' = KnownSeqNext(ram.slot)
      BY <2>4 DEF KnownSeq, KnownSeqNext
    <3>4. (ram.seq + 1) % 2 = ram.slot /\ ram.slot = 1 - other
      BY <1>0, <2>2, NextIsOther, SlotPair DEF MirrorLeads
    <3> QED
      BY <2>4, <2>5, <2>6, <3>1, <3>2, <3>3, <3>4 DEF MirrorLeads, Behind
  <2> QED
    BY <2>1, <2>2, <2>3, <2>7 DEF DurableInv, Saving
<1>5. CASE FirstWiped
  <2>1. /\ UNCHANGED <<fitted, ram, job, stale>> /\ slots' = Erased(0)
        /\ task' = "wiping 1" /\ task = "wiping 0" /\ stale
    BY <1>5 DEF FirstWiped, TaskStep, SaveInv, Wiping
  <2>2. slots'[0] = NoRecord /\ \A t \in Slot : KnownSeqNext(t) \in {0, KnownSeq(t)}
    <3>1. slots'[0] = NoRecord /\ \A t \in Slot : t # 0 => slots'[t] = slots[t]
      BY <2>1, ErasedSectors, SlotPair
    <3>2. slots'[0].seq = 0
      BY <3>1 DEF NoRecord
    <3> QED
      BY <1>5, <3>1, <3>2, KnownAfter DEF FirstWiped
  <2>3. Sound(slots)'
    BY <2>1, ErasedSound, SlotPair DEF DurableInv, Sound
  <2>4. fitted => MirrorLeads'
    BY <1>0, <2>1, <2>2, LeadsKept DEF DurableInv
  <2> QED
    BY <2>1, <2>2, <2>3, <2>4 DEF DurableInv, Saving
<1>6. CASE SecondWiped
  <2>1. /\ slots' = Erased(1) /\ ram' = FreshRam /\ task' = "waiting" /\ slots[0] = NoRecord
    BY <1>6 DEF SecondWiped, DurableInv
  <2>2. \A t \in Slot : slots'[t] = NoRecord
    BY <2>1, ErasedSectors, SlotPair
  <2>3. ram'.seq = 0 /\ ram'.slot = 1 /\ ram'.slot \in Slot /\ SaveSlot(ram') \in Slot
    BY <2>1, FreshRamType, SaveSlotType DEF FreshRam, Slot
  <2>4. MirrorLeads'
    <3>1. 0 % 2 = 1 - 1 /\ \A t \in Slot : KnownSeq(t)' = 0
      BY <2>2 DEF KnownSeq, NoRecord
    <3> QED
      BY <2>3, <3>1 DEF MirrorLeads, Behind
  <2>5. Sound(slots)'
    BY <2>2, SlotPair DEF Sound
  <2> QED
    BY <2>1, <2>4, <2>5 DEF DurableInv, Saving
<1>7. CASE FlashError
  <2>1. /\ UNCHANGED <<fitted, ram, job>> /\ slots' \in CutShort
        /\ task' \in {"waiting", "wiping 0"} /\ task # "waiting"
        /\ stale => stale'
        /\ task = "writing" /\ slots' # slots => stale'
    BY <1>7 DEF FlashError, TaskStep, AfterSave
  <2>2. fitted /\ MirrorLeads
    BY <2>1 DEF DurableInv
  <2>3. Sound(slots)'
    BY <2>1, CutShortSound DEF Sound
  <2>4. ASSUME NEW s \in Slot
        PROVE  /\ KnownSeqNext(s) \in {0, slots'[s].seq}
               /\ slots'[s] = slots[s] => KnownSeqNext(s) = KnownSeq(s)
    BY <1>7, KnownAfter DEF FlashError
  <2>5. ASSUME slots' = slots PROVE MirrorLeads'
    BY <1>0, <2>1, <2>2, <2>4, <2>5, LeadsKept
  <2>6. ASSUME slots' = Written, slots' # slots, task = "writing" PROVE MirrorLeads'
    <3>1. /\ slots'[ram.slot] = slots[ram.slot]
          /\ slots'[other] = [seq |-> ram.seq + 1, config |-> job.config]
      BY <2>6, WrittenSectors
    <3>2. slots'[other].seq = ram.seq + 1
      BY <3>1
    <3>3. stale'
      BY <2>1, <2>6
    <3> QED
      BY <1>0, <2>1, <2>2, <2>4, <3>1, <3>2, <3>3, LeadsKept
  <2>7. ASSUME NEW s \in Slot, slots' = Erased(s) PROVE MirrorLeads'
    <3>1. slots'[s].seq = 0 /\ \A t \in Slot : t # s => slots'[t] = slots[t]
      BY <2>7, ErasedSectors DEF NoRecord
    <3>2. \A t \in Slot : KnownSeqNext(t) \in {0, KnownSeq(t)}
      BY <2>4, <3>1
    <3> QED
      BY <1>0, <2>1, <2>2, <3>2, LeadsKept
  <2>8. MirrorLeads'
    BY <1>0, <2>1, <2>5, <2>6, <2>7, SlotPair DEF CutShort
  <2> QED
    BY <2>1, <2>3, <2>8 DEF DurableInv, Saving
<1>8. CASE PowerCut
  BY <1>8, CutShortType, CutShortSound, BootDurable DEF PowerCut
<1>9. CASE Reboot
  BY <1>9, BootDurable DEF Reboot, TypeOK, DurableInv
<1>10. CASE UNCHANGED vars
  BY <1>10 DEF vars, taskVars, history, DurableInv, Sound, Saving, MirrorLeads, Behind, KnownSeq
<1> QED
  BY <1>1, <1>2, <1>3, <1>4, <1>5, <1>6, <1>7, <1>8, <1>9, <1>10 DEF Next, FlashStep
-----------------------------------------------------------------------------
(***************************************************************************)
(* The theorems.                                                           *)
(***************************************************************************)
LEMMA InitDurableInv == Init => DurableInv
<1> SUFFICES ASSUME Init PROVE DurableInv
  OBVIOUS
<1>1. \A s \in Slot : slots[s] = NoRecord /\ slots[s].seq = 0
  BY DEF Init, NoRecord
<1>2. Sound(slots)
  BY <1>1, SlotPair DEF Sound
<1>3. ram.seq = 0 /\ ram.slot = 1 /\ ram.slot \in Slot /\ SaveSlot(ram) \in Slot
  BY FreshRamType, SaveSlotType DEF Init, FreshRam, Slot
<1>4. MirrorLeads
  <2>1. 0 % 2 = 1 - 1 /\ \A s \in Slot : KnownSeq(s) = 0
    BY <1>1 DEF KnownSeq
  <2> QED
    BY <1>3, <2>1 DEF MirrorLeads, Behind
<1> QED
  BY <1>2, <1>4 DEF Init, DurableInv, Saving

LEMMA DurableInvariant ==
  Spec => [](TypeOK /\ SaveInv /\ DurableInv)
<1>1. TypeOK /\ SaveInv /\ DurableInv /\ [Next]_vars => DurableInv'
  BY NextDurableInv
<1> QED
  BY <1>1, InitDurableInv, SaveInvariant, PTL DEF Spec

\* Once a boot has loaded or replaced every record on the chip, only the older of
\* the two copies is ever under erase, so a power cut during a save cannot destroy
\* the newer one (persist.rs:3-5, store.rs:44); a boot that loads has at once.
THEOREM OnlyOlderCopyAtRisk == Spec => []KnownCopySafe
<1>1. TypeOK /\ SaveInv /\ DurableInv => KnownCopySafe
  <2> SUFFICES ASSUME TypeOK, SaveInv, DurableInv, task = "erasing", ~stale, inherited = {}
               PROVE  Stored(slots) = NoConfig \/ Newest(slots) # SaveSlot(ram)
    BY DEF KnownCopySafe, ErasesOlder
  <2>1. Sound(slots) /\ MirrorLeads /\ Mirrored
    BY DEF DurableInv, SaveInv
  <2>2. SaveSlot(ram) # ram.slot
    BY SaveSlotType DEF TypeOK
  <2> QED
    BY <2>1, <2>2, MirrorChoosesNewest
<1> QED
  BY <1>1, DurableInvariant, PTL

\* The values the refinement mapping takes.
BeingSaved == IF task \in {"erasing", "writing"} THEN job.config ELSE NoConfig
Settled == ~stale /\ inherited = {}

LEMMA MappedValues ==
  ASSUME TypeOK, DurableInv
  PROVE  /\ Stored(slots) \in Sane \cup {NoConfig}
         /\ BeingSaved \in Sane \cup {NoConfig}
         /\ Saving => BeingSaved = job.config /\ BeingSaved # NoConfig
         /\ ~Saving => BeingSaved = NoConfig
<1>1. Stored(slots) \in Sane \cup {NoConfig}
  BY StoredSane DEF TypeOK, DurableInv
<1> QED
  BY <1>1, NorAssumption DEF BeingSaved, Saving, DurableInv

\* The same of the next state.
LEMMA MappedValuesNext ==
  ASSUME TypeOK', DurableInv'
  PROVE  /\ Stored(slots') \in Sane \cup {NoConfig}
         /\ BeingSaved' \in Sane \cup {NoConfig}
         /\ ~Saving' => BeingSaved' = NoConfig
<1>1. slots' \in [Slot -> Sector] /\ Sound(slots')
  BY DEF TypeOK, DurableInv
<1>2. Saving' => job'.config \in Sane
  BY DEF DurableInv
<1> QED
  BY <1>1, <1>2, StoredSane DEF BeingSaved, Saving

LEMMA DurableStep ==
  ASSUME TypeOK, TypeOK', SaveInv, DurableInv, DurableInv', [Next]_vars
  PROVE  [Durable!Next]_<<Stored(slots), BeingSaved, Settled>>
<1> DEFINE Kept == Stored(slots') = Stored(slots) /\ BeingSaved' = BeingSaved
           Ended == Saving /\ BeingSaved # NoConfig /\ BeingSaved' = NoConfig
           MirrorChooses ==
             fitted => /\ Stored(Erased(SaveSlot(ram))) = Stored(slots)
                       /\ Stored(Written) = job.config
<1>1. CASE ~Settled
  <2>1. Stored(slots') \in Sane \cup {NoConfig} /\ BeingSaved' \in Sane \cup {NoConfig}
    BY MappedValuesNext
  <2> QED
    BY <1>1, <2>1 DEF Durable!Next, Durable!Unsettled, BeingSaved, Settled
<1>2. CASE Settled
  <2>0. ~stale /\ inherited = {}
    BY <1>2 DEF Settled
  <2>1. ASSUME Kept, Settled' = Settled PROVE [Durable!Next]_<<Stored(slots), BeingSaved, Settled>>
    BY <2>1
  <2>2. ASSUME Ended, Stored(slots') = Stored(slots)
        PROVE  [Durable!Next]_<<Stored(slots), BeingSaved, Settled>>
    BY <2>2, <1>2 DEF Durable!Next, Durable!Abandon, BeingSaved, Settled
  <2>3. ASSUME Ended, Stored(slots') = BeingSaved
        PROVE  [Durable!Next]_<<Stored(slots), BeingSaved, Settled>>
    BY <2>3, <1>2 DEF Durable!Next, Durable!Commit, BeingSaved, Settled
  <2>4. /\ ~Wiping /\ Sound(slots) /\ MirrorChooses
        /\ Saving => BeingSaved = job.config /\ BeingSaved # NoConfig
        /\ ~Saving => BeingSaved = NoConfig
        /\ ~Saving' => BeingSaved' = NoConfig
    <3>1. MirrorLeads => Stored(Erased(SaveSlot(ram))) = Stored(slots)
      BY <2>0, MirrorChoosesNewest DEF SaveInv, DurableInv
    <3> QED
      BY <2>0, <3>1, MappedValues, MappedValuesNext, WrittenStored DEF SaveInv, DurableInv
  <2>5. ASSUME NEW sectors \in CutShort
        PROVE  \/ Stored(sectors) = Stored(slots)
               \/ task = "writing" /\ Stored(sectors) = job.config
    BY <2>4, <2>5 DEF CutShort, Wiping, Saving, DurableInv
  <2>6. CASE Request \/ ControlTake
    <3>1. UNCHANGED <<slots, task, job, stale, inherited>>
      BY <2>6 DEF Request, WriteConfig, RequestSave, RequestRestore, RequestReboot, Accept,
         ControlTake, taskVars, history
    <3> QED
      BY <3>1, <2>1 DEF BeingSaved, Settled
  <2>7. CASE PersistWake
    <3>1. slots' = slots /\ ~Saving /\ inherited' = {} /\ stale' = (task' = "wiping 0")
      BY <2>7, <2>0 DEF PersistWake, Saving
    <3>2. CASE task' = "erasing"
      <4>1. BeingSaved' \in Sane
        BY <3>2 DEF BeingSaved, DurableInv, Saving
      <4> QED
        BY <1>2, <2>4, <3>1, <3>2, <4>1 DEF Durable!Next, Durable!Begin, BeingSaved, Settled
    <3>3. CASE task' = "wiping 0"
      <4>1. BeingSaved' = BeingSaved
        BY <2>4, <3>1, <3>3 DEF Saving
      <4> QED
        BY <1>2, <2>4, <3>1, <3>3, <4>1 DEF Durable!Next, Durable!Withdraw, BeingSaved, Settled
    <3>4. CASE task' = "waiting"
      BY <1>2, <2>1, <2>4, <3>1, <3>4 DEF Saving, Settled
    <3> QED
      BY <2>7, <3>2, <3>3, <3>4 DEF PersistWake, Work, AfterSave
  <2>8. CASE EraseDone
    <3>1. task = "erasing" /\ task' = "writing" /\ job' = job /\ Settled' = Settled
          /\ slots' = Erased(SaveSlot(ram))
      BY <2>0, <2>8 DEF EraseDone, TaskStep, Settled
    <3> QED
      BY <2>1, <2>4, <3>1 DEF BeingSaved, Saving, DurableInv
  <2>9. CASE WriteDone
    <3>1. task = "writing" /\ ~Saving' /\ slots' = Written
      BY <2>9 DEF WriteDone, AfterSave, Saving
    <3> QED
      BY <2>3, <2>4, <3>1 DEF Saving, DurableInv
  <2>10. CASE FlashError
    <3>1. Saving /\ ~Saving' /\ slots' \in CutShort
      BY <2>4, <2>10 DEF FlashError, AfterSave, Saving, Wiping, TypeOK
    <3> QED
      BY <2>2, <2>3, <2>4, <2>5, <3>1
  <2>11. CASE PowerCut \/ Reboot
    <3>1. slots' \in CutShort /\ ~Saving'
      BY <2>11 DEF PowerCut, Reboot, Boot, CutShort, NothingQueued, Saving
    <3>2. CASE Saving
      BY <2>2, <2>3, <2>4, <2>5, <3>1, <3>2
    <3>3. CASE ~Saving
      <4>1. Kept
        BY <2>4, <2>5, <3>1, <3>3 DEF Saving
      <4>2. Settled' \in BOOLEAN /\ BeingSaved = NoConfig
        BY <2>4, <3>3 DEF Settled
      <4> QED
        BY <1>2, <4>1, <4>2 DEF Durable!Next, Durable!Withdraw, BeingSaved, Settled
    <3> QED
      BY <3>2, <3>3
  <2>12. CASE UNCHANGED vars
    BY <2>1, <2>12 DEF vars, taskVars, history, BeingSaved, Settled
  <2>13. CASE FirstWiped \/ SecondWiped
    BY <2>4, <2>13 DEF FirstWiped, SecondWiped, Wiping
  <2> QED
    BY <2>6, <2>7, <2>8, <2>9, <2>10, <2>11, <2>12, <2>13 DEF Next, FlashStep
<1> QED
  BY <1>1, <1>2

\* Whenever the power goes, a load finds the config that was stored or the one
\* being saved, whole (persist.rs:3-8): at once on a boot that loads, and on one
\* that does not from when its own saves have replaced every record it found.
THEOREM SectorsAreDurable == Spec => DurableSpec
<1>1. Init => Durable!Init
  <2> SUFFICES ASSUME Init PROVE Durable!Init
    OBVIOUS
  <2>1. slots \in [Slot -> Sector] /\ \A s \in Slot : slots[s] = NoRecord
    BY NoRecordType DEF Init
  <2> QED
    BY <2>1, EmptyStored DEF Init, Durable!Init
<1>2. TypeOK /\ TypeOK' /\ SaveInv /\ DurableInv /\ DurableInv' /\ [Next]_vars =>
        [Durable!Next]_<<Stored(slots), BeingSaved, Settled>>
  BY DurableStep
<1> QED
  BY <1>1, <1>2, DurableInvariant, PTL DEF Spec, DurableSpec, Durable!Spec, BeingSaved, Settled
=============================================================================
