------------------------------- MODULE NorStore -------------------------------
(***************************************************************************)
(* The two config records on the NOR flash and what NorConfigStore         *)
(* remembers of them (src/src/config/persist.rs).  A record is what        *)
(* read_record accepts: erased, torn and foreign sectors all fail its      *)
(* magic, version or CRC and are NoRecord.  Configurations are opaque      *)
(* values; Sane are those Config::sanity_check passes.                     *)
(***************************************************************************)
EXTENDS Integers

CONSTANTS
  ConfigValue,   \* every configuration the store can hold
  Sane,          \* those that pass sanity_check
  NoConfig       \* Option<Config>::None

ASSUME NorAssumption == Sane \subseteq ConfigValue /\ NoConfig \notin ConfigValue

\* SLOT_OFFSETS.  Sequence numbers start at 1 and are Nat: the u32 would wrap
\* after 2^32 saves, and a sector is worn out after 100k (persist.rs:9).
Slot == {0, 1}
Record == [seq : Nat, config : ConfigValue]
NoRecord == [seq |-> 0, config |-> NoConfig]
Sector == Record \cup {NoRecord}

\* last_sequence, last_slot and last_body; a sequence of 0 is None.
Ram == [seq : Nat, slot : Slot, body : ConfigValue \cup {NoConfig}]
FreshRam == [seq |-> 0, slot |-> 1, body |-> NoConfig]
-----------------------------------------------------------------------------
Readable(sector) == sector # NoRecord

\* load keeps the first record it reads unless the second is strictly newer.
Newest(slots) ==
  IF Readable(slots[1]) /\ (Readable(slots[0]) => slots[1].seq > slots[0].seq) THEN 1 ELSE 0

\* What load finds, NoConfig when neither slot holds a record.
Stored(slots) == slots[Newest(slots)].config

\* load adopts the newest record if it is sane; the other one is not tried.
LoadedRam(slots) ==
  IF Stored(slots) \in Sane
  THEN [seq |-> slots[Newest(slots)].seq, slot |-> Newest(slots), body |-> Stored(slots)]
  ELSE FreshRam

\* save: refused, skipped, or committed to the slot that is not the newest.
Unchanged(ram, config) == ram.body = config
NeedsFlash(ram, config) == config \in Sane /\ ~Unchanged(ram, config)

\* Mutant: a save that rewrites the slot it last wrote.
SameSlot(ram) == ram.slot
SaveSlot(ram) == 1 - ram.slot

\* Mutant: a record that repeats the sequence number.
SameSequence(ram, config) == [seq |-> IF ram.seq = 0 THEN 1 ELSE ram.seq, config |-> config]
SavedRecord(ram, config) == [seq |-> ram.seq + 1, config |-> config]

\* Mutant: last_slot not updated.
SlotForgotten(ram, config) == [seq |-> ram.seq + 1, slot |-> ram.slot, body |-> config]
RamAfterSave(ram, config) == [seq |-> ram.seq + 1, slot |-> SaveSlot(ram), body |-> config]
=============================================================================
