----------------------------- MODULE Persistence ------------------------------
(***************************************************************************)
(* Saving, restoring and rebooting: the SDO server that parks the requests *)
(* (src/src/can/sdo.rs), the persistence task that carries them out one    *)
(* flash operation at a time (node.rs), the sectors and the mirror of them *)
(* in RAM (config/persist.rs), and power cuts between any two steps.       *)
(*                                                                         *)
(* The executor is cooperative: the persistence task yields only while the *)
(* flash is busy and while it waits for its signal, so a step is all it    *)
(* does between two of those.  PERSIST_BUSY is held exactly while the task *)
(* is not waiting; a reboot that gets it resets or gives it back at once.  *)
(***************************************************************************)
EXTENDS NorStore

CONSTANTS
  Factory,      \* the compile-time defaults of the node
  LoadModes,    \* whether a boot may load; {FALSE} in this firmware, where
                \* node.rs:121 disables the load
  MaxRequests,  \* bound: accepted SDO writes
  MaxCuts       \* bound: power cuts

ASSUME PersistenceAssumption ==
  /\ Factory \in Sane
  /\ LoadModes \in SUBSET BOOLEAN
  /\ MaxRequests \in Nat /\ MaxCuts \in Nat

VARIABLES
  fitted,     \* the NOR flash answered its probe at this boot
  config,     \* Store::config
  pending,    \* Store::pending: [save, restore, config]
  wake,       \* PERSIST_WAKE is signalled
  task,       \* the flash operation run_persistence awaits
  job,        \* its locals: [restore, config]
  server,     \* the SDO server: serving, or in reboot()
  slots,      \* the two sectors
  ram,        \* NorConfigStore's last_sequence, last_slot, last_body
  requests,   \* bound counters
  cuts,
  owed,       \* history: configs of which one must be stored, since a save
  stale,      \* history: a failed or running operation left ram behind slots
  inherited   \* history: sectors with records of earlier boots that this boot
              \* neither loaded nor touched

taskVars == <<task, job, slots, ram>>
history == <<owed, stale, inherited>>
vars == <<fitted, config, pending, wake, taskVars, server, requests, cuts, history>>

NothingPending == [save |-> FALSE, restore |-> FALSE, config |-> FALSE]
NoJob == [restore |-> FALSE, config |-> Factory]
-----------------------------------------------------------------------------
(***************************************************************************)
(* The SDO server.  Any accepted write repeats the signal while a save or  *)
(* a restore is parked.  While the server reboots it accepts nothing.      *)
(***************************************************************************)
\* Mutant: a restore does not signal.
SignalSave(parked) == wake \/ parked.save
Signal(parked) == wake \/ parked.save \/ parked.restore

Accept ==
  /\ server = "serving" /\ requests < MaxRequests
  /\ requests' = requests + 1
  /\ wake' = Signal(pending')
  /\ UNCHANGED <<fitted, taskVars, cuts, stale, inherited>>

WriteConfig(new) ==
  /\ config' = new
  /\ pending' = [pending EXCEPT !.config = TRUE]
  /\ owed' = IF pending.save THEN owed \cup {new} ELSE owed
  /\ Accept /\ UNCHANGED server

RequestSave ==
  /\ pending' = [pending EXCEPT !.save = TRUE]
  /\ owed' = {config}
  /\ Accept /\ UNCHANGED <<config, server>>

RequestRestore ==
  /\ pending' = [pending EXCEPT !.restore = TRUE]
  /\ Accept /\ UNCHANGED <<config, server, owed>>

RequestReboot ==
  /\ server' = "rebooting"
  /\ UNCHANGED <<config, pending, owed>>
  /\ Accept

\* The control task's Pending::take leaves save and restore in place.
\* Mutant: it takes everything.
TakesAll(parked) == NothingPending
ControlTakes(parked) == [parked EXCEPT !.config = FALSE]
ControlTake ==
  /\ pending' = ControlTakes(pending)
  /\ UNCHANGED <<fitted, config, wake, taskVars, server, requests, cuts, history>>
-----------------------------------------------------------------------------
(***************************************************************************)
(* The persistence task.                                                   *)
(***************************************************************************)
\* What a flash operation that is cut short, or fails, leaves in the sectors.
Erased(slot) == [slots EXCEPT ![slot] = NoRecord]
Written == [slots EXCEPT ![SaveSlot(ram)] = SavedRecord(ram, job.config)]
CutShort ==
  IF task = "erasing" THEN {slots, Erased(SaveSlot(ram))}
  ELSE IF task = "writing" THEN {slots, Written}
  ELSE IF task = "wiping 0" THEN {slots, Erased(0)}
  ELSE IF task = "wiping 1" THEN {slots, Erased(1)}
  ELSE {slots}

\* Woken: take the flags and a copy of the config, and start on them.
AfterSave(restore) == IF restore THEN "wiping 0" ELSE "waiting"
Work(save, restore) ==
  IF save /\ NeedsFlash(ram, config) THEN "erasing" ELSE AfterSave(restore)
PersistWake ==
  /\ fitted /\ task = "waiting" /\ wake
  /\ wake' = FALSE
  /\ pending' = [pending EXCEPT !.save = FALSE, !.restore = FALSE]
  /\ job' = [restore |-> pending.restore, config |-> config]
  /\ task' = Work(pending.save, pending.restore)
  /\ owed' = IF pending.restore \/ config \notin Sane THEN {} ELSE owed
  /\ stale' = (stale \/ task' = "wiping 0")
  /\ UNCHANGED <<fitted, config, slots, ram, server, requests, cuts, inherited>>

TaskStep ==
  /\ inherited' = {s \in inherited : slots'[s] = slots[s]}
  /\ UNCHANGED <<fitted, wake, job, server, requests, cuts>>

EraseDone ==
  /\ task = "erasing"
  /\ slots' = Erased(SaveSlot(ram))
  /\ task' = "writing"
  /\ TaskStep /\ UNCHANGED <<config, pending, ram, owed, stale>>

WriteDone ==
  /\ task = "writing"
  /\ slots' = Written
  /\ ram' = RamAfterSave(ram, job.config)
  /\ task' = AfterSave(job.restore)
  /\ stale' = job.restore
  /\ TaskStep /\ UNCHANGED <<config, pending, owed>>

\* erase_all wipes slot 0, then slot 1, and only then forgets the record.
FirstWiped ==
  /\ task = "wiping 0"
  /\ slots' = Erased(0)
  /\ task' = "wiping 1"
  /\ TaskStep /\ UNCHANGED <<config, pending, ram, owed, stale>>

\* The defaults replace whatever was written since; a queued save saves them.
SecondWiped ==
  /\ task = "wiping 1"
  /\ slots' = Erased(1)
  /\ ram' = FreshRam
  /\ task' = "waiting"
  /\ config' = Factory
  /\ pending' = [pending EXCEPT !.config = TRUE]
  /\ stale' = FALSE
  /\ owed' = IF pending.save THEN owed \cup {Factory} ELSE owed
  /\ TaskStep

\* The driver reports an error.  A failed save goes on to the restore, a
\* failed erase_all gives up where it is; ram keeps what it said.
FlashError ==
  /\ task # "waiting"
  /\ slots' \in CutShort
  /\ task' = IF task \in {"erasing", "writing"} THEN AfterSave(job.restore) ELSE "waiting"
  /\ stale' = (stale \/ task' = "wiping 0" \/ (task = "writing" /\ slots' # slots))
  /\ owed' = IF pending.save THEN owed ELSE {}
  /\ TaskStep /\ UNCHANGED <<config, pending, ram>>
-----------------------------------------------------------------------------
(***************************************************************************)
(* Resets.  A reboot that was asked for waits until the persistence task is *)
(* idle and nothing is parked for it; a power cut waits for nothing.       *)
(***************************************************************************)
Boot(sectors) ==
  /\ slots' = sectors
  /\ fitted' \in BOOLEAN
  /\ \E load \in LoadModes :
       LET adopts == load /\ fitted' /\ Stored(sectors) \in Sane
       IN  /\ config' = IF adopts THEN Stored(sectors) ELSE Factory
           /\ ram' = IF adopts THEN LoadedRam(sectors) ELSE FreshRam
           /\ inherited' = IF adopts \/ ~fitted' THEN {}
                           ELSE {s \in Slot : Readable(sectors[s])}
  /\ pending' = NothingPending /\ wake' = FALSE
  /\ task' = "waiting" /\ job' = NoJob /\ server' = "serving"
  /\ owed' = {} /\ stale' = FALSE
  /\ UNCHANGED requests

PowerCut ==
  /\ cuts < MaxCuts /\ cuts' = cuts + 1
  /\ \E sectors \in CutShort : Boot(sectors)

\* Mutant: the parked flags not looked at.
LockOnly == task = "waiting"
NothingQueued == task = "waiting" /\ ~pending.save /\ ~pending.restore

Reboot == server = "rebooting" /\ NothingQueued /\ Boot(slots) /\ UNCHANGED cuts

Init ==
  /\ fitted \in BOOLEAN
  /\ config = Factory
  /\ pending = NothingPending /\ wake = FALSE
  /\ task = "waiting" /\ job = NoJob /\ server = "serving"
  /\ slots = [s \in Slot |-> NoRecord] /\ ram = FreshRam
  /\ requests = 0 /\ cuts = 0
  /\ owed = {} /\ stale = FALSE /\ inherited = {}

Request ==
  \/ \E new \in ConfigValue : WriteConfig(new)
  \/ RequestSave \/ RequestRestore \/ RequestReboot

FlashStep == EraseDone \/ WriteDone \/ FirstWiped \/ SecondWiped \/ FlashError

Next == Request \/ ControlTake \/ PersistWake \/ FlashStep \/ PowerCut \/ Reboot

Spec == Init /\ [][Next]_vars

\* The executor keeps polling its tasks and every flash operation ends, by
\* completing or by its timeout.  Nothing is assumed of requests or power.
FairSpec == Spec /\ WF_vars(PersistWake) /\ WF_vars(FlashStep) /\ WF_vars(Reboot)
-----------------------------------------------------------------------------
TypeOK ==
  /\ fitted \in BOOLEAN
  /\ config \in ConfigValue
  /\ pending \in [save : BOOLEAN, restore : BOOLEAN, config : BOOLEAN]
  /\ wake \in BOOLEAN
  /\ task \in {"waiting", "erasing", "writing", "wiping 0", "wiping 1"}
  /\ job \in [restore : BOOLEAN, config : ConfigValue]
  /\ server \in {"serving", "rebooting"}
  /\ slots \in [Slot -> Sector]
  /\ ram \in Ram
  /\ requests \in Nat /\ cuts \in Nat
  /\ owed \in SUBSET ConfigValue
  /\ stale \in BOOLEAN
  /\ inherited \in SUBSET Slot

\* A save or a restore that is parked is never slept through: the task takes
\* the signal before the flags, and every later request renews it
\* (store.rs:38-39, sdo.rs:142-144, node.rs:172-180).
WakeCoversPending == pending.save \/ pending.restore => wake

\* What the RAM mirror says is on the chip is on the chip, so that skipping an
\* unchanged save is right; a restore or a failure under way excepted
\* (persist.rs:395-400).
Mirrored ==
  ram.body # NoConfig /\ ~stale => slots[ram.slot] = [seq |-> ram.seq, config |-> ram.body]

\* Once the task is idle with nothing parked, the chip holds a config the
\* store had between the last accepted save and its taking, whatever writes,
\* control ticks and further saves fell in between (store.rs:87-90).
SaveCoversRequest ==
  task = "waiting" /\ ~pending.save /\ ~stale /\ owed # {} => slots[ram.slot].config \in owed

\* "Save, then reboot" is safe to send back to back (od.rs:316-318).
RebootCutsNothing ==
  [][Reboot /\ owed # {} /\ ~stale => slots[ram.slot].config \in owed]_vars

\* An accepted reboot resets the board, as long as the NOR flash was found.
RebootHappens == server = "rebooting" /\ fitted ~> server = "serving"

\* Once this boot has loaded or replaced every record on the chip, a power cut
\* during a save can only destroy the older of the two copies: the sector under
\* erase is not the one a load would choose (persist.rs:3-5, store.rs:44).
ErasesOlder == Stored(slots) = NoConfig \/ Newest(slots) # SaveSlot(ram)
KnownCopySafe == task = "erasing" /\ ~stale /\ inherited = {} => ErasesOlder

(***************************************************************************)
(* The inductive invariants behind the theorems.                           *)
(***************************************************************************)
Saving == task \in {"erasing", "writing"}
Wiping == task \in {"wiping 0", "wiping 1"}

\* Where the config a save owes is: in the store while the save is parked, in
\* the task's hands while it writes, then on the chip.  A restore owes nothing.
OwedKept ==
  owed # {} =>
    IF pending.save THEN config \in owed
    ELSE IF Saving THEN job.config \in owed
    ELSE stale \/ slots[ram.slot].config \in owed
RestoreOwesNothing ==
  ~pending.save /\ (Wiping \/ (Saving /\ job.restore)) => owed = {}
SaveInv == Mirrored /\ (Wiping => stale) /\ OwedKept /\ RestoreOwesNothing

\* Every record was a sane config; the first sector has the odd numbers, the
\* second the even ones.
Sound(sectors) ==
  \A s \in Slot :
    \/ sectors[s] = NoRecord
    \/ sectors[s].seq > 0 /\ sectors[s].seq % 2 = 1 - s /\ sectors[s].config \in Sane

\* Of the records it has not inherited, the mirror knows the highest number, or
\* the one below it when a write the flash called failed was done after all.
KnownSeq(s) == IF s \in inherited THEN 0 ELSE slots[s].seq
Behind == KnownSeq(SaveSlot(ram)) = ram.seq + 1
MirrorLeads ==
  /\ ram.seq % 2 = 1 - ram.slot
  /\ KnownSeq(ram.slot) \in {0, ram.seq}
  /\ KnownSeq(SaveSlot(ram)) < ram.seq \/ KnownSeq(SaveSlot(ram)) = 0 \/ Behind
  /\ Behind => stale
  /\ ram.seq > 0 => ram.body # NoConfig
DurableInv ==
  /\ Sound(slots)
  /\ task # "waiting" => fitted
  /\ Saving => job.config \in Sane
  /\ task = "wiping 1" => slots[0] = NoRecord
  /\ fitted => MirrorLeads

(***************************************************************************)
(* Claims of the documentation that this firmware breaks.                  *)
(***************************************************************************)
\* A power cut during a save can only ever destroy the older copy (persist.rs:3-5,
\* store.rs:44).  A boot that does not load forgets which copy that is: its
\* first save erases sector 0, be it the newest or the only one.
OlderCopyAtRisk == task = "erasing" /\ ~stale => ErasesOlder

\* An accepted reboot resets the board (od.rs:315).
RebootAlwaysHappens == server = "rebooting" ~> server = "serving"

-----------------------------------------------------------------------------
(***************************************************************************)
(* What NorConfigStore promises of the records it knows (DurableConfig).   *)
(***************************************************************************)
Durable == INSTANCE DurableConfig WITH
  durable <- Stored(slots),
  saving <- IF task \in {"erasing", "writing"} THEN job.config ELSE NoConfig,
  settled <- ~stale /\ inherited = {}

DurableSpec == Durable!Spec
=============================================================================
