---------------------------- MODULE DurableConfig -----------------------------
(***************************************************************************)
(* What a saved configuration is worth (the promise at the top of          *)
(* src/src/config/persist.rs): the config the next load finds is replaced  *)
(* only by the one being saved, and all at once, whenever the power goes.  *)
(* Nothing is promised from the start of a restore, or from a write the    *)
(* flash reported failed although it was done, until one succeeds; nor     *)
(* from a boot that does not look at what is stored, until its own saves   *)
(* have replaced that.                                                     *)
(***************************************************************************)
CONSTANTS ConfigValue, Sane, NoConfig

VARIABLES
  durable,  \* what a load would find, or NoConfig
  saving,   \* the config being saved, or NoConfig
  settled   \* whether the promise is in force

Init == durable = NoConfig /\ saving = NoConfig /\ settled = TRUE

Begin ==
  /\ saving = NoConfig /\ saving' \in Sane
  /\ UNCHANGED <<durable, settled>>

Commit ==
  /\ saving # NoConfig /\ durable' = saving /\ saving' = NoConfig
  /\ settled' \in BOOLEAN

Abandon ==
  /\ saving # NoConfig /\ saving' = NoConfig
  /\ settled' \in BOOLEAN /\ UNCHANGED durable

Withdraw ==
  /\ saving = NoConfig /\ settled' = FALSE
  /\ UNCHANGED <<durable, saving>>

Unsettled ==
  /\ ~settled /\ settled' \in BOOLEAN
  /\ durable' \in Sane \cup {NoConfig}
  /\ saving' \in Sane \cup {NoConfig}

Next == Begin \/ Commit \/ Abandon \/ Withdraw \/ Unsettled

Spec == Init /\ [][Next]_<<durable, saving, settled>>
=============================================================================
