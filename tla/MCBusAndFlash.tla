------------------------------ MODULE MCBusAndFlash -----------------------------
(***************************************************************************)
(* The parts of a node that share no state but the requests they serve: its *)
(* end of the CAN bus, the broadcaster, and what the SDO server does with    *)
(* the flash.  TLC explores each with the others at rest, where no action    *)
(* that fairness is assumed of is enabled.                                  *)
(* The link is a queue of one frame and one mailbox, with error levels 2, 4, *)
(* 6 on the way to bus-off; constants of the other parts are in MCTpdo and   *)
(* MCPersistence.                                                           *)
(***************************************************************************)
EXTENDS CanLink, MCTpdo, MCPersistence

VARIABLE explored     \* the part that is explored

MCInit ==
  /\ LinkInit /\ BroadcastInit /\ Init
  /\ explored \in {"link", "broadcaster", "flash"}
  /\ explored # "broadcaster" => payload = [k \in Kind |-> "a"]
  /\ explored # "flash" => fitted

MCNext ==
  \/ /\ explored = "link" /\ LinkNext
     /\ UNCHANGED <<broadcastVars, vars, explored>>
  \/ /\ explored = "broadcaster" /\ BroadcastNext
     /\ UNCHANGED <<linkVars, vars, explored>>
  \/ /\ explored = "flash" /\ Next
     /\ UNCHANGED <<linkVars, broadcastVars, explored>>

MCSpec ==
  /\ MCInit /\ [][MCNext]_<<linkVars, broadcastVars, vars, explored>>
  /\ LinkFairness
  /\ WF_vars(PersistWake) /\ WF_vars(FlashStep) /\ WF_vars(Reboot)
=============================================================================
