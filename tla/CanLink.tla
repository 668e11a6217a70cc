-------------------------------- MODULE CanLink --------------------------------
(***************************************************************************)
(* A node's end of the CAN bus: the fan-out queue into the SDO server, the  *)
(* queue its publishers share and the task that drains it into the          *)
(* mailboxes (src/src/can/mod.rs, hw.rs, sdo.rs), and the poll that turns   *)
(* the controller's error state into counts (can/health.rs).                *)
(*                                                                          *)
(* The controller itself is external.  Its transmit error counter rises by  *)
(* ErrorStep per error frame and falls by one per frame sent; levels are    *)
(* scaled down.  Frames the firmware updater claims are left out.           *)
(***************************************************************************)
EXTENDS Integers, Sequences, FiniteSets

CONSTANTS
  QueueSize,        \* CAN_QUEUE_SIZE, of each direction
  NumMailboxes,     \* the controller's transmit mailboxes
  ErrorStep, TecWarning, TecPassive, TecLimit, RecPassive, \* its error levels
  MaxSent,          \* bound: frames sent between two polls of its status
  MaxArrivals,      \* bound: frames received
  MaxErrors         \* bound: error frames

\* The queue holds a frame, an error on the way to bus-off is seen as passive,
\* and a tick is too short to send from the warning level down to zero.
ASSUME CanLinkAssumption ==
  /\ {QueueSize, NumMailboxes, ErrorStep, TecPassive, RecPassive, MaxSent} \subseteq Nat \ {0}
  /\ {TecWarning, TecLimit, MaxArrivals, MaxErrors} \subseteq Nat
  /\ MaxSent < TecWarning
  /\ TecPassive + ErrorStep <= TecLimit

VARIABLES
  inbox, lag,       \* CAN_IN as its subscriber sees it: frames, and how many it missed
  sdo,              \* whether the SDO server waits for a frame or to reply
  outbox,           \* CAN_OUT
  hand,             \* the frame run_tx waits to write
  mailbox,          \* the frames in the mailboxes
  tec, rec, busOff, \* the controller: error counters, bus-off
  last,             \* BusHealth::last
  arrivals, faults, sent,   \* how much of the bounds is used
  unaccounted,      \* history: frames published less frames handled or counted lost
  happened,         \* history: what befell the controller since the last poll
  handled, answered \* history: requests handled, replies on the bus

rx == <<inbox, lag, sdo, arrivals, unaccounted, handled>>
tx == <<outbox, hand, mailbox, answered>>
controller == <<tec, rec, busOff, faults, sent, happened>>
linkVars == <<rx, tx, controller, last>>

Nothing == "nothing"
Frame == {"beat", "request", "reply", "process"}

LinkInit ==
  /\ inbox = <<>> /\ lag = 0 /\ sdo = "idle"
  /\ outbox = <<>> /\ hand = Nothing /\ mailbox = <<>>
  /\ tec = 0 /\ rec = 0 /\ busOff = FALSE
  /\ last = [busOff |-> FALSE, passive |-> FALSE, tec |-> 0, rec |-> 0]
  /\ arrivals = 0 /\ faults = 0 /\ sent = 0
  /\ unaccounted = 0 /\ happened = {} /\ handled = 0 /\ answered = 0
-----------------------------------------------------------------------------
(***************************************************************************)
(* run_rx publishes without waiting: a full queue gives up its oldest frame *)
(* and the subscriber is that much further behind.                          *)
(***************************************************************************)
Arrive(frame) ==
  /\ ~busOff /\ arrivals < MaxArrivals
  /\ arrivals' = arrivals + 1
  /\ inbox' = Append(IF Len(inbox) = QueueSize THEN Tail(inbox) ELSE inbox, frame)
  /\ lag' = IF Len(inbox) = QueueSize THEN lag + 1 ELSE lag
  /\ unaccounted' = unaccounted + 1
  /\ rec' = IF rec > 0 THEN rec - 1 ELSE 0
  /\ UNCHANGED <<sdo, handled, tx, tec, busOff, faults, sent, happened, last>>

\* next_frame counts what it missed under CanRxDropped, then hands out the oldest.
\* Mutant: the lag is thrown away, as next_message_pure does.
TakenPure == 1
Taken == 1 + lag

TakeFrame ==
  /\ sdo = "idle" /\ inbox # <<>>
  /\ inbox' = Tail(inbox) /\ lag' = 0
  /\ unaccounted' = unaccounted - Taken
  /\ IF Head(inbox) = "request"
     THEN sdo' = "replying" /\ handled' = handled + 1
     ELSE UNCHANGED <<sdo, handled>>     \* the master is noted
  /\ UNCHANGED <<arrivals, tx, controller, last>>

\* SdoServer::reply waits for room in the outgoing queue.
Reply ==
  /\ sdo = "replying" /\ Len(outbox) < QueueSize
  /\ outbox' = Append(outbox, "reply")
  /\ sdo' = "idle"
  /\ UNCHANGED <<inbox, lag, arrivals, unaccounted, handled, hand, mailbox, answered, controller, last>>

\* So do the broadcaster and the heartbeat.
PublishOther ==
  /\ Len(outbox) < QueueSize
  /\ outbox' = Append(outbox, "process")
  /\ UNCHANGED <<rx, hand, mailbox, answered, controller, last>>
-----------------------------------------------------------------------------
(* run_tx: the next frame, then a free mailbox for it.                      *)
TakeOutgoing ==
  /\ hand = Nothing /\ outbox # <<>>
  /\ hand' = Head(outbox) /\ outbox' = Tail(outbox)
  /\ UNCHANGED <<rx, mailbox, answered, controller, last>>

WriteMailbox ==
  /\ hand # Nothing /\ Len(mailbox) < NumMailboxes
  /\ mailbox' = Append(mailbox, hand) /\ hand' = Nothing
  /\ UNCHANGED <<rx, outbox, answered, controller, last>>
-----------------------------------------------------------------------------
(* The controller: a frame gets through, or ends in an error frame and is   *)
(* kept in its mailbox to be sent again.                                    *)
Passive == tec >= TecPassive \/ rec >= RecPassive

Without(s, i) == SubSeq(s, 1, i - 1) \o SubSeq(s, i + 1, Len(s))

Transmit(i) ==
  /\ ~busOff /\ sent < MaxSent
  /\ sent' = sent + 1
  /\ mailbox' = Without(mailbox, i)
  /\ answered' = answered + IF mailbox[i] = "reply" THEN 1 ELSE 0
  /\ tec' = IF tec > 0 THEN tec - 1 ELSE 0
  /\ UNCHANGED <<rx, outbox, hand, rec, busOff, faults, happened, last>>

Erred(newTec, newRec) ==
  /\ tec' = newTec /\ rec' = newRec
  /\ happened' = happened \cup {"CanErrorCountRose"}
       \cup (IF newTec >= TecPassive \/ newRec >= RecPassive THEN {"CanErrorPassive"} ELSE {})
       \cup (IF newTec > TecLimit THEN {"CanBusOff"} ELSE {})

TransmitError ==
  /\ ~busOff /\ mailbox # <<>> /\ faults < MaxErrors
  /\ faults' = faults + 1
  /\ Erred(tec + ErrorStep, rec)
  /\ busOff' = (tec + ErrorStep > TecLimit)
  /\ UNCHANGED <<rx, tx, sent, last>>

ReceiveError ==
  /\ ~busOff /\ faults < MaxErrors /\ rec < RecPassive
  /\ faults' = faults + 1
  /\ Erred(tec, rec + 1)
  /\ UNCHANGED <<rx, tx, busOff, sent, last>>

\* Automatic bus-off management: out of it after 128 idle slots, counters zero.
\* Mutant: the controller waits to be told, and nothing tells it.
Unmanaged == FALSE /\ UNCHANGED linkVars
Recover ==
  /\ busOff
  /\ busOff' = FALSE /\ tec' = 0 /\ rec' = 0
  /\ UNCHANGED <<rx, tx, faults, sent, happened, last>>
-----------------------------------------------------------------------------
(***************************************************************************)
(* BusHealth::observe, from the control tick: the counters bumped for what  *)
(* changed between two readings of the status register.                     *)
(***************************************************************************)
ErrorStatus == [busOff |-> busOff, passive |-> Passive \/ busOff, tec |-> tec, rec |-> rec]

\* Mutant: any fall to zero is taken for a recovery.
FellFromAnywhere(was, now) == ~was.busOff /\ ~now.busOff /\ was.tec > 0 /\ now.tec = 0
RecoveredUnseen(was, now) == ~was.busOff /\ ~now.busOff /\ was.tec >= TecWarning /\ now.tec = 0

Observed(was, now) ==
  LET off == (~was.busOff /\ now.busOff) \/ RecoveredUnseen(was, now) IN
  {c \in {"CanBusOff", "CanErrorPassive", "CanErrorCountRose"} :
     \/ c = "CanBusOff" /\ off
     \/ c = "CanErrorPassive" /\ ~was.passive /\ (now.passive \/ off)
     \/ c = "CanErrorCountRose" /\ ~was.busOff /\ ~now.busOff
                                /\ (now.tec > was.tec \/ now.rec > was.rec)}

Observe ==
  /\ last' = ErrorStatus
  /\ sent' = 0 /\ happened' = {}
  /\ UNCHANGED <<rx, tx, tec, rec, busOff, faults>>
-----------------------------------------------------------------------------
Send == \E i \in DOMAIN mailbox : Transmit(i)

LinkNext ==
  \/ \E frame \in {"beat", "request"} : Arrive(frame)
  \/ TakeFrame \/ Reply \/ PublishOther \/ TakeOutgoing \/ WriteMailbox
  \/ Send \/ TransmitError \/ ReceiveError \/ Recover \/ Observe

(***************************************************************************)
(* The executor runs every task that can go on, the bus lets frames through *)
(* and the controller recovers.  A frame leaving the queue wakes everyone   *)
(* waiting to publish, and no other publisher runs without pause.           *)
(***************************************************************************)
LinkFairness ==
  /\ WF_linkVars(TakeFrame) /\ SF_linkVars(Reply)
  /\ WF_linkVars(TakeOutgoing) /\ WF_linkVars(WriteMailbox)
  /\ SF_linkVars(\E i \in DOMAIN mailbox : mailbox[i] = "reply" /\ Transmit(i))
  /\ SF_linkVars(Send) /\ WF_linkVars(Recover) /\ WF_linkVars(Observe)

LinkSpec == LinkInit /\ [][LinkNext]_linkVars /\ LinkFairness
-----------------------------------------------------------------------------
(* The shape of the state.                                                  *)
LinkTypeOK ==
  /\ inbox \in Seq(Frame) /\ Len(inbox) <= QueueSize
  /\ outbox \in Seq(Frame) /\ Len(outbox) <= QueueSize
  /\ mailbox \in Seq(Frame) /\ Len(mailbox) <= NumMailboxes
  /\ hand \in Frame \cup {Nothing} /\ sdo \in {"idle", "replying"}
  /\ lag \in Nat /\ unaccounted \in Int
  /\ tec \in 0 .. TecLimit + ErrorStep /\ rec \in 0 .. RecPassive /\ busOff \in BOOLEAN

(***************************************************************************)
(* A frame the node received is handled, still queued, or counted as lost:  *)
(* "the difference between the master went quiet and we stopped listening"  *)
(* (can/mod.rs:45), also while the SDO server waits for room to reply.      *)
(***************************************************************************)
EveryFrameAccounted == unaccounted = Len(inbox) + lag

(***************************************************************************)
(* A poll counts a bus-off, an entry into error-passive or a rise of the    *)
(* error counters only if one happened since the poll before; in            *)
(* particular no frames sent in between pass for a recovery                 *)
(* (can/health.rs:14).                                                      *)
(***************************************************************************)
NothingInvented == [][Observe => Observed(last, ErrorStatus) \subseteq happened]_linkVars

(***************************************************************************)
(* Every request the server took off its queue is answered on the bus,      *)
(* through full queues and bus-off: the queues never wait on each other.    *)
(***************************************************************************)
AnswersArrive == \A n \in 1 .. MaxArrivals : handled >= n ~> answered >= n
=============================================================================
