------------------------------- MODULE Can_proofs -------------------------------
(***************************************************************************)
(* What the two CAN loops promise for every value of their constants.  The  *)
(* link: no received frame is lost unaccounted, and the poll of the         *)
(* controller counts nothing that did not happen, for any sizes of the      *)
(* queues and any error levels CanLinkAssumption allows.  The broadcaster:  *)
(* no enabled kind falls silent and no news is skipped, for any number of   *)
(* kinds, any periods and any delays.                                       *)
(***************************************************************************)
EXTENDS CanLink, Tpdo, TLAPS

(***************************************************************************)
(* The fan-out queue: what is in it and how far its subscriber is behind    *)
(* are all that sets published and handled frames apart.                    *)
(***************************************************************************)
QueueInv ==
  /\ inbox \in Seq(Frame) /\ Len(inbox) <= QueueSize
  /\ lag \in Nat
  /\ unaccounted = Len(inbox) + lag

\* A queue starts empty, its subscriber level with the publisher.
LEMMA QueueStarts == LinkInit => QueueInv
BY CanLinkAssumption DEF LinkInit, QueueInv, Frame

\* A full queue gives up its oldest frame to the lag, any other grows by one.
LEMMA ArriveKeepsQueue ==
  ASSUME QueueInv, NEW arrived \in {"beat", "request"}, Arrive(arrived)
  PROVE  QueueInv'
<1>1. CASE Len(inbox) = QueueSize
  <2>1. inbox # <<>> /\ QueueSize \in Nat \ {0}
    BY <1>1, CanLinkAssumption DEF QueueInv
  <2>2. Tail(inbox) \in Seq(Frame) /\ Len(Tail(inbox)) = Len(inbox) - 1
    BY <2>1 DEF QueueInv
  <2>3. inbox' = Append(Tail(inbox), arrived) /\ lag' = lag + 1 /\ unaccounted' = unaccounted + 1
    BY <1>1 DEF Arrive
  <2>4. inbox' \in Seq(Frame) /\ Len(inbox') = Len(inbox)
    BY <2>2, <2>3 DEF QueueInv, Frame
  <2> QED BY <2>3, <2>4 DEF QueueInv
<1>2. CASE Len(inbox) # QueueSize
  <2>1. inbox' = Append(inbox, arrived) /\ lag' = lag /\ unaccounted' = unaccounted + 1
    BY <1>2 DEF Arrive
  <2>2. inbox' \in Seq(Frame) /\ Len(inbox') = Len(inbox) + 1
    BY <2>1 DEF QueueInv, Frame
  <2> QED BY <1>2, <2>1, <2>2, CanLinkAssumption DEF QueueInv
<1> QED BY <1>1, <1>2

\* The subscriber settles its lag with the frame it takes.
LEMMA TakeFrameKeepsQueue ==
  ASSUME QueueInv, TakeFrame
  PROVE  QueueInv'
<1>1. inbox' = Tail(inbox) /\ lag' = 0 /\ unaccounted' = unaccounted - (1 + lag) /\ inbox # <<>>
  BY DEF TakeFrame, Taken
<1>2. inbox' \in Seq(Frame) /\ Len(inbox') = Len(inbox) - 1
  BY <1>1 DEF QueueInv
<1> QED BY <1>1, <1>2, CanLinkAssumption DEF QueueInv

\* Nothing else touches the incoming queue.
LEMMA StepKeepsQueue ==
  ASSUME QueueInv, [LinkNext]_linkVars
  PROVE  QueueInv'
<1>1. CASE \E arrived \in {"beat", "request"} : Arrive(arrived)
  BY <1>1, ArriveKeepsQueue
<1>2. CASE TakeFrame
  BY <1>2, TakeFrameKeepsQueue
<1>3. CASE \/ Reply \/ PublishOther \/ TakeOutgoing \/ WriteMailbox \/ Send
           \/ TransmitError \/ ReceiveError \/ Recover \/ Observe \/ UNCHANGED linkVars
  <2>1. UNCHANGED <<inbox, lag, unaccounted>>
    BY <1>3 DEF Reply, PublishOther, TakeOutgoing, WriteMailbox, Send, Transmit, TransmitError,
                ReceiveError, Recover, Observe, rx, linkVars
  <2> QED BY <2>1 DEF QueueInv
<1> QED BY <1>1, <1>2, <1>3 DEF LinkNext

(***************************************************************************)
(* A frame the node received is handled, still queued, or counted as lost,  *)
(* whatever the size of the queue and however long the SDO server is away.  *)
(***************************************************************************)
THEOREM FramesAccounted == LinkSpec => []EveryFrameAccounted
<1>1. QueueInv => EveryFrameAccounted
  BY DEF QueueInv, EveryFrameAccounted
<1> QED BY <1>1, QueueStarts, StepKeepsQueue, PTL DEF LinkSpec
-----------------------------------------------------------------------------
(***************************************************************************)
(* The controller between two polls: what has not happened since the last   *)
(* reading still shows in the registers.                                    *)
(***************************************************************************)
ReadingOK ==
  /\ tec \in Nat /\ rec \in Nat /\ busOff \in BOOLEAN
  /\ sent \in 0 .. MaxSent
  /\ last \in [busOff : BOOLEAN, passive : BOOLEAN, tec : Nat, rec : Nat]

\* Without a bus-off the transmit counter falls by the frames sent at most.
FallsOnlyBySending ==
  "CanBusOff" \notin happened /\ ~last.busOff => ~busOff /\ tec + sent >= last.tec

PassiveIsSeen ==
  "CanErrorPassive" \notin happened /\ ~last.passive => ~Passive /\ ~busOff

\* The way to bus-off leads through error-passive.
OffThroughPassive == "CanBusOff" \in happened => "CanErrorPassive" \in happened

RiseIsSeen ==
  "CanErrorCountRose" \notin happened => tec <= last.tec /\ rec <= last.rec

PollInv ==
  ReadingOK /\ FallsOnlyBySending /\ PassiveIsSeen /\ OffThroughPassive /\ RiseIsSeen

\* The controller boots quiet.
LEMMA PollStarts == LinkInit => PollInv
<1> SUFFICES ASSUME LinkInit PROVE PollInv
  OBVIOUS
<1>1. /\ tec = 0 /\ rec = 0 /\ sent = 0 /\ busOff = FALSE /\ happened = {}
      /\ last = [busOff |-> FALSE, passive |-> FALSE, tec |-> 0, rec |-> 0]
  BY DEF LinkInit
<1>2. TecPassive > 0 /\ RecPassive > 0 /\ MaxSent \in Nat
  BY CanLinkAssumption
<1>3. ReadingOK
  <2>1. last \in [busOff : BOOLEAN, passive : BOOLEAN, tec : Nat, rec : Nat]
    BY <1>1
  <2>2. tec = 0 /\ rec = 0 /\ sent = 0
    BY <1>1
  <2>3. sent \in 0 .. MaxSent /\ tec \in Nat /\ rec \in Nat
    BY <2>2, <1>2
  <2>4. busOff \in BOOLEAN
    BY <1>1
  <2> QED BY <2>1, <2>3, <2>4 DEF ReadingOK
<1> QED BY <1>1, <1>2, <1>3, CanLinkAssumption
        DEF PollInv, FallsOnlyBySending, PassiveIsSeen, OffThroughPassive, RiseIsSeen, Passive

\* A frame sent or received only lowers a counter, a sent one by one.
LEMMA TrafficKeepsPoll ==
  ASSUME PollInv,
         \/ \E arrived \in {"beat", "request"} : Arrive(arrived)
         \/ Send
  PROVE  PollInv'
<1>1. CASE \E arrived \in {"beat", "request"} : Arrive(arrived)
  <2>1. /\ rec' \in Nat /\ rec' <= rec
        /\ UNCHANGED <<tec, busOff, sent, happened, last>>
    BY <1>1 DEF Arrive, PollInv, ReadingOK
  <2> QED BY <2>1, CanLinkAssumption
          DEF PollInv, ReadingOK, FallsOnlyBySending, PassiveIsSeen, OffThroughPassive,
              RiseIsSeen, Passive
<1>2. CASE Send
  <2>1. /\ tec' \in Nat /\ tec' <= tec /\ tec' >= tec - 1
        /\ sent' = sent + 1 /\ sent < MaxSent
        /\ UNCHANGED <<rec, busOff, happened, last>>
    BY <1>2 DEF Send, Transmit, PollInv, ReadingOK
  <2> QED BY <2>1, CanLinkAssumption
          DEF PollInv, ReadingOK, FallsOnlyBySending, PassiveIsSeen, OffThroughPassive,
              RiseIsSeen, Passive
<1> QED BY <1>1, <1>2

\* An error frame is on record, with every level it reaches.
LEMMA ErrorKeepsPoll ==
  ASSUME PollInv, TransmitError \/ ReceiveError
  PROVE  PollInv'
<1>1. CASE TransmitError
  <2>1. /\ tec' = tec + ErrorStep /\ rec' = rec
        /\ busOff' = (tec + ErrorStep > TecLimit)
        /\ UNCHANGED <<sent, last>>
    BY <1>1 DEF TransmitError, Erred, PollInv, ReadingOK
  <2>2. /\ "CanErrorCountRose" \in happened' /\ happened \subseteq happened'
        /\ "CanErrorPassive" \in happened' <=>
             "CanErrorPassive" \in happened \/ tec' >= TecPassive \/ rec' >= RecPassive
        /\ "CanBusOff" \in happened' <=> "CanBusOff" \in happened \/ tec' > TecLimit
    BY <1>1, <2>1 DEF TransmitError, Erred
  <2> QED BY <2>1, <2>2, CanLinkAssumption
          DEF PollInv, ReadingOK, FallsOnlyBySending, PassiveIsSeen, OffThroughPassive,
              RiseIsSeen, Passive
<1>2. CASE ReceiveError
  <2>1. /\ tec' = tec /\ rec' = rec + 1 /\ ~busOff
        /\ UNCHANGED <<busOff, sent, last>>
    BY <1>2 DEF ReceiveError, Erred
  <2>2. /\ "CanErrorCountRose" \in happened' /\ happened \subseteq happened'
        /\ "CanErrorPassive" \in happened' <=>
             "CanErrorPassive" \in happened \/ tec' >= TecPassive \/ rec' >= RecPassive
        /\ "CanBusOff" \in happened' <=> "CanBusOff" \in happened \/ tec' > TecLimit
    BY <1>2, <2>1 DEF ReceiveError, Erred
  <2> QED BY <2>1, <2>2, CanLinkAssumption
          DEF PollInv, ReadingOK, FallsOnlyBySending, PassiveIsSeen, OffThroughPassive,
              RiseIsSeen, Passive
<1> QED BY <1>1, <1>2

\* Out of bus-off the counters are zero: nothing rose, nothing is passive.
LEMMA RecoverKeepsPoll ==
  ASSUME PollInv, Recover
  PROVE  PollInv'
<1>1. /\ busOff /\ busOff' = FALSE /\ tec' = 0 /\ rec' = 0
      /\ UNCHANGED <<sent, happened, last>>
  BY DEF Recover
<1>2. TecPassive > 0 /\ RecPassive > 0
  BY CanLinkAssumption
<1>3. ReadingOK' /\ OffThroughPassive'
  BY <1>1 DEF PollInv, ReadingOK, OffThroughPassive
<1>4. FallsOnlyBySending' /\ PassiveIsSeen'
  BY <1>1, <1>2, CanLinkAssumption DEF PollInv, FallsOnlyBySending, PassiveIsSeen, Passive
<1>5. RiseIsSeen'
  BY <1>1 DEF PollInv, ReadingOK, RiseIsSeen
<1> QED BY <1>3, <1>4, <1>5 DEF PollInv

\* A poll starts over from what it read.
LEMMA ObserveKeepsPoll ==
  ASSUME PollInv, Observe
  PROVE  PollInv'
<1>1. /\ last' = [busOff |-> busOff, passive |-> Passive \/ busOff, tec |-> tec, rec |-> rec]
      /\ sent' = 0 /\ happened' = {}
      /\ UNCHANGED <<tec, rec, busOff>>
  BY DEF Observe, ErrorStatus
<1>2. Passive' = Passive /\ Passive \in BOOLEAN
  BY <1>1 DEF Passive
<1>3. ReadingOK'
  BY <1>1, <1>2, CanLinkAssumption DEF PollInv, ReadingOK
<1>4. FallsOnlyBySending' /\ OffThroughPassive' /\ RiseIsSeen'
  BY <1>1 DEF PollInv, ReadingOK, FallsOnlyBySending, OffThroughPassive, RiseIsSeen
<1>5. PassiveIsSeen'
  BY <1>1, <1>2 DEF PassiveIsSeen
<1> QED BY <1>3, <1>4, <1>5 DEF PollInv

\* The queues and mailboxes are none of the poll's concern.
LEMMA StepKeepsPoll ==
  ASSUME PollInv, [LinkNext]_linkVars
  PROVE  PollInv'
<1>1. CASE (\E arrived \in {"beat", "request"} : Arrive(arrived)) \/ Send
  BY <1>1, TrafficKeepsPoll
<1>2. CASE TransmitError \/ ReceiveError
  BY <1>2, ErrorKeepsPoll
<1>3. CASE Recover
  BY <1>3, RecoverKeepsPoll
<1>4. CASE Observe
  BY <1>4, ObserveKeepsPoll
<1>5. CASE TakeFrame \/ Reply \/ PublishOther \/ TakeOutgoing \/ WriteMailbox \/ UNCHANGED linkVars
  <2>1. UNCHANGED <<tec, rec, busOff, sent, happened, last>>
    BY <1>5 DEF TakeFrame, Reply, PublishOther, TakeOutgoing, WriteMailbox, controller, linkVars
  <2> QED BY <2>1 DEF PollInv, ReadingOK, FallsOnlyBySending, PassiveIsSeen, OffThroughPassive,
                      RiseIsSeen, Passive
<1> QED BY <1>1, <1>2, <1>3, <1>4, <1>5 DEF LinkNext

\* What a poll counts befell the controller since the one before.
LEMMA CountsAreHonest == PollInv => Observed(last, ErrorStatus) \subseteq happened
<1> SUFFICES ASSUME PollInv PROVE Observed(last, ErrorStatus) \subseteq happened
  OBVIOUS
<1> DEFINE off == \/ ~last.busOff /\ busOff
                  \/ ~last.busOff /\ ~busOff /\ last.tec >= TecWarning /\ tec = 0
<1>1. /\ ErrorStatus.busOff = busOff /\ ErrorStatus.passive = (Passive \/ busOff)
      /\ ErrorStatus.tec = tec /\ ErrorStatus.rec = rec
  BY DEF ErrorStatus
<1>2. off => "CanBusOff" \in happened
  BY CanLinkAssumption DEF PollInv, ReadingOK, FallsOnlyBySending
<1>3. ~last.passive /\ (Passive \/ busOff \/ off) => "CanErrorPassive" \in happened
  BY <1>2 DEF PollInv, PassiveIsSeen, OffThroughPassive
<1>4. tec > last.tec \/ rec > last.rec => "CanErrorCountRose" \in happened
  BY DEF PollInv, ReadingOK, RiseIsSeen
<1> HIDE DEF off
<1>5. /\ "CanBusOff" \in Observed(last, ErrorStatus) => off
      /\ "CanErrorPassive" \in Observed(last, ErrorStatus)
           => ~last.passive /\ (Passive \/ busOff \/ off)
      /\ "CanErrorCountRose" \in Observed(last, ErrorStatus)
           => tec > last.tec \/ rec > last.rec
  BY <1>1 DEF Observed, RecoveredUnseen, off
<1>6. Observed(last, ErrorStatus) \subseteq {"CanBusOff", "CanErrorPassive", "CanErrorCountRose"}
  BY DEF Observed
<1> QED BY <1>2, <1>3, <1>4, <1>5, <1>6

(***************************************************************************)
(* A poll counts a bus-off, an entry into error-passive or a rise of the    *)
(* error counters only if one happened since the poll before, for any error *)
(* levels where a tick is too short to send from the warning level down to  *)
(* zero.                                                                    *)
(***************************************************************************)
THEOREM PollIsHonest == LinkSpec => NothingInvented
<1>1. PollInv => (Observe => Observed(last, ErrorStatus) \subseteq happened)
  BY CountsAreHonest
<1> QED BY <1>1, PollStarts, StepKeepsPoll, PTL DEF LinkSpec, NothingInvented
-----------------------------------------------------------------------------
(***************************************************************************)
(* The broadcaster.  Its inductive invariant says what a period still       *)
(* running (due) stands for.                                                *)
(***************************************************************************)
\* The longest period bounds every period.
LEMMA LongestBounds ==
  Longest \in Intervals /\ Longest \in Nat /\ \A j \in Intervals : j \in 0 .. Longest
<1>1. Longest \in Intervals /\ \A j \in Intervals : j <= Longest
  BY TpdoAssumption DEF Longest
<1> QED BY <1>1, TpdoAssumption

BroadcastTypeOK ==
  /\ interval \in [Kind -> Intervals] /\ copied \in [Kind -> Intervals]
  /\ payload \in [Kind -> Payload]
  /\ at \in 0 .. NumKinds
  /\ frame \in Payload \cup {None} /\ (frame # None => at \in Kind)
  /\ due \in [Kind -> 0 .. Longest]
  /\ said \in [Kind -> Payload \cup {None}]
  /\ age \in [Kind -> Nat] /\ stable \in [Kind -> Nat]
  /\ dueFor \in [Kind -> Intervals] /\ \A k \in Kind : due[k] <= dueFor[k]

\* The frame of kind k waits for room in the queue.
Waits(k) == at = k /\ frame # None

\* What a running period says of the last frame, and of what was skipped since.
PeriodOf(k) ==
  due[k] > 0 =>
    /\ said[k] # None /\ age[k] + due[k] <= Keepalive + Longest
    /\ said[k] # payload[k] => stable[k] + due[k] <= dueFor[k]

\* A waiting frame holds what was to be said, or its payload has just changed.
FrameOf(k) == frame = payload[k] \/ stable[k] = 0

BroadcastInv ==
  /\ BroadcastTypeOK
  /\ \A k \in Kind : IF Waits(k) THEN FrameOf(k) ELSE PeriodOf(k)

\* No period runs yet.
LEMMA BroadcastStarts == BroadcastInit => BroadcastInv
<1> SUFFICES ASSUME BroadcastInit PROVE BroadcastInv
  OBVIOUS
<1>1. BroadcastTypeOK
  BY LongestBounds, TpdoAssumption DEF BroadcastInit, BroadcastTypeOK
<1>2. \A k \in Kind : ~Waits(k) /\ PeriodOf(k)
  BY DEF BroadcastInit, Waits, PeriodOf
<1> QED BY <1>1, <1>2 DEF BroadcastInv

\* A payload that changes has stood for no time at all.
LEMMA ChangeKeeps ==
  ASSUME BroadcastInv, NEW c \in Kind, NEW p \in Payload, Change(c, p)
  PROVE  BroadcastInv'
<1>1. /\ payload' = [payload EXCEPT ![c] = p] /\ stable' = [stable EXCEPT ![c] = 0]
      /\ UNCHANGED <<interval, copied, at, frame, due, said, age, dueFor>>
  BY DEF Change
<1>2. BroadcastTypeOK'
  BY <1>1 DEF BroadcastInv, BroadcastTypeOK
<1>3. ASSUME NEW k \in Kind
      PROVE  IF Waits(k)' THEN FrameOf(k)' ELSE PeriodOf(k)'
  <2>1. CASE k = c
    <3>1. stable'[k] = 0 /\ due[k] \in 0 .. Longest /\ due[k] <= dueFor[k]
      BY <1>1, <2>1 DEF BroadcastInv, BroadcastTypeOK
    <3> QED BY <1>1, <3>1, LongestBounds DEF BroadcastInv, Waits, FrameOf, PeriodOf
  <2>2. CASE k # c
    <3>1. payload'[k] = payload[k] /\ stable'[k] = stable[k]
      BY <1>1, <2>2 DEF BroadcastInv, BroadcastTypeOK
    <3> QED BY <1>1, <3>1 DEF BroadcastInv, Waits, FrameOf, PeriodOf
  <2> QED BY <2>1, <2>2
<1> QED BY <1>2, <1>3 DEF BroadcastInv

\* A new period counts from the next round that reads it.
LEMMA ConfigureKeeps ==
  ASSUME BroadcastInv, NEW c \in Kind, NEW i \in Intervals, Configure(c, i)
  PROVE  BroadcastInv'
<1>1. /\ interval' = [interval EXCEPT ![c] = i]
      /\ UNCHANGED <<payload, copied, at, frame, due, said, age, stable, dueFor>>
  BY DEF Configure
<1> QED BY <1>1 DEF BroadcastInv, BroadcastTypeOK, Waits, FrameOf, PeriodOf

\* The time a round adds to an age comes off the period that still runs.
LEMMA RoundKeeps ==
  ASSUME BroadcastInv, NEW span \in Spans, Round(span)
  PROVE  BroadcastInv'
<1>1. /\ at = NumKinds /\ at' = 0 /\ copied' = interval
      /\ due' = [k \in Kind |-> IF due[k] > span THEN due[k] - span ELSE 0]
      /\ age' = [k \in Kind |-> Capped(age[k] + span, AgeCap)]
      /\ stable' = [k \in Kind |-> Capped(stable[k] + span, Longest)]
      /\ UNCHANGED <<interval, payload, frame, said, dueFor>>
  BY DEF Round
<1>2. span \in Nat /\ span > 0 /\ AgeCap \in Nat /\ NumKinds \in Nat \ {0}
  BY TpdoAssumption
<1>3. frame = None
  BY <1>1, <1>2 DEF BroadcastInv, BroadcastTypeOK, Kind
<1>4. ASSUME NEW k \in Kind
      PROVE  /\ due'[k] \in 0 .. Longest /\ age'[k] \in Nat /\ stable'[k] \in Nat
             /\ due'[k] <= dueFor[k]
             /\ due'[k] > 0 => due'[k] = due[k] - span /\ due[k] > 0
             /\ age'[k] <= age[k] + span /\ stable'[k] <= stable[k] + span
  <2>1. due[k] \in 0 .. Longest /\ age[k] \in Nat /\ stable[k] \in Nat
    BY DEF BroadcastInv, BroadcastTypeOK
  <2>2. due[k] <= dueFor[k] /\ dueFor[k] \in Nat
    BY TpdoAssumption DEF BroadcastInv, BroadcastTypeOK
  <2> QED BY <1>1, <1>2, <2>1, <2>2, LongestBounds DEF Capped
<1>5. BroadcastTypeOK'
  <2>1. due' \in [Kind -> 0 .. Longest] /\ age' \in [Kind -> Nat] /\ stable' \in [Kind -> Nat]
    BY <1>1, <1>4
  <2>2. \A k \in Kind : due'[k] <= dueFor'[k]
    BY <1>1, <1>4
  <2> QED BY <1>1, <1>2, <1>3, <2>1, <2>2 DEF BroadcastInv, BroadcastTypeOK
<1>6. ASSUME NEW k \in Kind
      PROVE  ~Waits(k)' /\ PeriodOf(k)'
  <2>1. ~Waits(k) /\ ~Waits(k)'
    BY <1>1, <1>3 DEF Waits
  <2>2. PeriodOf(k) /\ due[k] \in 0 .. Longest /\ dueFor[k] \in Nat
        /\ age[k] \in Nat /\ stable[k] \in Nat
    BY <2>1, LongestBounds, TpdoAssumption DEF BroadcastInv, BroadcastTypeOK
  <2> QED BY <1>1, <1>2, <1>4, <2>1, <2>2, LongestBounds, TpdoAssumption DEF PeriodOf
<1> QED BY <1>5, <1>6 DEF BroadcastInv

\* Going past a kind changes nothing about any.
LEMMA NotDueKeeps ==
  ASSUME BroadcastInv, NEW c \in Kind, NotDue(c)
  PROVE  BroadcastInv'
<1>1. /\ at = c /\ frame = None /\ at' = at + 1
      /\ UNCHANGED <<interval, payload, copied, frame, due, said, age, stable, dueFor>>
  BY DEF NotDue
<1>2. at' \in 0 .. NumKinds
  BY <1>1, TpdoAssumption DEF Kind
<1> QED BY <1>1, <1>2 DEF BroadcastInv, BroadcastTypeOK, Waits, FrameOf, PeriodOf

\* A period starts with a fresh frame in hand, or because the last one still says it all.
LEMMA DueKeeps ==
  ASSUME BroadcastInv, NEW c \in Kind, Due(c)
  PROVE  BroadcastInv'
<1>1. /\ at = c /\ frame = None
      /\ due' = [due EXCEPT ![c] = copied[c]] /\ dueFor' = [dueFor EXCEPT ![c] = copied[c]]
      /\ UNCHANGED <<interval, payload, copied, said, age, stable>>
  BY DEF Due
<1>2. copied[c] \in 0 .. Longest /\ payload[c] \in Payload /\ payload[c] # None
  BY LongestBounds, TpdoAssumption DEF BroadcastInv, BroadcastTypeOK
<1>3. due' \in [Kind -> 0 .. Longest] /\ due'[c] = copied[c]
      /\ (\A k \in Kind : k # c => due'[k] = due[k] /\ dueFor'[k] = dueFor[k])
      /\ dueFor' \in [Kind -> Intervals] /\ (\A k \in Kind : due'[k] <= dueFor'[k])
  <2>1. /\ due \in [Kind -> 0 .. Longest] /\ dueFor \in [Kind -> Intervals]
        /\ copied[c] \in Intervals /\ \A k \in Kind : due[k] <= dueFor[k]
    BY DEF BroadcastInv, BroadcastTypeOK
  <2> QED BY <1>1, <1>2, <2>1
<1>4. \A k \in Kind : ~Waits(k) /\ PeriodOf(k)
  BY <1>1 DEF BroadcastInv, Waits
<1>5. CASE ShouldSend(c, payload[c])
  <2>1. frame' = payload[c] /\ at' = at
    BY <1>5 DEF Due
  <2>2. BroadcastTypeOK'
    BY <1>1, <1>2, <1>3, <2>1 DEF BroadcastInv, BroadcastTypeOK
  <2>3. Waits(c)' /\ FrameOf(c)'
    BY <1>1, <1>2, <2>1 DEF Waits, FrameOf
  <2>4. ASSUME NEW k \in Kind, k # c
        PROVE  ~Waits(k)' /\ PeriodOf(k)'
    BY <1>1, <1>3, <1>4, <2>1, <2>4 DEF Waits, PeriodOf
  <2> QED BY <2>2, <2>3, <2>4 DEF BroadcastInv
<1>6. CASE ~ShouldSend(c, payload[c])
  <2>1. frame' = frame /\ at' = at + 1 /\ said[c] = payload[c] /\ age[c] < Keepalive
    BY <1>6, TpdoAssumption DEF Due, ShouldSend, BroadcastInv, BroadcastTypeOK
  <2>2. at' \in 0 .. NumKinds
    BY <1>1, <2>1, TpdoAssumption DEF Kind
  <2>3. BroadcastTypeOK'
    BY <1>1, <1>3, <2>1, <2>2 DEF BroadcastInv, BroadcastTypeOK
  <2>4. PeriodOf(c)'
    <3>1. age[c] \in Nat /\ Keepalive \in Nat
      BY TpdoAssumption DEF BroadcastInv, BroadcastTypeOK
    <3> QED BY <1>1, <1>2, <1>3, <2>1, <3>1, LongestBounds DEF PeriodOf
  <2>5. ASSUME NEW k \in Kind, k # c
        PROVE  PeriodOf(k)'
    BY <1>1, <1>3, <1>4, <2>1, <2>5 DEF PeriodOf
  <2>6. \A k \in Kind : ~Waits(k)'
    BY <1>1, <2>1 DEF Waits
  <2> QED BY <2>3, <2>4, <2>5, <2>6 DEF BroadcastInv
<1> QED BY <1>5, <1>6

\* The frame goes out as old as the round; what changed while it waited is new.
LEMMA PublishKeeps ==
  ASSUME BroadcastInv, NEW c \in Kind, Publish(c)
  PROVE  BroadcastInv'
<1>1. /\ at = c /\ frame # None /\ frame' = None /\ at' = at + 1
      /\ said' = [said EXCEPT ![c] = frame] /\ age' = [age EXCEPT ![c] = 0]
      /\ UNCHANGED <<interval, payload, copied, due, stable, dueFor>>
  BY DEF Publish
<1>2. at' \in 0 .. NumKinds
  BY <1>1, TpdoAssumption DEF Kind
<1>3. BroadcastTypeOK'
  BY <1>1, <1>2 DEF BroadcastInv, BroadcastTypeOK
<1>4. \A k \in Kind : ~Waits(k)'
  BY <1>1 DEF Waits
<1>5. PeriodOf(c)'
  <2>1. said'[c] = frame /\ age'[c] = 0 /\ due[c] \in 0 .. Longest /\ due[c] <= dueFor[c]
    BY <1>1 DEF BroadcastInv, BroadcastTypeOK
  <2>2. frame = payload[c] \/ stable[c] = 0
    BY <1>1 DEF BroadcastInv, Waits, FrameOf
  <2> QED BY <1>1, <2>1, <2>2, LongestBounds, TpdoAssumption DEF PeriodOf
<1>6. ASSUME NEW k \in Kind, k # c
      PROVE  PeriodOf(k)'
  <2>1. PeriodOf(k) /\ said'[k] = said[k] /\ age'[k] = age[k]
    BY <1>1, <1>6 DEF BroadcastInv, BroadcastTypeOK, Waits
  <2> QED BY <1>1, <2>1 DEF PeriodOf
<1> QED BY <1>3, <1>4, <1>5, <1>6 DEF BroadcastInv

\* Every step keeps what the running periods stand for.
LEMMA StepKeepsBroadcast ==
  ASSUME BroadcastInv, [BroadcastNext]_broadcastVars
  PROVE  BroadcastInv'
<1>1. CASE UNCHANGED broadcastVars
  BY <1>1 DEF broadcastVars, BroadcastInv, BroadcastTypeOK, Waits, FrameOf, PeriodOf
<1>2. CASE Walk
  BY <1>2, NotDueKeeps, DueKeeps, PublishKeeps DEF Walk
<1> QED BY <1>1, <1>2, ChangeKeeps, ConfigureKeeps, RoundKeeps DEF BroadcastNext
-----------------------------------------------------------------------------
\* A kind is passed over while its period runs, or with nothing new and no keepalive due.
LEMMA PassedOverWhy ==
  ASSUME BroadcastInv, NEW k \in Kind, PassedOver(k)
  PROVE  \/ due[k] > 0 /\ PeriodOf(k)
         \/ said[k] = payload[k] /\ said[k] # None /\ age[k] < Keepalive /\ Longest > 0
<1>1. at = k /\ frame = None /\ at' # at /\ copied[k] # 0
  BY DEF PassedOver, NotDue, Due
<1>2. PeriodOf(k) /\ age[k] \in Nat
  BY <1>1 DEF BroadcastInv, BroadcastTypeOK, Waits
<1>3. CASE NotDue(k)
  BY <1>1, <1>2, <1>3 DEF NotDue
<1>4. CASE Due(k)
  <2>1. ~ShouldSend(k, payload[k])
    BY <1>1, <1>4 DEF Due
  <2>2. copied[k] \in 0 .. Longest /\ Keepalive \in Nat
    BY LongestBounds, TpdoAssumption DEF BroadcastInv, BroadcastTypeOK
  <2> QED BY <1>1, <1>2, <2>1, <2>2, LongestBounds DEF ShouldSend
<1> QED BY <1>3, <1>4 DEF PassedOver

(***************************************************************************)
(* An enabled kind never looks dead: whenever the round goes past it, its   *)
(* last frame is less than the keepalive and the longest period old.        *)
(***************************************************************************)
THEOREM NeverSilent == BroadcastSpec => SilenceBounded
<1>1. ASSUME BroadcastInv, NEW k \in Kind, PassedOver(k)
      PROVE  said[k] # None /\ age[k] < Keepalive + Longest
  <2>1. due[k] \in 0 .. Longest /\ age[k] \in Nat /\ Keepalive \in Nat
    BY <1>1, TpdoAssumption DEF BroadcastInv, BroadcastTypeOK
  <2> QED BY <1>1, <2>1, PassedOverWhy, LongestBounds DEF PeriodOf
<1>2. BroadcastInv =>
        \A k \in Kind : PassedOver(k) => said[k] # None /\ age[k] < Keepalive + Longest
  BY <1>1
<1> QED BY <1>2, BroadcastStarts, StepKeepsBroadcast, PTL DEF BroadcastSpec, SilenceBounded

(***************************************************************************)
(* A payload that has stood for the period its kind was last due for has    *)
(* been sent, however payloads and periods change while frames wait for     *)
(* room in the queue.                                                       *)
(***************************************************************************)
THEOREM NewsIsSent == BroadcastSpec => ChangesBroadcast
<1>1. ASSUME BroadcastInv, NEW k \in Kind, PassedOver(k), stable[k] >= dueFor[k]
      PROVE  said[k] = payload[k]
  <2>1. due[k] \in 0 .. Longest /\ dueFor[k] \in Nat /\ stable[k] \in Nat
    BY <1>1, LongestBounds, TpdoAssumption DEF BroadcastInv, BroadcastTypeOK
  <2> QED BY <1>1, <2>1, PassedOverWhy, LongestBounds DEF PeriodOf
<1>2. BroadcastInv =>
        \A k \in Kind : PassedOver(k) /\ stable[k] >= dueFor[k] => said[k] = payload[k]
  BY <1>1
<1> QED BY <1>2, BroadcastStarts, StepKeepsBroadcast, PTL DEF BroadcastSpec, ChangesBroadcast
=============================================================================
