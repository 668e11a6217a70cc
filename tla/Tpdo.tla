---------------------------------- MODULE Tpdo ----------------------------------
(***************************************************************************)
(* The broadcaster of process data (src/src/can/tpdo.rs): a loop that walks *)
(* every kind of frame, sends those that are due and say something new, and *)
(* resends an unchanged one after a while as a keepalive.                   *)
(*                                                                          *)
(* The loop reads the clock and the periods once, then awaits the store and *)
(* room in the transmit queue for every frame, while the other tasks change *)
(* payloads and periods.  Instants are kept relative to the reading of the  *)
(* clock the loop works with; the time unit is BASE_TICK.                   *)
(***************************************************************************)
EXTENDS Integers

CONSTANTS
  NumKinds,         \* NUM_TPDO_KINDS
  Payload,          \* what a frame may say
  Intervals,        \* the periods a master may configure, 0 to disable
  BootInterval,     \* the period each kind boots with
  Keepalive,        \* UNCHANGED_DATA_BROADCAST_DURATION
  Spans,            \* how much later one round may start than the one before
  AgeCap            \* bound: the age of a frame is not counted further

Kind == 0 .. NumKinds - 1
None == "none"
Longest == CHOOSE i \in Intervals : \A j \in Intervals : j <= i

ASSUME TpdoAssumption ==
  /\ NumKinds \in Nat \ {0} /\ None \notin Payload
  /\ Intervals \subseteq Nat /\ 0 \in Intervals /\ BootInterval \in [Kind -> Intervals]
  /\ \E i \in Intervals : \A j \in Intervals : j <= i     \* they are 16 bits wide
  /\ Keepalive \in Nat /\ Spans \subseteq Nat \ {0}
  /\ AgeCap \in Nat /\ AgeCap >= Keepalive + Longest

VARIABLES
  interval, payload,    \* Store::config.tpdo_interval_ms, and the fields of each kind
  copied,               \* the periods read at the start of the round
  at,                   \* the kind the round has reached
  frame,                \* the frame that waits for room in the queue
  due, said, age,       \* next_due - now, last_sent: its payload, now - its time
  stable,               \* history: rounds' time since the payload last changed
  dueFor                \* history: the period that next_due was last set from

broadcastVars == <<interval, payload, copied, at, frame, due, said, age, stable, dueFor>>

BroadcastInit ==
  /\ interval = BootInterval /\ copied = BootInterval
  /\ payload \in [Kind -> Payload]
  /\ at = NumKinds /\ frame = None
  /\ due = [k \in Kind |-> 0]
  /\ said = [k \in Kind |-> None] /\ age = [k \in Kind |-> 0]
  /\ stable = [k \in Kind |-> 0] /\ dueFor = [k \in Kind |-> 0]
-----------------------------------------------------------------------------
(* The other tasks: the control tick, the cycle of the sensors and the SDO  *)
(* server change what a frame says, and a master writes a period.           *)
Change(k, p) ==
  /\ p # payload[k]
  /\ payload' = [payload EXCEPT ![k] = p]
  /\ stable' = [stable EXCEPT ![k] = 0]
  /\ UNCHANGED <<interval, copied, at, frame, due, said, age, dueFor>>

Configure(k, i) ==
  /\ i # interval[k]
  /\ interval' = [interval EXCEPT ![k] = i]
  /\ UNCHANGED <<payload, copied, at, frame, due, said, age, stable, dueFor>>
-----------------------------------------------------------------------------
Capped(t, cap) == IF t > cap THEN cap ELSE t

\* A round starts: BASE_TICK after the last one ended, which may have waited.
Round(span) ==
  /\ at = NumKinds
  /\ at' = 0 /\ copied' = interval
  /\ due' = [k \in Kind |-> IF due[k] > span THEN due[k] - span ELSE 0]
  /\ age' = [k \in Kind |-> Capped(age[k] + span, AgeCap)]
  /\ stable' = [k \in Kind |-> Capped(stable[k] + span, Longest)]
  /\ UNCHANGED <<interval, payload, frame, said, dueFor>>

\* Mutants: an unchanged frame is never due, a changed one waits as long.
SendsChangesOnly(k, p) == said[k] # p
SendsAsKeepalive(k, p) == said[k] = None \/ (said[k] # p /\ age[k] >= Keepalive)
ShouldSend(k, p) == said[k] = None \/ said[k] # p \/ age[k] >= Keepalive

NotDue(k) ==
  /\ at = k /\ frame = None
  /\ copied[k] = 0 \/ due[k] > 0
  /\ at' = at + 1
  /\ UNCHANGED <<interval, payload, copied, frame, due, said, age, stable, dueFor>>

Due(k) ==
  /\ at = k /\ frame = None
  /\ copied[k] # 0 /\ due[k] = 0
  /\ due' = [due EXCEPT ![k] = copied[k]] /\ dueFor' = [dueFor EXCEPT ![k] = copied[k]]
  /\ IF ShouldSend(k, payload[k])
     THEN frame' = payload[k] /\ UNCHANGED at
     ELSE at' = at + 1 /\ UNCHANGED frame
  /\ UNCHANGED <<interval, payload, copied, said, age, stable>>

\* The frame found room in the queue.  It is stamped with the start of the round.
Publish(k) ==
  /\ at = k /\ frame # None
  /\ said' = [said EXCEPT ![k] = frame]
  /\ age' = [age EXCEPT ![k] = 0]
  /\ frame' = None /\ at' = at + 1
  /\ UNCHANGED <<interval, payload, copied, due, stable, dueFor>>

Walk == \E k \in Kind : NotDue(k) \/ Due(k) \/ Publish(k)

BroadcastNext ==
  \/ \E k \in Kind, p \in Payload : Change(k, p)
  \/ \E k \in Kind, i \in Intervals : Configure(k, i)
  \/ \E span \in Spans : Round(span)
  \/ Walk

BroadcastSpec == BroadcastInit /\ [][BroadcastNext]_broadcastVars
-----------------------------------------------------------------------------
\* The round goes on to the next kind without a frame of this enabled one.
PassedOver(k) == (NotDue(k) \/ Due(k)) /\ at' # at /\ copied[k] # 0

(***************************************************************************)
(* An enabled kind never looks dead: whenever the round goes past it, its   *)
(* last frame is less than the keepalive and one (longest) period old,      *)
(* whatever periods were configured meanwhile and however long the queue    *)
(* held up earlier frames (can/tpdo.rs:17).                                 *)
(***************************************************************************)
SilenceBounded ==
  [][\A k \in Kind : PassedOver(k) => said[k] # None /\ age[k] < Keepalive + Longest]_broadcastVars

(***************************************************************************)
(* A payload that has stood for as long as the period its kind was last due *)
(* for has been sent: skipping what is unchanged since the last frame never *)
(* skips what is new, and no other period can delay it (can/tpdo.rs:80-93). *)
(***************************************************************************)
ChangesBroadcast ==
  [][\A k \in Kind : PassedOver(k) /\ stable[k] >= dueFor[k] => said[k] = payload[k]]_broadcastVars

(***************************************************************************)
(* A changed period takes effect on the next tick (can/tpdo.rs:4-6,         *)
(* od.rs:921-922): when the round reaches a kind whose payload has stood    *)
(* unsaid for the period the round works with, the kind is due.  It is not: *)
(* a deadline set from a longer period stands until it is over (:80-85).    *)
(***************************************************************************)
PeriodTakesEffect ==
  \A k \in Kind :
    /\ at = k /\ frame = None /\ copied[k] # 0
    /\ said[k] # payload[k] /\ stable[k] >= copied[k]
    => due[k] = 0
=============================================================================
