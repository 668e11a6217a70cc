--------------------------- MODULE Telemetry_proofs ---------------------------
(***************************************************************************)
(* What a master can read of a node's health is right for any widths of the *)
(* counters, any periods and any delays of the control task: the copy of    *)
(* the counters, the bad windows, their grid and the reported load.         *)
(***************************************************************************)
EXTENDS Telemetry, FiniteSetTheorems, TLAPS

(* Arithmetic modulo n.                                                     *)
\* Every integer is a multiple of n and a remainder.
LEMMA DivMod ==
  ASSUME NEW n \in Nat \ {0}, NEW x \in Int
  PROVE  /\ (x % n) \in 0 .. n - 1
         /\ \E q \in Int : x = n * q + (x % n)
<1>1. (x % n) \in 0 .. n - 1
  OBVIOUS
<1>2. x \div n \in Int /\ x = n * (x \div n) + (x % n)
  OBVIOUS
<1> QED BY <1>1, <1>2

\* There is but one remainder.
LEMMA ModUnique ==
  ASSUME NEW n \in Nat \ {0}, NEW q \in Int, NEW r \in 0 .. n - 1
  PROVE  (n * q + r) % n = r
OBVIOUS

\* What is added may be added before or after the wrap.
LEMMA ModMod ==
  ASSUME NEW n \in Nat \ {0}, NEW x \in Int, NEW y \in Int
  PROVE  ((x % n) + y) % n = (x + y) % n
<1>1. PICK q \in Int, m \in 0 .. n - 1 : x = n * q + m /\ m = x % n
  BY DivMod
<1>2. m + y \in Int
  OBVIOUS
<1>3. PICK p \in Int, r \in 0 .. n - 1 : m + y = n * p + r /\ r = (m + y) % n
  BY <1>2, DivMod
<1>4. n * (q + p) = n * q + n * p /\ n * q \in Int /\ n * p \in Int
  OBVIOUS
<1>5. x + y = n * (q + p) + r
  BY <1>1, <1>3, <1>4
<1>6. (n * (q + p) + r) % n = r
  BY ModUnique
<1> QED BY <1>1, <1>3, <1>5, <1>6

\* What needs no wrap is left alone.
LEMMA ModSmall ==
  ASSUME NEW n \in Nat \ {0}, NEW r \in 0 .. n - 1
  PROVE  r % n = r
OBVIOUS

\* How much a sum of five owes to wraps of three or two of its terms: nothing.
LEMMA ModSums ==
  ASSUME NEW n \in Nat \ {0}, NEW s \in Int, NEW a \in Int, NEW m \in Int,
         NEW o \in Int, NEW c \in Int
  PROVE  (((s + o + c) % n) + a + m) % n = (((s + a) % n) + (o + m) + c) % n
<1>1. PICK x \in Int : x = s + o + c
  OBVIOUS
<1>2. PICK y \in Int : y = s + a
  OBVIOUS
<1>3. PICK u \in Int : u = a + m
  OBVIOUS
<1>4. PICK v \in Int : v = o + m + c
  OBVIOUS
<1>5. ((x % n) + u) % n = (x + u) % n /\ ((y % n) + v) % n = (y + v) % n
  BY ModMod
<1>6. x + u = y + v
  BY <1>1, <1>2, <1>3, <1>4
<1>7. (x % n) \in Int /\ (y % n) \in Int
  OBVIOUS
<1>8. (x % n) + a + m = (x % n) + u /\ (y % n) + (o + m) + c = (y % n) + v
  BY <1>3, <1>4, <1>7
<1> QED BY <1>1, <1>2, <1>5, <1>6, <1>8

\* Whole periods do not count.
LEMMA ModPeriod ==
  ASSUME NEW n \in Nat \ {0}, NEW x \in Int
  PROVE  (x + n) % n = x % n
<1>1. PICK q \in Int, r \in 0 .. n - 1 : x = n * q + r /\ r = x % n
  BY DivMod
<1>2. n * (q + 1) = n * q + n /\ n * q \in Int
  OBVIOUS
<1>3. x + n = n * (q + 1) + r
  BY <1>1, <1>2
<1>4. (n * (q + 1) + r) % n = r
  BY ModUnique
<1> QED BY <1>1, <1>3, <1>4
-----------------------------------------------------------------------------
(***************************************************************************)
(* The copy of the counters.                                                *)
(***************************************************************************)
Count == 0 .. CountWrap - 1

MirrorInv ==
  /\ counts \in [Tracked -> Count] /\ mirror \in [Tracked -> Count]
  /\ snapshot \in [Tracked -> Count] /\ changed \in BOOLEAN
  /\ MirrorCatchesUp

\* The copy boots equal to the counters.
LEMMA MirrorStarts == TelemetryInit => MirrorInv
<1> SUFFICES ASSUME TelemetryInit PROVE MirrorInv
  OBVIOUS
<1>1. /\ counts = [c \in Tracked |-> 0] /\ mirror = counts /\ snapshot = mirror
      /\ changed = FALSE /\ phase = "wait"
  BY DEF TelemetryInit
<1>2. counts \in [Tracked -> Count]
  BY <1>1, TelemetryAssumption DEF Count
<1> QED BY <1>1, <1>2 DEF MirrorInv, MirrorCatchesUp

\* A bump raises the flag, or it moved nothing.
LEMMA BumpKeepsMirror ==
  ASSUME MirrorInv, NEW S, NEW n \in Nat, BumpAll(S, n),
         UNCHANGED <<mirror, snapshot, unread>>, (phase' = "reading") <=> (phase = "reading")
  PROVE  MirrorInv'
<1>1. CountWrap \in Nat \ {0}
  BY TelemetryAssumption
<1>2. counts' = [c \in Tracked |-> (counts[c] + IF c \in S THEN n ELSE 0) % CountWrap]
  BY DEF BumpAll
<1>3. ASSUME NEW c \in Tracked
      PROVE  counts'[c] \in Count /\ (S = {} \/ n = 0 => counts'[c] = counts[c])
  <2>1. counts[c] \in 0 .. CountWrap - 1
    BY DEF MirrorInv, Count
  <2>2. counts[c] + (IF c \in S THEN n ELSE 0) \in Int
    BY <2>1, <1>1
  <2>3. counts'[c] = (counts[c] + IF c \in S THEN n ELSE 0) % CountWrap
    BY <1>2
  <2>4. counts'[c] \in Count
    BY <1>1, <2>2, <2>3, DivMod DEF Count
  <2>5. ASSUME S = {} \/ n = 0 PROVE counts'[c] = counts[c]
    <3>1. counts[c] + (IF c \in S THEN n ELSE 0) = counts[c]
      BY <1>1, <2>1, <2>5
    <3> QED BY <1>1, <2>1, <2>3, <3>1, ModSmall
  <2> QED BY <2>4, <2>5
<1>4. counts' \in [Tracked -> Count]
  BY <1>2, <1>3
<1>5. changed' = (changed \/ (S # {} /\ n # 0))
  BY DEF BumpAll
<1>6. changed' \in BOOLEAN
  BY <1>5
<1>7. ASSUME ~changed' PROVE ~changed /\ counts' = counts
  <2>1. ~changed /\ (S = {} \/ n = 0)
    BY <1>5, <1>7
  <2> QED BY <1>3, <1>4, <2>1 DEF MirrorInv
<1>8. MirrorCatchesUp'
  BY <1>7 DEF MirrorInv, MirrorCatchesUp
<1> QED BY <1>4, <1>6, <1>8 DEF MirrorInv

\* The flag falls before the first counter is read, and every counter is read after.
LEMMA TakingKeepsMirror ==
  ASSUME MirrorInv, TakeIfChanged \/ (\E c \in Tracked : Read(c)) \/ Stored
  PROVE  MirrorInv'
<1>1. CASE TakeIfChanged
  BY <1>1 DEF TakeIfChanged, store, MirrorInv, MirrorCatchesUp
<1>2. ASSUME NEW c \in Tracked, Read(c) PROVE MirrorInv'
  <2>1. /\ phase = "reading" /\ snapshot' = [snapshot EXCEPT ![c] = counts[c]]
        /\ unread' = unread \ {c} /\ UNCHANGED <<counts, changed, mirror, phase>>
    BY <1>2 DEF Read, errors, store
  <2>2. snapshot' \in [Tracked -> Count]
    BY <2>1 DEF MirrorInv
  <2>3. MirrorCatchesUp'
    BY <2>1 DEF MirrorInv, MirrorCatchesUp
  <2> QED BY <2>1, <2>2, <2>3 DEF MirrorInv
<1>3. CASE Stored
  <2>1. /\ phase = "reading" /\ unread = {} /\ phase' = "summarise" /\ mirror' = snapshot
        /\ UNCHANGED <<counts, changed, snapshot>>
    BY <1>3 DEF Stored, errors
  <2>2. ASSUME ~changed PROVE snapshot = counts
    <3>1. \A c \in Tracked : snapshot[c] = counts[c]
      BY <2>1, <2>2 DEF MirrorInv, MirrorCatchesUp
    <3> QED BY <3>1 DEF MirrorInv
  <2>3. MirrorCatchesUp'
    BY <2>1, <2>2 DEF MirrorCatchesUp
  <2> QED BY <2>1, <2>3 DEF MirrorInv
<1> QED BY <1>1, <1>2, <1>3

\* Nothing else writes counters, flag or copy.
LEMMA StepKeepsMirror ==
  ASSUME MirrorInv, [TelemetryNext]_telemetryVars
  PROVE  MirrorInv'
<1>1. ASSUME NEW c \in Sources, NEW n \in Batches, Bump(c, n) PROVE MirrorInv'
  <2>1. n \in Nat /\ BumpAll({c}, n) /\ UNCHANGED <<mirror, snapshot, unread, phase>>
    BY <1>1, TelemetryAssumption DEF Bump, store
  <2> QED BY <2>1, BumpKeepsMirror
<1>2. ASSUME NEW t \in Works, UpdateLoad(t, 0) PROVE MirrorInv'
  <2>1. /\ \E S : BumpAll(S, 1)
        /\ phase = "update" /\ phase' = "wait"
        /\ UNCHANGED <<mirror, snapshot, unread>>
    BY <1>2 DEF UpdateLoad, store
  <2> QED BY <2>1, BumpKeepsMirror
<1>3. CASE TakeIfChanged \/ (\E c \in Tracked : Read(c)) \/ Stored
  BY <1>3, TakingKeepsMirror
<1>4. CASE \/ \E t \in Waits : \E asleep \in {0, t} : Wait(t, asleep)
           \/ Poll \/ Close \/ Summarise \/ UNCHANGED telemetryVars
  <2>1. /\ UNCHANGED <<counts, changed, mirror, snapshot, unread>>
        /\ (phase' = "reading") <=> (phase = "reading")
    BY <1>4 DEF Wait, Poll, Close, Summarise, telemetryVars, errors, store
  <2> QED BY <2>1 DEF MirrorInv, MirrorCatchesUp
<1> QED BY <1>1, <1>2, <1>3, <1>4 DEF TelemetryNext

(***************************************************************************)
(* A counter that moved is never missing from the store for good, whichever *)
(* counters are bumped, however often, and between whichever reads.         *)
(***************************************************************************)
THEOREM CountersArrive == TelemetrySpec => []MirrorCatchesUp
<1>1. MirrorInv => MirrorCatchesUp
  BY DEF MirrorInv
<1> QED BY <1>1, MirrorStarts, StepKeepsMirror, PTL DEF TelemetrySpec
-----------------------------------------------------------------------------
(***************************************************************************)
(* The bad windows.                                                         *)
(***************************************************************************)
Tally == 0 .. SummaryWrap - 1
OneIf(condition) == IF condition THEN 1 ELSE 0

\* A mark is either still in SUMMARY_DIRTY or in the hands of the poll that took it.
WindowsInv ==
  /\ summary \in [ErrorCategory -> Tally] /\ deserved \in [ErrorCategory -> Tally]
  /\ summaryDirty = bumped
  /\ phase # "close" => closing = {}
  /\ BadWindowsCountOnce

\* No window is bad at boot.
LEMMA WindowsStart == TelemetryInit => WindowsInv
<1> SUFFICES ASSUME TelemetryInit PROVE WindowsInv
  OBVIOUS
<1>1. /\ summary = [k \in ErrorCategory |-> 0] /\ deserved = summary
      /\ summaryDirty = {} /\ bumped = {} /\ closing = {}
  BY DEF TelemetryInit
<1>2. SummaryWrap \in Nat \ {0} /\ 0 \in Tally
  BY TelemetryAssumption DEF Tally
<1>3. 0 % SummaryWrap = 0
  BY <1>2, ModSmall DEF Tally
<1> QED BY <1>1, <1>2, <1>3 DEF WindowsInv, BadWindowsCountOnce

\* How many counters bypass the window is a number.
LEMMA BypassingCounts ==
  ASSUME NEW k \in ErrorCategory, NEW S, NEW n \in Nat
  PROVE  n * Cardinality(Bypassing(k, S)) \in Nat
<1>1. IsFiniteSet({"SensorMissingAtBoot"}) /\ Bypassing(k, S) \subseteq {"SensorMissingAtBoot"}
  BY FS_Singleton DEF Bypassing, BypassesSummaryWindow
<1>2. Cardinality(Bypassing(k, S)) \in Nat
  BY <1>1, FS_Subset, FS_CardinalityType
<1> QED BY <1>2

\* Marks and additions reach the summary and what it deserves alike.
LEMMA BumpKeepsWindows ==
  ASSUME WindowsInv, NEW S, NEW n \in Nat, BumpAll(S, n), UNCHANGED closing,
         phase' = phase \/ phase = "update"
  PROVE  WindowsInv'
<1>1. SummaryWrap \in Nat \ {0}
  BY TelemetryAssumption
<1>2. summaryDirty' = bumped' /\ summaryDirty' = IF n = 0 THEN summaryDirty ELSE summaryDirty \cup Marked(S)
  BY DEF BumpAll, WindowsInv
<1>3. ASSUME NEW k \in ErrorCategory
      PROVE  /\ summary'[k] \in Tally /\ deserved'[k] \in Tally
             /\ deserved'[k] = (summary'[k] + OneIf(k \in summaryDirty') + OneIf(k \in closing)) % SummaryWrap
  <2> DEFINE added == n * Cardinality(Bypassing(k, S))
             marked == OneIf(n # 0 /\ k \in Marked(S) \ bumped)
             open == OneIf(k \in summaryDirty)
             shut == OneIf(k \in closing)
  <2>1. added \in Nat
    BY BypassingCounts
  <2>2. marked \in {0, 1} /\ open \in {0, 1} /\ shut \in {0, 1}
    BY DEF OneIf
  <2>3. OneIf(k \in summaryDirty') = open + marked
    BY <1>2 DEF OneIf, WindowsInv
  <2>4. /\ summary'[k] = (summary[k] + added) % SummaryWrap
        /\ deserved'[k] = (deserved[k] + added + marked) % SummaryWrap
    BY DEF BumpAll, OneIf
  <2>5. summary[k] \in Int /\ deserved[k] = (summary[k] + open + shut) % SummaryWrap
    BY <1>1 DEF WindowsInv, Tally, BadWindowsCountOnce, OneIf
  <2> HIDE DEF added, marked, open, shut
  <2>6. deserved'[k] = (summary'[k] + (open + marked) + shut) % SummaryWrap
    <3>1. added \in Int /\ marked \in Int /\ open \in Int /\ shut \in Int /\ summary[k] \in Int
      BY <2>1, <2>2, <2>5
    <3>2. (((summary[k] + open + shut) % SummaryWrap) + added + marked) % SummaryWrap
            = (((summary[k] + added) % SummaryWrap) + (open + marked) + shut) % SummaryWrap
      BY ONLY <1>1, <3>1, ModSums
    <3> QED BY <2>4, <2>5, <3>2
  <2>7. summary[k] + added \in Int /\ deserved[k] + added + marked \in Int
    BY <1>1, <2>1, <2>2, <2>5 DEF WindowsInv, Tally
  <2>8. summary'[k] \in Tally /\ deserved'[k] \in Tally
    BY <1>1, <2>4, <2>7, DivMod DEF Tally
  <2> QED BY <2>3, <2>6, <2>8 DEF shut
<1>4. summary' \in [ErrorCategory -> Tally] /\ deserved' \in [ErrorCategory -> Tally]
  BY <1>3 DEF BumpAll
<1>5. BadWindowsCountOnce'
  BY <1>3 DEF BadWindowsCountOnce, OneIf
<1>6. phase' # "close" => closing' = {}
  BY DEF WindowsInv
<1> QED BY <1>2, <1>4, <1>5, <1>6 DEF WindowsInv

\* A poll takes the marks as it opens the next window; closing turns each into one count.
LEMMA ClosingKeepsWindows ==
  ASSUME WindowsInv, Poll \/ Close
  PROVE  WindowsInv'
<1>1. SummaryWrap \in Nat \ {0}
  BY TelemetryAssumption
<1>2. CASE Poll
  <2>1. phase = "poll" /\ closing = {} /\ UNCHANGED <<summary, deserved>>
    BY <1>2 DEF Poll, WindowsInv
  <2>2. CASE closeIn > 0
    BY <1>2, <2>1, <2>2 DEF Poll, WindowsInv, BadWindowsCountOnce
  <2>3. CASE ~(closeIn > 0)
    <3>1. phase' = "close" /\ closing' = summaryDirty /\ summaryDirty' = {} /\ bumped' = {}
      BY <1>2, <2>3 DEF Poll
    <3>2. ASSUME NEW k \in ErrorCategory
          PROVE  summary[k] + OneIf(k \in summaryDirty) + 0 = summary[k] + 0 + OneIf(k \in summaryDirty)
      BY <1>1 DEF WindowsInv, Tally, OneIf
    <3>3. BadWindowsCountOnce'
      BY <2>1, <3>1, <3>2 DEF WindowsInv, BadWindowsCountOnce, OneIf
    <3> QED BY <2>1, <3>1, <3>3 DEF WindowsInv
  <2> QED BY <2>2, <2>3
<1>3. CASE Close
  <2>1. /\ summary' = [k \in ErrorCategory |-> (summary[k] + OneIf(k \in closing)) % SummaryWrap]
        /\ closing' = {} /\ UNCHANGED <<summaryDirty, bumped, deserved>>
    BY <1>3 DEF Close, owed, OneIf
  <2>2. ASSUME NEW k \in ErrorCategory
        PROVE  /\ summary'[k] \in Tally
               /\ deserved[k] = (summary'[k] + OneIf(k \in summaryDirty) + 0) % SummaryWrap
    <3> DEFINE open == OneIf(k \in summaryDirty)
               shut == OneIf(k \in closing)
    <3>1. open \in {0, 1} /\ shut \in {0, 1}
      BY DEF OneIf
    <3>2. summary[k] \in Int /\ deserved[k] = (summary[k] + open + shut) % SummaryWrap
      BY <1>1 DEF WindowsInv, Tally, BadWindowsCountOnce, OneIf
    <3>3. summary'[k] = (summary[k] + shut) % SummaryWrap
      BY <2>1
    <3> HIDE DEF open, shut
    <3>4. summary[k] + shut \in Int
      BY <3>1, <3>2
    <3>5. /\ summary'[k] \in Tally
          /\ (summary'[k] + open) % SummaryWrap = ((summary[k] + shut) + open) % SummaryWrap
      <4>1. PICK x \in Int : x = summary[k] + shut
        BY <3>4
      <4>2. summary'[k] = x % SummaryWrap /\ open \in Int
        BY <3>1, <3>3, <4>1
      <4>3. (x % SummaryWrap) \in Tally
        BY ONLY <1>1, <4>1, DivMod DEF Tally
      <4>4. ((x % SummaryWrap) + open) % SummaryWrap = (x + open) % SummaryWrap
        BY ONLY <1>1, <4>1, <4>2, ModMod
      <4> QED BY <4>1, <4>2, <4>3, <4>4
    <3>6. (summary[k] + shut) + open = summary[k] + open + shut
      BY <3>1, <3>2
    <3>7. summary'[k] + open + 0 = summary'[k] + open
      BY <1>1, <3>1, <3>5 DEF Tally
    <3>8. deserved[k] = (summary'[k] + open + 0) % SummaryWrap
      BY <3>2, <3>5, <3>6, <3>7
    <3> QED BY <3>5, <3>8 DEF open
  <2>3. summary' \in [ErrorCategory -> Tally]
    BY <2>1, <2>2
  <2>4. BadWindowsCountOnce'
    BY <2>1, <2>2 DEF BadWindowsCountOnce, OneIf
  <2> QED BY <2>1, <2>3, <2>4 DEF WindowsInv
<1> QED BY <1>2, <1>3

\* Nothing else counts windows.
LEMMA StepKeepsWindows ==
  ASSUME WindowsInv, [TelemetryNext]_telemetryVars
  PROVE  WindowsInv'
<1>1. ASSUME NEW c \in Sources, NEW n \in Batches, Bump(c, n) PROVE WindowsInv'
  <2>1. n \in Nat /\ BumpAll({c}, n) /\ UNCHANGED <<closing, phase>>
    BY <1>1, TelemetryAssumption DEF Bump
  <2> QED BY <2>1, BumpKeepsWindows
<1>2. ASSUME NEW t \in Works, UpdateLoad(t, 0) PROVE WindowsInv'
  <2>1. (\E S : BumpAll(S, 1)) /\ phase = "update" /\ UNCHANGED closing
    BY <1>2 DEF UpdateLoad
  <2> QED BY <2>1, BumpKeepsWindows
<1>3. CASE Poll \/ Close
  BY <1>3, ClosingKeepsWindows
<1>4. CASE \/ \E t \in Waits : \E asleep \in {0, t} : Wait(t, asleep)
           \/ TakeIfChanged \/ Stored \/ Summarise \/ (\E c \in Tracked : Read(c)) \/ UNCHANGED telemetryVars
  <2>1. /\ UNCHANGED <<summary, deserved, summaryDirty, bumped, closing>>
        /\ phase' # "close" => phase # "close"
    BY <1>4 DEF Wait, TakeIfChanged, Stored, Summarise, Read, telemetryVars, errors, owed
  <2> QED BY <2>1 DEF WindowsInv, BadWindowsCountOnce
<1> QED BY <1>1, <1>2, <1>3, <1>4 DEF TelemetryNext

(***************************************************************************)
(* Every window a category saw an error in is counted exactly once, and the *)
(* errors that bypass the window one for one, modulo the width of the       *)
(* summary, whatever falls while a window is being closed.                  *)
(***************************************************************************)
THEOREM WindowsCountedOnce == TelemetrySpec => []BadWindowsCountOnce
<1>1. WindowsInv => BadWindowsCountOnce
  BY DEF WindowsInv
<1> QED BY <1>1, WindowsStart, StepKeepsWindows, PTL DEF TelemetrySpec
-----------------------------------------------------------------------------
(***************************************************************************)
(* The grid of the windows.                                                 *)
(***************************************************************************)
GridInv ==
  /\ grid \in 0 .. SummaryPeriod - 1 /\ closeIn \in Int /\ closeIn <= SummaryPeriod
  /\ WindowsDoNotDrift

\* The first window closes a period after boot.
LEMMA GridStarts == TelemetryInit => GridInv
<1> SUFFICES ASSUME TelemetryInit PROVE GridInv
  OBVIOUS
<1>1. grid = 0 /\ closeIn = SummaryPeriod /\ phase = "wait"
  BY DEF TelemetryInit
<1>2. SummaryPeriod \in Nat \ {0}
  BY TelemetryAssumption
<1>3. (0 + SummaryPeriod) % SummaryPeriod = 0
  BY <1>2, ModPeriod, ModSmall
<1> QED BY <1>1, <1>2, <1>3 DEF GridInv, WindowsDoNotDrift

\* Time that passes moves the grid and the next close alike.
LEMMA TimeKeepsGrid ==
  ASSUME GridInv, NEW t \in Nat, closeIn' = closeIn - t, grid' = (grid + t) % SummaryPeriod,
         phase' \in {"wait", "poll"}
  PROVE  GridInv'
<1>1. SummaryPeriod \in Nat \ {0}
  BY TelemetryAssumption
<1>2. grid \in Int /\ closeIn \in Int /\ (grid + closeIn) % SummaryPeriod = 0
  BY <1>1 DEF GridInv, WindowsDoNotDrift
<1>3. PICK x \in Int, y \in Int : x = grid + t /\ y = closeIn - t
  BY <1>2
<1>4. ((x % SummaryPeriod) + y) % SummaryPeriod = (x + y) % SummaryPeriod
      /\ (x % SummaryPeriod) \in 0 .. SummaryPeriod - 1
  BY ONLY <1>1, <1>3, ModMod, DivMod
<1>5. x + y = grid + closeIn
  BY <1>2, <1>3
<1>6. (grid' + closeIn') % SummaryPeriod = 0
  BY <1>2, <1>3, <1>4, <1>5
<1>7. grid' \in 0 .. SummaryPeriod - 1
  BY <1>3, <1>4
<1>8. closeIn' \in Int /\ closeIn' <= SummaryPeriod
  BY <1>1, <1>2 DEF GridInv
<1> QED BY <1>6, <1>7, <1>8 DEF GridInv, WindowsDoNotDrift

\* The next window is due a period after this one was, or the grid starts over.
LEMMA PollKeepsGrid ==
  ASSUME GridInv, Poll
  PROVE  GridInv'
<1>1. SummaryPeriod \in Nat \ {0}
  BY TelemetryAssumption
<1>2. grid \in Int /\ closeIn \in Int /\ (grid + closeIn) % SummaryPeriod = 0
  BY <1>1 DEF GridInv, WindowsDoNotDrift
<1>3. CASE closeIn > 0
  BY <1>3 DEF Poll, GridInv, WindowsDoNotDrift
<1>4. CASE closeIn <= 0 /\ closeIn + SummaryPeriod <= 0
  <2>1. grid' = 0 /\ closeIn' = SummaryPeriod
    BY <1>1, <1>2, <1>4 DEF Poll, Rescheduled
  <2>2. (0 + SummaryPeriod) % SummaryPeriod = 0
    BY <1>1, ModPeriod, ModSmall
  <2> QED BY <1>1, <2>1, <2>2 DEF GridInv, WindowsDoNotDrift
<1>5. CASE closeIn <= 0 /\ closeIn + SummaryPeriod > 0
  <2>1. grid' = grid /\ closeIn' = closeIn + SummaryPeriod
    BY <1>1, <1>2, <1>5 DEF Poll, Rescheduled
  <2>2. PICK x \in Int : x = grid + closeIn
    BY <1>2
  <2>3. (x + SummaryPeriod) % SummaryPeriod = x % SummaryPeriod
    BY ONLY <1>1, <2>2, ModPeriod
  <2>4. grid' + closeIn' = x + SummaryPeriod
    BY <1>1, <1>2, <2>1, <2>2
  <2>5. (grid' + closeIn') % SummaryPeriod = 0
    BY <1>2, <2>2, <2>3, <2>4
  <2>6. closeIn' \in 1 .. SummaryPeriod
    BY <1>1, <1>2, <1>5, <2>1
  <2>7. closeIn' \in Int /\ closeIn' <= SummaryPeriod /\ grid' \in 0 .. SummaryPeriod - 1
    BY <1>1, <2>1, <2>6 DEF GridInv
  <2> QED BY <2>5, <2>6, <2>7 DEF GridInv, WindowsDoNotDrift
<1> QED BY <1>1, <1>2, <1>3, <1>4, <1>5

\* A poll always leads to the end of the iteration, and only then does time pass.
LEMMA StepKeepsGrid ==
  ASSUME GridInv, [TelemetryNext]_telemetryVars
  PROVE  GridInv'
<1>1. ASSUME NEW t \in Waits, NEW asleep \in {0, t}, Wait(t, asleep) PROVE GridInv'
  <2>1. t \in Nat /\ closeIn' = closeIn - t /\ grid' = (grid + t) % SummaryPeriod /\ phase' = "poll"
    BY <1>1, TelemetryAssumption DEF Wait, Passed
  <2> QED BY <2>1, TimeKeepsGrid
<1>2. ASSUME NEW t \in Works, UpdateLoad(t, 0) PROVE GridInv'
  <2>1. t \in Nat /\ closeIn' = closeIn - t /\ grid' = (grid + t) % SummaryPeriod /\ phase' = "wait"
    BY <1>2, TelemetryAssumption DEF UpdateLoad
  <2> QED BY <2>1, TimeKeepsGrid
<1>3. CASE Poll
  BY <1>3, PollKeepsGrid
<1>4. CASE \/ \E c \in Sources, n \in Batches : Bump(c, n)
           \/ Close \/ TakeIfChanged \/ Stored \/ Summarise \/ (\E c \in Tracked : Read(c))
           \/ UNCHANGED telemetryVars
  <2>1. UNCHANGED <<grid, closeIn>> /\ (phase \in {"wait", "poll"} => phase' = phase)
    BY <1>4 DEF Bump, Close, TakeIfChanged, Stored, Summarise, Read, telemetryVars, clock
  <2> QED BY <2>1 DEF GridInv, WindowsDoNotDrift
<1> QED BY <1>1, <1>2, <1>3, <1>4 DEF TelemetryNext

(***************************************************************************)
(* The summary windows fall on a grid of whole periods for any period and   *)
(* any lateness, re-based only by a stall of more than a window.            *)
(***************************************************************************)
THEOREM WindowsOnGrid == TelemetrySpec => []WindowsDoNotDrift
<1>1. GridInv => WindowsDoNotDrift
  BY DEF GridInv
<1> QED BY <1>1, GridStarts, StepKeepsGrid, PTL DEF TelemetrySpec
-----------------------------------------------------------------------------
(***************************************************************************)
(* The reported load.                                                       *)
(***************************************************************************)
\* The monitor's clock and idle time measure the open window exactly.
LoadInv ==
  /\ elapsed \in Nat /\ idle \in 0 .. elapsed
  /\ span = elapsed /\ busy = elapsed - idle
  /\ worst[2] \in Nat
  /\ ReportIsWorst

\* The first window opens at boot.
LEMMA LoadStarts == TelemetryInit => LoadInv
<1> SUFFICES ASSUME TelemetryInit PROVE LoadInv
  OBVIOUS
<1>1. /\ idle = 0 /\ elapsed = 0 /\ span = 0 /\ busy = 0
      /\ peak = <<0, 0>> /\ worst = <<0, 0>> /\ report = <<Unknown, 0>> /\ worstReport = <<Unknown, 0>>
  BY DEF TelemetryInit
<1> QED BY <1>1, TelemetryAssumption DEF LoadInv, ReportIsWorst, Reported, Saturated

\* An iteration's load is measured over the time and idle time since the last roll.
LEMMA UpdateKeepsLoad ==
  ASSUME LoadInv, NEW t \in Works, UpdateLoad(t, 0)
  PROVE  LoadInv'
<1>1. t \in Nat
  BY TelemetryAssumption
<1> DEFINE total == elapsed + t
           rolls == total >= Window
           load == Permille(total, idle + 0)
           trueLoad == ((busy + t - 0) * 1000) \div (span + t)
<1>2. load = trueLoad
  <2>1. total - (idle + 0) = busy + t - 0 /\ busy + t - 0 >= 0 /\ total = span + t
        /\ total - (idle + 0) \in Int
    BY <1>1 DEF LoadInv
  <2>2. Larger(total - (idle + 0), 0) = busy + t - 0
    BY <2>1 DEF Larger
  <2> QED BY <2>1, <2>2 DEF Permille
<1>3. /\ idle' = IF rolls THEN 0 ELSE idle + 0
      /\ elapsed' = IF rolls THEN 0 ELSE total
      /\ span' = IF rolls THEN 0 ELSE span + t
      /\ busy' = IF rolls THEN 0 ELSE busy + t - 0
  BY DEF UpdateLoad, LeftOver
<1>4. /\ elapsed' \in Nat /\ idle' \in 0 .. elapsed'
      /\ span' = elapsed' /\ busy' = elapsed' - idle'
  BY <1>1, <1>3 DEF LoadInv
<1> DEFINE reports == rolls /\ windows + 1 >= WindowsPerReport
           now == Worst(peak, IF rolls THEN load ELSE 0, Saturated(t))
           true == Worst(worst, IF rolls THEN trueLoad ELSE 0, t)
<1>5. /\ report' = IF reports THEN now ELSE report
      /\ peak' = IF reports THEN <<0, 0>> ELSE now
      /\ worstReport' = IF reports THEN true ELSE worstReport
      /\ worst' = IF reports THEN <<0, 0>> ELSE true
  BY DEF UpdateLoad
<1> HIDE DEF rolls, load, trueLoad, reports
\* The greatest of the saturated is the greatest, saturated.
<1>6. /\ true[2] \in Nat /\ true = <<true[1], true[2]>>
      /\ now = Reported(true)
  <2>1. peak = <<worst[1], Saturated(worst[2])>> /\ worst[2] \in Nat
    BY DEF LoadInv, ReportIsWorst, Reported
  <2>2. peak[1] = worst[1] /\ peak[2] = Saturated(worst[2])
    BY <2>1
  <2>3. /\ Larger(worst[2], t) \in Nat
        /\ Larger(Saturated(worst[2]), Saturated(t)) = Saturated(Larger(worst[2], t))
    BY <1>1, <2>1, TelemetryAssumption DEF Larger, Saturated
  <2>4. /\ now = <<Larger(peak[1], IF rolls THEN load ELSE 0), Larger(peak[2], Saturated(t))>>
        /\ true = <<Larger(worst[1], IF rolls THEN trueLoad ELSE 0), Larger(worst[2], t)>>
    BY DEF Worst
  <2>5. /\ true[1] = Larger(worst[1], IF rolls THEN trueLoad ELSE 0)
        /\ true[2] = Larger(worst[2], t)
    BY <2>4
  <2> QED BY <1>2, <2>2, <2>3, <2>4, <2>5 DEF Reported
<1>7. worst'[2] \in Nat
  <2>1. <<0, 0>>[2] \in Nat
    OBVIOUS
  <2> QED BY <1>5, <1>6, <2>1
<1>8. report' = Reported(worstReport') /\ peak' = Reported(worst')
  <2>1. Reported(<<0, 0>>) = <<0, 0>>
    BY TelemetryAssumption DEF Reported, Saturated
  <2> HIDE DEF now, true
  <2> QED BY <1>5, <1>6, <2>1 DEF LoadInv, ReportIsWorst
<1> QED BY <1>4, <1>7, <1>8 DEF LoadInv, ReportIsWorst

\* A wait counts as idle as far as the idle loop slept through it.
LEMMA StepKeepsLoad ==
  ASSUME LoadInv, [TelemetryNext]_telemetryVars
  PROVE  LoadInv'
<1>1. ASSUME NEW t \in Waits, NEW asleep \in {0, t}, Wait(t, asleep) PROVE LoadInv'
  <2>1. /\ t \in Nat /\ asleep \in 0 .. t
        /\ idle' = idle + asleep /\ elapsed' = elapsed + t
        /\ span' = span + t /\ busy' = busy + t - asleep
        /\ UNCHANGED <<report, peak, worst, worstReport>>
    BY <1>1, TelemetryAssumption DEF Wait, Passed, cpu
  <2> QED BY <2>1 DEF LoadInv, ReportIsWorst
<1>2. ASSUME NEW t \in Works, UpdateLoad(t, 0) PROVE LoadInv'
  BY <1>2, UpdateKeepsLoad
<1>3. CASE \/ \E c \in Sources, n \in Batches : Bump(c, n)
           \/ Poll \/ Close \/ TakeIfChanged \/ Stored \/ Summarise \/ (\E c \in Tracked : Read(c))
           \/ UNCHANGED telemetryVars
  <2>1. UNCHANGED <<idle, elapsed, span, busy, report, peak, worst, worstReport>>
    BY <1>3 DEF Bump, Poll, Close, TakeIfChanged, Stored, Summarise, Read, telemetryVars, clock, cpu
  <2> QED BY <2>1 DEF LoadInv, ReportIsWorst
<1> QED BY <1>1, <1>2, <1>3 DEF TelemetryNext

(***************************************************************************)
(* What is published as load and worst iteration is the worst measurement   *)
(* window and the slowest iteration of the last reporting period, for any   *)
(* length of the windows and however they overran, the iteration saturating *)
(* where its report does (65535 microseconds).                              *)
(***************************************************************************)
THEOREM ReportTrue == TelemetrySpec => []ReportIsWorst
<1>1. LoadInv => ReportIsWorst
  BY DEF LoadInv
<1> QED BY <1>1, LoadStarts, StepKeepsLoad, PTL DEF TelemetrySpec
=============================================================================
