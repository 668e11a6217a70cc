------------------------------- MODULE Telemetry -------------------------------
(***************************************************************************)
(* What a master can read of a node's health: the error counters and their  *)
(* summary (src/src/errors.rs), the CPU load (src/src/cpu.rs), and the copy *)
(* of both the control tick leaves in the store.                            *)
(*                                                                          *)
(* Counters are atomics bumped "from anywhere, including interrupt          *)
(* context", so a bump may fall between any two accesses of the tick that   *)
(* mirrors them.  The time unit is a fraction of the 20 ms tick; instants   *)
(* are kept relative to now.                                                *)
(***************************************************************************)
EXTENDS Integers, FiniteSets

CONSTANTS
  Tracked,          \* the counters whose value is kept
  Sources,          \* the counters bumped from outside the control task
  Batches,          \* how many occurrences one call of bump_by may report
  CountWrap,        \* bound: 2^32 in the code
  SummaryWrap,      \* bound: 2^16 in the code
  SummaryPeriod,    \* ERROR_SUMMARY_WINDOW_MS
  Tick,             \* control::TICK, the deadline of one iteration
  Window, WindowsPerReport,  \* cpu::WINDOW, WINDOWS_PER_REPORT
  PeakCap,          \* the longest iteration a report can state: u16::MAX microseconds
  Waits, Works,     \* how long an iteration waits for its tick, and works
  MaxBumps          \* bound: bumps from outside the control task

\* ErrorCounter, by the summary it feeds.
Peripheral ==
  {"I2cTimeout", "I2cBusError", "I2cNack", "I2cDeviceLost", "AmplifierReadFailed",
   "AmplifierAlert", "EncoderReadFailed", "EncoderMagnetLost", "ValveStall",
   "ReliefInhibited", "SensorMissingAtBoot"}
Can == {"CanRxError", "CanTxDropped", "CanErrorPassive", "CanBusOff", "CanErrorCountRose"}
General ==
  {"CanRxOverrun", "CanRxDropped", "CanTxInvalid", "SdoRequestInvalid", "SdoWriteRejected",
   "SdoResponseDropped", "ConfigFlashError", "ConfigInvalid", "WatchdogLate",
   "ControlTickOverrun", "CpuLoadHigh"}
ErrorCounter == Peripheral \cup Can \cup General \cup {"SensorSourceMissing"}
ErrorCategory == {"General", "Peripheral", "Can", "Reboot"}
Feeds(category) ==
  CASE category = "General" -> General
    [] category = "Peripheral" -> Peripheral
    [] category = "Can" -> Can
    [] category = "Reboot" -> {}
BypassesSummaryWindow == {"SensorMissingAtBoot"}

ASSUME TelemetryAssumption ==
  /\ Tracked \subseteq ErrorCounter /\ Sources \subseteq ErrorCounter
  /\ {CountWrap, SummaryWrap, SummaryPeriod, Tick, Window, WindowsPerReport,
      PeakCap} \subseteq Nat \ {0}
  /\ Batches \subseteq Nat /\ Waits \subseteq Nat /\ Works \subseteq Nat /\ MaxBumps \in Nat

HighLoadPermille == 900
Unknown == -1     \* CPU_LOAD_UNKNOWN

VARIABLES
  counts, changed,        \* COUNTS, CHANGED
  summaryDirty, summary,  \* SUMMARY_DIRTY (its categories), SUMMARY
  mirror, mirrorSummary,  \* Store::error_counts, error_summary
  phase,                  \* where the control task is in its iteration
  closing,                \* the categories poll took from SUMMARY_DIRTY
  unread, snapshot,       \* counters snapshot has yet to read, and those read
  closeIn,                \* SummaryWindow::next_close - now
  idle, elapsed,          \* IDLE_TICKS, now - CpuMonitor::window_start
  windows, peak,          \* CpuMonitor::windows, <<peak_permille, peak_tick>>
  report,                 \* <<LOAD_PERMILLE, PEAK_TICK>>
  shown,                  \* Store::<<cpu_load_permille, control_tick_peak>>
  bumps,                  \* how much of MaxBumps is used
  bumped, deserved,       \* history: categories bumped in the open window, and
                          \* what the summaries should have counted
  grid,                   \* history: time since the windows were last re-based
  span, busy, worst, worstReport  \* history: true length and load of the open
                          \* measurement window, of the period, and last reported

errors == <<counts, changed, summaryDirty, summary>>
store == <<mirror, mirrorSummary, shown>>
cpu == <<windows, peak, report>>
clock == <<closeIn, idle, elapsed, grid, span, busy>>
owed == <<bumped, deserved>>
telemetryVars == <<errors, store, phase, closing, unread, snapshot, cpu, clock, bumps, owed,
          worst, worstReport>>

Larger(a, b) == IF a >= b THEN a ELSE b

TelemetryInit ==
  /\ counts = [c \in Tracked |-> 0] /\ changed = FALSE
  /\ summaryDirty = {} /\ summary = [k \in ErrorCategory |-> 0]
  /\ mirror = counts /\ mirrorSummary = summary
  /\ phase = "wait" /\ closing = {} /\ unread = {} /\ snapshot = mirror
  /\ closeIn = SummaryPeriod /\ grid = 0
  /\ idle = 0 /\ elapsed = 0 /\ windows = 0 /\ peak = <<0, 0>>
  /\ report = <<Unknown, 0>> /\ shown = <<Unknown, 0>>
  /\ bumps = 0 /\ bumped = {} /\ deserved = summary
  /\ span = 0 /\ busy = 0 /\ worst = <<0, 0>> /\ worstReport = <<Unknown, 0>>
-----------------------------------------------------------------------------
(***************************************************************************)
(* bump_by, n occurrences of every counter of S: a category is marked for   *)
(* the window that is open, or added to at once.                            *)
(***************************************************************************)
Bypassing(k, S) == S \cap Feeds(k) \cap BypassesSummaryWindow
Marked(S) == {k \in ErrorCategory : (S \cap Feeds(k)) \ BypassesSummaryWindow # {}}

BumpAll(S, n) ==
  /\ counts' = [c \in Tracked |-> (counts[c] + IF c \in S THEN n ELSE 0) % CountWrap]
  /\ changed' = (changed \/ (S # {} /\ n # 0))
  /\ summaryDirty' = IF n = 0 THEN summaryDirty ELSE summaryDirty \cup Marked(S)
  /\ summary' = [k \in ErrorCategory |->
                   (summary[k] + n * Cardinality(Bypassing(k, S))) % SummaryWrap]
  /\ bumped' = IF n = 0 THEN bumped ELSE bumped \cup Marked(S)
  /\ deserved' =
       [k \in ErrorCategory |->
          (deserved[k] + n * Cardinality(Bypassing(k, S))
             + IF n # 0 /\ k \in Marked(S) \ bumped THEN 1 ELSE 0) % SummaryWrap]

\* Anything else on the board that counts something.
Bump(c, n) ==
  /\ bumps < MaxBumps /\ bumps' = bumps + 1
  /\ BumpAll({c}, n)
  /\ UNCHANGED <<store, phase, closing, unread, snapshot, cpu, clock, worst, worstReport>>
-----------------------------------------------------------------------------
(* Time passes; the part of it the idle loop slept through is charged.      *)
Passed(t, asleep) ==
  /\ closeIn' = closeIn - t /\ grid' = (grid + t) % SummaryPeriod
  /\ idle' = idle + asleep

\* The control task waits for its tick or is woken early.
Wait(t, asleep) ==
  /\ phase = "wait" /\ phase' = "poll"
  /\ Passed(t, asleep)
  /\ elapsed' = elapsed + t
  /\ span' = span + t /\ busy' = busy + t - asleep
  /\ UNCHANGED <<errors, store, closing, unread, snapshot, cpu, bumps, owed, worst, worstReport>>

(***************************************************************************)
(* SummaryWindow::poll.  The next window is due a period after this one was *)
(* due, unless a whole window went by unnoticed.                            *)
(***************************************************************************)
\* Mutant: the next window is a period after this one was noticed.
RescheduledFromNow(due) == SummaryPeriod
Rescheduled(due) ==
  IF due + SummaryPeriod <= 0 THEN SummaryPeriod ELSE due + SummaryPeriod

Poll ==
  /\ phase = "poll"
  /\ IF closeIn > 0
     THEN phase' = "mirror" /\ UNCHANGED <<summaryDirty, closing, closeIn, grid, bumped>>
     ELSE /\ phase' = "close"
          /\ closeIn' = Rescheduled(closeIn)
          /\ grid' = IF closeIn + SummaryPeriod <= 0 THEN 0 ELSE grid
          /\ closing' = summaryDirty /\ summaryDirty' = {} /\ bumped' = {}
  /\ UNCHANGED <<counts, changed, summary, store, unread, snapshot, cpu, idle, elapsed,
                 span, busy, bumps, deserved, worst, worstReport>>

\* ... and one count for each category that was marked.
\* Mutant: SUMMARY_DIRTY is cleared here rather than as it is read.
CloseClearing ==
  /\ phase = "close" /\ phase' = "mirror"
  /\ summary' = [k \in ErrorCategory |->
                   (summary[k] + IF k \in closing THEN 1 ELSE 0) % SummaryWrap]
  /\ closing' = {} /\ summaryDirty' = {}
  /\ UNCHANGED <<counts, changed, store, unread, snapshot, cpu, clock, bumps, owed, worst, worstReport>>
Close ==
  /\ phase = "close" /\ phase' = "mirror"
  /\ summary' = [k \in ErrorCategory |->
                   (summary[k] + IF k \in closing THEN 1 ELSE 0) % SummaryWrap]
  /\ closing' = {}
  /\ UNCHANGED <<counts, changed, summaryDirty, store, unread, snapshot, cpu, clock, bumps, owed,
                 worst, worstReport>>
-----------------------------------------------------------------------------
(***************************************************************************)
(* refresh_error_counters and refresh_cpu, under the store's lock:          *)
(* take_if_changed clears the flag, then reads the counters one at a time.  *)
(***************************************************************************)
TakeIfChanged ==
  /\ phase = "mirror"
  /\ changed' = FALSE
  /\ phase' = IF changed THEN "reading" ELSE "summarise"
  /\ unread' = IF changed THEN Tracked ELSE {}
  /\ UNCHANGED <<counts, summaryDirty, summary, store, closing, snapshot, cpu, clock, bumps, owed,
                 worst, worstReport>>

Read(c) ==
  /\ phase = "reading" /\ c \in unread
  /\ snapshot' = [snapshot EXCEPT ![c] = counts[c]]
  /\ unread' = unread \ {c}
  /\ UNCHANGED <<errors, store, phase, closing, cpu, clock, bumps, owed, worst, worstReport>>

\* Mutant: the flag is cleared once the counters have been read.
StoredThenCleared ==
  /\ phase = "reading" /\ unread = {} /\ phase' = "summarise"
  /\ mirror' = snapshot /\ changed' = FALSE
  /\ UNCHANGED <<counts, summaryDirty, summary, mirrorSummary, shown, closing, unread, snapshot, cpu, clock,
                 bumps, owed, worst, worstReport>>
Stored ==
  /\ phase = "reading" /\ unread = {} /\ phase' = "summarise"
  /\ mirror' = snapshot
  /\ UNCHANGED <<errors, mirrorSummary, shown, closing, unread, snapshot, cpu, clock, bumps,
                 owed, worst, worstReport>>

Summarise ==
  /\ phase = "summarise" /\ phase' = "update"
  /\ mirrorSummary' = summary
  /\ shown' = report
  /\ UNCHANGED <<errors, mirror, closing, unread, snapshot, cpu, clock, bumps, owed,
                 worst, worstReport>>
-----------------------------------------------------------------------------
(***************************************************************************)
(* CpuMonitor::update at the end of the iteration, whose work took t.       *)
(***************************************************************************)
Permille(total, asleep) == (Larger(total - asleep, 0) * 1000) \div total
Worst(p, load, work) == <<Larger(p[1], load), Larger(p[2], work)>>
Saturated(work) == IF work > PeakCap THEN PeakCap ELSE work

\* Mutant: the next window starts where this one should have ended.
LeftOverNominal(total) == total - Window
LeftOver(total) == 0

UpdateLoad(t, asleep) ==
  LET total == elapsed + t
      load == Permille(total, idle + asleep)
      trueLoad == ((busy + t - asleep) * 1000) \div (span + t)
      late == IF t > Tick THEN {"ControlTickOverrun"} ELSE {}
      rolls == total >= Window
      reports == rolls /\ windows + 1 >= WindowsPerReport
  IN
  /\ phase = "update" /\ phase' = "wait"
  /\ closeIn' = closeIn - t /\ grid' = (grid + t) % SummaryPeriod
  /\ idle' = IF rolls THEN 0 ELSE idle + asleep
  /\ elapsed' = IF rolls THEN LeftOver(total) ELSE total
  /\ span' = IF rolls THEN 0 ELSE span + t
  /\ busy' = IF rolls THEN 0 ELSE busy + t - asleep
  /\ BumpAll(late \cup (IF rolls /\ load >= HighLoadPermille THEN {"CpuLoadHigh"} ELSE {}), 1)
  /\ windows' = IF reports THEN 0 ELSE IF rolls THEN windows + 1 ELSE windows
  /\ LET now == Worst(peak, IF rolls THEN load ELSE 0, Saturated(t))
         true == Worst(worst, IF rolls THEN trueLoad ELSE 0, t)
     IN /\ report' = IF reports THEN now ELSE report
        /\ peak' = IF reports THEN <<0, 0>> ELSE now
        /\ worstReport' = IF reports THEN true ELSE worstReport
        /\ worst' = IF reports THEN <<0, 0>> ELSE true
  /\ UNCHANGED <<store, closing, unread, snapshot, bumps>>

TelemetryNext ==
  \/ \E c \in Sources, n \in Batches : Bump(c, n)
  \/ \E t \in Waits : \E asleep \in {0, t} : Wait(t, asleep)
  \/ Poll \/ Close \/ TakeIfChanged \/ Stored \/ Summarise
  \/ \E c \in Tracked : Read(c)
  \/ \E t \in Works : UpdateLoad(t, 0)

TelemetrySpec == TelemetryInit /\ [][TelemetryNext]_telemetryVars
-----------------------------------------------------------------------------
(* The shape of the state.                                                  *)
TelemetryTypeOK ==
  /\ counts \in [Tracked -> 0 .. CountWrap - 1]
  /\ mirror \in [Tracked -> 0 .. CountWrap - 1]
  /\ snapshot \in [Tracked -> 0 .. CountWrap - 1]
  /\ changed \in BOOLEAN
  /\ summaryDirty \subseteq ErrorCategory /\ closing \subseteq ErrorCategory
  /\ summary \in [ErrorCategory -> 0 .. SummaryWrap - 1]
  /\ unread \subseteq Tracked
  /\ phase \in {"wait", "poll", "close", "mirror", "reading", "summarise", "update"}

(***************************************************************************)
(* A counter that moved is never missing from the store for good: whenever  *)
(* nothing is flagged as changed, the store shows every counter as it is,   *)
(* and while a snapshot is being taken the part already read is current     *)
(* (errors.rs:165, "instead of being swallowed by a clear that happens      *)
(* after it").                                                              *)
(***************************************************************************)
MirrorCatchesUp ==
  ~changed =>
    IF phase = "reading" THEN \A c \in Tracked \ unread : snapshot[c] = counts[c]
    ELSE mirror = counts

(***************************************************************************)
(* The summary counts every window a category saw an error in exactly once, *)
(* and the errors that bypass the window one for one (od.rs:580): whatever  *)
(* falls while a window is being closed belongs to the next.                *)
(***************************************************************************)
BadWindowsCountOnce ==
  \A k \in ErrorCategory :
    deserved[k] = (summary[k] + (IF k \in summaryDirty THEN 1 ELSE 0)
                              + (IF k \in closing THEN 1 ELSE 0)) % SummaryWrap

(***************************************************************************)
(* Late polls do not accumulate (errors.rs:108): the windows keep falling   *)
(* on a grid of whole periods however late each was noticed, re-based only  *)
(* by a stall of more than a window.                                        *)
(***************************************************************************)
WindowsDoNotDrift ==
  /\ (grid + closeIn) % SummaryPeriod = 0
  /\ phase \notin {"wait", "poll"} => closeIn \in 1 .. SummaryPeriod

(***************************************************************************)
(* What is published as load and worst iteration is the worst measurement   *)
(* window and the slowest iteration of the last reporting period, however   *)
(* the windows overran (cpu.rs:186-191), the iteration saturating at the    *)
(* 65535 microseconds a report can state (od.rs:298-299).                   *)
(***************************************************************************)
Reported(measured) == <<measured[1], Saturated(measured[2])>>
ReportIsWorst == report = Reported(worstReport) /\ peak = Reported(worst)
=============================================================================
