SPECIFICATION MCSpec
CONSTANTS
  Valve = {0}
  Hco = {0, 1}
  PromilleMax = 2
  MaxUptime = 12
  MaxGap = 2
  ReliefConfigs <- MCReliefConfigs
  Readings <- MCReadings
  WriteStates <- MCWriteStates
  DriveStates <- MCDriveStates
  Mappings <- MCMappings
  AdcWaits = TRUE
  MaxWrites = 4
  Tracked <- MCTracked
  Sources <- MCSources
  Batches <- MCBatches
  CountWrap = 3
  SummaryWrap = 3
  SummaryPeriod = 5
  Tick = 2
  Window = 4
  WindowsPerReport = 2
  PeakCap = 5
  Waits <- MCWaits
  Works <- MCWorks
  MaxBumps = 2
INVARIANT PulseEnds
INVARIANT OverpressureAnswered
INVARIANT NoWriteStranded
INVARIANT WritesApplied
INVARIANT MirrorCatchesUp
INVARIANT BadWindowsCountOnce
INVARIANT WindowsDoNotDrift
INVARIANT ReportIsWorst
PROPERTY PulsesSpaced
