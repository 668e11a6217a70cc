SPECIFICATION HFairSpec
CONSTANTS
  Valve = {0}
  Hco = {0}
  PromilleMax = 2
  MsWrap = 64
  MaxUptime = 15
  MaxGap = 2
  TrafficUntil = 1
  BootConfig <- MCBoot
  Configs <- MCConfigs
  Commands <- MCCommands
  DirectStates <- MCDirectStates
  Readings <- MCReadings
  HeatReadings <- MCHeatReadings
  Positions <- MCPositions
  RailCurrents <- MCRailCurrents
INVARIANT ReleasedInTime
INVARIANT ReleasedWherePut
PROPERTY ReleaseDoesNotOscillate
PROPERTY SilenceOnlyEscalates
PROPERTY SilentMasterVents
