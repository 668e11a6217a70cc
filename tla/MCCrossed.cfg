SPECIFICATION LSpec
CONSTANTS
  Valve = {0}
  Hco = {0, 1}
  PromilleMax = 1
  MsWrap = 64
  MaxUptime = 3
  MaxGap = 1
  TrafficUntil = 2
  BootConfig <- MCBoot
  Configs <- MCConfigsCrossed
  Commands <- MCCommands
  DirectStates <- MCDirectStates
  Readings <- MCReadings
  HeatReadings <- MCHeatReadings
  Positions <- MCPositions
  RailCurrents <- MCRailCurrents
PROPERTY WritesNeverPanic
