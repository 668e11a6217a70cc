SPECIFICATION DirectSpec
CONSTANTS
  Valve = {0}
  Hco = {0, 1}
  PromilleMax = 2
  WriteStates <- MCWriteStates
  DriveStates <- MCDriveStates
  Mappings <- MCMappings
  AdcWaits = TRUE
  MaxWrites = 3
INVARIANT EveryWriteShows
