SPECIFICATION Spec
CONSTANTS
  ConfigValue <- MCConfigValue
  Sane <- MCSane
  NoConfig = NoConfig
  Factory = "factory"
  LoadModes = {FALSE}
  MaxRequests = 3
  MaxCuts = 1
INVARIANT OlderCopyAtRisk
