SPECIFICATION FairSpec
CONSTANTS
  NumBuses = 1
  NumAmplifiers = 1
  AnalogInput <- MCAnalogInput
  NumSlots = 2
  PdoChannel = {0}
  BootSlots <- MCBoot
  Scanning = TRUE
  Kinds <- MCKinds
  Units <- MCUnits
  Coefficients <- MCCoefficients
  AmplifierWords <- MCAmplifierWords
  AngleWords <- MCAngleWords
  AnalogCounts <- MCAnalogCounts
  MaxUnplugs = 1
  MaxFaults = 1
  MaxWrites = 1
  MaxSkips = 1
  SweepCap = 1
INVARIANT CalibrationFaithful
INVARIANT NoFrozenReading
INVARIANT ChannelsCoherent
INVARIANT PresenceHonest
PROPERTY MissingMeansAbsent
PROPERTY FoundAndLost
