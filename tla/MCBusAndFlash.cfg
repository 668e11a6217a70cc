SPECIFICATION MCSpec
CONSTANTS
  QueueSize = 1
  NumMailboxes = 1
  ErrorStep = 2
  TecWarning = 3
  TecPassive = 3
  TecLimit = 5
  RecPassive = 1
  MaxSent = 2
  MaxArrivals = 3
  MaxErrors = 3
  NumKinds = 1
  Payload = {"a", "b"}
  Intervals <- MCIntervals
  BootInterval <- MCBootInterval
  Keepalive = 5
  Spans <- MCSpans
  AgeCap = 9
  ConfigValue <- MCConfigValue
  Sane <- MCSane
  NoConfig = NoConfig
  Factory = "factory"
  LoadModes <- MCLoadModes
  MaxRequests = 5
  MaxCuts = 2
INVARIANT EveryFrameAccounted
INVARIANT WakeCoversPending
INVARIANT Mirrored
INVARIANT SaveCoversRequest
INVARIANT KnownCopySafe
PROPERTY NothingInvented
PROPERTY AnswersArrive
PROPERTY SilenceBounded
PROPERTY ChangesBroadcast
PROPERTY RebootCutsNothing
PROPERTY RebootHappens
PROPERTY DurableSpec
