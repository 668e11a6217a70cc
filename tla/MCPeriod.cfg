SPECIFICATION BroadcastSpec
CONSTANTS
  NumKinds = 1
  Payload = {"a", "b"}
  Intervals <- MCIntervals
  BootInterval <- MCBootInterval
  Keepalive = 5
  Spans <- MCSpans
  AgeCap = 9
INVARIANT PeriodTakesEffect
