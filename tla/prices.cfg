SPECIFICATION MCSpec
CONSTANTS
  Intervals <- MCIntervals
  Minute = "1m"
  Width <- MCWidth
  Stale = 0
  Late = 0
  Lag = 1
  Horizon = 8
  MaxFailures = 1
  MaxRestarts = 2
  Tasks = {t1, t2}
  NoTask = NoTask
  Stall = 3
  Period = 2
  Retry = 1
  Handling = 1
  StreamHorizon = 12
  Start = 0
  End = 3
  Tolerance = 0
  PriceStale = 0
  PartialTTL = 1
  FailedTTL = 2
  Timeout = 1
  PriceHorizon = 3
INVARIANTS
  TypesOK
  CompleteIsTrue
  MinutesReplay
  PriceIsFresh
PROPERTIES
  ClosedIsFinal
  GoodIsKept
SYMMETRY TaskSymmetry
CHECK_DEADLOCK FALSE
