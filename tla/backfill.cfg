SPECIFICATION MCSpec
CONSTANTS
  Models = {"backfill", "job", "route", "orphan", "starts", "fill", "endpoints"}
  \* LiveWindow: no candle was traded in slots 2 and 3.
  Slots = {0, 1, 2, 3, 4, 5, 6, 7}
  Traded = {0, 1, 4, 5, 6, 7}
  FirstOpen = 5
  Window = 4
  PageLimit = 2
  MaxPages = 2
  Bridge = 20
  Job = "job"
  Routes = {"route"}
  Asked <- MCAsked
  LiveFailures = 1
  LiveRestarts = 1
  \* IndicatorBackfill: candle 2 is missing at first, candle 4 comes later.
  Candles = {0, 1, 2, 3, 4}
  Stored = {0, 1, 3}
  Batch = 2
  Warmup = 1
  Starters = {"c1", "c2"}
  Workers = {1, 2}
  MaxJobs = 2
  MaxFaults = 1
  MaxStops = 1
  \* StreamEndpoints
  Urls <- MCUrls
  Latencies = {1, 2}
  Adaptive = TRUE
  StreamFailures = 2
  \* CandleBackfill
  Intervals <- MCIntervals
  Width <- MCWidth
  Rank <- MCRank
  Listed <- MCListed
  FileRows <- MCListed
  HistoryStart = 3
  HistoryLimit = 3
  Limit = 2
  WavePages = 2
  ArchiveEnabled = FALSE
  ArchiveWave = 2
  ArchiveBatch = 3
  MonthSlots <- MCMonth
  DaySlots <- MCDay
  Callers = {c1, c2}
  LiveIntervals = {"fine"}
  StartTime = 9
  Horizon = 10
  MaxTasks = 2
  MaxFailures = 2
  MaxCrashes = 1
INVARIANTS
  TypeOK
  PrefixCovered
  CompletedCovered
  UnavailableSound
  OneRun
  FreshTaskCovers
  WindowIsKept
  IndicatorsAreKept
PROPERTIES
  PlanFrozen
  ResumeKeepsProgress
SYMMETRY Symmetry
CHECK_DEADLOCK FALSE
