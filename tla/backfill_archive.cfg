SPECIFICATION FairSpec
CONSTANTS
  Intervals <- OneInterval
  Width <- OneWidth
  Rank <- OneRank
  Listed <- OneListed
  FileRows <- OneListed
  HistoryStart = 3
  HistoryLimit = 2
  Limit = 2
  WavePages = 2
  ArchiveEnabled = TRUE
  ArchiveWave = 3
  ArchiveBatch = 2
  MonthSlots <- OneMonth
  DaySlots <- OneDay
  Callers = {c1, c2}
  LiveIntervals = {}
  StartTime = 13
  Horizon = 14
  MaxTasks = 2
  MaxFailures = 1
  MaxCrashes = 1
INVARIANTS
  PrefixCovered
PROPERTIES
  RunTerminates
  StartAnswered
CHECK_DEADLOCK FALSE
