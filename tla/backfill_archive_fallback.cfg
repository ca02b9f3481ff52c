SPECIFICATION Spec
CONSTANTS
  Intervals <- OneInterval
  Width <- OneWidth
  Rank <- OneRank
  Listed <- OneListed
  FileRows <- OneListed
  HistoryStart = 6
  HistoryLimit = 2
  Limit = 2
  WavePages = 2
  ArchiveEnabled = TRUE
  ArchiveWave = 2
  ArchiveBatch = 2
  MonthSlots <- OneLongMonth
  DaySlots <- OneDay
  Callers = {c1, c2}
  LiveIntervals = {}
  StartTime = 14
  Horizon = 14
  MaxTasks = 2
  MaxFailures = 0
  MaxCrashes = 0
INVARIANTS
  PrefixCovered
CHECK_DEADLOCK FALSE
