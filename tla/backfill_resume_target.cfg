SPECIFICATION Spec
CONSTANTS
  Intervals <- MCIntervals
  Width <- MCWidth
  Rank <- MCRank
  Listed <- MCListed
  FileRows <- MCListed
  HistoryStart = 3
  HistoryLimit = 3
  Limit = 2
  WavePages = 2
  ArchiveEnabled = FALSE
  ArchiveWave = 2
  ArchiveBatch = 3
  MonthSlots <- MCMonth
  DaySlots <- MCDay
  Callers = {c1, c2}
  LiveIntervals = {"fine"}
  StartTime = 9
  Horizon = 10
  MaxTasks = 2
  MaxFailures = 1
  MaxCrashes = 1
INVARIANTS
  TaskReachesTarget
CHECK_DEADLOCK FALSE
