SPECIFICATION MCSpec
CONSTANTS
  Markets = {m1}
  Hourly = {h1}
  Workers = {w1, w2}
  NoOne = NoOne
  Attempts = 2
  MaxFailures = 1
  MaxCrashes = 1
  MaxToggles = 1
  \* AccountReports
  AnalysisTasks = {"t1", "t2"}
  Readers = {"r1", "r2"}
  Builds = {"b1", "b2"}
  ActivitiesListed = 2
  ActivitiesStored = 2
  MaxTrades = 3
  ActivitiesAsked = {2}
  ReportFailures = 1
  ReportRestarts = 1
  \* ActivityPages: ten activities exist when the download begins
  Seconds <- MCSeconds
  PagesListed = 10
  Limits = {2, 3, 4, 5, 7, 9}
  PageSize = 3
  Parallel = 3
  MaxOffset = 6
  PageFailures = 1
  \* MarketLedger: a position of one share is dust
  PositionDust = 2
  Sizes = {2, 3}
  Costs = {1}
  MaxActivities = 4
SYMMETRY WorkerSymmetry
INVARIANTS
  TypesOK
  MismatchFollowsSignal
  ReportsAreKept
  DownloadIsWhole
PROPERTIES
  DeliveredOnce
CHECK_DEADLOCK FALSE
