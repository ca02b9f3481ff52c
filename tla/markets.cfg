SPECIFICATION MCSpec
CONSTANTS
  Intervals <- TwoIntervals
  Length <- TwoLengths
  Clients = {c1}
  Filled = TRUE
  MaxEpoch = 3
  MaxFails = 1
  Between = 12
  Fallback = 5
  Window = 2
  EmptyRetry = 3
  SignalMin = 3
  MaxRun = 2
  Grace = 1
  Suspension = 4
  Horizon = 30
  Prices = {1, 2, 3}
  Sizes = {1, 2}
  Depth = 2
  MaxChanges = 2
  MaxBreaks = 1
INVARIANTS
  SelectedIsSubscribed
  HubServes
  TypesOK
  RefreshIsServed
  BookIsReal
CHECK_DEADLOCK FALSE
