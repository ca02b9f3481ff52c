SPECIFICATION MCSpec
CONSTANTS
  Credentials = {"w1", "w2"}
  NoOne = NoOne
  Orders = {}
  Trades = {"t1"}
  Owner <- MCOwner
  Routes = {r1}
  MaxRecent = 1
  MaxQueue = 1
  MaxSwitches = 1
  MaxFailures = 0
INVARIANTS
  OwnDataOnly
