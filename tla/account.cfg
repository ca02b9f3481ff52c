SPECIFICATION MCSpec
CONSTANTS
  Credentials = {"w1", "w2"}
  NoOne = NoOne
  Orders = {"o1"}
  Trades = {t1, t2}
  Owner <- MCOwner
  Routes = {r1, r2}
  MaxRecent = 1
  MaxQueue = 1
  MaxSwitches = 1
  MaxFailures = 1
INVARIANTS
  TypeOK
  CanceledHidden
  PendingIsHandled
PROPERTIES
  ConfirmationHasSnapshot
SYMMETRY Symmetry
