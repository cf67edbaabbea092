SPECIFICATION Spec
CONSTANTS
  Calls = {c1, c2, c3}
  Kinds = {"order", "extend", "close", "status", "purge"}
  MaxSessions = 2
  MaxOrders = 2
  MaxTime = 1
  DayLength = 2
SYMMETRY Symmetry
INVARIANTS
  SnapshotNeverTooLow
  SnapshotNeverTooHigh
  CloseSettlesUnlessRaced
CHECK_DEADLOCK FALSE
