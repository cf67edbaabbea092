SPECIFICATION Spec
CONSTANTS
  Calls = {c1, c2}
  Kinds = {"order", "view", "open", "extend", "close", "status", "edit", "purge"}
  MaxSessions = 3
  MaxOrders = 2
  MaxTime = 3
  DayLength = 2
SYMMETRY Symmetry
INVARIANTS
  IndInv
  SingleActive
PROPERTIES
  SweepKeepsTheNewest
  KeepsTheLedger
CHECK_DEADLOCK FALSE
