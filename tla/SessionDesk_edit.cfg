SPECIFICATION Spec
CONSTANTS
  Calls = {c1, c2}
  Kinds = {"edit", "status"}
  MaxSessions = 2
  MaxOrders = 2
  MaxTime = 2
  DayLength = 2
PROPERTIES
  OnlyAdminsEditStartedOrders
CHECK_DEADLOCK FALSE
