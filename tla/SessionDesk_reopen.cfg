SPECIFICATION Spec
CONSTANTS
  Calls = {c1, c2}
  Kinds = {"extend", "close"}
  MaxSessions = 2
  MaxOrders = 2
  MaxTime = 2
  DayLength = 2
PROPERTIES
  ClosedStaysClosed
CHECK_DEADLOCK FALSE
