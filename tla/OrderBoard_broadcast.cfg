SPECIFICATION Spec
CONSTANTS
  Browsers = {b1}
  Calls = {h1, h2}
  Kinds = {"status"}
  MaxOrders = 1
  MaxConns = 1
  MaxLoads = 1
SYMMETRY Symmetry
PROPERTIES
  BroadcastReachesAll
CHECK_DEADLOCK FALSE
