SPECIFICATION Spec
CONSTANTS
  Browsers = {b1}
  Calls = {h1, h2}
  Kinds = {"order", "status", "purge", "close"}
  MaxOrders = 1
  MaxConns = 1
  MaxLoads = 1
SYMMETRY Symmetry
INVARIANTS
  IndInv
  ListsAgreeUnlessRaced
PROPERTIES
  ShowsNotices
CHECK_DEADLOCK FALSE
