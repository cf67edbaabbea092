SPECIFICATION Spec
CONSTANTS
  Browsers = {b1}
  Calls = {h1}
  Kinds = {"order", "edit", "purge", "close"}
  MaxOrders = 1
  MaxConns = 2
  MaxLoads = 2
SYMMETRY Symmetry
INVARIANTS
  ListsAgreeUnlessRaced
  NoRowThrice
CHECK_DEADLOCK FALSE
