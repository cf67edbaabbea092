SPECIFICATION Spec
CONSTANTS
  Sids = {1, 2}
  Unknown = 3
  Items = {"fish", "pizza"}
  MaxAmount = 1
  MaxOrders = 2
  MaxWrites = 2
  MaxIds = 2
INVARIANTS
  IndInv
  StatsOfOneMoment
  QuietComparisonAddsUp
  ListedTotalsWereTrue
CHECK_DEADLOCK FALSE
