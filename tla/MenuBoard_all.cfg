SPECIFICATION FairSpec
CONSTANTS
  Calls = {c1, c2}
  Kinds = {"create", "edit", "delete", "reorder", "order", "amend"}
  Prices = {1, 2}
  Listed = 2
  MaxItems = 3
  MaxOrders = 2
INVARIANTS
  FieldsAsLastSaid
  PositionsDistinctUnlessMuddled
  LinkedItemsExist
  IndInv
PROPERTIES
  EveryCallEnds
CHECK_DEADLOCK FALSE
