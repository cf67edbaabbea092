SPECIFICATION FairSpec
CONSTANTS
  Sessions = {s1, s2}
  Requests = {r1, r2, r3}
  Purgers  = {p1}
  MaxConns = 2
  MaxDay   = 1
  NoOne    = NoOne
INVARIANTS
  NumberStaysFree
  IdsFollowNumbers
  NoGapsUnlessPurged
  IndInv
PROPERTIES
  ImplementsTicketRoll
  EveryRequestEnds
CHECK_DEADLOCK FALSE
