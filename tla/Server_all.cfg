SPECIFICATION FairSpec
CONSTANTS
  Clients = {b1}
  Requests = {r1, r2}
  Kinds = {"login", "logout", "check", "read", "manage", "edit", "health", "live"}
  MaxConns = 1
  MaxLogins = 2
  MaxStarts = 2
INVARIANTS
  BadGatewayHasCause
  LoginsLast
  IndInv
PROPERTIES
  FlagFollows
  RequestsEnd
  StoppedEnds
CHECK_DEADLOCK FALSE
