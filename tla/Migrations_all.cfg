SPECIFICATION FairSpec
CONSTANTS
  Tools = {t1, t2}
  Servers = {s1, s2}
  LastFile = 3
  HasDown = {1}
  Reentrant = {2, 3}
  MaxCrashes = 1
INVARIANTS
  TypeOK
  RecordedInOrder
  RecordedAsRun
  SuccessMeansApplied
  IndInv
PROPERTIES
  ClimbsTheLadder
  ServersSettle
CHECK_DEADLOCK FALSE
