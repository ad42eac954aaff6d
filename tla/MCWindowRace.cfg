CONSTANTS
  MaxPaths = 1
  MaxTakes = 0
  MaxOrphans = 0
  Sessions <- OneImport
  STOP = STOP
  FindRx = {"frozen"}
SPECIFICATION WindowSpec
INVARIANT EverythingIsHandedOver
CHECK_DEADLOCK FALSE
