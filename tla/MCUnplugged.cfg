CONSTANTS
  MaxPaths = 0
  MaxTakes = 1
  MaxOrphans = 0
  Sessions <- OneTake
  STOP = STOP
  FindRx = {"frozen"}
SPECIFICATION WindowSpec
PROPERTY UnplugEndsTheTake
CHECK_DEADLOCK FALSE
