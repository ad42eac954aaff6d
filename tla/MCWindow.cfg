CONSTANTS
  MaxPaths = 2
  MaxTakes = 2
  MaxOrphans = 1
  Sessions <- AllSessions
  STOP = STOP
  FindRx = {"frozen", "live"}
SPECIFICATION WindowSpec
INVARIANTS
  WindowTypeOK
  NothingBehindStop
  RowsFindTheirFiles
  NoTakeIsForgotten
  MarksAreDeserved
PROPERTIES
  DeliveryIsKept
  PendingIsServed
  ContextOutlivesTheStream
  FragmentIsWritten
  ClosingEnds
CHECK_DEADLOCK FALSE
