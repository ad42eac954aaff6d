CONSTANTS
  MaxCluster = 5
  ClusterSize = 2
  Chunk = 3
  Attempts = 2
  MaxFaults = 2
  Layouts <- AllLayouts
  Serials = {s1, s2}
  NoSerial = NoSerial
  Machines <- AllMachines
  Recordings <- AllRecordings
  Word = 4
  MaxNumber = 3
  Percent = {0, 50, 100}
  COMPLETE = 100
  Patience = 3
  MaxNoise = 2
SPECIFICATION PartsSpec
INVARIANTS
  CopyIsTheTake
  FailuresHaveCauses
  DirectoryIsAccounted
  EveryCardIsFound
  RejoinRestores
  PartsCoverTheTake
  PartsTellTheirTime
  HidInv
  OutcomeTellsTheCard
PROPERTIES
  CopyEnds
  ExchangeIsKept
  ExchangeEnds
CHECK_DEADLOCK FALSE
