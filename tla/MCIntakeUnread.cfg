CONSTANTS
  s1 = s1
  s2 = s2
  a = a
  b = b
  c = c
  xa = xa
  xb = xb
  xg = xg
  Serial = {s1}
  Take = {a, b}
  Audio = {xa, xb}
  AudioOf <- MCAudioOf
  Prefix = {a, b}
  PrefixOf <- MCPrefixOf
  Bare = Bare
  Fragment = Fragment
  NoFile = NoFile
  MaxRank = 0
  MaxNth = 2
  Slot = {p1}
  Node = {}
  NoSlot = NoSlot
  NoNode = NoNode
  NoTake = NoTake
  NoVerdict = NoVerdict
  NoSerial = NoSerial
  Garble = {}
  Marked = {}
  Cuttable = {}
  Faults = {"ledger"}
  MaxLaunches = 0
SPECIFICATION IntakeSpec
PROPERTIES
  RecordsAreKept
CHECK_DEADLOCK FALSE
